------------------------ MODULE DesktopSharesProofs ------------------------
(***************************************************************************)
(* The list of shares and the backend's map of hosts fit together, for any *)
(* folders and any number of clicks, starts and handlers under way.        *)
(*                                                                         *)
(* Both halves of the statement are about calls that are still under way.  *)
(* That a start returns to a list without its id needs the ids of the      *)
(* creating calls to be nobody else's; that the insert of a start finds    *)
(* nothing under its id needs every start between its look-up and its      *)
(* insert to be alone with its id, or that id to be among the overlapped   *)
(* ones.  And the join codes stay in their bound because a start that has  *)
(* passed its check has one coming.                                        *)
(***************************************************************************)
EXTENDS DesktopShares, FiniteSetTheorems, TLAPS

StartedCalls(S) == {c \in S : Started(c)}

(* What a handler captured fits what it is doing. *)
CallOK(c, drawn) ==
    /\ c.at \in {"check", "insert"} => c.id \in Id /\ c.path \in Path
    /\ c.op = "create" =>
          /\ c.at \notin {"stop", "read"}
          /\ c.id \in Id /\ c.id <= drawn /\ c.path \in Path
          /\ c.at = "answer" => c.code \in Code

CallsInd == \A c \in calls : CallOK(c, ids)

(* The id of a folder that is being shared is on no card yet. *)
FreshIds ==
    /\ \A s \in shares : s.id <= ids
    /\ \A c \in calls : c.op = "create" =>
          /\ \A s \in shares : s.id # c.id
          /\ \A d \in calls : d.op = "create" /\ d.id = c.id => d = c

(* A start past its look-up is alone with its id. *)
Inserts ==
    \A c \in calls : Started(c) /\ c.id \notin overlapped =>
        /\ host_handles[c.id] = None
        /\ \A d \in calls : Started(d) /\ d.id = c.id => d = c

CountInd ==
    /\ IsFiniteSet(calls)
    /\ codes + Cardinality(StartedCalls(calls)) <= MaxStarts

ListInd == HistoryKeyed /\ FreshIds
HostInd == ServedIsListed /\ Inserts

SharesInd == SharesTypeOK /\ CallsInd /\ ListInd /\ HostInd /\ CountInd
-----------------------------------------------------------------------------
(* Counting the starts that are past their check. *)

LEMMA StartedFinite ==
    ASSUME NEW S, IsFiniteSet(S)
    PROVE  IsFiniteSet(StartedCalls(S)) /\ Cardinality(StartedCalls(S)) \in Nat
  BY FS_Subset, FS_CardinalityType DEF StartedCalls

(* Fewer starts under way leave the count in its bound. *)
LEMMA CountFewer ==
    ASSUME SharesInd, IsFiniteSet(calls'), codes' = codes,
           StartedCalls(calls') \subseteq StartedCalls(calls)
    PROVE  CountInd'
  <1>1. IsFiniteSet(StartedCalls(calls)) /\ Cardinality(StartedCalls(calls)) \in Nat
    BY StartedFinite DEF SharesInd, CountInd
  <1>2. IsFiniteSet(StartedCalls(calls')) /\ Cardinality(StartedCalls(calls')) \in Nat
    BY StartedFinite
  <1>3. Cardinality(StartedCalls(calls')) <= Cardinality(StartedCalls(calls))
    BY <1>1, FS_Subset
  <1>4. codes \in Nat /\ MaxStarts \in Nat
    BY BoundsAreNat DEF SharesInd, SharesTypeOK
  <1>5. codes + Cardinality(StartedCalls(calls')) <= MaxStarts
    BY <1>1, <1>2, <1>3, <1>4 DEF SharesInd, CountInd
  <1>. QED
    BY <1>5 DEF CountInd

(* A start that leaves its count makes room for its join code. *)
LEMMA CountInsert ==
    ASSUME SharesInd, NEW c \in calls, Started(c), codes' = codes + 1,
           NEW D, IsFiniteSet(D), StartedCalls(D) = {}, calls' = (calls \ {c}) \cup D
    PROVE  CountInd' /\ codes + 1 \in Code
  <1>1. IsFiniteSet(StartedCalls(calls)) /\ Cardinality(StartedCalls(calls)) \in Nat
    BY StartedFinite DEF SharesInd, CountInd
  <1>2. StartedCalls(calls') = StartedCalls(calls) \ {c}
    BY DEF StartedCalls
  <1>3. c \in StartedCalls(calls)
    BY DEF StartedCalls
  <1>4. /\ Cardinality(StartedCalls(calls')) = Cardinality(StartedCalls(calls)) - 1
        /\ Cardinality(StartedCalls(calls')) \in Nat
    BY <1>1, <1>2, <1>3, FS_RemoveElement, FS_CardinalityType
  <1>5. codes \in Nat /\ MaxStarts \in Nat
    BY BoundsAreNat DEF SharesInd, SharesTypeOK
  <1>6. codes + Cardinality(StartedCalls(calls)) <= MaxStarts
    BY DEF SharesInd, CountInd
  <1>7. codes' + Cardinality(StartedCalls(calls')) <= MaxStarts /\ codes + 1 \in Code
    BY <1>1, <1>4, <1>5, <1>6 DEF Code
  <1>8. IsFiniteSet(calls')
    BY FS_RemoveElement, FS_Union DEF SharesInd, CountInd
  <1>. QED
    BY <1>7, <1>8 DEF CountInd
-----------------------------------------------------------------------------
(* The list of calls. *)

(* The backend's part when no start passes its check or its insert. *)
LEMMA HostQuiet ==
    ASSUME SharesInd, UNCHANGED <<host_handles, tasks, overlapped>>,
           StartedCalls(calls') \subseteq StartedCalls(calls)
    PROVE  HostInd'
  <1>1. \A c \in calls' : Started(c) => c \in calls
    BY DEF StartedCalls
  <1>2. ServedIsListed'
    BY DEF SharesInd, HostInd, ServedIsListed
  <1>3. Inserts'
    BY <1>1 DEF SharesInd, HostInd, Inserts
  <1>. QED
    BY <1>2, <1>3 DEF HostInd

(* A handler gives way to the one it becomes, or to none. *)
LEMMA ReplaceCall ==
    ASSUME SharesInd, NEW c \in calls, NEW D \in SUBSET Call, \A d, e \in D : d = e,
           \A d \in D : CallOK(d, ids) /\ (d.op = "create" => c.op = "create" /\ d.id = c.id),
           calls' = (calls \ {c}) \cup D, ids' = ids,
           \A s \in shares' : \/ \E t \in shares : t.id = s.id
                              \/ c.op = "create" /\ D = {} /\ s.id = c.id
    PROVE  CallsInd' /\ FreshIds' /\ IsFiniteSet(calls') /\ calls' \subseteq Call
  <1>1. CallsInd'
    BY DEF SharesInd, CallsInd
  <1>2. \A s \in shares' : s.id <= ids
    BY DEF SharesInd, ListInd, FreshIds, CallsInd, CallOK
  <1>3. ASSUME NEW d \in calls', d.op = "create"
        PROVE  /\ \A s \in shares' : s.id # d.id
               /\ \A e \in calls' : e.op = "create" /\ e.id = d.id => e = d
    <2>1. PICK b \in calls : b.op = "create" /\ b.id = d.id /\ (b = d \/ (b = c /\ d \in D))
      BY <1>3
    <2>2. /\ \A s \in shares : s.id # d.id
          /\ \A e \in calls : e.op = "create" /\ e.id = d.id => e = b
      BY <2>1 DEF SharesInd, ListInd, FreshIds
    <2>3. \A s \in shares' : s.id # d.id
      <3>1. c.op = "create" /\ D = {} => c.id # d.id
        BY <1>3, <2>1, <2>2
      <3>. QED
        BY <2>2, <3>1
    <2>4. ASSUME NEW e \in calls', e.op = "create", e.id = d.id
          PROVE  e = d
      <3>1. CASE e \in D
        <4>1. c.op = "create" /\ c.id = d.id
          BY <2>4, <3>1
        <4>2. c = b
          BY <2>2, <4>1
        <4>. QED
          BY <1>3, <2>1, <2>2, <2>4, <3>1, <4>2
      <3>2. CASE e \notin D
        <4>1. e \in calls /\ e # c /\ e = b
          BY <2>2, <2>4, <3>2
        <4>. QED
          BY <2>1, <4>1
      <3>. QED
        BY <3>1, <3>2
    <2>. QED
      BY <2>3, <2>4
  <1>4. FreshIds'
    BY <1>2, <1>3 DEF FreshIds
  <1>5. IsFiniteSet(calls') /\ calls' \subseteq Call
    <2>1. IsFiniteSet(D)
      <3>1. CASE D = {}
        BY <3>1, FS_EmptySet
      <3>2. CASE D # {}
        <4>1. PICK d : d \in D
          BY <3>2
        <4>2. D = {d}
          BY <4>1
        <4>. QED
          BY <4>2, FS_Singleton
      <3>. QED
        BY <3>1, <3>2
    <2>2. IsFiniteSet(calls \ {c})
      BY FS_RemoveElement DEF SharesInd, CountInd
    <2>. QED
      BY <2>1, <2>2, FS_Union DEF SharesInd, SharesTypeOK
  <1>. QED
    BY <1>1, <1>4, <1>5

(* A handler is started by a click or by the poll's timer. *)
LEMMA AddCall ==
    ASSUME SharesInd, NEW q \in Call, ~Started(q), ids' \in 0 .. MaxShares, CallOK(q, ids'),
           \/ q.op # "create" /\ ids' = ids
           \/ q.op = "create" /\ ids' = ids + 1 /\ q.id = ids + 1,
           calls' = calls \cup {q}, UNCHANGED backend,
           \A s \in shares' : \E t \in shares : t.id = s.id
    PROVE  CallsInd' /\ FreshIds' /\ HostInd' /\ CountInd' /\ calls' \subseteq Call
  <1>1. ids \in Nat /\ ids' \in Nat /\ ids <= ids'
    BY BoundsAreNat DEF SharesInd, SharesTypeOK
  <1>2. ASSUME NEW d \in calls
        PROVE  CallOK(d, ids') /\ (d.op = "create" => d.id \in Nat /\ d.id <= ids)
    <2>1. CallOK(d, ids)
      BY DEF SharesInd, CallsInd
    <2>. QED
      BY <1>1, <2>1 DEF CallOK, Id
  <1>3. CallsInd'
    BY <1>2 DEF CallsInd
  <1>4. \A s \in shares : s.id \in Nat /\ s.id <= ids
    BY BoundsAreNat DEF SharesInd, SharesTypeOK, ShareHistoryItem, Id, ListInd, FreshIds
  <1>5. FreshIds'
    <2>1. \A s \in shares' : s.id \in Nat /\ s.id <= ids /\ s.id <= ids'
      BY <1>1, <1>4
    <2>2. ASSUME NEW d \in calls', d.op = "create"
          PROVE  /\ \A s \in shares' : s.id # d.id
                 /\ \A e \in calls' : e.op = "create" /\ e.id = d.id => e = d
      <3>1. CASE d \in calls
        BY <1>1, <1>2, <2>2, <3>1 DEF SharesInd, ListInd, FreshIds
      <3>2. CASE d = q
        BY <1>1, <1>2, <2>1, <2>2, <3>2
      <3>. QED
        BY <3>1, <3>2
    <2>. QED
      BY <2>1, <2>2 DEF FreshIds
  <1>6. StartedCalls(calls') = StartedCalls(calls)
    BY DEF StartedCalls
  <1>7. IsFiniteSet(calls') /\ calls' \subseteq Call
    BY FS_AddElement DEF SharesInd, CountInd, SharesTypeOK
  <1>8. HostInd' /\ CountInd'
    BY <1>6, <1>7, HostQuiet, CountFewer DEF backend
  <1>. QED
    BY <1>3, <1>5, <1>7, <1>8
-----------------------------------------------------------------------------
(* The list of shares. *)

LEMMA StatusUpdate ==
    ASSUME SharesInd, NEW id, NEW st \in {"active", "inactive"},
           shares' = UpdateShareStatus(id, st)
    PROVE  /\ shares' \subseteq ShareHistoryItem
           /\ HistoryKeyed'
           /\ \A s \in shares' : \E t \in shares : t.id = s.id
  <1>. DEFINE f(s) == IF s.id = id THEN [s EXCEPT !.status = st] ELSE s
  <1>1. \A s \in shares : f(s) \in ShareHistoryItem /\ f(s).id = s.id /\ f(s).path = s.path
    BY DEF SharesInd, SharesTypeOK, ShareHistoryItem
  <1>2. shares' = {f(s) : s \in shares}
    BY DEF UpdateShareStatus
  <1>. HIDE DEF f
  <1>3. HistoryKeyed'
    BY <1>1, <1>2 DEF SharesInd, ListInd, HistoryKeyed
  <1>. QED
    BY <1>1, <1>2, <1>3

LEMMA LoadedHistory ==
    ASSUME SharesInd, shares' = LoadHistory(shares)
    PROVE  /\ shares' \subseteq ShareHistoryItem
           /\ HistoryKeyed'
           /\ \A s \in shares' : \E t \in shares : t.id = s.id
  <1>. DEFINE f(s) == [s EXCEPT !.status = "inactive"]
  <1>1. \A s \in shares : f(s) \in ShareHistoryItem /\ f(s).id = s.id /\ f(s).path = s.path
    BY DEF SharesInd, SharesTypeOK, ShareHistoryItem
  <1>2. shares' = {f(s) : s \in shares}
    BY DEF LoadHistory
  <1>. HIDE DEF f
  <1>3. HistoryKeyed'
    BY <1>1, <1>2 DEF SharesInd, ListInd, HistoryKeyed
  <1>. QED
    BY <1>1, <1>2, <1>3

(* The answer to a poll, however old it is. *)
LEMMA SyncedHistory ==
    ASSUME SharesInd, NEW hosts \in SUBSET HostInfo,
           NEW found \in [{h.path : h \in hosts} -> hosts],
           shares' = SyncedShares(hosts, found)
    PROVE  /\ shares' \subseteq ShareHistoryItem
           /\ HistoryKeyed'
           /\ \A s \in shares' : \E t \in shares : t.id = s.id
  <1>. DEFINE f(s) == IF \E h \in hosts : h.path = s.path
                       THEN [s EXCEPT !.status = "active", !.joinCode = found[s.path].code]
                       ELSE [s EXCEPT !.status = "inactive"]
  <1>1. ASSUME NEW s \in shares
        PROVE  f(s) \in ShareHistoryItem /\ f(s).id = s.id /\ f(s).path = s.path
    <2>1. s \in ShareHistoryItem
      BY DEF SharesInd, SharesTypeOK
    <2>2. CASE \E h \in hosts : h.path = s.path
      <3>1. found[s.path] \in hosts
        BY <2>2
      <3>2. found[s.path].code \in Code
        BY <3>1 DEF HostInfo
      <3>. QED
        BY <2>1, <2>2, <3>2 DEF ShareHistoryItem
    <2>3. CASE ~\E h \in hosts : h.path = s.path
      BY <2>1, <2>3 DEF ShareHistoryItem
    <2>. QED
      BY <2>2, <2>3
  <1>2. shares' = {f(s) : s \in shares}
    BY DEF SyncedShares
  <1>. HIDE DEF f
  <1>3. HistoryKeyed'
    BY <1>1, <1>2 DEF SharesInd, ListInd, HistoryKeyed
  <1>. QED
    BY <1>1, <1>2, <1>3

(* A new folder takes the place of the card with the same folder. *)
LEMMA AddedShare ==
    ASSUME SharesInd, NEW x \in ShareHistoryItem, \A s \in shares : s.id # x.id,
           shares' = AddShareToHistory(x)
    PROVE  /\ shares' \subseteq ShareHistoryItem
           /\ HistoryKeyed'
           /\ \A s \in shares' : (\E t \in shares : t.id = s.id) \/ s.id = x.id
  BY DEF AddShareToHistory, SharesInd, SharesTypeOK, ListInd, HistoryKeyed
-----------------------------------------------------------------------------
(* The steps of the user. *)

LEMMA SharesIndInit == SharesInit => SharesInd
  <1>. SUFFICES ASSUME SharesInit PROVE SharesInd
    OBVIOUS
  <1>1. SharesTypeOK
    BY BoundsAreNat DEF SharesInit, SharesTypeOK, EmptyDialog
  <1>2. CallsInd /\ ListInd /\ HostInd
    BY DEF SharesInit, CallsInd, ListInd, HistoryKeyed, FreshIds, HostInd, ServedIsListed, Inserts
  <1>3. CountInd
    <2>1. StartedCalls({}) = {}
      BY DEF StartedCalls
    <2>. QED
      BY <2>1, FS_EmptySet, BoundsAreNat DEF SharesInit, CountInd
  <1>. QED
    BY <1>1, <1>2, <1>3 DEF SharesInd

(* The dialogs alone change. *)
LEMMA DialogStep ==
    ASSUME SharesInd, UNCHANGED <<shares, calls, ids, clicks, backend>>,
           dialog' \in [open : BOOLEAN, path : Path \cup {None}, hosting : BOOLEAN,
                        shareId : Id \cup {0}],
           deleteConfirm' \in Id \cup {0}
    PROVE  SharesInd'
  <1>1. SharesTypeOK'
    BY DEF SharesInd, SharesTypeOK, backend
  <1>2. CallsInd' /\ ListInd'
    BY DEF SharesInd, CallsInd, ListInd, HistoryKeyed, FreshIds
  <1>3. HostInd' /\ CountInd'
    BY HostQuiet, CountFewer DEF SharesInd, CountInd, backend
  <1>. QED
    BY <1>1, <1>2, <1>3 DEF SharesInd

(* A click that calls the backend. *)
LEMMA ClickStep ==
    ASSUME SharesInd, NEW q \in Call, ~Started(q), Clicked(q),
           ids' \in 0 .. MaxShares, CallOK(q, ids'),
           \/ q.op # "create" /\ ids' = ids
           \/ q.op = "create" /\ ids' = ids + 1 /\ q.id = ids + 1,
           shares' \subseteq ShareHistoryItem, HistoryKeyed',
           \A s \in shares' : \E t \in shares : t.id = s.id,
           dialog' \in [open : BOOLEAN, path : Path \cup {None}, hosting : BOOLEAN,
                        shareId : Id \cup {0}],
           deleteConfirm' \in Id \cup {0}
    PROVE  SharesInd'
  <1>1. clicks + 1 \in 0 .. MaxClicks /\ clicks' = clicks + 1
    BY BoundsAreNat DEF Clicked, SharesInd, SharesTypeOK
  <1>2. PICK r \in Call : r = [q EXCEPT !.n = clicks + 1]
    BY <1>1 DEF Call
  <1>3. /\ r.op = q.op /\ r.at = q.at /\ r.id = q.id /\ r.path = q.path /\ r.code = q.code
        /\ calls' = calls \cup {r} /\ UNCHANGED backend
    BY <1>2 DEF Call, Clicked
  <1>4. ~Started(r) /\ CallOK(r, ids')
    BY <1>3 DEF Started, CallOK
  <1>5. CallsInd' /\ FreshIds' /\ HostInd' /\ CountInd' /\ calls' \subseteq Call
    BY <1>3, <1>4, AddCall
  <1>6. SharesTypeOK'
    BY <1>1, <1>3, <1>5 DEF SharesInd, SharesTypeOK, backend
  <1>. QED
    BY <1>5, <1>6 DEF SharesInd, ListInd

LEMMA NewCallFacts ==
    ASSUME NEW op \in Op, NEW at \in Stage, NEW id \in Id \cup {0}
    PROVE  /\ NewCall(op, at, id) \in Call
           /\ NewCall(op, at, id).op = op /\ NewCall(op, at, id).at = at
           /\ NewCall(op, at, id).id = id
  BY BoundsAreNat DEF NewCall, Call

(* The same with the folder and the lifetime the handler captured. *)
LEMMA CapturedFacts ==
    ASSUME NEW r \in Call, NEW p \in Path
    PROVE  \E q \in Call : /\ q = [r EXCEPT !.path = p]
                           /\ q.op = r.op /\ q.at = r.at /\ q.id = r.id /\ q.path = p
  <1>. DEFINE x == [r EXCEPT !.path = p]
  <1>1. x \in Call /\ x.op = r.op /\ x.at = r.at /\ x.id = r.id /\ x.path = p
    BY DEF Call
  <1>2. x = [r EXCEPT !.path = p]
    OBVIOUS
  <1>. HIDE DEF x
  <1>. QED
    BY <1>1, <1>2, Zenon

LEMMA CapturedBothFacts ==
    ASSUME NEW r \in Call, NEW p \in Path, NEW e \in BOOLEAN
    PROVE  \E q \in Call : /\ q = [r EXCEPT !.path = p, !.expires = e]
                           /\ q.op = r.op /\ q.at = r.at /\ q.id = r.id /\ q.path = p
  <1>. DEFINE x == [r EXCEPT !.path = p, !.expires = e]
  <1>1. x \in Call
    BY DEF Call
  <1>2. x.op = r.op /\ x.at = r.at /\ x.id = r.id /\ x.path = p
    BY DEF Call
  <1>3. x = [r EXCEPT !.path = p, !.expires = e]
    OBVIOUS
  <1>. HIDE DEF x
  <1>. QED
    BY <1>1, <1>2, <1>3, Zenon

(* A reloaded page: the commands that are running go on, unheard. *)
LEMMA ReloadStep ==
    ASSUME SharesInd, HandleReload
    PROVE  SharesInd'
  <1>. DEFINE kept == {d \in calls : d.at \in {"check", "insert", "stop"}}
              g(c) == [c EXCEPT !.op = "lost"]
  <1>1. \A c \in calls : /\ g(c) \in Call /\ g(c).op = "lost" /\ g(c).at = c.at
                         /\ g(c).id = c.id /\ g(c).path = c.path
    BY DEF SharesInd, SharesTypeOK, Call, Op
  <1>2. calls' = {g(c) : c \in kept} /\ ids' = ids /\ UNCHANGED backend
    BY DEF HandleReload
  <1>. HIDE DEF g
  <1>3. /\ shares' \subseteq ShareHistoryItem /\ HistoryKeyed'
        /\ \A s \in shares' : \E t \in shares : t.id = s.id
    BY LoadedHistory DEF HandleReload
  <1>4. calls' \subseteq Call /\ \A c \in calls' : c.op # "create"
    BY <1>1, <1>2
  <1>5. CallsInd'
    BY <1>1, <1>2 DEF SharesInd, CallsInd, CallOK
  <1>6. FreshIds'
    BY <1>2, <1>3, <1>4 DEF SharesInd, ListInd, FreshIds
  <1>7. HostInd'
    <2>1. ServedIsListed'
      BY <1>2 DEF SharesInd, HostInd, ServedIsListed, backend
    <2>2. Inserts'
      BY <1>1, <1>2 DEF SharesInd, HostInd, Inserts, Started, backend
    <2>. QED
      BY <2>1, <2>2 DEF HostInd
  <1>8. CountInd'
    <2>1. IsFiniteSet(calls) /\ kept \in SUBSET calls
      BY DEF SharesInd, CountInd
    <2>2. IsFiniteSet(kept)
      BY <2>1, FS_Subset
    <2>3. IsFiniteSet(calls')
      <3>. DEFINE h == [c \in kept |-> g(c)]
      <3>1. h \in Surjection(kept, calls')
        BY <1>2 DEF Surjection
      <3>. HIDE DEF h
      <3>. QED
        BY <2>2, <3>1, FS_Surjection
    <2>. DEFINE A == StartedCalls(calls)
                B == StartedCalls(calls')
    <2>4. IsFiniteSet(A) /\ Cardinality(A) \in Nat
      BY <2>1, StartedFinite
    <2>5. IsFiniteSet(B) /\ Cardinality(B) \in Nat
      BY <2>3, StartedFinite
    <2>6. Cardinality(B) <= Cardinality(A)
      <3>. DEFINE h == [c \in A |-> g(c)]
      <3>1. \A c \in A : c \in kept /\ g(c) \in B
        BY <1>1, <1>2 DEF StartedCalls, Started
      <3>2. \A b \in B : \E c \in A : g(c) = b
        BY <1>1, <1>2 DEF StartedCalls, Started
      <3>. HIDE DEF A, B
      <3>3. h \in Surjection(A, B)
        BY <3>1, <3>2 DEF Surjection
      <3>. HIDE DEF h
      <3>. QED
        BY <2>4, <3>3, FS_Surjection
    <2>7. codes \in Nat /\ MaxStarts \in Nat /\ codes' = codes
      BY <1>2, BoundsAreNat DEF SharesInd, SharesTypeOK, backend
    <2>8. codes + Cardinality(A) <= MaxStarts
      BY DEF SharesInd, CountInd
    <2>9. codes' + Cardinality(B) <= MaxStarts
      <3>. HIDE DEF A, B
      <3>. QED
        BY <2>4, <2>5, <2>6, <2>7, <2>8
    <2>. QED
      BY <2>3, <2>9 DEF CountInd
  <1>9. SharesTypeOK'
    <2>1. clicks' \in 0 .. MaxClicks
      BY BoundsAreNat DEF HandleReload, SharesInd, SharesTypeOK
    <2>2. dialog' \in [open : BOOLEAN, path : Path \cup {None}, hosting : BOOLEAN,
                       shareId : Id \cup {0}] /\ deleteConfirm' \in Id \cup {0}
      BY DEF HandleReload, EmptyDialog
    <2>. QED
      BY <1>2, <1>3, <1>4, <2>1, <2>2 DEF SharesInd, SharesTypeOK, backend
  <1>. QED
    BY <1>3, <1>5, <1>6, <1>7, <1>8, <1>9 DEF SharesInd, ListInd

(* The application is quit and started again. *)
LEMMA RestartStep ==
    ASSUME SharesInd, Restart
    PROVE  SharesInd'
  <1>1. /\ shares' \subseteq ShareHistoryItem /\ HistoryKeyed'
        /\ \A s \in shares' : \E t \in shares : t.id = s.id
    BY LoadedHistory DEF Restart
  <1>2. calls' = {} /\ tasks' = {} /\ UNCHANGED <<ids, codes, overlapped>>
    BY DEF Restart
  <1>3. CallsInd' /\ FreshIds' /\ HostInd'
    BY <1>1, <1>2 DEF SharesInd, CallsInd, ListInd, FreshIds, HostInd, ServedIsListed, Inserts
  <1>4. CountInd'
    <2>1. StartedCalls(calls') = {} /\ IsFiniteSet(calls')
      BY <1>2, FS_EmptySet DEF StartedCalls
    <2>. QED
      BY <1>2, <2>1, CountFewer
  <1>5. SharesTypeOK'
    <2>1. clicks' \in 0 .. MaxClicks
      BY BoundsAreNat DEF Restart, SharesInd, SharesTypeOK
    <2>2. dialog' \in [open : BOOLEAN, path : Path \cup {None}, hosting : BOOLEAN,
                       shareId : Id \cup {0}] /\ deleteConfirm' \in Id \cup {0}
      BY DEF Restart, EmptyDialog
    <2>. QED
      BY <1>1, <1>2, <2>1, <2>2 DEF Restart, SharesInd, SharesTypeOK
  <1>. QED
    BY <1>1, <1>3, <1>4, <1>5 DEF SharesInd, ListInd

LEMMA UserStep ==
    ASSUME SharesInd, User
    PROVE  SharesInd'
  <1>1. CASE OpenShareDialog \/ CloseShareDialog \/ ClearFolder
    <2>1. dialog' \in [open : BOOLEAN, path : Path \cup {None}, hosting : BOOLEAN,
                       shareId : Id \cup {0}]
      BY <1>1 DEF OpenShareDialog, CloseShareDialog, ClearFolder, SharesInd, SharesTypeOK
    <2>. QED
      BY <1>1, <2>1, DialogStep
         DEF OpenShareDialog, CloseShareDialog, ClearFolder, SharesInd, SharesTypeOK
  <1>2. ASSUME NEW p \in Path, SelectFolder(p) PROVE SharesInd'
    <2>1. dialog' \in [open : BOOLEAN, path : Path \cup {None}, hosting : BOOLEAN,
                       shareId : Id \cup {0}]
      BY <1>2 DEF SelectFolder, SharesInd, SharesTypeOK
    <2>. QED
      BY <1>2, <2>1, DialogStep DEF SelectFolder, SharesInd, SharesTypeOK
  <1>3. ASSUME NEW e \in BOOLEAN, HandleStartHosting(e) PROVE SharesInd'
    <2>1. ids + 1 \in Id /\ ids + 1 \in 0 .. MaxShares /\ ids' = ids + 1 /\ ids' \in Nat
      BY <1>3, BoundsAreNat DEF HandleStartHosting, SharesInd, SharesTypeOK, Id
    <2>2. PICK p \in Path : p = dialog.path
      BY <1>3 DEF HandleStartHosting, CanStart, SharesInd, SharesTypeOK
    <2>3. PICK r \in Call : /\ r = NewCall("create", "check", ids + 1)
                            /\ r.op = "create" /\ r.at = "check" /\ r.id = ids + 1
      BY <2>1, NewCallFacts DEF Op, Stage
    <2>4. PICK q \in Call : /\ q = [r EXCEPT !.path = p, !.expires = e]
                            /\ q.op = r.op /\ q.at = r.at /\ q.id = r.id /\ q.path = p
      BY CapturedBothFacts, ZenonT(30)
    <2>5. ~Started(q) /\ CallOK(q, ids')
      BY <2>1, <2>2, <2>3, <2>4 DEF Started, CallOK
    <2>6. dialog' \in [open : BOOLEAN, path : Path \cup {None}, hosting : BOOLEAN,
                       shareId : Id \cup {0}]
      BY <1>3, <2>1 DEF HandleStartHosting, SharesInd, SharesTypeOK
    <2>7. /\ Clicked(q) /\ UNCHANGED <<shares, deleteConfirm>>
      BY <1>3, <2>2, <2>3, <2>4 DEF HandleStartHosting
    <2>8. /\ shares' \subseteq ShareHistoryItem /\ HistoryKeyed'
          /\ deleteConfirm' \in Id \cup {0}
      BY <2>7 DEF SharesInd, SharesTypeOK, ListInd, HistoryKeyed
    <2>. QED
      BY <2>1, <2>3, <2>4, <2>5, <2>6, <2>7, <2>8, ClickStep
  <1>4. CASE HandleStopHosting \/ HandleDeleteShare
    <2>1. PICK q : /\ q = NewCall("dialogStop", "stop", dialog.shareId)
                         \/ q = NewCall("delete", "stop", deleteConfirm)
                   /\ Clicked(q) /\ UNCHANGED <<ui, ids>>
      BY <1>4 DEF HandleStopHosting, HandleDeleteShare
    <2>2. dialog.shareId \in Id \cup {0} /\ deleteConfirm \in Id \cup {0}
      BY DEF SharesInd, SharesTypeOK
    <2>3. q \in Call /\ q.op # "create" /\ q.at = "stop"
      BY <2>1, <2>2, NewCallFacts DEF Op, Stage
    <2>4. ~Started(q) /\ CallOK(q, ids)
      BY <2>3 DEF Started, CallOK
    <2>5. /\ shares' \subseteq ShareHistoryItem /\ HistoryKeyed' /\ shares' = shares
          /\ deleteConfirm' \in Id \cup {0} /\ ids' = ids /\ ids \in 0 .. MaxShares
          /\ dialog' \in [open : BOOLEAN, path : Path \cup {None}, hosting : BOOLEAN,
                          shareId : Id \cup {0}]
      BY <2>1 DEF SharesInd, SharesTypeOK, ListInd, HistoryKeyed, ui
    <2>. QED
      BY <2>1, <2>3, <2>4, <2>5, ClickStep
  <1>5. ASSUME NEW s \in shares, HandleStopShare(s) \/ HandleResumeShare(s)
        PROVE  SharesInd'
    <2>1. s.id \in Id /\ s.path \in Path
      BY DEF SharesInd, SharesTypeOK, ShareHistoryItem
    <2>2. ASSUME NEW q \in Call, NEW st \in {"active", "inactive"}, q.op # "create",
                 q.at = "stop" \/ (q.at = "check" /\ q.id = s.id /\ q.path = s.path),
                 Clicked(q), shares' = UpdateShareStatus(s.id, st),
                 UNCHANGED <<dialog, deleteConfirm, ids>>
          PROVE  SharesInd'
      <3>1. ~Started(q) /\ CallOK(q, ids)
        BY <2>1, <2>2 DEF Started, CallOK
      <3>2. /\ shares' \subseteq ShareHistoryItem /\ HistoryKeyed'
            /\ \A x \in shares' : \E t \in shares : t.id = x.id
        BY <2>2, StatusUpdate
      <3>3. /\ deleteConfirm' \in Id \cup {0} /\ ids' = ids /\ ids \in 0 .. MaxShares
            /\ dialog' \in [open : BOOLEAN, path : Path \cup {None}, hosting : BOOLEAN,
                            shareId : Id \cup {0}]
        BY <2>2 DEF SharesInd, SharesTypeOK
      <3>. QED
        BY <2>2, <3>1, <3>2, <3>3, ClickStep
    <2>3. CASE HandleStopShare(s)
      <3>1. PICK q \in Call : q = NewCall("stop", "stop", s.id) /\ q.op = "stop" /\ q.at = "stop"
        BY <2>1, NewCallFacts DEF Op, Stage
      <3>. QED
        BY <2>2, <2>3, <3>1 DEF HandleStopShare
    <2>4. CASE HandleResumeShare(s)
      <3>1. PICK r \in Call : /\ r = NewCall("resume", "check", s.id)
                              /\ r.op = "resume" /\ r.at = "check" /\ r.id = s.id
        BY <2>1, NewCallFacts DEF Op, Stage
      <3>2. PICK q \in Call : /\ q = [r EXCEPT !.path = s.path]
                              /\ q.op = "resume" /\ q.at = "check" /\ q.id = s.id
                              /\ q.path = s.path
        BY <2>1, <3>1, CapturedFacts
      <3>. QED
        BY <2>2, <2>4, <3>1, <3>2 DEF HandleResumeShare
    <2>. QED
      BY <1>5, <2>3, <2>4
  <1>6. ASSUME NEW s \in shares, ConfirmDeleteShare(s) PROVE SharesInd'
    <2>1. s.id \in Id
      BY DEF SharesInd, SharesTypeOK, ShareHistoryItem
    <2>. QED
      BY <1>6, <2>1, DialogStep DEF ConfirmDeleteShare, SharesInd, SharesTypeOK
  <1>7. CASE CancelDelete
    BY <1>7, DialogStep DEF CancelDelete, SharesInd, SharesTypeOK
  <1>8. CASE HandleReload \/ Restart
    BY <1>8, ReloadStep, RestartStep
  <1>. QED
    BY <1>1, <1>2, <1>3, <1>4, <1>5, <1>6, <1>7, <1>8 DEF User
-----------------------------------------------------------------------------
(* The steps of the backend. *)

(* What a handler becomes when its command ends. *)
LEMMA EndedFacts ==
    ASSUME NEW c \in Call, NEW ok \in BOOLEAN
    PROVE  /\ Ended(c, ok) \subseteq Call
           /\ \A d, e \in Ended(c, ok) : d = e
           /\ \A d \in Ended(c, ok) :
                 /\ d.at \in {"answer", "failed", "read"}
                 /\ d.op = "create" =>
                       /\ c.op = "create" /\ d.id = c.id /\ d.path = c.path /\ d.code = c.code
                       /\ d.at = IF ok THEN "answer" ELSE "failed"
  <1>1. CASE c.op \in {"create", "dialogStop"}
    BY <1>1 DEF Ended, Call, Stage
  <1>2. CASE c.op = "delete"
    BY <1>2 DEF Ended, Call, Stage
  <1>3. CASE c.op \in {"resume", "stop"}
    <2>1. SyncCall \in Call /\ SyncCall.op = "sync" /\ SyncCall.at = "read"
      BY NewCallFacts DEF SyncCall, Op, Stage
    <2>2. Ended(c, ok) = IF ~ok THEN {SyncCall} ELSE {}
      BY <1>3 DEF Ended
    <2>. QED
      BY <2>1, <2>2
  <1>4. CASE c.op \notin {"create", "dialogStop", "delete", "resume", "stop"}
    BY <1>4 DEF Ended
  <1>. QED
    BY <1>1, <1>2, <1>3, <1>4

(* A command ends without a host being started, and the list may change. *)
LEMMA EndStep ==
    ASSUME SharesInd, NEW c \in calls, NEW D \in SUBSET Call, \A d, e \in D : d = e,
           \A d \in D : /\ CallOK(d, ids) /\ ~Started(d)
                        /\ d.op = "create" => c.op = "create" /\ d.id = c.id,
           calls' = (calls \ {c}) \cup D, UNCHANGED <<ids, clicks, timers, codes, overlapped>>,
           \/ UNCHANGED <<host_handles, tasks>>
           \/ \E id \in Id : RemoveHost(id),
           shares' \subseteq ShareHistoryItem, HistoryKeyed',
           \A s \in shares' : \/ \E t \in shares : t.id = s.id
                              \/ c.op = "create" /\ D = {} /\ s.id = c.id,
           dialog' \in [open : BOOLEAN, path : Path \cup {None}, hosting : BOOLEAN,
                        shareId : Id \cup {0}],
           deleteConfirm' \in Id \cup {0}
    PROVE  SharesInd'
  <1>1. CallsInd' /\ FreshIds' /\ IsFiniteSet(calls') /\ calls' \subseteq Call
    BY ReplaceCall
  <1>2. StartedCalls(calls') \subseteq StartedCalls(calls)
    BY DEF StartedCalls
  <1>3. CountInd'
    BY <1>1, <1>2, CountFewer
  <1>4. HostInd' /\ host_handles' \in [Id -> HostInfo \cup {None}] /\ tasks' \subseteq tasks
    <2>1. CASE UNCHANGED <<host_handles, tasks>>
      BY <1>2, <2>1, HostQuiet DEF SharesInd, SharesTypeOK
    <2>2. ASSUME NEW id \in Id, RemoveHost(id)
          PROVE  HostInd' /\ host_handles' \in [Id -> HostInfo \cup {None}] /\ tasks' \subseteq tasks
      <3>1. /\ \A i \in Id : host_handles'[i] = IF i = id THEN None ELSE host_handles[i]
            /\ host_handles' \in [Id -> HostInfo \cup {None}]
            /\ tasks' = {t \in tasks : t.code # host_handles[id].code}
        BY <2>2 DEF RemoveHost, SharesInd, SharesTypeOK
      <3>2. ServedIsListed'
        BY <3>1 DEF SharesInd, HostInd, ServedIsListed, SharesTypeOK
      <3>3. \A d \in calls' : Started(d) => d \in calls /\ d.id \in Id
        BY <1>2 DEF StartedCalls, Started, SharesInd, CallsInd, CallOK
      <3>4. Inserts'
        BY <3>1, <3>3 DEF SharesInd, HostInd, Inserts
      <3>. QED
        BY <3>1, <3>2, <3>4 DEF HostInd
    <2>. QED
      BY <2>1, <2>2
  <1>5. SharesTypeOK'
    BY <1>1, <1>4 DEF SharesInd, SharesTypeOK
  <1>. QED
    BY <1>1, <1>3, <1>4, <1>5 DEF SharesInd, ListInd

(* The expiration task removes the host of its id. *)
LEMMA ExpireStep ==
    ASSUME SharesInd, NEW id \in Id, Expire(id)
    PROVE  SharesInd'
  <1>1. UNCHANGED <<shares, dialog, deleteConfirm, calls, codes, ids, clicks, overlapped>>
    BY DEF Expire, ui
  <1>2. /\ host_handles' \in [Id -> HostInfo \cup {None}] /\ tasks' \subseteq tasks
        /\ \A i \in Id : host_handles'[i] \in {host_handles[i], None}
        /\ ServedIsListed'
    <2>1. CASE Hosted(id)
      <3>1. /\ \A i \in Id : host_handles'[i] = IF i = id THEN None ELSE host_handles[i]
            /\ host_handles' \in [Id -> HostInfo \cup {None}]
            /\ tasks' = {t \in tasks : t.code # host_handles[id].code}
        BY <2>1 DEF Expire, RemoveHost, SharesInd, SharesTypeOK
      <3>. QED
        BY <1>1, <3>1 DEF SharesInd, HostInd, ServedIsListed, SharesTypeOK
    <2>2. CASE ~Hosted(id)
      BY <1>1, <2>2 DEF Expire, SharesInd, SharesTypeOK, HostInd, ServedIsListed
    <2>. QED
      BY <2>1, <2>2
  <1>3. Inserts'
    BY <1>1, <1>2 DEF SharesInd, HostInd, Inserts, CallsInd, CallOK, Started
  <1>4. SharesTypeOK'
    BY <1>1, <1>2 DEF Expire, SharesInd, SharesTypeOK
  <1>5. CallsInd' /\ ListInd'
    BY <1>1 DEF SharesInd, CallsInd, ListInd, HistoryKeyed, FreshIds
  <1>6. CountInd'
    BY <1>1 DEF SharesInd, CountInd
  <1>. QED
    BY <1>2, <1>3, <1>4, <1>5, <1>6 DEF SharesInd, HostInd

(* A host task ends by itself. *)
LEMMA ServeFailsStep ==
    ASSUME SharesInd, NEW t \in tasks, ServeFails(t)
    PROVE  SharesInd'
  <1>1. /\ UNCHANGED <<shares, dialog, deleteConfirm, calls, host_handles, timers,
                       codes, ids, clicks, overlapped>>
        /\ tasks' \subseteq tasks
    BY DEF ServeFails, ui
  <1>2. SharesTypeOK'
    BY <1>1 DEF SharesInd, SharesTypeOK
  <1>3. CallsInd' /\ ListInd'
    BY <1>1 DEF SharesInd, CallsInd, ListInd, HistoryKeyed, FreshIds
  <1>4. HostInd'
    BY <1>1 DEF SharesInd, HostInd, ServedIsListed, Inserts
  <1>5. CountInd'
    BY <1>1 DEF SharesInd, CountInd
  <1>. QED
    BY <1>2, <1>3, <1>4, <1>5 DEF SharesInd

(* A start looks its id up and lets go of the map. *)
LEMMA StartCheckStep ==
    ASSUME SharesInd, NEW c \in calls, StartCheck(c)
    PROVE  SharesInd'
  <1>1. c \in Call /\ c.id \in Id /\ c.path \in Path /\ c.at = "check"
    BY DEF StartCheck, SharesInd, SharesTypeOK, CallsInd, CallOK
  <1>2. PICK d : d = [c EXCEPT !.at = "insert"]
    OBVIOUS
  <1>3. /\ d \in Call /\ d.op = c.op /\ d.at = "insert" /\ d.id = c.id /\ d.path = c.path
        /\ d.code = c.code
    BY <1>1, <1>2 DEF Call, Stage
  <1>4. /\ calls' = (calls \ {c}) \cup {d} /\ host_handles[c.id] = None
        /\ UNCHANGED <<shares, dialog, deleteConfirm, host_handles, tasks, timers,
                       codes, ids, clicks>>
    BY <1>2 DEF StartCheck, Advance, ui
  <1>5. /\ overlapped \subseteq overlapped' /\ overlapped' \subseteq overlapped \cup {c.id}
        /\ c.id \notin overlapped' => \A e \in calls : Started(e) => e.id # c.id
    BY DEF StartCheck
  <1>6. CallOK(d, ids) /\ Started(d)
    BY <1>1, <1>3 DEF CallOK, Started, SharesInd, CallsInd
  <1>7. CallsInd' /\ FreshIds' /\ IsFiniteSet(calls') /\ calls' \subseteq Call
    <2>1. PICK D : D = {d}
      OBVIOUS
    <2>2. /\ D \in SUBSET Call /\ (\A a, e \in D : a = e) /\ calls' = (calls \ {c}) \cup D
          /\ \A e \in D : CallOK(e, ids) /\ (e.op = "create" => c.op = "create" /\ e.id = c.id)
      BY <1>3, <1>4, <1>6, <2>1
    <2>3. ids' = ids /\ \A s \in shares' : \E t \in shares : t.id = s.id
      BY <1>4
    <2>. QED
      BY <2>2, <2>3, ReplaceCall
  <1>8. HistoryKeyed'
    BY <1>4 DEF SharesInd, ListInd, HistoryKeyed
  <1>9. SharesTypeOK'
    BY <1>1, <1>4, <1>5, <1>7 DEF SharesInd, SharesTypeOK
  <1>10. HostInd'
    <2>1. ServedIsListed'
      BY <1>4, <1>5 DEF SharesInd, HostInd, ServedIsListed
    <2>2. ASSUME NEW a \in calls', Started(a), a.id \notin overlapped'
          PROVE  /\ host_handles'[a.id] = None
                 /\ \A b \in calls' : Started(b) /\ b.id = a.id => b = a
      <3>1. CASE a = d
        BY <1>3, <1>4, <1>5, <2>2, <3>1
      <3>2. CASE a # d
        <4>1. a \in calls /\ a.id \notin overlapped
          BY <1>4, <1>5, <2>2, <3>2
        <4>2. a.id # d.id
          BY <1>3, <1>5, <2>2, <4>1
        <4>. QED
          BY <1>4, <2>2, <4>1, <4>2 DEF SharesInd, HostInd, Inserts
      <3>. QED
        BY <3>1, <3>2
    <2>3. Inserts'
      BY <2>2 DEF Inserts
    <2>. QED
      BY <2>1, <2>3 DEF HostInd
  <1>11. CountInd'
    <2>1. {e \in calls : Started(e)} = StartedCalls(calls)
      BY DEF StartedCalls
    <2>2. codes + Cardinality(StartedCalls(calls)) < MaxStarts
      BY <2>1 DEF StartCheck
    <2>3. IsFiniteSet(StartedCalls(calls)) /\ Cardinality(StartedCalls(calls)) \in Nat
      BY StartedFinite DEF SharesInd, CountInd
    <2>4. StartedCalls(calls') = StartedCalls(calls) \cup {d}
      BY <1>1, <1>4, <1>6 DEF StartedCalls, Started
    <2>5. /\ Cardinality(StartedCalls(calls')) <= Cardinality(StartedCalls(calls)) + 1
          /\ Cardinality(StartedCalls(calls')) \in Nat
      <3>1. PICK S : S = StartedCalls(calls)
        OBVIOUS
      <3>2. /\ IsFiniteSet(S) /\ Cardinality(S) \in Nat
            /\ Cardinality(StartedCalls(calls)) = Cardinality(S)
        BY <2>3, <3>1
      <3>3. Cardinality(StartedCalls(calls')) = Cardinality(S \cup {d})
        BY <2>4, <3>1
      <3>4. \/ d \in S /\ Cardinality(S \cup {d}) = Cardinality(S)
            \/ Cardinality(S \cup {d}) = Cardinality(S) + 1
        BY <3>2, FS_AddElement
      <3>. QED
        BY <3>2, <3>3, <3>4
    <2>6. codes \in Nat /\ MaxStarts \in Nat
      BY BoundsAreNat DEF SharesInd, SharesTypeOK
    <2>7. codes' + Cardinality(StartedCalls(calls')) <= MaxStarts
      BY <1>4, <2>2, <2>3, <2>5, <2>6
    <2>. QED
      BY <1>7, <2>7 DEF CountInd
  <1>. QED
    BY <1>7, <1>8, <1>9, <1>10, <1>11 DEF SharesInd, ListInd

(* A start enters its host in the map. *)
LEMMA StartInsertStep ==
    ASSUME SharesInd, NEW c \in calls, StartInsert(c)
    PROVE  SharesInd'
  <1>1. /\ c \in Call /\ c.id \in Id /\ c.path \in Path /\ Started(c)
        /\ c.op = "create" => c.id <= ids
    BY DEF StartInsert, Started, SharesInd, SharesTypeOK, CallsInd, CallOK
  <1>2. PICK k : k = codes + 1
    OBVIOUS
  <1>3. PICK b : b = [c EXCEPT !.code = codes + 1]
    OBVIOUS
  <1>4. PICK D : D = Ended(b, TRUE)
    OBVIOUS
  <1>5. /\ calls' = (calls \ {c}) \cup D /\ codes' = codes + 1
        /\ tasks' = tasks \cup {[id |-> c.id, code |-> k]}
        /\ host_handles' = [host_handles EXCEPT ![c.id] = [path |-> c.path, code |-> k]]
        /\ timers' = IF c.expires THEN timers \cup {c.id} ELSE timers
        /\ UNCHANGED <<shares, dialog, deleteConfirm, ids, clicks, overlapped>>
    BY <1>2, <1>3, <1>4 DEF StartInsert, ui
  <1>6. k \in Code
    <2>1. c \in StartedCalls(calls) /\ IsFiniteSet(StartedCalls(calls))
      BY <1>1, StartedFinite DEF StartedCalls, SharesInd, CountInd
    <2>2. /\ Cardinality(StartedCalls(calls) \ {c}) = Cardinality(StartedCalls(calls)) - 1
          /\ Cardinality(StartedCalls(calls) \ {c}) \in Nat
          /\ Cardinality(StartedCalls(calls)) \in Nat
      BY <2>1, FS_RemoveElement, FS_CardinalityType
    <2>3. codes \in Nat /\ MaxStarts \in Nat /\ codes + Cardinality(StartedCalls(calls)) <= MaxStarts
      BY BoundsAreNat DEF SharesInd, SharesTypeOK, CountInd
    <2>. QED
      BY <1>2, <2>2, <2>3 DEF Code
  <1>7. b \in Call /\ b.op = c.op /\ b.id = c.id /\ b.path = c.path /\ b.code = k
    BY <1>1, <1>2, <1>3, <1>6 DEF Call
  <1>8. /\ D \in SUBSET Call /\ \A d, e \in D : d = e
        /\ \A d \in D : /\ CallOK(d, ids) /\ ~Started(d)
                        /\ d.op = "create" => c.op = "create" /\ d.id = c.id
    <2>1. /\ D \subseteq Call /\ \A d, e \in D : d = e
          /\ \A d \in D :
                /\ d.at \in {"answer", "failed", "read"}
                /\ d.op = "create" =>
                      /\ b.op = "create" /\ d.id = b.id /\ d.path = b.path /\ d.code = b.code
                      /\ d.at = "answer"
      BY <1>4, <1>7, EndedFacts
    <2>. QED
      BY <1>1, <1>6, <1>7, <2>1 DEF CallOK, Started
  <1>9. CallsInd' /\ FreshIds' /\ IsFiniteSet(calls') /\ calls' \subseteq Call
    BY <1>5, <1>8, ReplaceCall
  <1>10. CountInd'
    <2>1. StartedCalls(D) = {}
      BY <1>8 DEF StartedCalls
    <2>2. IsFiniteSet(D)
      <3>1. D \in SUBSET calls'
        BY <1>5
      <3>. QED
        BY <1>9, <3>1, FS_Subset
    <2>. QED
      BY <1>1, <1>5, <2>1, <2>2, CountInsert
  <1>11. HistoryKeyed'
    BY <1>5 DEF SharesInd, ListInd, HistoryKeyed
  <1>12. PICK h : h = [path |-> c.path, code |-> k]
    OBVIOUS
  <1>13. h \in HostInfo /\ h # None /\ h.code = k
    BY <1>1, <1>6, <1>12, NoneIsNoHost DEF HostInfo, Code
  <1>14. /\ \A i \in Id : host_handles'[i] = IF i = c.id THEN h ELSE host_handles[i]
         /\ host_handles' \in [Id -> HostInfo \cup {None}]
    BY <1>1, <1>5, <1>12, <1>13 DEF SharesInd, SharesTypeOK
  <1>15. SharesTypeOK'
    <2>1. tasks' \subseteq [id : Id, code : Code]
      BY <1>1, <1>5, <1>6 DEF SharesInd, SharesTypeOK
    <2>2. timers' \subseteq Id
      BY <1>1, <1>5 DEF SharesInd, SharesTypeOK
    <2>3. codes' \in 0 .. MaxStarts
      BY <1>2, <1>5, <1>6, BoundsAreNat DEF Code
    <2>. QED
      BY <1>5, <1>9, <1>14, <2>1, <2>2, <2>3 DEF SharesInd, SharesTypeOK
  <1>16. HostInd'
    <2>1. ServedIsListed'
      <3>. SUFFICES ASSUME NEW t \in tasks', t.id \notin overlapped
                    PROVE  host_handles'[t.id] # None /\ host_handles'[t.id].code = t.code
        BY <1>5 DEF ServedIsListed
      <3>1. CASE t \in tasks
        <4>1. /\ t.id \in Id
              /\ host_handles[t.id] # None /\ host_handles[t.id].code = t.code
          BY <3>1 DEF SharesInd, SharesTypeOK, HostInd, ServedIsListed
        <4>2. t.id # c.id
          BY <1>1, <4>1 DEF SharesInd, HostInd, Inserts
        <4>. QED
          BY <1>14, <4>1, <4>2
      <3>2. CASE t = [id |-> c.id, code |-> k]
        BY <1>1, <1>13, <1>14, <3>2
      <3>. QED
        BY <1>5, <3>1, <3>2
    <2>2. ASSUME NEW a \in calls', Started(a), a.id \notin overlapped'
          PROVE  /\ host_handles'[a.id] = None
                 /\ \A e \in calls' : Started(e) /\ e.id = a.id => e = a
      <3>1. a \in calls /\ a # c /\ a.id \in Id
        BY <1>5, <1>8, <2>2 DEF SharesInd, CallsInd, CallOK, Started
      <3>2. /\ host_handles[a.id] = None
            /\ \A e \in calls : Started(e) /\ e.id = a.id => e = a
        BY <1>5, <2>2, <3>1 DEF SharesInd, HostInd, Inserts
      <3>3. a.id # c.id
        BY <1>1, <3>1, <3>2
      <3>. QED
        BY <1>5, <1>8, <1>14, <3>1, <3>2, <3>3
    <2>3. Inserts'
      BY <2>2 DEF Inserts
    <2>. QED
      BY <2>1, <2>3 DEF HostInd
  <1>. QED
    BY <1>9, <1>10, <1>11, <1>15, <1>16 DEF SharesInd, ListInd

(* A call ends and the page stays as it is. *)
LEMMA PlainEnd ==
    ASSUME SharesInd, NEW c \in calls, NEW D \in SUBSET Call, \A d, e \in D : d = e,
           \A d \in D : /\ CallOK(d, ids) /\ ~Started(d)
                        /\ d.op = "create" => c.op = "create" /\ d.id = c.id,
           calls' = (calls \ {c}) \cup D, UNCHANGED <<ids, clicks, timers, codes, overlapped>>,
           \/ UNCHANGED <<host_handles, tasks>>
           \/ \E id \in Id : RemoveHost(id),
           UNCHANGED ui
    PROVE  SharesInd'
  <1>1. /\ shares' = shares /\ shares' \subseteq ShareHistoryItem /\ HistoryKeyed'
        /\ dialog' \in [open : BOOLEAN, path : Path \cup {None}, hosting : BOOLEAN,
                        shareId : Id \cup {0}]
        /\ deleteConfirm' \in Id \cup {0}
    BY DEF ui, SharesInd, SharesTypeOK, ListInd, HistoryKeyed
  <1>. QED
    BY <1>1, EndStep

(* The command of a handler ends. *)
LEMMA CommandEnds ==
    ASSUME SharesInd, NEW c \in calls, NEW ok \in BOOLEAN,
           c.at \in {"check", "stop"}, c.at = "check" => ~ok,
           calls' = (calls \ {c}) \cup Ended(c, ok),
           UNCHANGED <<ids, clicks, timers, codes, overlapped>>,
           \/ UNCHANGED <<host_handles, tasks>>
           \/ \E id \in Id : RemoveHost(id),
           UNCHANGED ui
    PROVE  SharesInd'
  <1>1. c \in Call /\ CallOK(c, ids)
    BY DEF SharesInd, SharesTypeOK, CallsInd
  <1>2. PICK D : D = Ended(c, ok)
    OBVIOUS
  <1>3. /\ D \in SUBSET Call /\ \A d, e \in D : d = e
        /\ \A d \in D :
              /\ d.at \in {"answer", "failed", "read"}
              /\ d.op = "create" =>
                    /\ c.op = "create" /\ d.id = c.id /\ d.path = c.path
                    /\ d.at = IF ok THEN "answer" ELSE "failed"
    BY <1>1, <1>2, EndedFacts
  <1>4. \A d \in D : /\ CallOK(d, ids) /\ ~Started(d)
                     /\ d.op = "create" => c.op = "create" /\ d.id = c.id
    BY <1>1, <1>3 DEF CallOK, Started
  <1>. QED
    BY <1>2, <1>3, <1>4, PlainEnd

(* A handler has its answer and is done. *)
LEMMA HandlerDone ==
    ASSUME SharesInd, NEW c \in calls, calls' = calls \ {c},
           UNCHANGED <<ids, clicks, timers, codes, overlapped, host_handles, tasks>>,
           shares' \subseteq ShareHistoryItem, HistoryKeyed',
           \A s \in shares' : \E t \in shares : t.id = s.id,
           dialog' \in [open : BOOLEAN, path : Path \cup {None}, hosting : BOOLEAN,
                        shareId : Id \cup {0}],
           deleteConfirm' \in Id \cup {0}
    PROVE  SharesInd'
  <1>1. PICK D : D = {}
    OBVIOUS
  <1>2. /\ D \in SUBSET Call /\ (\A d, e \in D : d = e) /\ calls' = (calls \ {c}) \cup D
        /\ \A d \in D : /\ CallOK(d, ids) /\ ~Started(d)
                        /\ d.op = "create" => c.op = "create" /\ d.id = c.id
    BY <1>1
  <1>3. /\ UNCHANGED <<ids, clicks, timers, codes, overlapped>>
        /\ UNCHANGED <<host_handles, tasks>> \/ \E id \in Id : RemoveHost(id)
    OBVIOUS
  <1>4. \A s \in shares' : \/ \E t \in shares : t.id = s.id
                           \/ c.op = "create" /\ D = {} /\ s.id = c.id
    OBVIOUS
  <1>. QED
    BY <1>2, <1>3, <1>4, EndStep

LEMMA ProgressStep ==
    ASSUME SharesInd, NEW c \in calls, Progress(c)
    PROVE  SharesInd'
  <1>0. c \in Call /\ CallOK(c, ids)
    BY DEF SharesInd, SharesTypeOK, CallsInd
  <1>1. CASE StartCheck(c) \/ StartInsert(c)
    BY <1>1, StartCheckStep, StartInsertStep
  <1>2. CASE StartRefused(c) \/ StopFindsNone(c)
    <2>1. /\ calls' = (calls \ {c}) \cup Ended(c, FALSE) /\ c.at \in {"check", "stop"}
          /\ UNCHANGED <<ids, clicks, timers, codes, overlapped, host_handles, tasks>>
          /\ UNCHANGED ui
      BY <1>2 DEF StartRefused, StopFindsNone, backend
    <2>. QED
      BY <2>1, CommandEnds
  <1>3. CASE StopHostingById(c)
    <2>1. /\ calls' = (calls \ {c}) \cup Ended(c, TRUE) /\ c.at = "stop"
          /\ UNCHANGED <<ids, clicks, timers, codes, overlapped>> /\ UNCHANGED ui
          /\ c.id \in Id /\ RemoveHost(c.id)
      BY <1>3 DEF StopHostingById, Hosted
    <2>. QED
      BY <2>1, CommandEnds
  <1>4. CASE ShareCreated(c)
    <2>1. c.op = "create" /\ c.at = "answer" /\ c.id \in Id /\ c.path \in Path /\ c.code \in Code
      BY <1>0, <1>4 DEF ShareCreated, CallOK
    <2>2. PICK x : x = [id |-> c.id, path |-> c.path, joinCode |-> c.code,
                        shareLink |-> c.code, status |-> "active", expires |-> c.expires]
      OBVIOUS
    <2>3. x \in ShareHistoryItem /\ x.id = c.id
      BY <1>0, <2>1, <2>2 DEF ShareHistoryItem, Call
    <2>4. \A s \in shares : s.id # x.id
      BY <2>1, <2>3 DEF SharesInd, ListInd, FreshIds
    <2>5. shares' = AddShareToHistory(x)
      BY <1>4, <2>2 DEF ShareCreated
    <2>6. /\ shares' \subseteq ShareHistoryItem /\ HistoryKeyed'
          /\ \A s \in shares' : (\E t \in shares : t.id = s.id) \/ s.id = x.id
      BY <2>3, <2>4, <2>5, AddedShare
    <2>7. dialog' \in [open : BOOLEAN, path : Path \cup {None}, hosting : BOOLEAN,
                       shareId : Id \cup {0}]
      BY <1>4 DEF ShareCreated, SharesInd, SharesTypeOK
    <2>8. /\ calls' = (calls \ {c}) \cup {} /\ deleteConfirm' \in Id \cup {0}
          /\ UNCHANGED <<ids, clicks, timers, codes, overlapped, host_handles, tasks>>
      BY <1>4 DEF ShareCreated, SharesInd, SharesTypeOK, backend
    <2>. QED
      BY <2>1, <2>3, <2>6, <2>7, <2>8, EndStep
  <1>5. CASE DialogStopped(c)
    <2>1. dialog' \in [open : BOOLEAN, path : Path \cup {None}, hosting : BOOLEAN,
                       shareId : Id \cup {0}]
      BY <1>5 DEF DialogStopped, SharesInd, SharesTypeOK
    <2>2. /\ calls' = calls \ {c} /\ deleteConfirm' \in Id \cup {0}
          /\ shares' = shares /\ shares' \subseteq ShareHistoryItem /\ HistoryKeyed'
          /\ UNCHANGED <<ids, clicks, timers, codes, overlapped, host_handles, tasks>>
      BY <1>5 DEF DialogStopped, SharesInd, SharesTypeOK, ListInd, HistoryKeyed, backend
    <2>. QED
      BY <2>1, <2>2, HandlerDone
  <1>6. CASE DialogError(c)
    <2>1. /\ calls' = calls \ {c} /\ UNCHANGED ui
          /\ UNCHANGED <<ids, clicks, timers, codes, overlapped, host_handles, tasks>>
      BY <1>6 DEF DialogError, backend
    <2>2. /\ shares' = shares /\ shares' \subseteq ShareHistoryItem /\ HistoryKeyed'
          /\ dialog' \in [open : BOOLEAN, path : Path \cup {None}, hosting : BOOLEAN,
                          shareId : Id \cup {0}]
          /\ deleteConfirm' \in Id \cup {0}
      BY <2>1 DEF ui, SharesInd, SharesTypeOK, ListInd, HistoryKeyed
    <2>. QED
      BY <2>1, <2>2, HandlerDone
  <1>7. CASE ShareDeleted(c)
    <2>1. /\ shares' \subseteq shares /\ deleteConfirm' = 0 /\ dialog' = dialog
          /\ calls' = calls \ {c}
          /\ UNCHANGED <<ids, clicks, timers, codes, overlapped, host_handles, tasks>>
      BY <1>7 DEF ShareDeleted, RemoveShareFromHistory, backend
    <2>2. /\ shares' \subseteq ShareHistoryItem /\ HistoryKeyed'
          /\ dialog' \in [open : BOOLEAN, path : Path \cup {None}, hosting : BOOLEAN,
                          shareId : Id \cup {0}]
      BY <2>1 DEF SharesInd, SharesTypeOK, ListInd, HistoryKeyed
    <2>. QED
      BY <2>1, <2>2, HandlerDone
  <1>8. CASE SyncRead(c)
    <2>1. ActiveHosts \in SUBSET HostInfo
      BY DEF ActiveHosts, SharesInd, SharesTypeOK
    <2>2. PICK d : d = [c EXCEPT !.at = "answer", !.hosts = ActiveHosts]
      OBVIOUS
    <2>3. d \in Call /\ d.op = c.op /\ d.at = "answer" /\ c.op # "create"
      BY <1>0, <1>8, <2>1, <2>2 DEF Call, Stage, SyncRead, CallOK
    <2>4. CallOK(d, ids) /\ ~Started(d)
      BY <2>3 DEF CallOK, Started
    <2>5. /\ calls' = (calls \ {c}) \cup {d} /\ UNCHANGED ui
          /\ UNCHANGED <<ids, clicks, timers, codes, overlapped, host_handles, tasks>>
      BY <1>8, <2>2 DEF SyncRead, Advance, backend
    <2>6. PICK D : D = {d}
      OBVIOUS
    <2>7. /\ D \in SUBSET Call /\ (\A a, e \in D : a = e) /\ calls' = (calls \ {c}) \cup D
          /\ \A e \in D : /\ CallOK(e, ids) /\ ~Started(e)
                          /\ e.op = "create" => c.op = "create" /\ e.id = c.id
      BY <2>3, <2>4, <2>5, <2>6
    <2>. QED
      BY <2>5, <2>7, PlainEnd
  <1>9. CASE SyncApply(c)
    <2>1. c.hosts \in SUBSET HostInfo
      BY <1>0 DEF Call
    <2>2. PICK found \in [{h.path : h \in c.hosts} -> c.hosts] :
             shares' = SyncedShares(c.hosts, found)
      BY <1>9 DEF SyncApply
    <2>3. /\ shares' \subseteq ShareHistoryItem /\ HistoryKeyed'
          /\ \A s \in shares' : \E t \in shares : t.id = s.id
      BY <2>1, <2>2, SyncedHistory
    <2>4. /\ calls' = calls \ {c} /\ deleteConfirm' \in Id \cup {0}
          /\ dialog' \in [open : BOOLEAN, path : Path \cup {None}, hosting : BOOLEAN,
                          shareId : Id \cup {0}]
          /\ UNCHANGED <<ids, clicks, timers, codes, overlapped, host_handles, tasks>>
      BY <1>9 DEF SyncApply, SharesInd, SharesTypeOK, backend
    <2>. QED
      BY <2>3, <2>4, HandlerDone
  <1>. QED
    BY <1>1, <1>2, <1>3, <1>4, <1>5, <1>6, <1>7, <1>8, <1>9 DEF Progress

(* The poll's timer fires. *)
LEMMA SyncStartStep ==
    ASSUME SharesInd, SyncStart
    PROVE  SharesInd'
  <1>1. SyncCall \in Call /\ SyncCall.op = "sync" /\ SyncCall.at = "read"
    BY NewCallFacts DEF SyncCall, Op, Stage
  <1>2. ~Started(SyncCall) /\ CallOK(SyncCall, ids)
    BY <1>1 DEF Started, CallOK
  <1>3. /\ calls' = calls \cup {SyncCall} /\ ids' = ids /\ ids \in 0 .. MaxShares
        /\ UNCHANGED backend /\ shares' = shares
    BY DEF SyncStart, SharesInd, SharesTypeOK, ui
  <1>4. CallsInd' /\ FreshIds' /\ HostInd' /\ CountInd' /\ calls' \subseteq Call
    BY <1>1, <1>2, <1>3, AddCall
  <1>5. SharesTypeOK' /\ HistoryKeyed'
    BY <1>4 DEF SyncStart, SharesInd, SharesTypeOK, ListInd, HistoryKeyed, ui, backend
  <1>. QED
    BY <1>4, <1>5 DEF SharesInd, ListInd

LEMMA SharesStep ==
    ASSUME SharesInd, [SharesNext]_vars
    PROVE  SharesInd'
  <1>1. CASE User
    BY <1>1, UserStep
  <1>2. ASSUME NEW c \in calls, Progress(c) PROVE SharesInd'
    BY <1>2, ProgressStep
  <1>3. CASE SyncStart
    BY <1>3, SyncStartStep
  <1>4. ASSUME NEW i \in Id, Expire(i) PROVE SharesInd'
    BY <1>4, ExpireStep
  <1>5. ASSUME NEW t \in tasks, ServeFails(t) PROVE SharesInd'
    BY <1>5, ServeFailsStep
  <1>6. CASE UNCHANGED vars
    BY <1>6, DialogStep DEF vars, backend, SharesInd, SharesTypeOK
  <1>. QED
    BY <1>1, <1>2, <1>3, <1>4, <1>5, <1>6 DEF SharesNext

(* The list of shares and the backend's map fit together in every          *)
(* reachable state: cards are keyed by id and by folder, and every host    *)
(* that serves a folder is the one the map names under its id, so that it  *)
(* can be stopped, unless two starts of that id overlapped.                *)
THEOREM SharesFitTogether == SharesSpec => []SharesInv
  <1>1. SharesInd => SharesInv
    BY DEF SharesInd, SharesInv, ListInd, HostInd
  <1>. QED
    BY <1>1, SharesIndInit, SharesStep, PTL DEF SharesSpec
=============================================================================
