---------------------------- MODULE BridgeProofs ----------------------------
(***************************************************************************)
(* Proofs about the bridge between filesystem threads and the client, for  *)
(* any number of prefetch threads and any capacity of the channel.         *)
(*                                                                         *)
(* A caller waits exactly as long as its request is queued or being        *)
(* served.  For that to be kept the channel must never hold two requests   *)
(* of one caller, and a stopped handler must leave nothing queued.         *)
(***************************************************************************)
EXTENDS Bridge, FiniteSetTheorems, SequenceTheorems, TLAPS

Queued(t) == \E k \in 1 .. Len(channel) : channel[k] = t

Serving(t) == handler.at = "serving" /\ handler.for = t

(* A caller has at most one request in the channel. *)
QueuedOnce ==
    \A j, k \in 1 .. Len(channel) :
        channel[j] = channel[k] /\ channel[j] \in Caller => j = k

WaitingInv ==
    \A t \in Caller : /\ caller[t] = "waiting" <=> Queued(t) \/ Serving(t)
                      /\ ~(Queued(t) /\ Serving(t))

(* The inductive invariant. *)
BInd == /\ BTypeOK /\ QueuedOnce /\ WaitingInv
        /\ handler.at = "stopped" => channel = <<>>
-----------------------------------------------------------------------------
LEMMA HandlerFields ==
    ASSUME BTypeOK
    PROVE  /\ handler.at \in {"connecting", "idle", "stopped", "serving"}
           /\ handler.at = "serving" => handler.for \in Caller
           /\ \A t : Serving(t) <=> handler = [at |-> "serving", for |-> t]
  BY DEF BTypeOK, Handler, Serving

LEMMA ChannelFacts ==
    ASSUME BTypeOK
    PROVE  /\ channel \in Seq(Caller \cup {Shutdown}) /\ Len(channel) \in Nat
           /\ \A k \in 1 .. Len(channel) : channel[k] \in Caller \cup {Shutdown}
           /\ channel = <<>> <=> Len(channel) = 0
  BY ElementOfSeq, LenProperties, EmptySeq DEF BTypeOK

LEMMA ShutdownIsNoCaller == Shutdown \notin Caller
  BY NamesAssumption DEF Caller

(* The places of a request in the channel, counted. *)
LEMMA PlacesFacts ==
    ASSUME BTypeOK, QueuedOnce, NEW t \in Caller
    PROVE  /\ Queued(t) <=> Cardinality(Places(t)) = 1
           /\ ~Queued(t) <=> Places(t) = {}
  <1>1. CASE Queued(t)
    <2>1. PICK k \in 1 .. Len(channel) : channel[k] = t
      BY <1>1 DEF Queued
    <2>2. Places(t) = {k}
      BY <2>1 DEF Places, QueuedOnce
    <2>3. Cardinality({k}) = 1
      BY FS_Singleton
    <2>. QED
      BY <1>1, <2>2, <2>3
  <1>2. CASE ~Queued(t)
    <2>1. Places(t) = {}
      BY <1>2 DEF Places, Queued
    <2>2. Cardinality({}) = 0
      BY FS_EmptySet
    <2>. QED
      BY <1>2, <2>1, <2>2
  <1>. QED
    BY <1>1, <1>2

LEMMA IndImpliesInv == BInd => BridgeInv
  <1>. SUFFICES ASSUME BInd, NEW t \in Caller
                PROVE  LET serving == handler = [at |-> "serving", for |-> t]
                       IN  /\ caller[t] = "waiting" =>
                                 Connected /\ serving # (Cardinality(Places(t)) = 1)
                           /\ caller[t] # "waiting" => ~serving /\ Places(t) = {}
    BY DEF BInd, BridgeInv, CallAccounted
  <1>1. Serving(t) <=> handler = [at |-> "serving", for |-> t]
    BY HandlerFields DEF BInd
  <1>2. /\ Queued(t) <=> Cardinality(Places(t)) = 1
        /\ ~Queued(t) <=> Places(t) = {}
    BY PlacesFacts DEF BInd
  <1>3. /\ caller[t] = "waiting" <=> Queued(t) \/ Serving(t)
        /\ ~(Queued(t) /\ Serving(t))
    BY DEF BInd, WaitingInv
  <1>4. Queued(t) \/ Serving(t) => Connected
    <2>1. channel = <<>> => ~Queued(t)
      BY ChannelFacts DEF BInd, Queued
    <2>. QED
      BY <2>1 DEF BInd, Serving, Connected
  <1>. QED
    BY <1>1, <1>2, <1>3, <1>4
-----------------------------------------------------------------------------
(* Steps that move a caller that is not waiting, and nothing else. *)
LEMMA CallerStep ==
    ASSUME BInd, NEW t \in Caller, caller[t] # "waiting",
           NEW place \in {"idle", "spawned", "blocked"},
           caller' = [caller EXCEPT ![t] = place], UNCHANGED <<mounted, channel, handler>>
    PROVE  BInd'
  <1>1. BTypeOK'
    BY DEF BInd, BTypeOK
  <1>2. \A u \in Caller : caller'[u] = "waiting" <=> caller[u] = "waiting"
    BY DEF BInd, BTypeOK
  <1>3. WaitingInv'
    BY <1>2 DEF BInd, WaitingInv, Queued, Serving
  <1>. QED
    BY <1>1, <1>3 DEF BInd, QueuedOnce

(* What the channel holds after a request was appended. *)
LEMMA AppendChannel ==
    ASSUME BTypeOK, NEW x \in Caller \cup {Shutdown}, channel' = Append(channel, x), ~Full
    PROVE  /\ channel' \in Seq(Caller \cup {Shutdown})
           /\ Len(channel') = Len(channel) + 1 /\ Len(channel') <= Capacity
           /\ \A k \in 1 .. Len(channel) : channel'[k] = channel[k]
           /\ channel'[Len(channel) + 1] = x
           /\ \A u : Queued(u)' <=> Queued(u) \/ u = x
  <1>1. Len(channel) \in Nat /\ channel \in Seq(Caller \cup {Shutdown})
    BY ChannelFacts
  <1>2. /\ channel' \in Seq(Caller \cup {Shutdown})
        /\ Len(channel') = Len(channel) + 1
        /\ \A k \in 1 .. Len(channel) : channel'[k] = channel[k]
        /\ channel'[Len(channel) + 1] = x
    BY <1>1, AppendProperties
  <1>3. Len(channel') <= Capacity
    BY <1>1, <1>2, CapacityAssumption DEF BTypeOK, Full
  <1>4. ASSUME NEW u
        PROVE  Queued(u)' <=> Queued(u) \/ u = x
    <2>1. \A k \in 1 .. Len(channel') : k \in 1 .. Len(channel) \/ k = Len(channel) + 1
      BY <1>1, <1>2
    <2>2. \A k \in 1 .. Len(channel) : k \in 1 .. Len(channel')
      BY <1>1, <1>2
    <2>3. Len(channel) + 1 \in 1 .. Len(channel')
      BY <1>1, <1>2
    <2>. QED
      BY <1>2, <2>1, <2>2, <2>3 DEF Queued
  <1>. QED
    BY <1>2, <1>3, <1>4

LEMMA EnqueueInd ==
    ASSUME BInd, NEW t \in Caller, caller[t] # "waiting", Connected, ~Full, Enqueue(t)
    PROVE  BInd'
  <1>0. BTypeOK /\ channel' = Append(channel, t)
    BY DEF BInd, Enqueue
  <1>1. /\ channel' \in Seq(Caller \cup {Shutdown})
        /\ Len(channel') = Len(channel) + 1 /\ Len(channel') <= Capacity
        /\ \A k \in 1 .. Len(channel) : channel'[k] = channel[k]
        /\ channel'[Len(channel) + 1] = t
    BY <1>0, AppendChannel
  <1>2. \A u : Queued(u)' <=> Queued(u) \/ u = t
    BY <1>0, AppendChannel
  <1>3. BTypeOK'
    BY <1>1 DEF BInd, BTypeOK, Enqueue
  <1>4. /\ caller'[t] = "waiting" /\ \A u \in Caller \ {t} : caller'[u] = caller[u]
        /\ handler' = handler /\ handler.at # "stopped"
    BY DEF BInd, BTypeOK, Enqueue, Connected
  <1>5. ~Queued(t) /\ ~Serving(t)
    BY DEF BInd, WaitingInv
  <1>6. WaitingInv'
    BY <1>2, <1>4, <1>5 DEF BInd, WaitingInv, Serving
  <1>7. QueuedOnce'
    <2>1. \A k \in 1 .. Len(channel') : k \in 1 .. Len(channel) \/ k = Len(channel) + 1
      BY <1>0, <1>1, ChannelFacts
    <2>2. \A k \in 1 .. Len(channel) : channel'[k] # t
      BY <1>1, <1>5 DEF Queued
    <2>. QED
      BY <1>1, <2>1, <2>2 DEF BInd, QueuedOnce
  <1>. QED
    BY <1>3, <1>4, <1>6, <1>7 DEF BInd

LEMMA SendRequestInd ==
    ASSUME BInd, NEW t \in Caller, SendRequest(t)
    PROVE  BInd'
  <1>1. Ready(t) \/ caller[t] = "blocked" => caller[t] # "waiting"
    BY DEF Ready
  <1>2. CASE TrySend(t) \/ SendTimeoutOk(t)
    BY <1>1, <1>2, EnqueueInd DEF TrySend, SendTimeoutOk
  <1>3. CASE TrySendFull(t)
    BY <1>1, <1>3, CallerStep DEF TrySendFull
  <1>4. CASE SendTimeoutExpires(t)
    BY <1>1, <1>4, CallerStep DEF SendTimeoutExpires
  <1>5. CASE SendDisconnected(t)
    BY <1>1, <1>5, CallerStep DEF SendDisconnected
  <1>. QED
    BY <1>2, <1>3, <1>4, <1>5 DEF SendRequest

LEMMA RequestShutdownInd ==
    ASSUME BInd, RequestShutdown
    PROVE  BInd'
  <1>1. CASE Connected /\ ~Full
    <2>0. BTypeOK /\ channel' = Append(channel, Shutdown)
      BY <1>1 DEF BInd, RequestShutdown
    <2>1. /\ channel' \in Seq(Caller \cup {Shutdown})
          /\ Len(channel') = Len(channel) + 1 /\ Len(channel') <= Capacity
          /\ \A k \in 1 .. Len(channel) : channel'[k] = channel[k]
          /\ channel'[Len(channel) + 1] = Shutdown
      BY <1>1, <2>0, AppendChannel
    <2>2. \A u : Queued(u)' <=> Queued(u) \/ u = Shutdown
      BY <1>1, <2>0, AppendChannel
    <2>3. BTypeOK'
      BY <2>1 DEF BInd, BTypeOK, RequestShutdown
    <2>4. WaitingInv'
      BY <2>2, ShutdownIsNoCaller DEF BInd, WaitingInv, Serving, RequestShutdown
    <2>5. QueuedOnce'
      <3>1. \A k \in 1 .. Len(channel') : k \in 1 .. Len(channel) \/ k = Len(channel) + 1
        BY <2>0, <2>1, ChannelFacts
      <3>. QED
        BY <2>1, <3>1, ShutdownIsNoCaller DEF BInd, QueuedOnce
    <2>6. handler'.at # "stopped"
      BY <1>1 DEF Connected, RequestShutdown
    <2>. QED
      BY <2>3, <2>4, <2>5, <2>6 DEF BInd
  <1>2. CASE ~(Connected /\ ~Full)
    <2>1. UNCHANGED bridgeVars
      BY <1>2 DEF RequestShutdown, bridgeVars
    <2>. QED
      BY <2>1 DEF BInd, BTypeOK, QueuedOnce, WaitingInv, Queued, Serving, bridgeVars
  <1>. QED
    BY <1>1, <1>2
-----------------------------------------------------------------------------
(* The handler stops: nothing is queued any more and nobody waits. *)
LEMMA StopInd ==
    ASSUME BInd, handler.at # "serving", Stop
    PROVE  BInd'
  <1>1. channel' = <<>> /\ Len(channel') = 0 /\ handler' = [at |-> "stopped"]
    BY DEF Stop
  <1>2. BTypeOK'
    BY <1>1, EmptySeq, CapacityAssumption DEF BInd, BTypeOK, Handler, Stop
  <1>3. \A t \in Caller : caller'[t] # "waiting"
    BY DEF Stop
  <1>4. WaitingInv'
    BY <1>1, <1>3 DEF WaitingInv, Queued, Serving
  <1>5. QueuedOnce'
    BY <1>1 DEF QueuedOnce
  <1>. QED
    BY <1>1, <1>2, <1>4, <1>5 DEF BInd

LEMMA ConnectOkInd ==
    ASSUME BInd, ConnectOk
    PROVE  BInd'
  <1>1. handler'.at = "idle" /\ handler.at = "connecting" /\ UNCHANGED <<channel, caller>>
    BY DEF ConnectOk
  <1>2. BTypeOK'
    BY DEF BInd, BTypeOK, Handler, ConnectOk
  <1>3. WaitingInv'
    BY <1>1 DEF BInd, WaitingInv, Queued, Serving
  <1>. QED
    BY <1>1, <1>2, <1>3 DEF BInd, QueuedOnce

(* The request at the head goes from the channel to the handler. *)
LEMMA TakeRequestInd ==
    ASSUME BInd, TakeRequest
    PROVE  BInd'
  <1>0. BTypeOK /\ channel # <<>>
    BY DEF BInd, TakeRequest
  <1>1. /\ Len(channel) \in Nat \ {0} /\ Head(channel) = channel[1]
        /\ channel' \in Seq(Caller \cup {Shutdown}) /\ Len(channel') = Len(channel) - 1
        /\ \A k \in 1 .. Len(channel') : channel'[k] = channel[k + 1]
    BY <1>0, ChannelFacts, HeadTailProperties DEF TakeRequest
  <1>2. PICK t \in Caller : channel[1] = t /\ handler' = [at |-> "serving", for |-> t]
    <2>1. channel[1] \in Caller \cup {Shutdown}
      BY <1>0, <1>1, ChannelFacts
    <2>. QED
      BY <1>1, <2>1 DEF TakeRequest
  <1>3. \A k \in 1 .. Len(channel') : k + 1 \in 1 .. Len(channel) /\ k + 1 # 1
    BY <1>1
  <1>4. \A k \in 1 .. Len(channel) : k = 1 \/ k - 1 \in 1 .. Len(channel')
    BY <1>1
  <1>5. BTypeOK'
    <2>1. Len(channel') <= Capacity
      BY <1>1, CapacityAssumption DEF BInd, BTypeOK
    <2>2. handler' \in Handler
      BY <1>2 DEF Handler
    <2>. QED
      BY <1>1, <2>1, <2>2 DEF BInd, BTypeOK, TakeRequest
  <1>6. QueuedOnce'
    <2>1. ASSUME NEW j \in 1 .. Len(channel'), NEW k \in 1 .. Len(channel'),
                 channel'[j] = channel'[k], channel'[j] \in Caller
          PROVE  j = k
      <3>1. /\ channel[j + 1] = channel[k + 1] /\ channel[j + 1] \in Caller
            /\ j + 1 \in 1 .. Len(channel) /\ k + 1 \in 1 .. Len(channel)
        BY <1>1, <1>3, <2>1
      <3>2. j + 1 = k + 1
        BY <3>1 DEF BInd, QueuedOnce
      <3>. QED
        BY <1>1, <3>2
    <2>. QED
      BY <2>1 DEF QueuedOnce
  <1>7. ~Queued(t)'
    <2>1. 1 \in 1 .. Len(channel)
      BY <1>1
    <2>2. \A k \in 1 .. Len(channel') : channel'[k] # t
      BY <1>1, <1>2, <1>3, <2>1 DEF BInd, QueuedOnce
    <2>. QED
      BY <2>2 DEF Queued
  <1>8. ASSUME NEW u \in Caller \ {t}
        PROVE  Queued(u)' <=> Queued(u)
    <2>1. Queued(u)' => Queued(u)
      BY <1>1, <1>3 DEF Queued
    <2>2. ASSUME Queued(u)
          PROVE  Queued(u)'
      <3>1. PICK k \in 1 .. Len(channel) : channel[k] = u
        BY <2>2 DEF Queued
      <3>2. k - 1 \in 1 .. Len(channel')
        BY <1>2, <1>4, <3>1
      <3>3. channel'[k - 1] = u
        BY <1>1, <3>1, <3>2
      <3>. QED
        BY <3>2, <3>3 DEF Queued
    <2>. QED
      BY <2>1, <2>2
  <1>9. caller[t] = "waiting"
    <2>1. Queued(t)
      BY <1>1, <1>2 DEF Queued
    <2>. QED
      BY <2>1 DEF BInd, WaitingInv
  <1>10. handler.at = "idle" /\ caller' = caller
    BY DEF TakeRequest
  <1>11. WaitingInv'
    <2>1. \A u \in Caller : Serving(u)' <=> u = t
      BY <1>2 DEF Serving
    <2>2. \A u \in Caller : ~Serving(u)
      BY <1>10 DEF Serving
    <2>. QED
      BY <1>7, <1>8, <1>9, <1>10, <2>1, <2>2 DEF BInd, WaitingInv
  <1>. QED
    BY <1>2, <1>5, <1>6, <1>11 DEF BInd

LEMMA ReplyInd ==
    ASSUME BInd, Reply
    PROVE  BInd'
  <1>1. PICK t \in Caller : handler.for = t /\ handler.at = "serving"
    BY HandlerFields DEF BInd, Reply
  <1>2. /\ caller'[t] = "idle" /\ \A u \in Caller \ {t} : caller'[u] = caller[u]
        /\ handler' = [at |-> "idle"] /\ channel' = channel
    BY <1>1 DEF BInd, BTypeOK, Reply
  <1>3. BTypeOK'
    BY <1>1 DEF BInd, BTypeOK, Handler, Reply
  <1>4. WaitingInv'
    BY <1>1, <1>2 DEF BInd, WaitingInv, Queued, Serving
  <1>. QED
    BY <1>2, <1>3, <1>4 DEF BInd, QueuedOnce

LEMMA BInitInd == BInit => BInd
  <1>. SUFFICES ASSUME BInit
                PROVE  BInd
    OBVIOUS
  <1>1. Len(channel) = 0
    BY DEF BInit
  <1>2. BTypeOK
    BY <1>1, EmptySeq, CapacityAssumption DEF BInit, BTypeOK, Handler
  <1>. QED
    BY <1>1, <1>2 DEF BInit, BInd, QueuedOnce, WaitingInv, Queued, Serving

LEMMA BNextInd == BInd /\ [BNext]_bridgeVars => BInd'
  <1>. SUFFICES ASSUME BInd, [BNext]_bridgeVars
                PROVE  BInd'
    OBVIOUS
  <1>1. CASE UNCHANGED bridgeVars
    BY <1>1 DEF BInd, BTypeOK, QueuedOnce, WaitingInv, Queued, Serving, bridgeVars
  <1>2. ASSUME NEW t \in Prefetcher, Spawn(t)
        PROVE  BInd'
    <2>1. t \in Caller /\ caller[t] # "waiting"
      BY <1>2 DEF Caller, Spawn
    <2>. QED
      BY <1>2, <2>1, CallerStep DEF Spawn
  <1>3. ASSUME NEW t \in Caller, SendRequest(t)
        PROVE  BInd'
    BY <1>3, SendRequestInd
  <1>4. CASE RequestShutdown
    BY <1>4, RequestShutdownInd
  <1>5. CASE Unmount
    <2>1. mounted' \in BOOLEAN /\ UNCHANGED <<caller, channel, handler>>
      BY <1>5 DEF Unmount
    <2>2. BTypeOK'
      BY <2>1 DEF BInd, BTypeOK
    <2>3. WaitingInv' /\ QueuedOnce'
      BY <2>1 DEF BInd, QueuedOnce, WaitingInv, Queued, Serving
    <2>. QED
      BY <2>1, <2>2, <2>3 DEF BInd
  <1>6. CASE Run
    BY <1>6, ConnectOkInd, TakeRequestInd, StopInd
    DEF Run, ConnectFails, TakeShutdown, Disconnected
  <1>7. CASE Reply
    BY <1>7, ReplyInd
  <1>. QED
    BY <1>1, <1>2, <1>3, <1>4, <1>5, <1>6, <1>7 DEF BNext

(* The channel keeps its bound (MAX_INFLIGHT_REQUESTS), a caller that      *)
(* waits has its request queued once or with the handler and not both, and *)
(* no request is queued or served for a caller that has given up.          *)
THEOREM BridgeAccounts == BSpec => []BridgeInv
  BY BInitInd, BNextInd, IndImpliesInv, PTL DEF BSpec
=============================================================================
