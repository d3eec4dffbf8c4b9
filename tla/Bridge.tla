------------------------------- MODULE Bridge -------------------------------
(***************************************************************************)
(* The bridge between filesystem threads, which block, and the async       *)
(* client, which serves their requests one after the other                 *)
(* (crates/teleport-daemon/src/bridge.rs, client.rs).                      *)
(*                                                                         *)
(* The callers are the FUSE thread, which lives as long as the filesystem  *)
(* is mounted, and prefetch threads, each of which makes one call and      *)
(* ends.  Every call puts a request with a oneshot sender into a bounded   *)
(* channel and waits for the answer.  All kinds of requests behave alike,  *)
(* so a request is the name of its caller.  When the handler stops it      *)
(* drops the only receiver: the channel discards what is queued, and the   *)
(* callers of those requests see their oneshot closed.                     *)
(***************************************************************************)
EXTENDS Naturals, Sequences, FiniteSets

CONSTANTS
    Fuse,           \* the FUSE thread
    Prefetcher,     \* prefetch threads
    Capacity,       \* MAX_INFLIGHT_REQUESTS
    Shutdown        \* FuseRequest::Shutdown

ASSUME CapacityAssumption == Capacity \in Nat \ {0}
ASSUME NamesAssumption ==
    Fuse \notin Prefetcher /\ Shutdown \notin Prefetcher \cup {Fuse}

VARIABLES
    mounted,        \* whether the FUSE session, with its bridge, is alive
    caller,         \* what each caller is doing
    channel,        \* the request channel
    handler         \* the client: connecting, idle, stopped or serving

bridgeVars == <<mounted, caller, channel, handler>>

Caller == Prefetcher \cup {Fuse}

Handler == [at : {"connecting", "idle", "stopped"}] \cup [at : {"serving"}, for : Caller]

BTypeOK ==
    /\ mounted \in BOOLEAN
    /\ caller \in [Caller -> {"idle", "spawned", "blocked", "waiting"}]
    /\ channel \in Seq(Caller \cup {Shutdown})
    /\ Len(channel) <= Capacity
    /\ handler \in Handler

BInit ==
    /\ mounted = TRUE
    /\ caller = [t \in Caller |-> "idle"]
    /\ channel = <<>>
    /\ handler = [at |-> "connecting"]

Full == Len(channel) = Capacity

Connected == handler.at # "stopped"
-----------------------------------------------------------------------------
(* Callers: send_request, then recv_response. *)

(* prefetch_chunks starts a thread, which may get to run much later. *)
Spawn(t) ==
    /\ mounted
    /\ caller[t] = "idle"
    /\ caller' = [caller EXCEPT ![t] = "spawned"]
    /\ UNCHANGED <<mounted, channel, handler>>

Ready(t) == IF t = Fuse THEN mounted /\ caller[t] = "idle" ELSE caller[t] = "spawned"

Enqueue(t) ==
    /\ channel' = Append(channel, t)
    /\ caller' = [caller EXCEPT ![t] = "waiting"]
    /\ UNCHANGED <<mounted, handler>>

TrySend(t) == Ready(t) /\ Connected /\ ~Full /\ Enqueue(t)

(* The channel is full: send_timeout. *)
TrySendFull(t) ==
    /\ Ready(t) /\ Connected /\ Full
    /\ caller' = [caller EXCEPT ![t] = "blocked"]
    /\ UNCHANGED <<mounted, channel, handler>>

SendTimeoutOk(t) == caller[t] = "blocked" /\ Connected /\ ~Full /\ Enqueue(t)

(* FuseError::Timeout; the request is gone with it. *)
SendTimeoutExpires(t) ==
    /\ caller[t] = "blocked" /\ Connected /\ Full
    /\ caller' = [caller EXCEPT ![t] = "idle"]
    /\ UNCHANGED <<mounted, channel, handler>>

(* Seeded fault: a caller that waits for room is not told. *)
SendDisconnectedLate(t) ==
    /\ Ready(t) /\ ~Connected
    /\ caller' = [caller EXCEPT ![t] = "idle"]
    /\ UNCHANGED <<mounted, channel, handler>>

(* FuseError::Shutdown, at once or while waiting for room. *)
SendDisconnected(t) ==
    /\ Ready(t) \/ caller[t] = "blocked"
    /\ ~Connected
    /\ caller' = [caller EXCEPT ![t] = "idle"]
    /\ UNCHANGED <<mounted, channel, handler>>

(* shutdown() tries once and ignores a full channel. *)
RequestShutdown ==
    /\ mounted
    /\ channel' = IF Connected /\ ~Full THEN Append(channel, Shutdown) ELSE channel
    /\ UNCHANGED <<mounted, caller, handler>>

(* The session ends between two calls and drops its bridge. *)
Unmount ==
    /\ mounted
    /\ caller[Fuse] = "idle"
    /\ mounted' = FALSE
    /\ UNCHANGED <<caller, channel, handler>>
-----------------------------------------------------------------------------
(* The client: connect, then BridgeHandler::run. *)

(* Seeded fault: the receiver lives on, and with it what is queued. *)
StopKeepsQueue ==
    /\ handler' = [at |-> "stopped"]
    /\ UNCHANGED <<mounted, caller, channel>>

(* The receiver is dropped: recv_response of every queued request returns. *)
Stop ==
    /\ handler' = [at |-> "stopped"]
    /\ channel' = <<>>
    /\ caller' = [t \in Caller |-> IF caller[t] = "waiting" THEN "idle" ELSE caller[t]]
    /\ UNCHANGED <<mounted>>

ConnectOk ==
    /\ handler.at = "connecting"
    /\ handler' = [at |-> "idle"]
    /\ UNCHANGED <<mounted, caller, channel>>

ConnectFails == handler.at = "connecting" /\ Stop

TakeRequest ==
    /\ handler.at = "idle"
    /\ channel # <<>> /\ Head(channel) # Shutdown
    /\ handler' = [at |-> "serving", for |-> Head(channel)]
    /\ channel' = Tail(channel)
    /\ UNCHANGED <<mounted, caller>>

TakeShutdown ==
    /\ handler.at = "idle"
    /\ channel # <<>> /\ Head(channel) = Shutdown
    /\ Stop

(* Some bridge is alive: the session's or a prefetch thread's clone. *)
SomeSender == mounted \/ \E t \in Prefetcher : caller[t] # "idle"

(* Seeded fault: a disconnected channel is taken for a timeout. *)
DisconnectedIgnored ==
    /\ handler.at = "idle" /\ channel = <<>> /\ ~SomeSender
    /\ UNCHANGED bridgeVars

(* RecvTimeoutError::Disconnected: no sender is left and nothing queued. *)
Disconnected ==
    /\ handler.at = "idle" /\ channel = <<>> /\ ~SomeSender
    /\ Stop

(* The answer from the host, or the error of the call to it. *)
Reply ==
    /\ handler.at = "serving"
    /\ caller' = [caller EXCEPT ![handler.for] = "idle"]
    /\ handler' = [at |-> "idle"]
    /\ UNCHANGED <<mounted, channel>>
-----------------------------------------------------------------------------
SendRequest(t) ==
    \/ TrySend(t) \/ TrySendFull(t)
    \/ SendTimeoutOk(t) \/ SendTimeoutExpires(t) \/ SendDisconnected(t)

Run == ConnectOk \/ ConnectFails \/ TakeRequest \/ TakeShutdown \/ Disconnected

BNext ==
    \/ \E t \in Prefetcher : Spawn(t)
    \/ \E t \in Caller : SendRequest(t)
    \/ RequestShutdown \/ Unmount
    \/ Run \/ Reply

BSpec == BInit /\ [][BNext]_bridgeVars

(* A call that has begun to send goes on, and so does a prefetch thread.   *)
InCall(t) == SendRequest(t) /\ caller[t] # "idle"
-----------------------------------------------------------------------------
Places(t) == {k \in 1 .. Len(channel) : channel[k] = t}

(* Nobody is forgotten: a caller that waits has its request in the channel *)
(* of a live handler once or in its hands, and not both; a request in the  *)
(* channel has its caller waiting, so that nothing is served for a call    *)
(* that has timed out.                                                     *)
CallAccounted ==
    \A t \in Caller :
        LET serving == handler = [at |-> "serving", for |-> t]
        IN  /\ caller[t] = "waiting" =>
                   Connected /\ serving # (Cardinality(Places(t)) = 1)
            /\ caller[t] # "waiting" => ~serving /\ Places(t) = {}

(* The channel keeps its bound, and every request in it or with the        *)
(* handler has its caller waiting.                                         *)
BridgeInv == BTypeOK /\ CallAccounted

(* Every call returns, also when the channel is full, the connection never *)
(* comes up, or the handler stops while the call is queued.                *)
EveryCallReturns ==
    \A t \in Caller : caller[t] \in {"blocked", "waiting"} ~> caller[t] = "idle"

(* Once the filesystem is unmounted the client ends. *)
UnmountEndsClient == ~mounted ~> handler.at = "stopped"

(* A shutdown that found room in the channel stops the handler, whatever   *)
(* is queued before it and however many calls are made meanwhile.          *)
ShutdownStops ==
    (\E k \in 1 .. Len(channel) : channel[k] = Shutdown) ~> handler.at = "stopped"

(* The client ends when it should: after an unmount, and after a shutdown  *)
(* that got into the channel.                                              *)
StopsInTheEnd == UnmountEndsClient /\ ShutdownStops
=============================================================================
