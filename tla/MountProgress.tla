--------------------------- MODULE MountProgress ---------------------------
(***************************************************************************)
(* What must happen in the end around one mounted share, on its two sides: *)
(* the bridge between filesystem threads and the client, and the lock      *)
(* service of the host.  The bridge does not look into the requests it     *)
(* carries and the lock service does not know how its clients come by      *)
(* them, so the two share no state; a behaviour exercises one side while   *)
(* the other stays as it starts, under the fairness of its scheduler.      *)
(***************************************************************************)
EXTENDS LockService, Bridge

VARIABLE side

progressVars == <<side, vars, bridgeVars>>

ProgressInit == side \in {"locks", "bridge"} /\ Init /\ BInit

OnlyLocks == side = "locks" /\ UNCHANGED <<side, bridgeVars>>

OnlyBridge == side = "bridge" /\ UNCHANGED <<side, vars>>

ProgressNext ==
    \/ OnlyLocks /\ Next
    \/ OnlyBridge /\ BNext

(* On the host time goes on and the runtime polls every loop and every     *)
(* task it has.  On the client the threads are scheduled, and every call   *)
(* to the host ends: it is answered, its stream is reset, or the           *)
(* connection's idle timeout fails it (net.rs IDLE_TIMEOUT).               *)
ProgressSpec ==
    /\ ProgressInit /\ [][ProgressNext]_progressVars
    /\ WF_progressVars(OnlyLocks /\ TimePasses)
    /\ \A c \in Holder : WF_progressVars(OnlyLocks /\ HostLoop(c))
    /\ \A c \in Holder, s \in Slot : WF_progressVars(OnlyLocks /\ HostTask(c, s))
    /\ WF_progressVars(OnlyBridge /\ Run)
    /\ WF_progressVars(OnlyBridge /\ Reply)
    /\ \A t \in Caller : WF_progressVars(OnlyBridge /\ InCall(t))
=============================================================================
