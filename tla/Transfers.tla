----------------------------- MODULE Transfers -----------------------------
(***************************************************************************)
(* Exports of files from a mounted share and the panel that reports them.  *)
(* export_file copies in a task of its own and emits an event now and      *)
(* then, and one at the end; the panel of the desktop application listens  *)
(* for both kinds of events while it is mounted, which it is not while the *)
(* wizard is shown or the page reloads.  Its two listeners are registered  *)
(* one after the other, and an event without a listener is dropped.        *)
(*                                                                         *)
(* The commands are registered with Tauri and have no caller in the        *)
(* interface yet.  Left out: speeds, times and sizes.                      *)
(***************************************************************************)
EXTENDS Naturals, Sequences, SequencesExt, FiniteSets, Filtering

CONSTANTS Transfer,     \* transfer_ids, each used once
          MaxChunks     \* bound: buffers of a file

ASSUME TransfersAssumption == MaxChunks \in Nat \ {0}

VARIABLES
    exports,            \* the state of each task and the buffers it has copied
    events,             \* emitted and not yet delivered
    listening,          \* the listeners of the panel: none, progress, both
    activeTransfers,    \* the panel's rows: ids, with the buffers reported
    completedTransfers, \* the panel's notices
    lost                \* history variable: the exports whose end was dropped, and
                        \* what the panel listened for then

transfersVars == <<exports, events, listening, activeTransfers, completedTransfers, lost>>

Event == [kind : {"progress"}, id : Transfer, bytes : 1 .. MaxChunks]
            \cup [kind : {"completed"}, id : Transfer, success : BOOLEAN]

TransfersTypeOK ==
    /\ exports \in [Transfer -> [state : {"none", "copying", "ended"}, bytes : 0 .. MaxChunks]]
    /\ \A i \in DOMAIN events : events[i] \in Event
    /\ listening \in {"none", "progress", "both"}
    /\ DOMAIN activeTransfers \subseteq Transfer
    /\ \A t \in DOMAIN activeTransfers : activeTransfers[t] \in 1 .. exports[t].bytes
    /\ \A i \in DOMAIN completedTransfers :
          completedTransfers[i] \in [id : Transfer, success : BOOLEAN]
    /\ lost \subseteq Transfer \X {"none", "progress"}

TransfersInit ==
    /\ exports = [t \in Transfer |-> [state |-> "none", bytes |-> 0]]
    /\ events = <<>>
    /\ listening = "none"
    /\ activeTransfers = <<>> /\ completedTransfers = <<>>
    /\ lost = {}

-----------------------------------------------------------------------------
(* export_file for one file, or export_files_batch: the files before the   *)
(* first one that is refused are copied, whatever the command answers.     *)
ExportFiles ==
    /\ \E batch \in SUBSET {t \in Transfer : exports[t].state = "none"} :
          /\ batch # {}
          /\ exports' = [t \in Transfer |->
                           IF t \in batch THEN [exports[t] EXCEPT !.state = "copying"]
                           ELSE exports[t]]
    /\ UNCHANGED <<events, listening, activeTransfers, completedTransfers, lost>>

(* A buffer is read and written; a tenth of a second has passed or not. *)
CopyBuffer(t) ==
    /\ exports[t].state = "copying" /\ exports[t].bytes < MaxChunks
    /\ exports' = [exports EXCEPT ![t].bytes = @ + 1]
    /\ \/ events' = Append(events, [kind |-> "progress", id |-> t, bytes |-> exports[t].bytes + 1])
       \/ UNCHANGED events
    /\ UNCHANGED <<listening, activeTransfers, completedTransfers, lost>>

(* Seeded fault: an error leaves the task before the event. *)
ExportEnds_Quietly(t) ==
    /\ exports[t].state = "copying"
    /\ exports' = [exports EXCEPT ![t].state = "ended"]
    /\ \/ events' = Append(events, [kind |-> "completed", id |-> t, success |-> TRUE])
       \/ UNCHANGED events
    /\ UNCHANGED <<listening, activeTransfers, completedTransfers, lost>>

(* Seeded fault: a failed read is reported and tried again. *)
ExportEnds_Retries(t) ==
    /\ exports[t].state = "copying"
    /\ \E ok \in BOOLEAN :
          /\ exports' = [exports EXCEPT ![t].state = IF ok THEN "ended" ELSE "copying"]
          /\ events' = Append(events, [kind |-> "completed", id |-> t, success |-> ok])
    /\ UNCHANGED <<listening, activeTransfers, completedTransfers, lost>>

(* The end of the file, or a read, write or sync that failed. *)
ExportEnds(t) ==
    /\ exports[t].state = "copying"
    /\ exports' = [exports EXCEPT ![t].state = "ended"]
    /\ \E ok \in BOOLEAN :
          events' = Append(events, [kind |-> "completed", id |-> t, success |-> ok])
    /\ UNCHANGED <<listening, activeTransfers, completedTransfers, lost>>

-----------------------------------------------------------------------------
(* The effect of the panel: the second listener is asked for when the      *)
(* first one is there.                                                     *)
Listen ==
    /\ listening # "both"
    /\ listening' = IF listening = "none" THEN "progress" ELSE "both"
    /\ UNCHANGED <<exports, events, activeTransfers, completedTransfers, lost>>

Ends(es) == {e \in ToSet(es) : e.kind = "completed"}

(* The panel goes with its state; events that are under way meet the next  *)
(* panel, or are dropped by the reload.                                    *)
Unmount ==
    /\ listening' = "none"
    /\ activeTransfers' = <<>> /\ completedTransfers' = <<>>
    /\ \/ UNCHANGED <<events, lost>>
       \/ /\ events' = <<>>
          /\ lost' = lost \cup {<<e.id, "none">> : e \in Ends(events)}
    /\ UNCHANGED exports

OnProgress(e) ==
    /\ activeTransfers' = [t \in DOMAIN activeTransfers \cup {e.id} |->
                             IF t = e.id THEN e.bytes ELSE activeTransfers[t]]
    /\ UNCHANGED <<completedTransfers, lost>>

OnCompleted(e) ==
    /\ activeTransfers' = [t \in DOMAIN activeTransfers \ {e.id} |-> activeTransfers[t]]
    /\ completedTransfers' = Append(completedTransfers, [id |-> e.id, success |-> e.success])
    /\ UNCHANGED lost

Dropped(e) ==
    /\ lost' = lost \cup {<<d.id, listening>> : d \in Ends(<<e>>)}
    /\ UNCHANGED <<activeTransfers, completedTransfers>>

(* The oldest event reaches the window. *)
Deliver ==
    /\ events # <<>>
    /\ events' = Tail(events)
    /\ LET e == Head(events)
       IN  IF e.kind = "progress" /\ listening # "none" THEN OnProgress(e)
           ELSE IF e.kind = "completed" /\ listening = "both" THEN OnCompleted(e)
           ELSE Dropped(e)
    /\ UNCHANGED <<exports, listening>>

(* dismissCompleted, by the button or by the timer of the notice.  Every   *)
(* rendering of the panel passes a new onDismiss, which starts the timer   *)
(* again: while events keep coming it may never run out.                   *)
DismissCompleted(id) ==
    /\ \E i \in DOMAIN completedTransfers : completedTransfers[i].id = id
    /\ completedTransfers' = Filter(completedTransfers, LAMBDA n : n.id # id)
    /\ UNCHANGED <<exports, events, listening, activeTransfers, lost>>

(* No event is to come that would render the panel again. *)
Quiet == events = <<>> /\ \A t \in Transfer : exports[t].state # "copying"

(* What happens without the user. *)
TransfersProgress ==
    \/ Deliver
    \/ \E t \in Transfer : ExportEnds(t) \/ (Quiet /\ DismissCompleted(t))

TransfersNext ==
    \/ ExportFiles \/ Listen \/ Unmount \/ Deliver
    \/ \E t \in Transfer : CopyBuffer(t) \/ ExportEnds(t) \/ DismissCompleted(t)

-----------------------------------------------------------------------------
(* A row of the panel stands for an export that is under way, or whose end *)
(* is about to be reported, however progress and ends of several exports   *)
(* and new panels interleave.  The one exception: the end came when the    *)
(* panel listened for progress and not yet for the end, and the row stays. *)
PanelTruthful ==
    \A t \in DOMAIN activeTransfers :
       \/ exports[t].state = "copying"
       \/ \E e \in Ends(events) : e.id = t
       \/ <<t, "progress">> \in lost

(* An export is reported once, after its end, and has no row any more: no  *)
(* late progress brings the row back.                                      *)
NoticeOnce ==
    \A i \in DOMAIN completedTransfers :
       LET t == completedTransfers[i].id
       IN  /\ exports[t].state = "ended" /\ t \notin DOMAIN activeTransfers
           /\ \A j \in DOMAIN completedTransfers : completedTransfers[j].id = t => i = j

(* The panel tells the truth: a row stands for an export under way, and a  *)
(* notice for one that ended, once.                                        *)
PanelInv == TransfersTypeOK /\ PanelTruthful /\ NoticeOnce

Noticed(t) == \E i \in DOMAIN completedTransfers : completedTransfers[i].id = t

(* Every export that was started is reported, failed ones and those of a   *)
(* batch that was refused half-way too, unless the panel was away when the *)
(* end was to be reported.                                                 *)
EveryExportReported ==
    \A t \in Transfer : exports[t].state = "copying" ~>
                         Noticed(t) \/ \E l \in {"none", "progress"} : <<t, l>> \in lost

(* The notices go away without a click, at the latest when the exports are *)
(* over.                                                                   *)
NoticesGo == completedTransfers # <<>> ~> completedTransfers = <<>>
=============================================================================
