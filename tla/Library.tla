------------------------------ MODULE Library ------------------------------
(***************************************************************************)
(* Recent files and projects of the desktop application: two hooks over    *)
(* localStorage whose entries refer to shares and connections, and drop    *)
(* them when the source leaves the history.  The application calls         *)
(* createProject and shows both lists; the other operations are offered by *)
(* the hooks, here to a caller who names sources that exist.               *)
(***************************************************************************)
EXTENDS Naturals, Sequences, SequencesExt, FiniteSets, Filtering

CONSTANTS ShareId, ConnectionId,
          File,             \* paths that may be opened
          Project,          \* ids of projects
          MAX_RECENT_FILES,
          Week,             \* days that count as this week
          MaxDay            \* bound of the clock

ASSUME RecentAssumption ==
    MAX_RECENT_FILES \in Nat \ {0} /\ Week \in Nat \ {0, 1} /\ MaxDay \in Nat

VARIABLES
    present,        \* ids of the shares and connections in the history
    recentFiles,    \* newest first
    projects,       \* the projects that exist, each with its members
    today

libraryVars == <<present, recentFiles, projects, today>>

LibraryTypeOK ==
    /\ present \subseteq ShareId \cup ConnectionId
    /\ \A i \in DOMAIN recentFiles :
          recentFiles[i] \in [path : File, sourceId : ShareId \cup ConnectionId, accessedAt : 0..MaxDay]
    /\ DOMAIN projects \subseteq Project
    /\ \A p \in DOMAIN projects : projects[p].shareIds \in Seq(ShareId)
                               /\ projects[p].connectionIds \in Seq(ConnectionId)
    /\ today \in 0..MaxDay

LibraryInit ==
    /\ present \in SUBSET (ShareId \cup ConnectionId)
    /\ recentFiles = <<>>
    /\ projects = <<>>
    /\ today = 0

-----------------------------------------------------------------------------
Trimmed(entries) ==
    SubSeq(entries, 1, IF Len(entries) < MAX_RECENT_FILES THEN Len(entries) ELSE MAX_RECENT_FILES)

(* A file that is known moves to the front and keeps its source. *)
addRecentFile(path, source) ==
    LET known == Filter(recentFiles, LAMBDA f : f.path = path)
        others == Filter(recentFiles, LAMBDA f : f.path # path)
        entry == IF known # <<>> THEN [known[1] EXCEPT !.accessedAt = today]
                 ELSE [path |-> path, sourceId |-> source, accessedAt |-> today]
    IN  recentFiles' = Trimmed(<<entry>> \o others)

OpenRecent ==
    /\ \E f \in File, s \in present : addRecentFile(f, s)
    /\ UNCHANGED <<present, projects, today>>

removeRecentFile ==
    /\ \E i \in DOMAIN recentFiles : recentFiles' = RemoveAt(recentFiles, i)
    /\ UNCHANGED <<present, projects, today>>

clearRecentFiles ==
    /\ recentFiles # <<>>
    /\ recentFiles' = <<>>
    /\ UNCHANGED <<present, projects, today>>

(* groupRecentFilesByTime: the entries of each part of the view, in order. *)
groupRecentFilesByTime ==
    LET of(a, b) == Filter(recentFiles, LAMBDA f : f.accessedAt + b >= today
                                                   /\ f.accessedAt + a < today + 1)
    IN  [today |-> of(0, 0), yesterday |-> of(1, 1), thisWeek |-> of(2, Week),
         earlier |-> of(Week + 1, MaxDay)]

(* The view Recent: one part under the other. *)
RecentView ==
    LET g == groupRecentFilesByTime
    IN  g.today \o g.yesterday \o g.thisWeek \o g.earlier

DayPasses ==
    /\ today < MaxDay
    /\ today' = today + 1
    /\ UNCHANGED <<present, recentFiles, projects>>

-----------------------------------------------------------------------------
With(p, project) == [q \in DOMAIN projects \cup {p} |-> IF q = p THEN project ELSE projects[q]]

createProject ==
    /\ \E p \in Project \ DOMAIN projects :
          projects' = With(p, [shareIds |-> <<>>, connectionIds |-> <<>>])
    /\ UNCHANGED <<present, recentFiles, today>>

deleteProject ==
    /\ \E p \in DOMAIN projects :
          projects' = [q \in DOMAIN projects \ {p} |-> projects[q]]
    /\ UNCHANGED <<present, recentFiles, today>>

AddMember(ids, id) == IF Contains(ids, id) THEN ids ELSE Append(ids, id)

AddToProject ==
    /\ \E p \in DOMAIN projects, id \in present :
          projects' = IF id \in ShareId
                        THEN [projects EXCEPT ![p].shareIds = AddMember(@, id)]
                        ELSE [projects EXCEPT ![p].connectionIds = AddMember(@, id)]
    /\ UNCHANGED <<present, recentFiles, today>>

RemoveFromProject ==
    /\ \E p \in DOMAIN projects, id \in ShareId \cup ConnectionId :
          projects' = [projects EXCEPT ![p].shareIds = Filter(@, LAMBDA m : m # id),
                                       ![p].connectionIds = Filter(@, LAMBDA m : m # id)]
    /\ UNCHANGED <<present, recentFiles, today>>

(* Seeded fault: only the shares of a project are looked at. *)
Kept_Shares(project, valid) ==
    [project EXCEPT !.shareIds = Filter(@, LAMBDA id : id \in valid)]

(* What the effect leaves of a project. *)
Kept(project, valid) ==
    [shareIds |-> Filter(project.shareIds, LAMBDA id : id \in valid),
     connectionIds |-> Filter(project.connectionIds, LAMBDA id : id \in valid)]

(* The history changes, and the effects of both hooks run. *)
SourcesChange ==
    /\ \E id \in ShareId \cup ConnectionId :
          present' = IF id \in present THEN present \ {id} ELSE present \cup {id}
    /\ recentFiles' = Filter(recentFiles, LAMBDA f : f.sourceId \in present')
    /\ projects' = [p \in DOMAIN projects |-> Kept(projects[p], present')]
    /\ UNCHANGED today

LibraryNext ==
    \/ OpenRecent \/ removeRecentFile \/ clearRecentFiles \/ DayPasses
    \/ createProject \/ deleteProject \/ AddToProject \/ RemoveFromProject
    \/ SourcesChange

-----------------------------------------------------------------------------
(* The Recent view shows every recent file once and newest first: its four *)
(* parts put together are the list itself, across days, reopened files,    *)
(* removed sources and the limit on the list.                              *)
GroupsAreTheList == RecentView = recentFiles

(* Nothing in the library refers to a source that left the history, and a  *)
(* project counts no member twice.                                         *)
LibraryTidy ==
    /\ \A i \in DOMAIN recentFiles : recentFiles[i].sourceId \in present
    /\ \A p \in DOMAIN projects :
          \A ids \in {projects[p].shareIds, projects[p].connectionIds} :
             ToSet(ids) \subseteq present /\ IsInjective(ids)

(* The library is consistent: the parts of the Recent view are the list,   *)
(* and recent files and projects refer to what is in the history.          *)
LibraryInv == LibraryTypeOK /\ GroupsAreTheList /\ LibraryTidy
=============================================================================
