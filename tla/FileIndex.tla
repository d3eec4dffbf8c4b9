----------------------------- MODULE FileIndex -----------------------------
(***************************************************************************)
(* The search index of the desktop application (useFileIndex) and the view *)
(* that searches it.  A pass indexes the active shares and connections one *)
(* after the other, awaiting index_directory for each; index_directory is  *)
(* a synchronous command, so the calls of several passes are answered in   *)
(* the order in which they were made.  A pass is started by the effect,    *)
(* when the history changes, or by the Refresh button.  The effect also    *)
(* runs on every poll of the history, which rebuilds it unchanged, and its *)
(* clean-up cancels the pass that the run before it started.               *)
(*                                                                         *)
(* A source is its path.  Left out: names, sizes, and the list of results. *)
(***************************************************************************)
EXTENDS Naturals, Sequences, FiniteSets, SequencesExt

CONSTANTS Path,         \* paths of shares and mount points
          Query,        \* what can be typed, "" excepted
          Medium,       \* the media that the side bar can filter by
          MaxChanges,   \* bound: real changes of the history
          MaxPasses     \* bound: passes that may be waiting

ASSUME IndexAssumption == IsFiniteSet(Path)

VARIABLES
    activePaths,        \* paths of the active shares and connections
    index,              \* the paths whose files are in the index
    indexedPathsRef,    \* the paths that the last pass that ended was about
    isIndexing,
    passes,             \* the passes, in the order of the calls they await
    searchQuery, debouncedSearchQuery,
    debounce,           \* the text that the timer of useDebounce will pass on, if it runs
    mediaFilter,
    changes,
    slow,               \* a pass may take longer than the period of the poll
    refreshedLate       \* history variable: a Refresh ended for other sources

indexVars == <<activePaths, index, indexedPathsRef, isIndexing, passes, searchQuery,
               debouncedSearchQuery, debounce, mediaFilter, changes, slow, refreshedLate>>

MediaFilter == {"all"} \cup Medium

Pass == [todo : Seq(Path), about : SUBSET Path, read : SUBSET Path,
         cancelled : BOOLEAN, manual : BOOLEAN]

IndexTypeOK ==
    /\ activePaths \subseteq Path
    /\ index \subseteq indexedPathsRef /\ indexedPathsRef \subseteq Path
    /\ isIndexing \in BOOLEAN
    /\ \A i \in DOMAIN passes : passes[i] \in Pass /\ passes[i].todo # <<>>
    /\ searchQuery \in Query \cup {""} /\ debouncedSearchQuery \in Query \cup {""}
    /\ debounce \subseteq Query \cup {""}
    /\ mediaFilter \in MediaFilter

IndexInit ==
    /\ activePaths = {}
    /\ index = {} /\ indexedPathsRef = {}
    /\ isIndexing = FALSE
    /\ passes = <<>>
    /\ searchQuery = "" /\ debouncedSearchQuery = ""
    /\ debounce = {}
    /\ mediaFilter = "all"
    /\ changes = 0
    /\ slow \in BOOLEAN
    /\ refreshedLate = FALSE

-----------------------------------------------------------------------------
(* Seeded fault: only the numbers of paths are compared. *)
NeedsReindex_BySize(paths) == Cardinality(paths) # Cardinality(indexedPathsRef)

NeedsReindex(paths) ==
    \/ Cardinality(paths) # Cardinality(indexedPathsRef)
    \/ \E p \in paths : p \notin indexedPathsRef

NewPass(paths, manual) ==
    [todo |-> SetToSeq(paths), about |-> paths, read |-> {},
     cancelled |-> FALSE, manual |-> manual]

(* The clean-up of the effect's last run. *)
Cancelled == [i \in DOMAIN passes |-> [passes[i] EXCEPT !.cancelled = @ \/ ~passes[i].manual]]

(* The effect, run for these paths.  A pass without sources ends at once.  *)
(* A pass that is cancelled and not replaced leaves isIndexing as it was.  *)
AutoIndex(paths) ==
    IF ~NeedsReindex(paths)
      THEN passes' = Cancelled /\ UNCHANGED <<index, indexedPathsRef, isIndexing, refreshedLate>>
    ELSE IF paths = {}
      THEN /\ passes' = Cancelled
           /\ index' = {} /\ indexedPathsRef' = {}
           /\ isIndexing' = FALSE /\ refreshedLate' = FALSE
    ELSE /\ Len(passes) < MaxPasses
         /\ passes' = Append(Cancelled, NewPass(paths, FALSE))
         /\ isIndexing' = TRUE
         /\ UNCHANGED <<index, indexedPathsRef, refreshedLate>>

HistoryChange ==
    /\ changes < MaxChanges /\ changes' = changes + 1
    /\ \E paths \in SUBSET Path :
          /\ paths # activePaths
          /\ activePaths' = paths
          /\ AutoIndex(paths)
    /\ UNCHANGED <<searchQuery, debouncedSearchQuery, debounce, mediaFilter, slow>>

(* Seeded fault: a poll that finds nothing new keeps the arrays it has. *)
Poll_Unchanged ==
    /\ slow \/ passes = <<>>
    /\ UNCHANGED indexVars

(* The poll of every five seconds. *)
Poll ==
    /\ slow \/ passes = <<>>
    /\ AutoIndex(activePaths)
    /\ UNCHANGED <<activePaths, searchQuery, debouncedSearchQuery, debounce, mediaFilter, changes, slow>>

(* The button, shown while there are sources and nothing is searched.      *)
OffersRefresh == ~isIndexing /\ activePaths # {} /\ searchQuery = ""

RefreshIndex ==
    /\ OffersRefresh
    /\ Len(passes) < MaxPasses
    /\ passes' = Append(passes, NewPass(activePaths, TRUE))
    /\ isIndexing' = TRUE
    /\ UNCHANGED <<activePaths, index, indexedPathsRef, searchQuery, debouncedSearchQuery,
                   debounce, mediaFilter, changes, slow, refreshedLate>>

-----------------------------------------------------------------------------
(* What a pass that was not cancelled does at its end. *)
PassEnds(p) ==
    /\ index' = p.read
    /\ indexedPathsRef' = p.about
    /\ isIndexing' = FALSE
    /\ refreshedLate' = (p.about # activePaths)

(* index_directory is answered, with the files or an error that counts as  *)
(* no files; the pass goes on to its next source, notices that it was      *)
(* cancelled, or ends.                                                     *)
DirectoryIndexed ==
    /\ passes # <<>>
    /\ LET p == Head(passes)
       IN  \E read \in {p.read, p.read \cup {Head(p.todo)}} :
              LET q == [p EXCEPT !.todo = Tail(@), !.read = read]
              IN  IF q.cancelled
                    THEN /\ passes' = Tail(passes)
                         /\ UNCHANGED <<index, indexedPathsRef, isIndexing, refreshedLate>>
                  ELSE IF q.todo # <<>>
                    THEN /\ passes' = Append(Tail(passes), q)
                         /\ UNCHANGED <<index, indexedPathsRef, isIndexing, refreshedLate>>
                    ELSE /\ passes' = Tail(passes)
                         /\ PassEnds(q)
    /\ UNCHANGED <<activePaths, searchQuery, debouncedSearchQuery, debounce, mediaFilter, changes, slow>>

-----------------------------------------------------------------------------
(* The timer that useDebounce has running after a key. *)
Restarted(q) == {q}

SetSearchQuery ==
    /\ activePaths # {}
    /\ searchQuery' \in (Query \cup {""}) \ {searchQuery}
    /\ debounce' = Restarted(searchQuery')
    /\ UNCHANGED <<activePaths, index, indexedPathsRef, isIndexing, passes,
                   debouncedSearchQuery, mediaFilter, changes, slow, refreshedLate>>

DebounceFires ==
    /\ debouncedSearchQuery' \in debounce
    /\ debounce' = {}
    /\ UNCHANGED <<activePaths, index, indexedPathsRef, isIndexing, passes, searchQuery,
                   mediaFilter, changes, slow, refreshedLate>>

(* The quick filters of the side bar. *)
ToggleMediaFilter ==
    /\ \E m \in Medium : mediaFilter' = IF mediaFilter = m THEN "all" ELSE m
    /\ UNCHANGED <<activePaths, index, indexedPathsRef, isIndexing, passes, searchQuery,
                   debouncedSearchQuery, debounce, changes, slow, refreshedLate>>

(* The sources with a file that matches: every file may, to a query. *)
searchResults == IF debouncedSearchQuery = "" THEN {} ELSE index

(* The sources whose files the view may list as results.  A media filter   *)
(* shows the results too, and without a query there are none.              *)
ShownResults == IF searchQuery = "" /\ mediaFilter = "all" THEN {} ELSE searchResults

IndexNext ==
    \/ HistoryChange \/ Poll \/ RefreshIndex \/ DirectoryIndexed
    \/ SetSearchQuery \/ DebounceFires \/ ToggleMediaFilter

-----------------------------------------------------------------------------
(* When no pass waits the index is about the active sources, however the   *)
(* changes of the history, the polls, the cancelled passes and the button  *)
(* interleaved, and a search lists no file of a source that is gone; only  *)
(* a Refresh that ends after a change leaves the index behind.             *)
QuietIsCurrent ==
    passes = <<>> /\ ~refreshedLate =>
       indexedPathsRef = activePaths /\ ShownResults \subseteq activePaths

(* Once the timer is out, what is searched for is what is in the box, and  *)
(* not what was there when the typing began.                               *)
SearchesWhatIsTyped == debounce = {} => debouncedSearchQuery = searchQuery

(* The search is about what there is: the index about the active sources,  *)
(* and the search for what is in the box.                                  *)
IndexInv == IndexTypeOK /\ QuietIsCurrent /\ SearchesWhatIsTyped

(* Once the history is left alone the index is about the active sources,   *)
(* and stays so, folders that cannot be read and late answers included,    *)
(* provided that a pass takes less time than the period of the poll.       *)
IndexCatchesUp == ~slow => <>[](indexedPathsRef = activePaths)
=============================================================================
