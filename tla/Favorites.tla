----------------------------- MODULE Favorites -----------------------------
(***************************************************************************)
(* The starred files and folders of the desktop application, each kept     *)
(* with the share or connection it was found under, and the effect that    *)
(* drops the stars of a source that left the history.                      *)
(***************************************************************************)
EXTENDS Naturals, Sequences, SequencesExt, Filtering

CONSTANTS Source,       \* ids of shares and connections
          NoSource,     \* the id "" of a folder opened without a source
          RootOf,       \* the shared folder or the mount point of a source
          MaxFavorites  \* bound: stars at a time

ASSUME SourceAssumption == NoSource \notin Source

VARIABLES
    favorites,      \* newest first
    strays          \* history variable: a star was given while a listing was outstanding

favoritesVars == <<favorites, strays>>

FavoriteEntry(path, source) == [path |-> path, source |-> source]

FavoritesInit == favorites = <<>> /\ strays = FALSE

isFavorite(path) == \E i \in DOMAIN favorites : favorites[i].path = path

toggleFavorite(path, source, settled) ==
    IF isFavorite(path)
      THEN /\ favorites' = Filter(favorites, LAMBDA f : f.path # path)
           /\ UNCHANGED strays
      ELSE /\ Len(favorites) < MaxFavorites
           /\ favorites' = <<FavoriteEntry(path, source)>> \o favorites
           /\ strays' = (strays \/ ~settled)

removeFavorite(i) == favorites' = RemoveAt(favorites, i) /\ UNCHANGED strays

(* Seeded fault: the effect looks at what was listed before. *)
CleanFavorites_Late(before, after) ==
    /\ favorites' = Filter(favorites, LAMBDA f : f.source \in before)
    /\ UNCHANGED strays

(* The effect that runs whenever the history changes, from before to after. *)
CleanFavorites(before, after) ==
    /\ favorites' = Filter(favorites, LAMBDA f : f.source \in after)
    /\ UNCHANGED strays

-----------------------------------------------------------------------------
(* While no star is given during a listing, every star is filed under the  *)
(* share or connection that really contains the path, or under none:       *)
(* dropping a source drops its stars and no others.                        *)
FavoritesSourced ==
    ~strays => \A i \in DOMAIN favorites :
                  LET f == favorites[i]
                  IN  f.source # NoSource => IsPrefix(RootOf[f.source], f.path)
=============================================================================
