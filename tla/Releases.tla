------------------------------ MODULE Releases ------------------------------
(***************************************************************************)
(* How the web site picks a file of the latest GitHub release.  A release  *)
(* is published before its files are built: the jobs of the workflow add   *)
(* theirs as they end, in any order, and one that fails adds none.  A file *)
(* is known to the pages only by the pieces of text in its name.           *)
(***************************************************************************)
EXTENDS Naturals, Sequences, SequencesExt, Filtering

CONSTANTS MaxAssets,    \* files of a release that are looked at
          NoAsset

Device == {"mac", "windows", "linux", "unknown"}

(* The files release.yml uploads, in lower case: the system they are for   *)
(* and the pieces of their names that some page looks for.                 *)
AssetTable ==
    {[file |-> "universal.dmg", os |-> "mac", has |-> {".dmg", "universal"}],
     [file |-> "x64.dmg", os |-> "mac", has |-> {".dmg"}],
     [file |-> "x64-setup.exe", os |-> "windows", has |-> {"-setup.exe", ".exe"}],
     [file |-> "x64.msi", os |-> "windows", has |-> {".msi"}],
     [file |-> "amd64.appimage", os |-> "linux", has |-> {".appimage"}],
     [file |-> "amd64.deb", os |-> "linux", has |-> {".deb"}],
     [file |-> "linux-arm64.tar.gz", os |-> "linux", has |-> {"arm64"}],
     [file |-> "macos-arm64.tar.gz", os |-> "mac", has |-> {"macos", "arm64"}]}

Releases ==
    UNION {{s \in [1 .. n -> AssetTable] : IsInjective(s)} : n \in 0 .. MaxAssets}

(* assets.find((a) => some of the pieces is in the name) *)
Find(assets, pieces) ==
    LET Hit(i) == assets[i].has \cap pieces # {}
        hits == {i \in DOMAIN assets : Hit(i)}
    IN  IF hits = {} THEN NoAsset
        ELSE assets[CHOOSE i \in hits : \A j \in hits : i <= j]

Else(a, b) == IF a # NoAsset THEN a ELSE b

(* What navigator.userAgent contains, by the visitor's device. *)
Agent == {{"mac"}, {"win"}, {"linux"}, {}}

detectPlatform(agent) ==
    IF "mac" \in agent THEN "mac"
    ELSE IF "win" \in agent THEN "windows"
    ELSE IF "linux" \in agent THEN "linux" ELSE "unknown"

-----------------------------------------------------------------------------
(* The join page: group by group, the first file with one of its pieces. *)
getAssetForPlatform(assets, platform) ==
    CASE platform = "mac" ->
            Else(Find(assets, {".dmg"}), Find(assets, {"macos", "darwin", "aarch64", "arm64"}))
      [] platform = "windows" ->
            Else(Find(assets, {"-setup.exe", ".msi"}), Find(assets, {".exe"}))
      [] platform = "linux" ->
            Else(Find(assets, {".appimage"}), Else(Find(assets, {".deb"}), Find(assets, {".rpm"})))
      [] OTHER -> NoAsset

(* The download pages: the files their buttons lead to. *)
dmgAsset(assets) ==
    LET ForArm(a) == ".dmg" \in a.has /\ {"universal", "aarch64", "arm64"} \cap a.has # {}
    IN  Else(Find(Filter(assets, ForArm), {".dmg"}), Find(assets, {".dmg"}))

installerAsset(assets) ==
    Else(Find(assets, {"-setup.exe"}), Else(Find(assets, {".msi"}), Find(assets, {".exe"})))

appImageAsset(assets) == Find(assets, {".appimage"})

debAsset(assets) == Find(assets, {".deb"})
=============================================================================
