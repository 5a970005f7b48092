------------------------------- MODULE Reload -------------------------------
(***************************************************************************)
(* How a gateway follows what it serves: previews.rs mirrors the preview   *)
(* the Portal lists into a directory, and pdp/reaper.rs polls the          *)
(* repository and that directory, loads them when their fingerprint        *)
(* changed, and swaps the tables.  main.rs loads once before both start.   *)
(*                                                                         *)
(* The repository is a link to a commit, whose fingerprint is the commit,  *)
(* or a tree of files that is whole, being written, or away; one preview   *)
(* stands for all, and its content for its files, readers and salt.  A     *)
(* rewritten tree or preview has new modification times.  The twelve       *)
(* tables are two: the preview readers, and all the others.                *)
(***************************************************************************)
EXTENDS Naturals

CONSTANTS
    Contents,   \* what the Portal may list as the preview
    NoPreview,  \* none
    Torn,       \* a directory that is being removed
    NoTag,      \* no ETag
    MaxMoves,   \* bound: the changes of the repository
    MaxStamp    \* bound: the writes of the preview directory

ASSUME ReloadAssumption ==
    /\ NoPreview \notin Contents /\ Torn \notin Contents \cup {NoPreview}
    /\ NoTag \notin Contents \cup {NoPreview}
    /\ MaxMoves \in Nat /\ MaxStamp \in Nat

VARIABLES
    listed,     \* the preview the Portal lists
    repository, \* whether it is a link, its version and state, and how often it changed
    directory,  \* the preview's directory: its content and stamp
    mirror,     \* the mirror: where it is, what it applies, its etag and digest
    reaper,     \* the reaper: where it is, its fingerprints and what it loaded
    tables,     \* what the gateway serves
    overlooked  \* history: what changed between the first load and the first fingerprint

world == <<listed, repository, directory>>
reloadVars == <<world, mirror, reaper, tables, overlooked>>

Listings == Contents \cup {NoPreview}

NewMirror == [at |-> "idle", list |-> NoPreview, etag |-> NoTag, seen |-> NoPreview]

NothingLoaded == [of |-> <<>>, preview |-> NoPreview]

NewReaper == [at |-> "load", seen |-> <<>>, current |-> <<>>, loaded |-> NothingLoaded]

There == [repository |-> repository, directory |-> directory]

(* Reaper::fingerprint(), of what was there. *)
Fingerprint(there) ==
    <<there.repository.version, there.repository.state,
      IF there.directory.content = NoPreview THEN NoPreview ELSE there.directory>>

ReloadInit ==
    /\ listed \in Listings
    /\ \E linked \in BOOLEAN :
         repository = [linked |-> linked, version |-> 1, state |-> "whole", moves |-> 0]
    /\ directory = [content |-> NoPreview, stamp |-> 0]
    /\ mirror = NewMirror
    /\ reaper = NewReaper
    /\ tables = [readers |-> NoPreview, others |-> NothingLoaded]
    /\ overlooked = FALSE

-----------------------------------------------------------------------------
(* The Portal, whoever writes the repository, and the file system. *)

Relisted ==
    /\ listed' \in Listings \ {listed}
    /\ UNCHANGED <<repository, directory, mirror, reaper, tables, overlooked>>

(* A link moves to another commit, also to one it named before; a tree is    *)
(* written file by file, or away.                                            *)
RepositoryWritten ==
    /\ \/ /\ repository.state = "whole" /\ repository.moves < MaxMoves
          /\ \/ /\ repository.linked
                /\ \E version \in 1..2 \ {repository.version} :
                     repository' = [repository EXCEPT !.version = version, !.moves = @ + 1]
             \/ /\ ~repository.linked
                /\ \E state \in {"half", "away"} :
                     repository' = [repository EXCEPT !.version = @ + 1, !.state = state,
                                                      !.moves = @ + 1]
       \/ repository.state # "whole" /\ repository' = [repository EXCEPT !.state = "whole"]
    /\ UNCHANGED <<listed, directory, mirror, reaper, tables, overlooked>>

Holds(content) ==
    /\ directory.stamp < MaxStamp
    /\ directory' = [content |-> content, stamp |-> directory.stamp + 1]

Cleaned ==
    /\ directory.content \in Contents
    /\ Holds(NoPreview)
    /\ UNCHANGED <<listed, repository, mirror, reaper, tables, overlooked>>

-----------------------------------------------------------------------------
(* The mirror of the previews, which starts before the reaper's first        *)
(* fingerprint.                                                              *)

Mirrors(at) == reaper.at # "load" /\ mirror.at = at

(* 304: a directory that went missing is written by the next, full list. *)
PreviewsUnchanged ==
    /\ Mirrors("idle") /\ mirror.etag = listed
    /\ mirror' = IF mirror.seen # NoPreview /\ directory.content = NoPreview
                 THEN [mirror EXCEPT !.etag = NoTag] ELSE mirror
    /\ UNCHANGED <<world, reaper, tables, overlooked>>

PreviewsListed ==
    /\ Mirrors("idle") /\ mirror.etag # listed
    /\ mirror' = [mirror EXCEPT !.at = "apply", !.list = listed, !.etag = NoTag]
    /\ UNCHANGED <<world, reaper, tables, overlooked>>

(* The directory holds what is listed, as far as its being there and the     *)
(* digest of what was last written say.                                      *)
Written == IF mirror.list = NoPreview THEN directory.content = NoPreview
           ELSE mirror.seen = mirror.list /\ directory.content # NoPreview

(* Mirror::apply() comes to its end. *)
Applied ==
    /\ Mirrors("apply") /\ Written
    /\ mirror' = [mirror EXCEPT !.at = "idle", !.etag = mirror.list]
    /\ UNCHANGED <<world, reaper, tables, overlooked>>

(* A changed preview, or one no longer listed, is removed file by file; the  *)
(* one staged beside it is renamed.                                          *)
Removing ==
    /\ Mirrors("apply") /\ ~Written /\ directory.content \in Contents
    /\ Holds(Torn)
    /\ UNCHANGED <<listed, repository, mirror, reaper, tables, overlooked>>

Removed ==
    /\ Mirrors("apply") /\ directory.content = Torn
    /\ Holds(NoPreview)
    /\ mirror' = IF mirror.list = NoPreview THEN [mirror EXCEPT !.seen = NoPreview] ELSE mirror
    /\ UNCHANGED <<listed, repository, reaper, tables, overlooked>>

Renamed ==
    /\ Mirrors("apply") /\ ~Written
    /\ directory.content = NoPreview /\ mirror.list # NoPreview
    /\ Holds(mirror.list)
    /\ mirror' = [mirror EXCEPT !.seen = mirror.list]
    /\ UNCHANGED <<listed, repository, reaper, tables, overlooked>>

(* A write or a removal fails: the next poll asks for the full list again. *)
ApplyFails ==
    /\ Mirrors("apply")
    /\ mirror' = [mirror EXCEPT !.at = "idle"]
    /\ UNCHANGED <<world, reaper, tables, overlooked>>

Mirroring ==
    \/ PreviewsUnchanged \/ PreviewsListed \/ Applied \/ Removing \/ Removed \/ Renamed
    \/ ApplyFails

-----------------------------------------------------------------------------
(* main(): the first load, without previews, and the reaper's first          *)
(* fingerprint after it.                                                     *)

Tree == <<repository.version, repository.state>>

LoadAtStart ==
    /\ reaper.at = "load" /\ repository.state # "away"
    /\ tables' = [readers |-> NoPreview,
                  others  |-> [of |-> Tree, preview |-> NoPreview]]
    /\ reaper' = [reaper EXCEPT !.at = "first"]
    /\ UNCHANGED <<world, mirror, overlooked>>

Served == [readers |-> directory.content,
           others  |-> [of |-> Tree, preview |-> directory.content]]

FirstFingerprint ==
    /\ reaper.at = "first"
    /\ reaper' = [reaper EXCEPT !.at = "idle", !.seen = There]
    /\ overlooked' = (tables # Served)
    /\ UNCHANGED <<world, mirror, tables>>

(* Reaper::tick(): the fingerprint first, then the load. *)
ReaperTick ==
    /\ reaper.at = "idle"
    /\ repository.state # "away" /\ Fingerprint(There) # Fingerprint(reaper.seen)
    /\ reaper' = [reaper EXCEPT !.at = "repository", !.current = There]
    /\ UNCHANGED <<world, mirror, tables, overlooked>>

LoadRepository ==
    /\ reaper.at = "repository" /\ repository.state # "away"
    /\ reaper' = [reaper EXCEPT !.at = "previews", !.loaded.of = Tree]
    /\ UNCHANGED <<world, mirror, tables, overlooked>>

(* One that is half written may load, or not; a failure changes nothing, and  *)
(* is tried again.                                                           *)
LoadFails ==
    /\ reaper.at = "repository" /\ repository.state # "whole"
    /\ reaper' = [reaper EXCEPT !.at = "idle"]
    /\ UNCHANGED <<world, mirror, tables, overlooked>>

LoadPreviews ==
    /\ reaper.at = "previews"
    /\ reaper' = [reaper EXCEPT !.at = "readers", !.loaded.preview = directory.content]
    /\ UNCHANGED <<world, mirror, tables, overlooked>>

SwapReaders ==
    /\ reaper.at = "readers"
    /\ tables' = [tables EXCEPT !.readers = reaper.loaded.preview]
    /\ reaper' = [reaper EXCEPT !.at = "others"]
    /\ UNCHANGED <<world, mirror, overlooked>>

(* Mutant: the fingerprint is taken once the tables are swapped. *)
SwapThenLook ==
    /\ reaper.at = "others"
    /\ tables' = [tables EXCEPT !.others = reaper.loaded]
    /\ reaper' = [reaper EXCEPT !.at = "idle", !.seen = There]
    /\ overlooked' = FALSE
    /\ UNCHANGED <<world, mirror>>

SwapOthers ==
    /\ reaper.at = "others"
    /\ tables' = [tables EXCEPT !.others = reaper.loaded]
    /\ reaper' = [reaper EXCEPT !.at = "idle", !.seen = reaper.current]
    /\ overlooked' = FALSE
    /\ UNCHANGED <<world, mirror>>

(* A tick that panics ends the process, as other ends do, and a new one       *)
(* starts, in a container that kept the preview directory or not.            *)
Restarts ==
    /\ reaper.at # "load"
    /\ reaper' = NewReaper
    /\ mirror' = NewMirror
    /\ tables' = [readers |-> NoPreview, others |-> NothingLoaded]
    /\ overlooked' = FALSE
    /\ UNCHANGED directory \/ Holds(NoPreview)
    /\ UNCHANGED <<listed, repository>>

Reaping ==
    \/ LoadAtStart \/ FirstFingerprint \/ ReaperTick \/ LoadRepository \/ LoadFails
    \/ LoadPreviews \/ SwapReaders \/ SwapOthers \/ Restarts

ReloadNext == Relisted \/ RepositoryWritten \/ Cleaned \/ Mirroring \/ Reaping

ReloadSpec == ReloadInit /\ [][ReloadNext]_reloadVars

-----------------------------------------------------------------------------

ReloadTypeOK ==
    /\ directory.content \in Contents \cup {NoPreview, Torn}
    /\ mirror.etag \in Listings \cup {NoTag}
    /\ mirror.at = "apply" => mirror.etag = NoTag
    /\ tables.readers # tables.others.preview => reaper.at = "others"

(* reaper.rs:1 "the running gateway follows the repository": a tick that      *)
(* finds nothing new serves what is there, also when it changed during a      *)
(* load, when a load failed, or when the directory was read half removed,     *)
(* but for what changed before the reaper's first fingerprint, or changed     *)
(* back before it looked again; and a preview the Portal answers unchanged is *)
(* the one in the directory, unless that was cleaned, or its removal failed   *)
(* half way.                                                                  *)
QuietIsServed ==
    /\ reaper.at = "idle" /\ reaper.seen = There /\ ~overlooked => tables = Served
    /\ mirror.at = "idle" /\ mirror.etag = listed /\ directory.content \in Contents =>
           directory.content = listed

=============================================================================
