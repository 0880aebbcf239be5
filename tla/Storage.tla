------------------------------ MODULE Storage ------------------------------
(***************************************************************************)
(* The build storage of Gentoo Build Publisher (storage.py, utils/fs.py).  *)
(*                                                                         *)
(* A build is stored as one directory tree per content type (repos,        *)
(* binpkgs, etc-portage, var-lib-portage, aux).  A tag is one symlink per  *)
(* content type; the tag "" is the publication of the machine.  Nothing   *)
(* here is transactional: every operation is a single file-system          *)
(* step, and the module Publisher says in which order a process takes      *)
(* them.                                                                   *)
(***************************************************************************)
EXTENDS Types

CONSTANTS Tags,       \* tag names, "" among them
          BadTags,    \* tag names that validate_identifier() refuses
          N           \* the number of content types

Content == 1..N       \* in the order in which "for item in Content" runs

ASSUME StorageAssumption ==
    /\ N \in Nat \ {0}
    /\ "" \in Tags
    /\ BadTags \subseteq Tags \ {""}
    /\ Procs \cap {"absent", "partial", "whole"} = {}

VARIABLES
    dirs,    \* dirs[b][c]: what the tree of content c of build b is worth
    links    \* links[t][c]: the build that tag t's symlink in c names

storageVars == <<dirs, links>>

(***************************************************************************)
(* A tree is absent, complete, damaged (some of its files are missing), or *)
(* still being copied by a process.                                        *)
(***************************************************************************)
TreeStates == {"absent", "partial", "whole"} \cup Procs

StorageTypeOK ==
    /\ dirs \in [Builds -> [Content -> TreeStates]]
    /\ links \in [Tags -> [Content -> Builds \cup {Nil}]]

StorageInit ==
    /\ dirs = [b \in Builds |-> [c \in Content |-> "absent"]]
    /\ links = [t \in Tags |-> [c \in Content |-> Nil]]

(***************************************************************************)
(* Queries                                                                 *)
(***************************************************************************)

\* Path.exists() of one content tree: a damaged tree exists too.
Exists(b, c) == dirs[b][c] # "absent"

\* Mutant: one content tree is enough.
StoragePulled_Any(b) == \E c \in Content : Exists(b, c)

\* Storage.pulled(): every content tree exists.
StoragePulled(b) == \A c \in Content : Exists(b, c)

\* Storage.check_symlinks(): realpath() resolves dangling links as well, so
\* the trees need not exist.
CheckSymlinks(b, t) == \A c \in Content : links[t][c] = b

\* Storage.published()
Published(b) == CheckSymlinks(b, "")

\* Storage.resolve_tag() succeeds: all links name the same existing build.
Resolves(t) == \E b \in Builds : CheckSymlinks(b, t) /\ StoragePulled(b)

\* The tags of a build as the delete command collects them, "" included.
TagsOf(b) == {t \in Tags : CheckSymlinks(b, t)}

(***************************************************************************)
(* Single steps                                                            *)
(***************************************************************************)

SetTree(b, c, state) == dirs' = [dirs EXCEPT ![b][c] = state]

SetLink(t, c, target) == links' = [links EXCEPT ![t][c] = target]

\* A process dies: what it was copying stays as it is.
AbandonCopies(p) ==
    dirs' = [b \in Builds |-> [c \in Content |->
                IF dirs[b][c] = p THEN "partial" ELSE dirs[b][c]]]
=============================================================================
