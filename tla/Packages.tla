------------------------------ MODULE Packages ------------------------------
(***************************************************************************)
(* What a package is to the apex CLI: the builds a release server holds,   *)
(* the catalog entries that describe them, and the trees of files they     *)
(* leave in the SDK root.  No state: only constants and operators, shared  *)
(* by every module about installed packages.                               *)
(*                                                                         *)
(* A build stands for one archive: its bytes, and so its SHA-256.  Two     *)
(* builds of one path with the same version are a release that was built   *)
(* again and whose asset was replaced.  A file is abstracted to the build  *)
(* that wrote it.                                                          *)
(***************************************************************************)
EXTENDS Integers

CONSTANTS
    Paths,      \* package paths of the form "prefix;version"
    Builds,     \* archives ever attached to a release, numbered as they were built
    Names,      \* file names inside a package directory
    Props,      \* the name source.properties
    Xml,        \* the name package.xml
    PathOf,     \* Builds -> Paths: the catalog path of a build
    VersionOf,  \* Builds -> Nat: its version, ordered as greater() orders it
    FilesOf,    \* Builds -> SUBSET Names: the files in its archive
    ThisHost,   \* the builds whose URL contains this machine's host tag
    None,       \* no build: an absent file, an absent manifest entry
    NoTree      \* an absent directory

ASSUME PackagesAssumption ==
    /\ Props \in Names /\ Xml \in Names /\ Props # Xml
    /\ PathOf \in [Builds -> Paths]
    /\ VersionOf \in [Builds -> Nat]
    /\ FilesOf \in [Builds -> SUBSET Names]
    /\ ThisHost \subseteq Builds
    /\ Builds \subseteq Nat
    /\ None \notin Builds
    /\ NoTree \notin [Names -> Builds \cup {None}]

-----------------------------------------------------------------------------
(* Trees: the contents of one directory, file name by file name.           *)

Content == Builds \cup {None}
Tree == [Names -> Content]
EmptyTree == [n \in Names |-> None]

\* Every file of the archive of b is there, as the archive has it
\* (package.xml apart: the CLI always writes its own over it).
Holds(t, b) == t # NoTree /\ \A n \in FilesOf[b] \ {Xml} : t[n] = b

\* A directory AGP and sdkmanager accept as b: its files and its metadata.
Ready(t, b) == Holds(t, b) /\ t[Props] # None /\ t[Xml] = b

-----------------------------------------------------------------------------
(* The catalog: a set of entries, each naming one build by its SHA-256.    *)

\* find: the entries for path p that this host can use.
EntriesFor(catalog, p) == {b \in catalog \cap ThisHost : PathOf[b] = p}

\* cmdUpdate compares versions over the entries of every host.
Newer(catalog, p, b) ==
    \E c \in catalog : PathOf[c] = p /\ VersionOf[c] > VersionOf[b]

\* What the server sends for the URL of b: a release asset of the same path,
\* version and host replaces the older one under the same URL.
Served(asset, b) ==
    {c \in asset : PathOf[c] = PathOf[b] /\ VersionOf[c] = VersionOf[b]
                     /\ (c \in ThisHost <=> b \in ThisHost)}
=============================================================================
