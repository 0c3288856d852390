-------------------------- MODULE CatalogPipeline ---------------------------
(***************************************************************************)
(* How catalog.json comes about.  A build workflow replaces an archive and *)
(* its digest on a release, one after the other; a run of catalog.yml      *)
(* scans the releases (gen-catalog.sh) and pushes what it found to the     *)
(* catalog branch.  Workflows run at any time, several at once, and may be *)
(* cancelled; GitHub may refuse a request.                                 *)
(*                                                                         *)
(* An asset is the archive of one package for one host, named by its URL,  *)
(* and has a release page of its own; a digest is the number of the build  *)
(* it was taken of, 0 stands for none.  The release action and the server  *)
(* are external.                                                           *)
(*                                                                         *)
(* AddsTo and WithoutDigest are faulty variants of the definitions below   *)
(* them and are used by nothing here.                                      *)
(***************************************************************************)
EXTENDS Naturals, FiniteSets

CONSTANTS
    Assets,     \* archives of the releases
    Scanners,   \* runs of catalog.yml
    MaxBuilds   \* bound on the builds that are published, of all assets

VARIABLES
    archive,    \* the build each URL serves
    digest,     \* the build that the sidecar beside it is of
    publishing, \* what the workflow that publishes an asset has still to do
    builds,     \* builds published so far
    at,         \* where each scanner is
    unread,     \* releases it has not read
    looking,    \* the asset whose digest it asks for
    found,      \* the catalog it writes
    follows,    \* whether its commit is on top of the branch
    branch,     \* the catalog branch
    disturbed,  \* history: during the scan something was published or refused
    whole       \* history: the branch was last pushed by an undisturbed run and
                \* nothing was published since that run began

release == <<archive, digest, publishing, builds>>
scans   == <<at, unread, looking, found, follows>>
vars    == <<archive, digest, publishing, builds, at, unread, looking, found, follows, branch, disturbed, whole>>

Idle      == [build |-> 0, delete |-> {}, upload |-> {}]
Pieces    == {"archive", "digest"}
NoCatalog == [a \in Assets |-> 0]

Init ==
    /\ archive = NoCatalog /\ digest = NoCatalog
    /\ publishing = [a \in Assets |-> Idle] /\ builds = 0
    /\ at = [s \in Scanners |-> "out"] /\ unread = [s \in Scanners |-> {}]
    /\ looking = [s \in Scanners |-> "-"] /\ found = [s \in Scanners |-> NoCatalog]
    /\ follows = [s \in Scanners |-> FALSE]
    /\ branch = [there |-> FALSE, catalog |-> NoCatalog]
    /\ disturbed = [s \in Scanners |-> FALSE] /\ whole = FALSE

Put(f, x, v) == [f EXCEPT ![x] = v]

-----------------------------------------------------------------------------
(* A build workflow: allowUpdates, replacesArtifacts *)

Publishes == /\ disturbed' = [s \in Scanners |-> at[s] # "out"] /\ whole' = FALSE
             /\ UNCHANGED <<scans, branch>>

Publish(a) ==
    /\ publishing[a] = Idle /\ builds < MaxBuilds /\ builds' = builds + 1
    /\ publishing' = Put(publishing, a, [build |-> builds + 1, delete |-> Pieces, upload |-> Pieces])
    /\ Publishes /\ UNCHANGED <<archive, digest>>

Set(piece, a, b) ==
    /\ archive' = IF piece = "archive" THEN Put(archive, a, b) ELSE archive
    /\ digest'  = IF piece = "digest" THEN Put(digest, a, b) ELSE digest

\* What is there under the names is deleted first, then the new files come.
Replace(a) ==
    LET p == publishing[a] IN
    /\ p # Idle
    /\ \/ \E piece \in p.delete :
            /\ Set(piece, a, 0)
            /\ publishing' = Put(publishing, a, [p EXCEPT !.delete = @ \ {piece}])
       \/ \E piece \in p.upload :
            /\ p.delete = {} /\ Set(piece, a, p.build)
            /\ publishing' = Put(publishing, a, IF p.upload = {piece} THEN Idle ELSE [p EXCEPT !.upload = @ \ {piece}])
    /\ Publishes /\ UNCHANGED builds

Cancel(a) ==
    /\ publishing[a] # Idle /\ publishing' = Put(publishing, a, Idle)
    /\ Publishes /\ UNCHANGED <<archive, digest, builds>>

-----------------------------------------------------------------------------
(* gen-catalog.sh *)

Goto(s, place)     == at' = Put(at, s, place)
Disturbs(s, b)     == disturbed' = Put(disturbed, s, disturbed[s] \/ b)
Busy               == \E a \in Assets : publishing[a] # Idle

\* The catalog starts empty, whatever the branch has.
AddsTo(catalog) == catalog
Fresh(catalog)  == NoCatalog

Start(s) ==
    /\ at[s] = "out" /\ Goto(s, "pages")
    /\ unread' = Put(unread, s, Assets) /\ found' = Put(found, s, Fresh(branch.catalog))
    /\ disturbed' = Put(disturbed, s, Busy)
    /\ UNCHANGED <<release, looking, follows, branch, whole>>

\* The first page that is empty, or cannot be had, ends the loop.
NextPage(s) ==
    /\ at[s] = "pages"
    /\ \/ \E a \in unread[s] :
            /\ unread' = Put(unread, s, unread[s] \ {a}) /\ looking' = Put(looking, s, a)
            /\ Goto(s, "assets") /\ UNCHANGED disturbed
       \/ /\ Goto(s, "fetch") /\ unread' = Put(unread, s, {}) /\ Disturbs(s, unread[s] # {})
          /\ UNCHANGED looking
    /\ UNCHANGED <<release, found, follows, branch, whole>>

\* The assets of the release; without them the script ends, and the run.
ListAssets(s) ==
    /\ at[s] = "assets"
    /\ \/ /\ Goto(s, IF archive[looking[s]] = 0 THEN "pages" ELSE "digest") /\ UNCHANGED <<unread, found>>
          /\ UNCHANGED disturbed
       \/ /\ Goto(s, "out") /\ unread' = Put(unread, s, {}) /\ found' = Put(found, s, NoCatalog)
          /\ disturbed' = Put(disturbed, s, FALSE)
    /\ looking' = IF at'[s] = "digest" THEN looking ELSE Put(looking, s, "-")
    /\ UNCHANGED <<release, follows, branch, whole>>

\* An asset whose digest could not be had is left out.
WithoutDigest(catalog, a, d) == Put(catalog, a, IF d = 0 THEN archive[a] ELSE d)
WithEntry(catalog, a, d)     == IF d = 0 THEN catalog ELSE Put(catalog, a, d)

ReadDigest(s) ==
    /\ at[s] = "digest" /\ Goto(s, "pages")
    /\ \E got \in {0, digest[looking[s]]} :
         /\ found' = Put(found, s, WithEntry(found[s], looking[s], got))
         /\ Disturbs(s, got # digest[looking[s]])
    /\ looking' = Put(looking, s, "-")
    /\ UNCHANGED <<release, unread, follows, branch, whole>>

-----------------------------------------------------------------------------
(* Push to catalog branch *)

\* Without the branch, which a failed fetch looks like, the commit is an orphan.
Fetch(s) ==
    /\ at[s] = "fetch" /\ Goto(s, "push")
    /\ \E fetched \in BOOLEAN : follows' = Put(follows, s, fetched \/ ~branch.there)
    /\ UNCHANGED <<release, unread, looking, found, branch, disturbed, whole>>

\* The server refuses what does not follow its last commit.
Push(s) ==
    /\ at[s] = "push" /\ Goto(s, "out")
    /\ IF follows[s]
       THEN /\ branch' = [there |-> TRUE, catalog |-> found[s]]
            /\ whole' = ~disturbed[s]
            /\ follows' = [t \in Scanners |-> FALSE]
       ELSE UNCHANGED <<branch, whole, follows>>
    /\ found' = Put(found, s, NoCatalog) /\ disturbed' = Put(disturbed, s, FALSE)
    /\ UNCHANGED <<release, unread, looking>>

Run(s) == Start(s) \/ NextPage(s) \/ ListAssets(s) \/ ReadDigest(s) \/ Fetch(s) \/ Push(s)

Next == \/ \E a \in Assets : Publish(a) \/ Replace(a) \/ Cancel(a)
        \/ \E s \in Scanners : Run(s)
Spec == Init /\ [][Next]_vars

-----------------------------------------------------------------------------
(* Properties *)

\* After a run that nothing disturbed the branch has every archive with a digest
\* beside it and no other, under that digest, whatever earlier runs had left
\* there and however many runs overlapped; a later disturbed or older run may
\* put a worse catalog in its place.
CatalogIsScan == whole =>
    branch.catalog = [a \in Assets |-> IF archive[a] = 0 THEN 0 ELSE digest[a]]
=============================================================================
