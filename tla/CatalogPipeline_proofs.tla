----------------------- MODULE CatalogPipeline_proofs -----------------------
(***************************************************************************)
(* The catalog an undisturbed scan leaves on the branch has every archive  *)
(* with a digest and no other, for any assets, scans that overlap and      *)
(* number of builds.                                                       *)
(***************************************************************************)
EXTENDS CatalogPipeline, TLAPS

Catalogs == [Assets -> Nat]

Types ==
    /\ archive \in Catalogs /\ digest \in Catalogs
    /\ publishing \in [Assets -> [build : Nat, delete : SUBSET Pieces, upload : SUBSET Pieces]]
    /\ builds \in Nat
    /\ at \in [Scanners -> {"out", "pages", "assets", "digest", "fetch", "push"}]
    /\ unread \in [Scanners -> SUBSET Assets]
    /\ looking \in [Scanners -> Assets \cup {"-"}]
    /\ found \in [Scanners -> Catalogs]
    /\ follows \in [Scanners -> BOOLEAN]
    /\ branch \in [there : BOOLEAN, catalog : Catalogs]
    /\ disturbed \in [Scanners -> BOOLEAN]
    /\ whole \in BOOLEAN

\* What the catalog says of an asset whose release stays as it is.
Served(a) == IF archive[a] = 0 THEN 0 ELSE digest[a]

\* The assets whose entry a scan has still to make.
Unseen(s) == IF at[s] \in {"assets", "digest"} THEN unread[s] \cup {looking[s]} ELSE unread[s]

\* What an undisturbed scan has seen is as the releases serve it now, and there
\* is nothing unseen when it comes to the push.
Scanned(s) ==
    /\ at[s] \in {"assets", "digest"} => looking[s] \in Assets \ unread[s]
    /\ at[s] = "digest" => archive[looking[s]] # 0 \/ disturbed[s]
    /\ at[s] # "out" /\ ~disturbed[s] =>
         \A a \in Assets : found[s][a] = IF a \in Unseen(s) THEN 0 ELSE Served(a)
    /\ at[s] \in {"fetch", "push"} => unread[s] = {}

Inv == Types /\ CatalogIsScan /\ \A s \in Scanners : Scanned(s)

LEMMA InitHolds == Init => Inv
<1> SUFFICES ASSUME Init PROVE Inv
  OBVIOUS
<1>1. NoCatalog \in Catalogs
  BY DEF NoCatalog, Catalogs
<1>2. Idle \in [build : Nat, delete : SUBSET Pieces, upload : SUBSET Pieces]
  BY DEF Idle
<1>3. [there |-> FALSE, catalog |-> NoCatalog] \in [there : BOOLEAN, catalog : Catalogs]
  BY <1>1
<1>4. Types
  BY <1>1, <1>2, <1>3 DEF Init, Types
<1> QED
  BY <1>4 DEF Init, Inv, CatalogIsScan, Scanned

-----------------------------------------------------------------------------
(* The build workflows: every scan that is under way is disturbed *)

LEMMA PublishesKeeps ==
    ASSUME Inv, Publishes, Types'
    PROVE  Inv'
<1>1. ASSUME NEW s \in Scanners PROVE Scanned(s)'
  BY DEF Inv, Types, Publishes, scans, Scanned
<1> QED
  BY <1>1 DEF Inv, Publishes, CatalogIsScan

LEMMA PublishKeeps == ASSUME Inv, NEW a \in Assets, Publish(a) PROVE Inv'
<1>1. [build |-> builds + 1, delete |-> Pieces, upload |-> Pieces]
         \in [build : Nat, delete : SUBSET Pieces, upload : SUBSET Pieces]
  BY DEF Inv, Types
<1>2. Types'
  BY <1>1 DEF Inv, Types, Publish, Publishes, scans, Put
<1> QED
  BY <1>2, PublishesKeeps DEF Publish

LEMMA SetTypes ==
    ASSUME Inv, NEW a \in Assets, NEW b \in Nat, NEW piece \in Pieces, Set(piece, a, b)
    PROVE  archive' \in Catalogs /\ digest' \in Catalogs
BY DEF Inv, Types, Catalogs, Set, Put

LEMMA ReplaceKeeps == ASSUME Inv, NEW a \in Assets, Replace(a) PROVE Inv'
<1> DEFINE p == publishing[a]
           Records == [build : Nat, delete : SUBSET Pieces, upload : SUBSET Pieces]
<1>1. p \in Records
  BY DEF Inv, Types
<1>2. archive' \in Catalogs /\ digest' \in Catalogs
  BY <1>1, SetTypes DEF Replace
<1>3. Idle \in Records
  BY DEF Idle
<1>4. publishing' \in [Assets -> Records]
  <2>1. ASSUME NEW piece \in Pieces
        PROVE  [p EXCEPT !.delete = @ \ {piece}] \in Records /\ [p EXCEPT !.upload = @ \ {piece}] \in Records
    BY <1>1
  <2>2. \E r \in Records : publishing' = Put(publishing, a, r)
    BY <1>1, <1>3, <2>1 DEF Replace
  <2> QED
    BY <2>2 DEF Inv, Types, Put
<1>5. Types'
  BY <1>2, <1>4 DEF Inv, Types, Replace, Publishes, scans
<1> QED
  BY <1>5, PublishesKeeps DEF Replace

LEMMA CancelKeeps == ASSUME Inv, NEW a \in Assets, Cancel(a) PROVE Inv'
<1>1. Idle \in [build : Nat, delete : SUBSET Pieces, upload : SUBSET Pieces]
  BY DEF Idle
<1>2. Types'
  BY <1>1 DEF Inv, Types, Cancel, Publishes, scans, Put
<1> QED
  BY <1>2, PublishesKeeps DEF Cancel

-----------------------------------------------------------------------------
(* The scans *)

\* What a step of one scan leaves of the others.
Untouched(t) ==
    /\ at'[t] = at[t] /\ unread'[t] = unread[t] /\ looking'[t] = looking[t]
    /\ found'[t] = found[t] /\ disturbed'[t] = disturbed[t]

LEMMA OneScan ==
    ASSUME Inv, NEW s \in Scanners, UNCHANGED release, Types', Scanned(s)', CatalogIsScan',
           \A t \in Scanners \ {s} : Untouched(t)
    PROVE  Inv'
<1>1. ASSUME NEW t \in Scanners \ {s} PROVE Scanned(t)'
  BY DEF Inv, Scanned, Untouched, Unseen, Served, release
<1> QED
  BY <1>1 DEF Inv

LEMMA BranchStays ==
    Inv /\ UNCHANGED <<release, branch, whole>> => CatalogIsScan'
BY DEF Inv, CatalogIsScan, release

LEMMA StartKeeps == ASSUME Inv, NEW s \in Scanners, Start(s) PROVE Inv'
<1>1. NoCatalog \in Catalogs
  BY DEF NoCatalog, Catalogs
<1>2. Types'
  BY <1>1 DEF Inv, Types, Start, Goto, Fresh, Put, release, Busy
<1>3. Scanned(s)'
  BY DEF Inv, Types, Start, Goto, Fresh, Put, NoCatalog, Scanned, Unseen
<1>4. \A t \in Scanners \ {s} : Untouched(t)
  BY DEF Inv, Types, Start, Goto, Put, Untouched
<1> QED
  BY <1>2, <1>3, <1>4, OneScan, BranchStays DEF Start

LEMMA NextPageKeeps == ASSUME Inv, NEW s \in Scanners, NextPage(s) PROVE Inv'
<1>1. CASE \E a \in unread[s] :
             /\ unread' = Put(unread, s, unread[s] \ {a}) /\ looking' = Put(looking, s, a)
             /\ Goto(s, "assets") /\ UNCHANGED disturbed
  <2>1. PICK a \in unread[s] :
             /\ unread' = Put(unread, s, unread[s] \ {a}) /\ looking' = Put(looking, s, a)
             /\ Goto(s, "assets") /\ UNCHANGED disturbed
    BY <1>1
  <2>2. a \in Assets /\ unread[s] \ {a} \in SUBSET Assets
    BY DEF Inv, Types
  <2>3. Types'
    BY <2>1, <2>2 DEF Inv, Types, NextPage, Goto, Put, release
  <2>4. Scanned(s)'
    <3>1. /\ at'[s] = "assets" /\ looking'[s] = a /\ unread'[s] = unread[s] \ {a}
          /\ disturbed' = disturbed /\ found' = found /\ UNCHANGED release
      BY <2>1 DEF Inv, Types, NextPage, Goto, Put
    <3>2. Unseen(s)' = Unseen(s)
      BY <3>1 DEF Unseen, NextPage
    <3> QED
      BY <2>2, <3>1, <3>2 DEF Inv, Scanned, NextPage, Served, release
  <2>5. \A t \in Scanners \ {s} : Untouched(t)
    BY <2>1 DEF Inv, Types, NextPage, Goto, Put, Untouched
  <2> QED
    BY <2>3, <2>4, <2>5, OneScan, BranchStays DEF NextPage
<1>2. CASE /\ Goto(s, "fetch") /\ unread' = Put(unread, s, {}) /\ Disturbs(s, unread[s] # {})
           /\ UNCHANGED looking
  <2>1. Types'
    BY <1>2 DEF Inv, Types, NextPage, Goto, Disturbs, Put, release
  <2>2. Scanned(s)'
    BY <1>2 DEF Inv, Types, NextPage, Goto, Disturbs, Put, Scanned, Unseen, Served, release
  <2>3. \A t \in Scanners \ {s} : Untouched(t)
    BY <1>2 DEF Inv, Types, NextPage, Goto, Disturbs, Put, Untouched
  <2> QED
    BY <2>1, <2>2, <2>3, OneScan, BranchStays DEF NextPage
<1> QED
  BY <1>1, <1>2 DEF NextPage

LEMMA ListAssetsKeeps == ASSUME Inv, NEW s \in Scanners, ListAssets(s) PROVE Inv'
<1>1. NoCatalog \in Catalogs
  BY DEF NoCatalog, Catalogs
<1>2. Types'
  <2>1. unread' \in [Scanners -> SUBSET Assets] /\ found' \in [Scanners -> Catalogs]
    BY <1>1 DEF Inv, Types, ListAssets, Put
  <2>2. at' \in [Scanners -> {"out", "pages", "assets", "digest", "fetch", "push"}]
    BY DEF Inv, Types, ListAssets, Goto, Put
  <2>3. looking' \in [Scanners -> Assets \cup {"-"}]
    BY DEF Inv, Types, ListAssets, Put
  <2>4. disturbed' \in [Scanners -> BOOLEAN]
    BY DEF Inv, Types, ListAssets, Put
  <2> QED
    BY <2>1, <2>2, <2>3, <2>4 DEF Inv, Types, ListAssets, release
<1>3. Scanned(s)'
  BY DEF Inv, Types, ListAssets, Goto, Put, Scanned, Unseen, Served, release
<1>4. \A t \in Scanners \ {s} : Untouched(t)
  BY DEF Inv, Types, ListAssets, Goto, Put, Untouched
<1> QED
  BY <1>2, <1>3, <1>4, OneScan, BranchStays DEF ListAssets

LEMMA ReadDigestKeeps == ASSUME Inv, NEW s \in Scanners, ReadDigest(s) PROVE Inv'
<1>1. PICK got \in {0, digest[looking[s]]} :
         /\ found' = Put(found, s, WithEntry(found[s], looking[s], got))
         /\ Disturbs(s, got # digest[looking[s]])
  BY DEF ReadDigest
<1>2. looking[s] \in Assets \ unread[s] /\ got \in Nat /\ found[s] \in Catalogs
  BY DEF Inv, Types, Catalogs, Scanned, ReadDigest
<1>3. WithEntry(found[s], looking[s], got) \in Catalogs
  BY <1>2 DEF WithEntry, Put, Catalogs
<1>4. Types'
  BY <1>1, <1>3 DEF Inv, Types, ReadDigest, Goto, Disturbs, Put, release
<1>5. Scanned(s)'
  <2>1. at'[s] = "pages" /\ unread'[s] = unread[s]
    BY DEF Inv, Types, ReadDigest, Goto, Put
  <2>2. ASSUME ~disturbed'[s], NEW a \in Assets
        PROVE  found'[s][a] = IF a \in unread[s] THEN 0 ELSE Served(a)
    <3>1. ~disturbed[s] /\ got = digest[looking[s]]
      BY <1>1, <2>2 DEF Inv, Types, Disturbs, Put
    <3>2. found'[s] = WithEntry(found[s], looking[s], got)
      BY <1>1 DEF Inv, Types, Put
    <3>3. found[s][a] = IF a \in unread[s] \cup {looking[s]} THEN 0 ELSE Served(a)
      BY <3>1 DEF Inv, Scanned, Unseen, ReadDigest
    <3>4. archive[looking[s]] # 0
      BY <3>1 DEF Inv, Scanned, ReadDigest
    <3> QED
      BY <1>2, <3>1, <3>2, <3>3, <3>4 DEF WithEntry, Put, Catalogs, Served
  <2> QED
    BY <2>1, <2>2 DEF Scanned, Unseen, Served, ReadDigest, release
<1>6. \A t \in Scanners \ {s} : Untouched(t)
  BY DEF Inv, Types, ReadDigest, Goto, Disturbs, Put, Untouched
<1> QED
  BY <1>4, <1>5, <1>6, OneScan, BranchStays DEF ReadDigest

LEMMA FetchKeeps == ASSUME Inv, NEW s \in Scanners, Fetch(s) PROVE Inv'
<1>1. Types'
  BY DEF Inv, Types, Fetch, Goto, Put, release
<1>2. Scanned(s)'
  BY DEF Inv, Types, Fetch, Goto, Put, Scanned, Unseen, Served, release
<1>3. \A t \in Scanners \ {s} : Untouched(t)
  BY DEF Inv, Types, Fetch, Goto, Put, Untouched
<1> QED
  BY <1>1, <1>2, <1>3, OneScan, BranchStays DEF Fetch

LEMMA PushKeeps == ASSUME Inv, NEW s \in Scanners, Push(s) PROVE Inv'
<1>1. NoCatalog \in Catalogs
  BY DEF NoCatalog, Catalogs
<1>2. branch' \in [there : BOOLEAN, catalog : Catalogs]
  <2>1. [there |-> TRUE, catalog |-> found[s]] \in [there : BOOLEAN, catalog : Catalogs]
    BY DEF Inv, Types
  <2> QED
    BY <2>1 DEF Inv, Types, Push
<1>3. Types'
  BY <1>1, <1>2 DEF Inv, Types, Push, Goto, Put, release
<1>4. Scanned(s)'
  BY DEF Inv, Types, Push, Goto, Put, Scanned
<1>5. \A t \in Scanners \ {s} : Untouched(t)
  BY DEF Inv, Types, Push, Goto, Put, Untouched
<1>6. CatalogIsScan'
  <2>1. CASE ~follows[s]
    BY <2>1, BranchStays DEF Push
  <2>2. CASE follows[s]
    <3>1. SUFFICES ASSUME ~disturbed[s]
                   PROVE  found[s] = [a \in Assets |-> Served(a)]
      <4>1. branch'.catalog = found[s] /\ whole' = ~disturbed[s] /\ UNCHANGED <<archive, digest>>
        BY <2>2 DEF Push, release
      <4> QED
        BY <4>1 DEF CatalogIsScan, Served
    <3>2. \A a \in Assets : found[s][a] = Served(a)
      <4>1. at[s] = "push" /\ Unseen(s) = {}
        BY DEF Push, Inv, Scanned, Unseen
      <4> QED
        BY <3>1, <4>1 DEF Inv, Scanned
    <3> QED
      BY <3>2 DEF Inv, Types, Catalogs
  <2> QED
    BY <2>1, <2>2
<1> QED
  BY <1>3, <1>4, <1>5, <1>6, OneScan DEF Push

LEMMA Inductive == Inv /\ [Next]_vars => Inv'
<1>1. SUFFICES ASSUME Inv, Next PROVE Inv'
  BY DEF vars, Inv, Types, CatalogIsScan, Scanned, Unseen, Served
<1>2. CASE \E a \in Assets : Publish(a) \/ Replace(a) \/ Cancel(a)
  BY <1>1, <1>2, PublishKeeps, ReplaceKeeps, CancelKeeps
<1>3. CASE \E s \in Scanners : Run(s)
  BY <1>1, <1>3, StartKeeps, NextPageKeeps, ListAssetsKeeps, ReadDigestKeeps, FetchKeeps, PushKeeps DEF Run
<1> QED
  BY <1>1, <1>2, <1>3 DEF Next

\* After a run that nothing disturbed the branch has every archive with a digest
\* beside it and no other, for any number of assets, overlapping runs and builds
\* (gen-catalog.sh, catalog.yml: the catalog starts empty and the push is fast-forward).
THEOREM BranchIsScan == Spec => []CatalogIsScan
<1>1. Inv => CatalogIsScan
  BY DEF Inv
<1> QED
  BY <1>1, InitHolds, Inductive, PTL DEF Spec
=============================================================================
