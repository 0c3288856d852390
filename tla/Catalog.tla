------------------------------ MODULE Catalog ------------------------------
(***************************************************************************)
(* The catalog as the apex CLI reads it: the host tag and the entry that   *)
(* find takes (catalog.go), the order of versions and the offers of apex   *)
(* update (commands.go).  ApexCli takes both as given; this is what they   *)
(* compute.                                                                *)
(*                                                                         *)
(* An entry has a path, a version and the host tag inside its URL.  A      *)
(* version is the sequence of its parts between dots, each a number and    *)
(* what follows it: <<34, "-rc1">>, <<0, "beta">>.                         *)
(*                                                                         *)
(* AnyHost, NotShorter and AnyOther are faulty variants of the definitions *)
(* below them and are used by nothing here.                                *)
(***************************************************************************)
EXTENDS Naturals, Sequences, FiniteSets, FiniteSetsExt

-----------------------------------------------------------------------------
(* Hosts *)

Arch(goarch) == IF goarch = "amd64" THEN "x64" ELSE goarch

\* The tag "<system>-<arch>" as a pair.
HostTag(goos, goarch) ==
    CASE goos \in {"linux", "android"} -> <<"linux", Arch(goarch)>>
      [] goos = "windows"              -> <<"windows", "x64">>
      [] OTHER                         -> <<goos, Arch(goarch)>>

\* strings.Contains on the URL of an entry: "linux-arm" is inside "linux-arm64".
Contains(tag, own) == tag = own \/ (tag[1] = own[1] /\ tag[2] = "arm64" /\ own[2] = "arm")

AnyHost(packages, path, own) ==
    LET fits == {i \in DOMAIN packages : packages[i].path = path} IN
    IF fits = {} THEN << >> ELSE <<packages[Min(fits)]>>

\* << >> where the code returns an error.
Find(packages, path, own) ==
    LET fits == {i \in DOMAIN packages : packages[i].path = path /\ Contains(packages[i].host, own)} IN
    IF fits = {} THEN << >> ELSE <<packages[Min(fits)]>>

-----------------------------------------------------------------------------
(* Versions *)

\* Sscanf takes the number in front and drops the rest.
SplitVer(version) == [i \in DOMAIN version |-> version[i][1]]

NotShorter(a, b) ==
    LET as == SplitVer(a)  bs == SplitVer(b)
        differ == {i \in DOMAIN as \cap DOMAIN bs : as[i] # bs[i]} IN
    IF differ # {} THEN as[Min(differ)] > bs[Min(differ)] ELSE Len(as) >= Len(bs)
Greater(a, b) ==
    LET as == SplitVer(a)  bs == SplitVer(b)
        differ == {i \in DOMAIN as \cap DOMAIN bs : as[i] # bs[i]} IN
    IF differ # {} THEN as[Min(differ)] > bs[Min(differ)] ELSE Len(as) > Len(bs)

AnyOther(packages, installed) ==
    {i \in DOMAIN installed : \E p \in DOMAIN packages :
        packages[p].path = installed[i].path /\ packages[p].version # installed[i].version}

\* The entries of the manifest that apex update hands to the install, in the
\* manifest's order.
Offers(packages, installed) ==
    {i \in DOMAIN installed : \E p \in DOMAIN packages :
        packages[p].path = installed[i].path /\ Greater(packages[p].version, installed[i].version)}

\* A path that find misses ends the command, and what stands behind it waits.
Reached(packages, installed, own, i) ==
    \A j \in Offers(packages, installed) : j < i => Find(packages, installed[j].path, own) # << >>

\* What the manifest says when every install that was reached has succeeded;
\* those of equal version are skipped.
Updated(packages, installed, own) ==
    [i \in DOMAIN installed |->
        LET found == Find(packages, installed[i].path, own) IN
        [path    |-> installed[i].path,
         version |-> IF /\ i \in Offers(packages, installed) /\ found # << >>
                        /\ Reached(packages, installed, own, i)
                     THEN found[1].version ELSE installed[i].version]]

-----------------------------------------------------------------------------
(* Properties *)

\* Versions are ordered strictly, and those that the order does not tell apart
\* are alike to every third one: sorting by it, and the latest, make sense.
\* Suffixes do not count: a release candidate is the release.
GreaterIsOrder(a, b, c) ==
    /\ ~(Greater(a, b) /\ Greater(b, a))
    /\ Greater(a, b) /\ Greater(b, c) => Greater(a, c)
    /\ ~Greater(a, b) /\ ~Greater(b, a) => (Greater(a, c) <=> Greater(b, c))
    /\ (~Greater(a, b) /\ ~Greater(b, a)) <=> SplitVer(a) = SplitVer(b)

\* find misses no entry that was built for this host and takes no other host's,
\* with one exception: a 32-bit Arm host may get the 64-bit package.
FindsOwnHost(packages, path, goos, goarch) ==
    LET own   == HostTag(goos, goarch)
        found == Find(packages, path, own) IN
    /\ found = << >> => \A i \in DOMAIN packages : packages[i].path # path \/ packages[i].host # own
    /\ found # << >> => found[1].host = own \/ (own[2] = "arm" /\ found[1].host = <<own[1], "arm64">>)

\* After an update nothing that it reached is offered again, provided that the
\* entry that find takes has the latest version of its path: where another host is
\* ahead, or a later entry of this one, the same update is offered for ever, and
\* where find misses a path nothing behind it is ever updated.
UpdateSettles(packages, installed, own) ==
    LET updated == Updated(packages, installed, own)
        Current(i) == \A p \in DOMAIN packages : packages[p].path = installed[i].path =>
            LET found == Find(packages, installed[i].path, own) IN
            found # << >> /\ ~Greater(packages[p].version, found[1].version) IN
    /\ \A i \in Offers(packages, updated) : ~Current(i) \/ ~Reached(packages, installed, own, i)
    /\ \A i \in DOMAIN installed : Current(i) => ~Greater(installed[i].version, updated[i].version)
=============================================================================
