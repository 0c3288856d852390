----------------------------- MODULE NdkPackage -----------------------------
(***************************************************************************)
(* package-generator.c of the NDK build: the package.xml of a release from *)
(* its name, "30.0.1", "30.0.1-beta2", "30.0.1-rc1".  A name is a sequence *)
(* of tokens: <<"number", n>>, <<".", 0>>, <<"-beta", 0>>, <<"-rc", 0>>,   *)
(* <<"text", 0>>; two numbers never touch.                                 *)
(*                                                                         *)
(* BetaOnly is a faulty variant of the definition below it and is used by  *)
(* nothing here.                                                           *)
(***************************************************************************)
EXTENDS Naturals, Sequences, SequencesExt, FiniteSetsExt

CONSTANT Room   \* tokens of a name that fit in release[128]

Kept(name) == SubSeq(name, 1, IF Len(name) < Room THEN Len(name) ELSE Room)

Places(name, kind) == {i \in DOMAIN name : name[i][1] = kind}

BetaOnly(name) == IF Places(name, "-beta") # {} THEN Min(Places(name, "-beta")) ELSE 0

\* Where the suffix starts, 0 if there is none: "-beta" is looked for first.
Suffix(name) ==
    CASE Places(name, "-beta") # {} -> Min(Places(name, "-beta"))
      [] Places(name, "-beta") = {} /\ Places(name, "-rc") # {} -> Min(Places(name, "-rc"))
      [] OTHER -> 0

\* sscanf of the number behind the suffix leaves 0 if there is none.
Preview(name) ==
    LET at == Suffix(name) IN
    IF at # 0 /\ at + 1 \in DOMAIN name /\ name[at + 1][1] = "number" THEN name[at + 1][2] ELSE 0

Release(name) == IF Suffix(name) = 0 THEN name ELSE SubSeq(name, 1, Suffix(name) - 1)

\* The numbers of "%d.%d.%d", << >> if it does not match.
Revision(release) ==
    IF Len(release) >= 5 /\ \A i \in 1..5 : release[i][1] = IF i % 2 = 1 THEN "number" ELSE "."
    THEN <<release[1][2], release[3][2], release[5][2]>> ELSE << >>

\* The two texts, and the prefixes that the start of the document declares.
LicenseStable  == "terms of January 16, 2019"
LicensePreview == "preview terms of June 2014"
NsHeader == {"ns2", "ns3", "ns4", "ns5", "ns6", "ns7", "ns8", "ns9", "ns10", "ns11", "ns12", "ns13", "ns14", "ns15"}

\* The parts of the document, in order; an element names the prefix it uses, ""
\* for none.
Element(name, prefix, says) == [name |-> name, prefix |-> prefix, says |-> says]
Document(name, rev) ==
    LET preview == Suffix(name) # 0
        license == IF preview THEN "android-sdk-preview-license" ELSE "android-sdk-license" IN
    << Element("repository", "ns2", NsHeader), Element("license", "", license),
       Element("text", "", IF preview THEN LicensePreview ELSE LicenseStable),
       Element("path", "", rev), Element("type", "ns5", "genericDetailsType"),
       Element("revision", "", IF preview THEN Append(rev, Preview(name)) ELSE rev),
       Element("display-name", "", rev), Element("uses-license", "", license) >>
Says(document, name) == {document[i].says : i \in {j \in DOMAIN document : document[j].name = name}}

\* What is at the path afterwards: "old" is what was there before.
Failure(file) == [status |-> 1, file |-> file, path |-> << >>, revision |-> << >>, license |-> "", document |-> << >>]

Main(args, opens, closes) ==
    LET name == Kept(args[2])
        rev  == Revision(Release(name)) IN
    CASE Len(args) # 2 -> Failure("old")
      [] OTHER ->
           IF rev = << >> \/ ~opens THEN Failure("old")
           ELSE IF ~closes THEN Failure("cut")
           ELSE [status |-> 0, file |-> "whole", path |-> rev,
                 revision |-> IF Suffix(name) = 0 THEN rev ELSE Append(rev, Preview(name)),
                 license |-> IF Suffix(name) = 0 THEN "android-sdk-license" ELSE "android-sdk-preview-license",
                 document |-> Document(name, rev)]

-----------------------------------------------------------------------------
(* Property *)

\* A package.xml that is whole says the release it is of: the three numbers in
\* path and revision, the fourth and the preview license exactly for a beta or
\* a candidate; a name that is none leaves the old file.  Only a write that
\* fails leaves a cut one, and then the status says so.
NamesItsRelease(name, opens, closes) ==
    LET r == Main(<<"package.xml", name>>, opens, closes)
        Named(n, suffix) == [i \in 1..5 |-> IF i % 2 = 1 THEN <<"number", n[(i + 1) \div 2]>> ELSE <<".", 0>>] \o suffix
        numbers == [1..3 -> {t[2] : t \in ToSet(name)}] IN
    /\ (r.status = 0) = (r.file = "whole") /\ (r.file = "cut" => ~closes)
    /\ Len(name) <= Room => \A n \in numbers :
         /\ name = Named(n, << >>) /\ opens /\ closes =>
              r.path = n /\ r.revision = n /\ r.license = "android-sdk-license"
         /\ \A kind \in {"-beta", "-rc"}, k \in 0..9 : \A suffix \in {<<<<kind, 0>>>>, <<<<kind, 0>>, <<"number", k>>>>} :
              name = Named(n, suffix) /\ opens /\ closes =>
                /\ r.path = n /\ r.license = "android-sdk-preview-license"
                /\ r.revision = Append(n, IF Len(suffix) = 2 THEN suffix[2][2] ELSE 0)

\* A whole document is consistent in itself: the license that the package uses is
\* the one it quotes, with the text of that license, its path, its name and the
\* start of its revision are the same numbers, and every prefix is declared.
DocumentAgrees(name) ==
    LET d == Main(<<"package.xml", name>>, TRUE, TRUE).document IN
    d # << >> =>
        /\ Says(d, "uses-license") = Says(d, "license") /\ Says(d, "display-name") = Says(d, "path")
        /\ (Says(d, "text") = {LicensePreview}) = (Says(d, "license") = {"android-sdk-preview-license"})
        /\ (Says(d, "revision") = Says(d, "path")) = (Says(d, "text") = {LicenseStable})
        /\ \A i \in DOMAIN d : d[i].prefix \in {""} \cup UNION Says(d, "repository")
=============================================================================
