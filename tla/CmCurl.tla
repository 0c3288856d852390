------------------------------- MODULE CmCurl -------------------------------
(***************************************************************************)
(* What CMake tells libcurl before a transfer (cmCurl.cxx of the CMake     *)
(* build): where certificates come from, and which .netrc.  libcurl is     *)
(* external: it takes an option ("OK"), was built without it, which is     *)
(* passed over, or refuses it.  The further directories for AIX and SunOS  *)
(* (cmCurl.cxx:173-190) are left out: the repository builds for neither.   *)
(*                                                                         *)
(* DirectoryFirst and FileAnyway are faulty variants of the definitions    *)
(* below them and are used by nothing here.                                *)
(***************************************************************************)
EXTENDS Naturals, Sequences, SequencesExt

-----------------------------------------------------------------------------
(* Certificates *)

\* What check_curl_result takes for an error.
Refused(answer) == answer \notin {"OK", "NOT_BUILT_IN"}

\* An option that is set; the call fails if libcurl refuses it.
CAFile(source) == [option |-> "CAINFO", source |-> source]
CAPath(source) == [option |-> "CAPATH", source |-> source]

\* env: the certificate sources that are there, each of its kind, and whether
\* HOME is set.  find: CMake was built with CMAKE_FIND_CAFILE.
DirectoryFirst(env, find) ==
    CASE "SSL_CERT_DIR" \in env  -> {CAPath("SSL_CERT_DIR")}
      [] "SSL_CERT_FILE" \in env -> {CAFile("SSL_CERT_FILE")}
      [] OTHER -> {}
FromSystem(env, find) ==
    CASE "SSL_CERT_FILE" \in env -> {CAFile("SSL_CERT_FILE")}
      [] env \cap {"SSL_CERT_FILE", "SSL_CERT_DIR"} = {"SSL_CERT_DIR"} -> {CAPath("SSL_CERT_DIR")}
      [] OTHER ->
           IF "cert_pem" \in env THEN {CAFile("cert_pem")}
           ELSE IF ~find THEN {}
           ELSE IF "fedora" \in env THEN {CAFile("fedora")}
           ELSE {CAFile(s) : s \in env \cap {"common_file"}} \cup {CAPath(s) : s \in env \cap {"common_directory"}}

\* getenv("HOME") is read first: without it std::string has no characters to
\* copy, and the process ends.  answers: what libcurl says to each option.
SetCAInfo(cafile, env, find, answers) ==
    IF "HOME" \notin env THEN [outcome |-> "terminate", set |-> {}]
    ELSE LET tried == IF cafile # "" THEN {CAFile(cafile)} ELSE FromSystem(env, find) IN
         [outcome |-> IF \E t \in tried : Refused(answers[t.option]) THEN "error" ELSE "ok",
          set     |-> {t \in tried : answers[t.option] = "OK"}]

-----------------------------------------------------------------------------
(* .netrc *)

Levels == {"OPTIONAL", "REQUIRED", "IGNORED"}

\* The options set in order, and the outcome.
LevelSet(level, answers) == IF answers["NETRC"] = "OK" THEN <<level>> ELSE << >>
FileSet(file, answers)   == IF file # "" /\ answers["NETRC_FILE"] = "OK" THEN <<file>> ELSE << >>

FileAnyway(level, file, answers) ==
    (IF level \notin {"OPTIONAL", "REQUIRED"} THEN << >> ELSE LevelSet(level, answers)) \o FileSet(file, answers)
NetrcOptions(level, file, answers) ==
    IF level \notin {"OPTIONAL", "REQUIRED"} \/ Refused(answers["NETRC"]) THEN << >>
    ELSE LevelSet(level, answers) \o FileSet(file, answers)

SetNETRCOption(level, file, answers) ==
    [outcome |-> CASE level = ""           -> "ok"
                   [] level # "" /\ level \notin Levels -> "error"
                   [] level = "IGNORED"    -> "ok"
                   [] OTHER -> IF Refused(answers["NETRC"]) \/ (file # "" /\ Refused(answers["NETRC_FILE"]))
                               THEN "error" ELSE "ok",
     set |-> NetrcOptions(level, file, answers)]

-----------------------------------------------------------------------------
(* Errors, versions and addresses *)

\* The message so far, a sequence of lines, after an option was set.
Check(e, result, line) == IF Refused(result) THEN Append(e, line) ELSE e

ParseTLSVersion(text) ==
    CASE text = "1.0" -> "TLSv1_0" [] text = "1.1" -> "TLSv1_1"
      [] text = "1.2" -> "TLSv1_2" [] text = "1.3" -> "TLSv1_3" [] OTHER -> "none"
PrintTLSVersion(v) ==
    CASE v = "TLSv1_0" -> "CURL_SSLVERSION_TLSv1_0" [] v = "TLSv1_1" -> "CURL_SSLVERSION_TLSv1_1"
      [] v = "TLSv1_2" -> "CURL_SSLVERSION_TLSv1_2" [] v = "TLSv1_3" -> "CURL_SSLVERSION_TLSv1_3"
      [] OTHER -> "none"

\* A version of curl as one number, one byte for each part.
Number(v) == v[1] * 65536 + v[2] * 256 + v[3]
From(v, low, high) == Number(v) >= Number(low) /\ Number(v) < Number(high)

\* backend is CURL_SSL_BACKEND; only the system's curl of macOS is asked.
GlobalInit(systemMac, backend, v) ==
    IF systemMac /\ backend = "" /\ From(v, <<8, 3, 0>>, <<8, 6, 0>>) THEN "SecureTransport" ELSE "default"
EasyInit(v) == IF From(v, <<8, 7, 0>>, <<8, 8, 0>>) THEN "HTTP/1.1" ELSE "default"

\* A URL: whether it starts with file://, and the characters behind that.  On
\* Windows the code page may be empty of some characters: lost replaces them.
Encoded(c) == IF c = " " THEN <<"%", "2", "0">> ELSE <<c>>
ToCodePage(path, windows, lost) ==
    IF windows THEN [i \in DOMAIN path |-> IF path[i] \in lost THEN "?" ELSE path[i]] ELSE path
FixFileURL(url, windows, lost) ==
    IF ~url.file THEN url
    ELSE [url EXCEPT !.path = ToCodePage(FlattenSeq([i \in DOMAIN @ |-> Encoded(@[i])]), windows, lost)]

-----------------------------------------------------------------------------
(* Properties *)

CAAnswers(answers) == {answers["CAINFO"], answers["CAPATH"]}

\* A file that the caller names decides alone; without one exactly one origin
\* does, the user's variables before the Termux file before the system's, and
\* a file before a directory.  If nothing is set an error is reported, unless
\* libcurl was built without what was chosen, which nobody is told; where
\* libcurl takes all there is none.  A process without HOME gets none of this.
OneOrigin(cafile, env, find, answers) ==
    LET r == SetCAInfo(cafile, env, find, answers)
        order  == <<"SSL_CERT_FILE", "SSL_CERT_DIR", "cert_pem", "fedora", "common_file", "common_directory">>
        usable == IF find THEN env ELSE env \ {"fedora", "common_file", "common_directory"}
        found  == {i \in DOMAIN order : order[i] \in usable}
        First(source) == \E i \in found : order[i] = source /\ \A j \in found : i <= j IN
    "HOME" \in env =>
      /\ \A a \in r.set : \/ cafile # "" /\ a.source = cafile
                          \/ cafile = "" /\ First(a.source)
                          \/ cafile = "" /\ First("common_file") /\ a.source = "common_directory"
      /\ (cafile # "" \/ found # {}) /\ r.set = {} =>
           r.outcome = "error" \/ "NOT_BUILT_IN" \in CAAnswers(answers)
      /\ (\A a \in CAAnswers(answers) : ~Refused(a)) => r.outcome = "ok"

\* A login file is given to libcurl only with a level that reads it and was
\* not refused: a level that is misspelt, absent or refused never reads a login.
\* Only a libcurl built without levels is given the file alone.
FileNeedsLevel(level, file, answers) ==
    LET r == SetNETRCOption(level, file, answers) IN
    /\ r.set # << >> => level \in Levels \ {"IGNORED"} /\ answers["NETRC"] \in {"OK", "NOT_BUILT_IN"}
    /\ answers["NETRC"] = "OK" /\ r.set # << >> => r.set[1] = level
    /\ answers["NETRC"] = "OK" /\ r.outcome = "ok" /\ level \in {"OPTIONAL", "REQUIRED"} =>
         r.set = IF file = "" \/ answers["NETRC_FILE"] # "OK" THEN <<level>> ELSE <<level, file>>
    /\ level \notin Levels \cup {""} => r.outcome = "error"

\* A file URL names the same file with and without its spaces encoded, unless
\* Windows' code page lacks one of its characters; another URL is left alone.
FileURLNamesFile(url, windows, lost) ==
    LET fixed == FixFileURL(url, windows, lost)
        Spaces(path) == FlattenSeq([i \in DOMAIN path |-> Encoded(path[i])]) IN
    /\ ~url.file => fixed = url
    /\ url.file => /\ \A i \in DOMAIN fixed.path : fixed.path[i] # " "
                   /\ ToSet(url.path) \cap lost = {} => Spaces(fixed.path) = Spaces(url.path)
                   /\ ~windows => Len(fixed.path) >= Len(url.path)

\* The remedies are for the versions of curl they are meant for and no other: 8.3
\* to 8.5 for the TLS library, 8.7 for HTTP/2; what the user set stays.
RemediesInRange(v, backend, systemMac) ==
    /\ (EasyInit(v) = "HTTP/1.1") = (v[1] = 8 /\ v[2] = 7)
    /\ (GlobalInit(systemMac, backend, v) # "default") =
         (systemMac /\ backend = "" /\ v[1] = 8 /\ v[2] \in 3..5)

\* A TLS version that is read is one that can be shown, each as itself; a result
\* that libcurl was built without is passed over and so not reported.
VersionsShown(a, b, result) ==
    /\ ParseTLSVersion(a) # "none" =>
         /\ PrintTLSVersion(ParseTLSVersion(a)) # "none"
         /\ PrintTLSVersion(ParseTLSVersion(a)) = PrintTLSVersion(ParseTLSVersion(b)) => a = b
    /\ Len(Check(<<"earlier">>, result, "line")) = IF result \in {"OK", "NOT_BUILT_IN"} THEN 1 ELSE 2
=============================================================================
