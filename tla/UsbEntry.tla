------------------------------ MODULE UsbEntry ------------------------------
(***************************************************************************)
(* The thin files between adb or fastboot and what drives USB: the         *)
(* wrappers over libtermuxadb (termux_adb.h, termux_fastboot.h) with the   *)
(* two readings of LIBUSB_TERMUX_IMPL, and adb's entry points on Windows   *)
(* and the BSDs.                                                           *)
(*                                                                         *)
(* AnySet and ClosesAlways are faulty variants of the definitions below    *)
(* them and are used by nothing here.                                      *)
(***************************************************************************)
EXTENDS Naturals, Sequences, FiniteSetsExt

-----------------------------------------------------------------------------
(* LIBUSB_TERMUX_IMPL: unset, or a value that is UTF-8 or not *)

Unset == [set |-> FALSE, text |-> "", utf8 |-> TRUE]

AnySet(e) == e.set
Asked(e)  == e.set /\ e.text \notin {"", "0"}

\* fastboot keeps what it read first; 2 stands for the -1 of not read.
NotRead == 2
Enabled(cache, e) ==
    LET now == IF cache = NotRead THEN (IF Asked(e) THEN 1 ELSE 0) ELSE cache IN
    [cache |-> now, result |-> now = 1]

\* The library reads it at every call.
TermuxImplEnabled(e) == e.set /\ e.utf8 /\ e.text \notin {"", "0"}

-----------------------------------------------------------------------------
(* Wrappers *)

\* TEMP_FAILURE_RETRY over the answers of the hook; 0 while all are EINTR.
FirstAnswer(answers) ==
    LET done == {i \in DOMAIN answers : answers[i] # "EINTR"} IN IF done = {} THEN "EINTR" ELSE answers[Min(done)]

UnixOpen(options, mode, answers) ==
    IF "O_CREAT" \in options
    THEN [hook |-> "termuxadb_create", options |-> options, mode |-> mode, fd |-> FirstAnswer(answers)]
    ELSE [hook |-> "termuxadb_open", options |-> options, mode |-> 0, fd |-> FirstAnswer(answers)]

FastbootUnixOpen(options, mode, answers) ==
    IF "O_CREAT" \in options
    THEN [hook |-> "termuxadb_create", options |-> options, mode |-> mode, fd |-> FirstAnswer(answers)]
    ELSE [hook |-> "termuxadb_open", options |-> options, mode |-> 0, fd |-> FirstAnswer(answers)]

\* A file, whose reading stops after so many characters with an error, or not.
\* closed counts what unique_fd closes.
ReadFileToString(file, content, follow) ==
    LET opens == file.there /\ (follow \/ ~file.link) IN
    CASE ~opens                                    -> [ok |-> FALSE, content |-> << >>, opened |-> 0, closed |-> 0]
      [] opens /\ file.stops < Len(file.text) -> [ok |-> FALSE, content |-> SubSeq(file.text, 1, file.stops),
                                                       opened |-> 1, closed |-> 1]
      [] OTHER                                     -> [ok |-> TRUE, content |-> file.text, opened |-> 1, closed |-> 1]

-----------------------------------------------------------------------------
(* usb_init and usb_cleanup of adb *)

\* devices are those that the hotplug thread of libusb has opened.
WindowsInit(plugged) == plugged
BsdInit(plugged)     == plugged

ClosesAlways(devices, enabled)  == {}
WindowsCleanup(devices, enabled) == IF enabled THEN {} ELSE devices
BsdCleanup(devices)              == {}

-----------------------------------------------------------------------------
(* Properties *)

\* fastboot walks /dev/bus/usb exactly if the library stands in for it there, as
\* long as the variable is text and does not change after the first question.
OneAnswer(first, later) ==
    LET asked == Enabled(NotRead, first)
        again == Enabled(asked.cache, later) IN
    /\ again.result = asked.result
    /\ first.utf8 => asked.result = TermuxImplEnabled(first)
    /\ later = first /\ first.utf8 => again.result = TermuxImplEnabled(later)
    /\ again.result # TermuxImplEnabled(later) => later # first \/ ~first.utf8

\* A hook that a signal interrupts is asked again, adb's and fastboot's alike; a
\* file is read whole or said not to be, and what the string held before is
\* never taken for the file's; no descriptor stays.
ReadsWhole(file, content, follow, answers) ==
    LET r == ReadFileToString(file, content, follow)
        o == UnixOpen({"O_RDONLY"}, 0, answers) IN
    /\ o = FastbootUnixOpen({"O_RDONLY"}, 0, answers)
    /\ o.fd = "EINTR" => \A i \in DOMAIN answers : answers[i] = "EINTR"
    /\ r.opened = r.closed
    /\ r.ok = (file.there /\ (file.link => follow) /\ file.stops >= Len(file.text))
    /\ r.ok => r.content = file.text
    /\ r.content = SubSeq(file.text, 1, Len(r.content))

\* What adb opened is closed when it ends, so that the next server can claim it;
\* on Windows only if libusb was not switched off, though it was started anyway.
ClosesItsDevices(plugged, enabled) ==
    /\ BsdCleanup(BsdInit(plugged)) = {}
    /\ (WindowsCleanup(WindowsInit(plugged), enabled) = {}) = (enabled \/ plugged = {})
=============================================================================
