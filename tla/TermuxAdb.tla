------------------------------ MODULE TermuxAdb ------------------------------
(***************************************************************************)
(* libtermuxadb: adb and fastboot inside Termux get the descriptors of USB *)
(* devices from termux-usb.  One thread lists the devices and has          *)
(* termux-usb run a child for each new one, the child sends its descriptor *)
(* over a socket, a listener puts what arrives into two maps, and the      *)
(* hooks of opendir, readdir and open answer from the maps.  adb scans     *)
(* every two seconds; fastboot lists once and waits for the listener to    *)
(* receive one message for every device.                                   *)
(*                                                                         *)
(* A descriptor is named by the connection it was made for: the n-th time  *)
(* its device was plugged in.  The directories under /dev/bus/usb are one  *)
(* directory.  Live, NotWaited, Accumulated, OneMore and OneLess are       *)
(* faulty variants of the definitions that follow them, used by nothing    *)
(* here.                                                                   *)
(***************************************************************************)
EXTENDS Naturals, Sequences, FiniteSets

CONSTANTS
    Devices,    \* device nodes, in the order of their names
    MaxPlugs,   \* bound on the number of times each is plugged in
    MaxWalks,   \* bound on the walks of adb over the directory
    Room,       \* messages the socket holds: a sender waits for room
    None        \* no device

ASSUME TermuxAssumption ==
    Devices \subseteq Nat /\ IsFiniteSet(Devices) /\ None \notin Devices
    /\ MaxPlugs \in [Devices -> Nat \ {0}] /\ MaxWalks \in Nat /\ Room \in Nat \ {0}

VARIABLES
    mode,       \* "adb" or "fastboot"
    plugged,    \* devices that are plugged in
    conn,       \* how many times each was
    main,       \* where the scanning thread is
    last,       \* last_usb_list
    listed,     \* usb_dev_list
    todo,       \* devices of usb_dev_list it has not looked at
    children,   \* children of termux-usb: of which device, and the descriptor
    socket,     \* messages that were sent and not received
    listener,   \* where the listening thread is
    msg,        \* the message it works on
    received,   \* turns of its loop, counted for fastboot only
    dirs,       \* DIR_MAP
    fds,        \* USB_FD_MAP, 0 for no entry
    walk,       \* the directory stream of adb or fastboot
    walks,      \* how many there were
    refused,    \* history: devices whose request sent nothing since the last
    wasted,     \* list, or sent what then arrived without a descriptor
    failed      \* history: the listener of fastboot had an error

world    == <<mode, plugged, conn>>
scanner  == <<main, last, listed, todo>>
incoming == <<listener, msg, received>>
maps     == <<dirs, fds>>
hooks    == <<walk, walks>>
history  == <<refused, wasted, failed>>
vars     == <<world, scanner, children, socket, incoming, maps, hooks, history>>

NoMessage == [dev |-> None, fd |-> 0]
NoWalk    == [open |-> FALSE, entries |-> {}, pos |-> 0, seen |-> {}]

Init ==
    /\ mode \in {"adb", "fastboot"}
    /\ plugged \in SUBSET Devices
    /\ conn = [d \in Devices |-> IF d \in plugged THEN 1 ELSE 0]
    /\ main = "list" /\ last = {} /\ listed = {} /\ todo = {}
    /\ children = {} /\ socket = <<>>
    /\ listener = IF mode = "adb" THEN "recv" ELSE "off"
    /\ msg = NoMessage /\ received = 0
    /\ dirs = {} /\ fds = [d \in Devices |-> 0]
    /\ walk = NoWalk /\ walks = 0
    /\ refused = {} /\ wasted = {} /\ failed = FALSE

-----------------------------------------------------------------------------
(* The devices                                                             *)

Plug(d) ==
    /\ d \notin plugged /\ conn[d] < MaxPlugs[d]
    /\ plugged' = plugged \cup {d}
    /\ conn' = [conn EXCEPT ![d] = @ + 1]
    /\ UNCHANGED <<mode, scanner, children, socket, incoming, maps, hooks, history>>

Unplug(d) ==
    /\ d \in plugged
    /\ plugged' = plugged \ {d}
    /\ UNCHANGED <<mode, conn, scanner, children, socket, incoming, maps, hooks, history>>

-----------------------------------------------------------------------------
(* start and scan_for_usb_devices, authorize_connected_devices             *)

\* termux-usb -l; a failure lists nothing.  fastboot starts its listener now.
List ==
    /\ main = "list"
    /\ listed' \in {plugged, {}}
    /\ todo' = listed' \ last
    /\ main' = "ask"
    /\ listener' = IF mode = "fastboot" THEN "recv" ELSE listener
    /\ refused' = {} /\ wasted' = {}
    /\ UNCHANGED <<world, last, children, socket, msg, received, maps, hooks, failed>>

\* run_under_termux_usb waits for termux-usb and with it for the child.
NotWaited == TRUE
Waited    == children = {}

Ask(d) ==
    /\ main = "ask" /\ d \in todo /\ Waited
    /\ todo' = todo \ {d}
    /\ children' = children \cup {[dev |-> d, fd |-> 0]}
    /\ UNCHANGED <<world, main, last, listed, socket, incoming, maps, hooks, history>>

\* What the next scan compares its list with.
Accumulated == last \cup listed
Remembered  == listed

AllAsked ==
    /\ main = "ask" /\ todo = {} /\ Waited
    /\ IF mode = "adb"
       THEN main' = "sleep" /\ last' = Remembered /\ UNCHANGED listed
       ELSE main' = "join" /\ UNCHANGED last
    /\ UNCHANGED <<world, listed, todo, children, socket, incoming, maps, hooks, history>>

WakeUp ==
    /\ main = "sleep"
    /\ main' = "list"
    /\ UNCHANGED <<world, last, listed, todo, children, socket, incoming, maps, hooks, history>>

\* The unwrap of a panic of the listener ends the process.
Join ==
    /\ main = "join" /\ listener \in {"ended", "dead"}
    /\ main' = IF listener = "ended" THEN "done" ELSE "aborted"
    /\ UNCHANGED <<world, last, listed, todo, children, socket, incoming, maps, hooks, history>>

-----------------------------------------------------------------------------
(* termux-usb and the child it runs, which is adb or fastboot again:       *)
(* sendfd_to_adb                                                           *)

\* The user grants the permission.
Granted(c) ==
    /\ c.fd = 0 /\ c.dev \in plugged
    /\ children' = (children \ {c}) \cup {[c EXCEPT !.fd = conn[c.dev]]}
    /\ UNCHANGED <<world, scanner, socket, incoming, maps, hooks, history>>

Send(c) ==
    /\ c.fd # 0 /\ Len(socket) < Room
    /\ children' = children \ {c}
    /\ socket' = Append(socket, c)
    /\ UNCHANGED <<world, scanner, incoming, maps, hooks, history>>

\* No permission, no device any more, no child, or an error of the socket.
Refuse(c) ==
    /\ children' = children \ {c}
    /\ refused' = refused \cup {c.dev}
    /\ UNCHANGED <<world, scanner, socket, incoming, maps, hooks, wasted, failed>>

-----------------------------------------------------------------------------
(* start_socket_listener                                                   *)

OneLess  == Cardinality(listed) - 1
OneMore  == Cardinality(listed) + 1
Expected == Cardinality(listed)

\* The loop of adb has no end; that of fastboot counts errors as well.
Continues == mode = "adb" \/ received < Expected
Counted   == received' = IF mode = "adb" THEN received ELSE received + 1

Receive ==
    /\ listener = "recv" /\ Continues /\ socket # <<>>
    /\ socket' = Tail(socket) /\ Counted
    /\ \/ msg' = Head(socket) /\ listener' = "dir" /\ UNCHANGED wasted
       \/ wasted' = wasted \cup {Head(socket).dev} /\ UNCHANGED <<msg, listener>>
    /\ UNCHANGED <<world, scanner, children, maps, hooks, refused, failed>>

ReceiveFails ==
    /\ listener = "recv" /\ Continues
    /\ failed' = (mode = "fastboot") /\ Counted
    /\ UNCHANGED <<world, scanner, children, socket, listener, msg, maps, hooks, refused, wasted>>

\* update_dir_map, under the lock of DIR_MAP.
AddDir ==
    /\ listener = "dir"
    /\ dirs' = dirs \cup {msg.dev}
    /\ listener' = "fd"
    /\ UNCHANGED <<world, scanner, children, socket, msg, received, fds, hooks, history>>

\* Under the lock of USB_FD_MAP.
AddFd ==
    /\ listener = "fd"
    /\ fds' = [fds EXCEPT ![msg.dev] = msg.fd]
    /\ listener' = "serial"
    /\ UNCHANGED <<world, scanner, children, socket, msg, received, dirs, hooks, history>>

\* init_libusb_device_serial talks to the device and may fail.
ReadSerial ==
    /\ listener = "serial"
    /\ listener' = "recv" /\ msg' = NoMessage
    /\ UNCHANGED <<world, scanner, children, socket, received, maps, hooks, history>>

\* languages[0] of a device that names no language.
ListenerPanics ==
    /\ listener = "serial"
    /\ listener' = "dead" /\ msg' = NoMessage
    /\ UNCHANGED <<world, scanner, children, socket, received, maps, hooks, history>>

ListenerEnds ==
    /\ listener = "recv" /\ ~Continues
    /\ listener' = "ended"
    /\ UNCHANGED <<world, scanner, children, socket, msg, received, maps, hooks, history>>

-----------------------------------------------------------------------------
(* The hooks: termuxadb_opendir, termuxadb_readdir, termuxadb_open         *)

\* What open returns.  Without an entry in the map it is the system's open that
\* decides, which adb has no permission for.
Opens(d) == fds[d]

\* The n-th in the order of a BTreeSet.
Nth(S, n) == {d \in S : Cardinality({e \in S : e <= d}) = n}

\* A stream has a copy of the entries.
Live   == dirs
Stream == walk.entries

Opendir ==
    /\ ~walk.open /\ walks < MaxWalks /\ (mode = "adb" \/ main = "done")
    /\ walk' = [NoWalk EXCEPT !.open = TRUE, !.entries = dirs]
    /\ walks' = walks + 1
    /\ UNCHANGED <<world, scanner, children, socket, incoming, maps, history>>

Readdir ==
    /\ walk.open
    /\ \E d \in Nth(Stream, walk.pos + 1) :
          walk' = [walk EXCEPT !.pos = @ + 1, !.seen = @ \cup {d}]
    /\ UNCHANGED <<world, scanner, children, socket, incoming, maps, walks, history>>

Closedir ==
    /\ walk.open /\ Nth(Stream, walk.pos + 1) = {}
    /\ walk' = NoWalk
    /\ UNCHANGED <<world, scanner, children, socket, incoming, maps, walks, history>>

-----------------------------------------------------------------------------
Scan  == List \/ AllAsked \/ WakeUp \/ Join \/ \E d \in Devices : Ask(d)
Child == \E c \in children : Granted(c) \/ Send(c) \/ Refuse(c)
Works == Receive \/ AddDir \/ AddFd \/ ReadSerial \/ ListenerEnds
Hook  == Opendir \/ Readdir \/ Closedir
Next  == \/ Scan \/ Child \/ Works \/ ReceiveFails \/ ListenerPanics \/ Hook
         \/ \E d \in Devices : Plug(d) \/ Unplug(d)

Spec == Init /\ [][Next]_vars

\* Threads are scheduled, the user answers every request in the end, and a
\* listing does not fail for ever.
FairSpec ==
    /\ Spec
    /\ WF_vars(Scan) /\ WF_vars(Child) /\ WF_vars(Works)
    /\ SF_vars(List /\ listed' = plugged)

-----------------------------------------------------------------------------
(* Properties                                                              *)

\* Every variable has a value its code gives it.
TypeOK ==
    /\ mode \in {"adb", "fastboot"} /\ plugged \subseteq Devices
    /\ conn \in [Devices -> Nat] /\ fds \in [Devices -> Nat]
    /\ \A d \in Devices : fds[d] <= conn[d] /\ conn[d] <= MaxPlugs[d]
    /\ main \in {"list", "ask", "sleep", "join", "done", "aborted"}
    /\ last \subseteq Devices /\ listed \subseteq Devices /\ todo \subseteq listed
    /\ children \subseteq [dev : Devices, fd : Nat] /\ Cardinality(children) <= 1
    /\ socket \in Seq([dev : Devices, fd : Nat \ {0}]) /\ Len(socket) <= Room
    /\ listener \in {"off", "recv", "dir", "fd", "serial", "ended", "dead"}
    /\ msg \in [dev : Devices, fd : Nat \ {0}] \cup {NoMessage}
    /\ received \in 0 .. Cardinality(Devices)
    /\ dirs \subseteq Devices /\ walk.entries \subseteq Devices
    /\ walk.pos \in 0 .. Cardinality(Devices) /\ walks \in 0 .. MaxWalks
    /\ refused \subseteq Devices /\ wasted \subseteq Devices /\ failed \in BOOLEAN

\* open never goes back: what it returns for a device is never the descriptor
\* of an earlier connection than before, in whatever order the children of
\* termux-usb were granted and sent theirs.
NeverOlder == [][\A d \in Devices : Opens(d)' >= Opens(d)]_vars

\* A walk over the directory returns every device that was there when it began,
\* and none twice, however the listener adds devices meanwhile.
WalkComplete ==
    [][Closedir => walk.entries \subseteq walk.seen /\ Cardinality(walk.seen) = walk.pos]_vars

\* When fastboot goes on, it has a descriptor of every device it listed whose
\* request sent one, unless the socket had an error.
AuthorizedWhenDone ==
    main = "done" /\ ~failed => \A d \in listed \ (refused \cup wasted) : Opens(d) # 0

\* fastboot goes on when every request is granted and the listener does not
\* panic: authorize_connected_devices waits for as many messages as come.
FastbootReturns ==
    mode = "fastboot" /\ [](refused = {} /\ listener # "dead") => <>(main = "done")

\* A device that one scan of adb did not list gets the descriptor of its present
\* connection when it stays plugged in, whether or not adb knew it before.
ReplugOpens ==
    \A d \in Devices :
        mode = "adb" /\ main = "ask" /\ d \notin listed
          ~> \/ Opens(d) = conn[d] \/ d \notin plugged
             \/ d \in refused \cup wasted \/ listener = "dead"
=============================================================================
