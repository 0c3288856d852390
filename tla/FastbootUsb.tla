---------------------------- MODULE FastbootUsb ----------------------------
(***************************************************************************)
(* The libusb backend of fastboot (fastboot_usb_libusb.cpp): usb_open      *)
(* walks the devices, their interfaces and the settings of each until one  *)
(* can be claimed, and the transport it returns owns handle and context.   *)
(* libusb may refuse any call and may transfer less than it was asked to.  *)
(*                                                                         *)
(* A device is the sequence of its settings in the order of the two inner  *)
(* loops.  The descriptor fields and the serial number are left out: a     *)
(* setting says whether the callback of fastboot takes it.                 *)
(*                                                                         *)
(* KeepsLooking, HandleKept and WholeChunk are faulty variants of the      *)
(* definitions below them and are used by nothing here.                    *)
(***************************************************************************)
EXTENDS Naturals, Sequences, SequencesExt

CONSTANTS
    Devices,    \* what libusb_get_device_list returns
    Lengths,    \* lengths of buffers written
    Chunk       \* kBulkChunk

VARIABLES
    phase,      \* "start", "list", "device", "setting", "free", "open", "null" or "closed"
    device,     \* index of the device looked at
    setting,    \* index of its setting
    held,       \* what was taken from libusb and not given back
    claimed,    \* the transport: the setting claimed, or << >>
    passedOver, \* history: settings that were not taken though they fit
    count,      \* bytes the current Write has counted
    left,       \* its bytes to go
    received,   \* positions of the buffer the device has received
    written     \* "none", "running", "error" or the outcome "all"

\* What libusb lists are sequences, of which one may be empty.
FastbootAssumption ==
    /\ Len(Devices) \in Nat /\ DOMAIN Devices = 1..Len(Devices)
    /\ \A d \in DOMAIN Devices : Len(Devices[d]) \in Nat /\ DOMAIN Devices[d] = 1..Len(Devices[d])
    /\ Lengths \subseteq Nat /\ Chunk \in Nat

finding == <<phase, device, setting, held, claimed, passedOver>>
writing == <<count, left, received, written>>
vars    == <<phase, device, setting, held, claimed, passedOver, count, left, received, written>>

Init ==
    /\ phase = "start" /\ device = 1 /\ setting = 1 /\ held = {} /\ claimed = << >>
    /\ passedOver = {}
    /\ count = 0 /\ left = 0 /\ received = << >> /\ written = "none"

Here     == Devices[device][setting]
Position == <<device, setting>>

\* fill_ifc_info: the last bulk endpoint of each direction.
Bulk(s, direction) ==
    LET fits == SelectSeq(s.endpoints, LAMBDA e : e.bulk /\ e.direction = direction) IN
    IF fits = << >> THEN 0 ELSE Last(fits).address

Fits(s) == s.matches /\ Bulk(s, "in") # 0 /\ Bulk(s, "out") # 0

-----------------------------------------------------------------------------
(* usb_open *)

InitLibrary ==
    /\ phase = "start"
    /\ \/ phase' = "list" /\ held' = {"context"}
       \/ phase' = "null" /\ UNCHANGED held
    /\ UNCHANGED <<device, setting, claimed, passedOver, writing>>

\* An error is a negative length: the loop does not start.
ListDevices ==
    /\ phase = "list"
    /\ \/ phase' = "device" /\ held' = held \cup {"list"}
       \/ phase' = "free" /\ UNCHANGED held
    /\ UNCHANGED <<device, setting, claimed, passedOver, writing>>

Unread == {<<device, i>> : i \in {j \in DOMAIN Devices[device] : Fits(Devices[device][j])}}

LookAtDevice ==
    /\ phase = "device"
    /\ \/ /\ device > Len(Devices)
          /\ phase' = "free"
          /\ UNCHANGED <<device, setting, held, passedOver>>
       \/ /\ device <= Len(Devices)
          /\ \/ phase' = "setting" /\ setting' = 1 /\ held' = held \cup {"config"}
                /\ UNCHANGED <<device, passedOver>>
             \/ device' = device + 1 /\ passedOver' = passedOver \cup Unread
                /\ UNCHANGED <<phase, setting, held>>
    /\ UNCHANGED <<claimed, writing>>

Found == claimed # << >>

\* The condition that ends all three loops.
KeepsLooking == FALSE
Stop         == Found

\* The handle is opened before the setting is compared, and closed again
\* unless the transport has it.
HandleKept(took) == {"handle"}
Kept(took) == IF took THEN {"handle", "interface"} ELSE {}

TrySetting ==
    /\ phase = "setting" /\ ~Stop /\ setting <= Len(Devices[device])
    /\ setting' = setting + 1
    /\ \E opened, took \in BOOLEAN :
         /\ took => opened /\ Fits(Here)
         /\ claimed' = IF took THEN Position ELSE claimed
         /\ held' = IF opened THEN held \cup Kept(took) ELSE held
         /\ passedOver' = IF Fits(Here) /\ ~took THEN passedOver \cup {Position} ELSE passedOver
    /\ UNCHANGED <<phase, device, writing>>

EndDevice ==
    /\ phase = "setting" /\ (Stop \/ setting > Len(Devices[device]))
    /\ held' = held \ {"config"}
    /\ IF Stop THEN phase' = "free" /\ UNCHANGED device
       ELSE phase' = "device" /\ device' = device + 1
    /\ UNCHANGED <<setting, claimed, passedOver, writing>>

GivenUp == IF Found THEN {} ELSE {"context"}

Finish ==
    /\ phase = "free"
    /\ held' = (held \ {"list"}) \ GivenUp
    /\ phase' = IF Found THEN "open" ELSE "null"
    /\ UNCHANGED <<device, setting, claimed, passedOver, writing>>

-----------------------------------------------------------------------------
(* LibusbTransport *)

StartWrite ==
    /\ phase \in {"open", "closed"} /\ written # "running"
    /\ \E n \in Lengths : left' = n
    /\ written' = IF phase = "closed" THEN "error" ELSE "running"
    /\ count' = 0 /\ received' = << >>
    /\ UNCHANGED finding

\* What one bulk transfer adds to the count.
WholeChunk(n, done) == n
Counted(n, done)    == done

Transfer ==
    /\ written = "running" /\ left > 0
    /\ LET n == IF left < Chunk THEN left ELSE Chunk IN
       \E done \in 0..n :
         /\ received' = received \o [i \in 1..done |-> count + i]
         /\ \/ /\ count' = count + Counted(n, done) /\ left' = left - Counted(n, done)
               /\ UNCHANGED written
            \/ written' = "error" /\ UNCHANGED <<count, left>>
    /\ UNCHANGED finding

EndWrite ==
    /\ written = "running" /\ left = 0 /\ written' = "all"
    /\ UNCHANGED <<finding, count, left, received>>

\* Close, and the destructor that calls it again.
Close ==
    /\ phase \in {"open", "closed"} /\ written # "running"
    /\ phase' = "closed"
    /\ held' = held \ {"interface", "handle", "context"}
    /\ UNCHANGED <<device, setting, claimed, passedOver, writing>>

Next ==
    \/ InitLibrary \/ ListDevices \/ LookAtDevice \/ TrySetting \/ EndDevice \/ Finish
    \/ StartWrite \/ Transfer \/ EndWrite \/ Close

Spec == Init /\ [][Next]_vars

-----------------------------------------------------------------------------
(* Properties *)

\* Whichever libusb call fails, usb_open gives everything back when it returns
\* nothing, and exactly the context, the handle and the interface otherwise,
\* which Close then gives back.
TransportOwnsAll ==
    /\ phase \in {"null", "closed"} => held = {}
    /\ phase = "open" => held = {"context", "handle", "interface"}

\* The transport is on the first setting that fits, in the order of the bus,
\* unless libusb refused the ones before it; no transport means that it refused
\* every one.
FirstFitting ==
    LET Fitting == UNION {{<<d, s>> : s \in {i \in DOMAIN Devices[d] : Fits(Devices[d][i])}} :
                             d \in DOMAIN Devices}
        Before(p) == {q \in Fitting : q[1] < p[1] \/ (q[1] = p[1] /\ q[2] < p[2])} IN
    /\ phase = "open" => claimed \in Fitting /\ Before(claimed) \subseteq passedOver
    /\ phase = "null" /\ device > Len(Devices) => Fitting \subseteq passedOver

\* A Write that reports success has passed every byte to the device once and in
\* order, however short the transfers were; one that fails, a prefix of them.
WrittenInOrder ==
    /\ IsPrefix(received, [i \in 1..Len(received) |-> i])
    /\ written = "all" => Len(received) = count /\ left = 0
=============================================================================
