---------------------------- MODULE FbsdRequests ----------------------------
(***************************************************************************)
(* The requests of the FreeBSD USB backend that take one ioctl, and what   *)
(* libusb's core makes of the table of its operations.  What a call sees   *)
(* of the kernel is a record: errno of the open and of the ioctl ("0" when *)
(* it succeeds), the errno that close leaves, and the data.                *)
(*                                                                         *)
(* ReadsLate is a faulty variant of the definition below it and is used by *)
(* nothing here.                                                           *)
(***************************************************************************)
EXTENDS Integers, Sequences

CONSTANT MaxLen     \* largest length of ugd_maxlen, 0xffff in the code

Errnos == {"EIO", "EACCES", "ENOENT", "ENXIO", "ENOMEM", "ETIMEDOUT", "EBUSY", "EINVAL"}

ErrnoToLibusb(err) ==
    CASE err = "EIO"                -> "IO"
      [] err = "EACCES"             -> "ACCESS"
      [] err \in {"ENOENT", "ENXIO"} -> "NO_DEVICE"
      [] err = "ENOMEM"             -> "NO_MEM"
      [] err = "ETIMEDOUT"          -> "TIMEOUT"
      [] err = "EBUSY"              -> "BUSY"
      [] OTHER                      -> "OTHER"

Least(a, b) == IF a < b THEN a ELSE b

\* What a call returns: its status, the data it copied, the descriptors it keeps.
Fails(status) == [status |-> status, data |-> << >>, open |-> 0]
Gives(data)   == [status |-> "SUCCESS", data |-> data, open |-> 0]

-----------------------------------------------------------------------------
(* Operations of a device *)

Speed(udi_speed) ==
    IF udi_speed \in {"LOW", "FULL", "HIGH", "SUPER"} THEN udi_speed ELSE "UNKNOWN"

\* cdesc is the cached descriptor, << >> if there is none.
GetActiveConfigDescriptor(cdesc, len) ==
    IF cdesc = << >> THEN Fails("NOT_FOUND") ELSE Gives(SubSeq(cdesc, 1, Least(len, Len(cdesc))))

DestroyDevice(cdesc) == << >>

\* The errno of the ioctl, or the one that close left behind it.
ReadsLate(k) == IF k.close = "0" THEN k.ioctl ELSE k.close
ErrnoOf(k)   == k.ioctl

\* External: the kernel fills in what fits.
Filled(data, maxlen) == SubSeq(data, 1, Least(maxlen, Len(data)))

GetConfigDescriptor(k, len) ==
    CASE k.open # "0"                 -> Fails(ErrnoToLibusb(k.open))
      [] k.open = "0" /\ k.ioctl # "0" -> Fails(ErrnoToLibusb(ErrnoOf(k)))
      [] OTHER                         -> Gives(Filled(k.data, Least(len, MaxLen)))

-----------------------------------------------------------------------------
(* Operations of a handle, whose descriptor is open *)

GetConfiguration(k, val) == IF k.ioctl # "0" THEN Fails(ErrnoToLibusb(k.ioctl)) ELSE Gives(<<val % 256>>)

\* ugen(4) grants the whole device to who opens it.
ClaimInterface(iface)   == Gives(<< >>)
ReleaseInterface(iface) == Gives(<< >>)

SetInterfaceAltsetting(k, iface, altsetting) ==
    IF k.ioctl # "0" THEN Fails(ErrnoToLibusb(k.ioctl)) ELSE Gives(<<iface, altsetting>>)

\* The two bytes of wIndex as the host stores the endpoint.
Stored(endpoint, little) == IF little THEN <<endpoint, 0>> ELSE <<0, endpoint>>

ClearHalt(k, endpoint, little) ==
    IF k.ioctl # "0" THEN Fails(ErrnoToLibusb(k.ioctl))
    ELSE Gives(<<"CLEAR_FEATURE", "ENDPOINT_HALT">> \o Stored(endpoint, little))

\* External: a request is little-endian on the bus.
Endpoint(request) == request[3] + 256 * request[4]

CancelTransfer == Fails("NOT_SUPPORTED")
HandleTransferCompletion == "COMPLETED"

-----------------------------------------------------------------------------
(* The table of operations *)

Backend == { "get_device_list", "open", "close", "get_active_config_descriptor", "get_config_descriptor",
    "get_configuration", "set_configuration", "claim_interface", "release_interface",
    "set_interface_altsetting", "clear_halt", "destroy_device", "submit_transfer", "cancel_transfer",
    "handle_transfer_completion" }

\* External: libusb's core calls these without asking whether they are there,
\* and answers for the others when they are not.
Required == { "open", "close", "get_active_config_descriptor", "get_config_descriptor", "set_configuration",
    "claim_interface", "release_interface", "set_interface_altsetting", "clear_halt", "submit_transfer",
    "cancel_transfer" }
Core(op, answer) == IF op \in Backend THEN answer ELSE "NOT_SUPPORTED"

\* fastboot's UsbTransport::Reset.
Reset(answer) == Core("reset_device", answer)

-----------------------------------------------------------------------------
(* Properties *)

\* Whichever step of a request fails, the caller learns of that step's error and
\* not of a later one's, and nothing stays open; otherwise it has the start of
\* the descriptor, as long as its buffer and the 16 bits of the length allow.
RequestAnswers(k, len) ==
    LET r == GetConfigDescriptor(k, len)
        e == IF k.open # "0" THEN k.open ELSE k.ioctl IN
    /\ r.open = 0
    /\ IF e = "0" THEN /\ Len(r.data) <= len
                       /\ Len(k.data) <= len /\ Len(k.data) <= MaxLen => r = Gives(k.data)
       ELSE r = Fails(ErrnoToLibusb(e))
    /\ r.status = "NO_DEVICE" => e \in {"ENOENT", "ENXIO"}
    /\ k.data # << >> /\ k.ioctl = "0" =>
         GetActiveConfigDescriptor(k.data, len).data = Filled(k.data, len)
    /\ GetActiveConfigDescriptor(DestroyDevice(k.data), len).status = "NOT_FOUND"

\* A halt is cleared at the endpoint asked for on a little-endian host; a
\* big-endian one asks for an endpoint that does not exist.
ClearsItsEndpoint(endpoint, little) ==
    LET k == [open |-> "0", ioctl |-> "0", close |-> "0", data |-> << >>] IN
    (Endpoint(ClearHalt(k, endpoint, little).data) = endpoint) = little

\* The operations of an open handle tell the error of their ioctl, or do what was
\* asked; an interface is granted and given back without the kernel, a number of
\* a configuration fits its byte, and no transfer ever counts as cancelled.
HandleAnswers(k, iface, altsetting, val, udi_speed) ==
    LET told == ErrnoToLibusb(k.ioctl) IN
    /\ (k.ioctl # "0") = (SetInterfaceAltsetting(k, iface, altsetting).status # "SUCCESS")
    /\ k.ioctl # "0" => \A r \in {SetInterfaceAltsetting(k, iface, altsetting), GetConfiguration(k, val),
                                  ClearHalt(k, iface, TRUE)} : r = Fails(told)
    /\ k.ioctl = "0" => /\ SetInterfaceAltsetting(k, iface, altsetting).data = <<iface, altsetting>>
                        /\ val \in 0..255 => GetConfiguration(k, val).data = <<val>>
    /\ ClaimInterface(iface) = ReleaseInterface(iface) /\ ClaimInterface(iface).status = "SUCCESS"
    /\ CancelTransfer.status # "SUCCESS" /\ HandleTransferCompletion # "CANCELLED"
    /\ Speed(udi_speed) = "UNKNOWN" <=> udi_speed \notin {"LOW", "FULL", "HIGH", "SUPER"}

\* libusb finds every operation it calls unasked; the reset that fastboot asks
\* for is none of them, and is refused whatever the device would answer.
CoreFindsOperations == Required \subseteq Backend /\ \A answer \in {"SUCCESS", "OTHER"} : Reset(answer) = "NOT_SUPPORTED"
=============================================================================
