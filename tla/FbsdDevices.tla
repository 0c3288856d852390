---------------------------- MODULE FbsdDevices ----------------------------
(***************************************************************************)
(* The FreeBSD backend of libusb: the scan of /dev for ugen nodes, the     *)
(* devices libusb keeps from it, and the configuration cached for each.    *)
(* FbsdUsb has the transfers.  A node is named by bus and address, which   *)
(* the kernel gives to the next device when the first one is unplugged;    *)
(* a descriptor stays with the device it was opened on.                    *)
(*                                                                         *)
(* libusb's core is modelled as this code uses it: a device is found again *)
(* by its address for as long as anybody holds a reference to it.          *)
(*                                                                         *)
(* Leaky, RetriesNode, KeepsReference and NotRefreshed are faulty variants *)
(* of the definitions below them and are used by nothing here.             *)
(***************************************************************************)
EXTENDS Naturals, FiniteSets

CONSTANTS
    Nodes,      \* addresses: names of nodes
    Units,      \* devices that may be plugged in
    Configs,    \* numbers of configurations, 1 is the one a device starts with
    MaxReplugs, \* bound on the times a unit comes or goes
    None

VARIABLES
    plugged,    \* the unit behind each node
    replugs,    \* times a unit came or went
    active,     \* the configuration of each unit
    known,      \* libusb's device for each node, with what it cached
    refs,       \* who holds a reference to it: "scan", "list", "handle"
    scan,       \* "off", "next", "info", "describe", "config" or "append"
    todo,       \* entries readdir has still to return
    node,       \* the entry looked at
    fd,         \* the unit the scan's descriptor is open on
    handle,     \* the open libusb handle: its node and its unit
    refresh,    \* set_configuration is between its two halves
    changed,    \* history: units were swapped since the device was first seen
    missed      \* history: a configuration was set and not read back

DevicesAssumption == None \notin Nodes \cup Units

scanning == <<scan, todo, node, fd>>
using    == <<handle, refresh>>
vars     == <<plugged, replugs, active, known, refs, scan, todo, node, fd, handle, refresh, changed, missed>>

NoDevice == [unit |-> None, cunit |-> None, config |-> 0]
NoHandle == [node |-> None, unit |-> None]

Init ==
    /\ plugged \in [Nodes -> Units \cup {None}]
    /\ \A m, n \in Nodes : plugged[m] = plugged[n] => m = n \/ plugged[m] = None
    /\ replugs = 0 /\ active = [u \in Units |-> 1]
    /\ known = [n \in Nodes |-> NoDevice] /\ refs = [n \in Nodes |-> {}]
    /\ scan = "off" /\ todo = {} /\ node = None /\ fd = None
    /\ handle = NoHandle /\ refresh = FALSE
    /\ changed = [n \in Nodes |-> FALSE] /\ missed = [n \in Nodes |-> FALSE]

Put(f, n, v)  == [f EXCEPT ![n] = v]
Present(n, u) == u # None /\ plugged[n] = u

\* A unit comes or goes; a new one is in its first configuration.
Replug ==
    /\ replugs < MaxReplugs /\ replugs' = replugs + 1
    /\ \E n \in Nodes, u \in Units \cup {None} :
         /\ u # plugged[n]
         /\ u # None => \A m \in Nodes : plugged[m] # u
         /\ plugged' = Put(plugged, n, u)
         /\ active' = IF u = None THEN active ELSE Put(active, u, 1)
         /\ changed' = IF refs[n] # {} \/ node = n THEN Put(changed, n, TRUE) ELSE changed
    /\ UNCHANGED <<known, refs, scanning, using, missed>>

\* libusb_unref_device; the last reference destroys the device and its cache.
Drop(n, who) ==
    /\ refs' = Put(refs, n, refs[n] \ {who})
    /\ IF refs[n] \subseteq {who}
       THEN /\ known' = Put(known, n, NoDevice)
            /\ changed' = Put(changed, n, FALSE) /\ missed' = Put(missed, n, FALSE)
       ELSE UNCHANGED <<known, changed, missed>>

-----------------------------------------------------------------------------
(* fbsd_get_device_list; its caller has freed the last list *)

StartScan ==
    /\ scan = "off" /\ \A n \in Nodes : "list" \notin refs[n]
    /\ scan' = "next"
    /\ todo' = {n \in Nodes : plugged[n] # None}
    /\ UNCHANGED <<plugged, replugs, active, known, refs, node, fd, using, changed, missed>>

NextNode ==
    /\ scan = "next"
    /\ \E n \in todo :
         /\ todo' = todo \ {n}
         /\ \/ /\ plugged[n] # None
               /\ scan' = "info" /\ node' = n /\ fd' = plugged[n]
               /\ changed' = IF refs[n] = {} THEN Put(changed, n, FALSE) ELSE changed
            \/ UNCHANGED <<scan, node, fd, changed>>
    /\ UNCHANGED <<plugged, replugs, active, known, refs, using, missed>>

\* What remains of the descriptor when an entry is given up.
Leaky(u)  == u
Closed(u) == None

RetriesNode == scan' = "next" /\ node' = None /\ fd' = Closed(fd) /\ todo' = todo \cup {node}
GiveUpNode == scan' = "next" /\ node' = None /\ fd' = Closed(fd) /\ UNCHANGED todo
GiveUpScan == scan' = "off" /\ todo' = {} /\ node' = None /\ fd' = None

\* USB_GET_DEVICEINFO, and the device that libusb has for the address.
Info ==
    /\ scan = "info"
    /\ \/ GiveUpNode /\ UNCHANGED refs
       \/ /\ Present(node, fd) /\ refs[node] = {}
          /\ GiveUpScan /\ UNCHANGED refs                    \* usbi_alloc_device failed
       \/ /\ Present(node, fd)
          /\ scan' = IF refs[node] = {} THEN "describe" ELSE "append"
          /\ fd' = IF refs[node] = {} THEN fd ELSE None
          /\ refs' = Put(refs, node, refs[node] \cup {"scan"})
          /\ UNCHANGED <<todo, node>>
    /\ UNCHANGED <<plugged, replugs, active, known, using, changed, missed>>

\* Who keeps a reference to a device whose descriptors cannot be read.
KeepsReference == "nobody"
Holder         == "scan"

Describe ==
    /\ scan = "describe"
    /\ \/ GiveUpNode /\ Drop(node, Holder)
       \/ /\ Present(node, fd) /\ scan' = "config"
          /\ known' = Put(known, node, [NoDevice EXCEPT !.unit = fd])
          /\ UNCHANGED <<refs, todo, node, fd, changed, missed>>
    /\ UNCHANGED <<plugged, replugs, active, using>>

\* _cache_active_config_descriptor on a descriptor of unit u.
Cached(d, u) == [d EXCEPT !.cunit = u, !.config = active[u]]

CacheConfig ==
    /\ scan = "config"
    /\ \/ GiveUpNode /\ Drop(node, Holder)
       \/ /\ Present(node, fd) /\ scan' = "append" /\ fd' = None
          /\ known' = Put(known, node, Cached(known[node], fd))
          /\ UNCHANGED <<refs, todo, node, changed, missed>>
    /\ UNCHANGED <<plugged, replugs, active, using>>

\* Out of memory, the core frees what was appended so far.
Append ==
    /\ scan = "append"
    /\ \/ /\ scan' = "next" /\ node' = None
          /\ refs' = Put(refs, node, (refs[node] \ {"scan"}) \cup {"list"})
          /\ UNCHANGED <<known, todo, fd, changed, missed>>
       \/ GiveUpScan /\ Drop(node, "scan")
    /\ UNCHANGED <<plugged, replugs, active, using>>

EndScan ==
    /\ scan = "next" /\ todo = {} /\ scan' = "off"
    /\ UNCHANGED <<plugged, replugs, active, known, refs, todo, node, fd, using, changed, missed>>

Scanning == NextNode \/ Info \/ Describe \/ CacheConfig \/ Append \/ EndScan

FreeDevice ==
    /\ scan = "off"
    /\ \E n \in Nodes : "list" \in refs[n] /\ Drop(n, "list")
    /\ UNCHANGED <<plugged, replugs, active, scanning, using>>

-----------------------------------------------------------------------------
(* One handle: fbsd_open, fbsd_close, fbsd_set_configuration *)

\* The node is opened by its name.
Open ==
    /\ scan = "off" /\ handle = NoHandle
    /\ \E n \in Nodes :
         /\ "list" \in refs[n] /\ plugged[n] # None
         /\ handle' = [node |-> n, unit |-> plugged[n]]
         /\ refs' = Put(refs, n, refs[n] \cup {"handle"})
    /\ UNCHANGED <<plugged, replugs, active, known, scanning, refresh, changed, missed>>

Close ==
    /\ scan = "off" /\ handle # NoHandle /\ ~refresh
    /\ handle' = NoHandle /\ Drop(handle.node, "handle")
    /\ UNCHANGED <<plugged, replugs, active, scanning, refresh>>

SetConfiguration ==
    /\ scan = "off" /\ handle # NoHandle /\ ~refresh
    /\ Present(handle.node, handle.unit)
    /\ \E c \in Configs : active' = Put(active, handle.unit, c)
    /\ refresh' = TRUE
    /\ UNCHANGED <<plugged, replugs, known, refs, scanning, handle, changed, missed>>

\* The node is opened by its name once more; where that fails, success is
\* reported all the same.
NotRefreshed(d, u) == d
Refreshed(d, u)    == Cached(d, u)

Refresh ==
    /\ refresh /\ refresh' = FALSE
    /\ LET n == handle.node IN
       \/ /\ plugged[n] # None
          /\ known' = Put(known, n, Refreshed(known[n], plugged[n])) /\ missed' = Put(missed, n, FALSE)
       \/ missed' = Put(missed, n, TRUE) /\ UNCHANGED known
    /\ UNCHANGED <<plugged, replugs, active, refs, scanning, handle, changed>>

Next ==
    \/ Replug \/ StartScan \/ Scanning \/ FreeDevice
    \/ Open \/ Close \/ SetConfiguration \/ Refresh

Fairness == WF_vars(Scanning)
Spec     == Init /\ [][Next]_vars /\ Fairness

-----------------------------------------------------------------------------
(* Properties *)

\* A scan that has ended, on whichever error, holds neither a descriptor nor a
\* device, and libusb keeps exactly the devices somebody refers to.
ScanHoldsNothing ==
    /\ scan = "off" => fd = None /\ \A n \in Nodes : "scan" \notin refs[n]
    /\ scan = "next" => fd = None
    /\ \A n \in Nodes : refs[n] = {} => known[n] = NoDevice

\* A device that is listed or open has the descriptor and the configuration of
\* the unit that is plugged in, all of one unit, unless units were swapped while
\* somebody held it (its address finds the old one again) or a new
\* configuration could not be read back (set_configuration reports success).
DescribesWhatIsPlugged == \A n \in Nodes :
    refs[n] \cap {"list", "handle"} # {} /\ ~changed[n] =>
        /\ known[n].unit = plugged[n] /\ known[n].cunit = plugged[n]
        /\ missed[n] \/ refresh \/ known[n].config = active[plugged[n]]
        /\ handle.node = n => handle.unit = plugged[n]

\* The scan ends, however often units come and go meanwhile.
ScanEnds == scan = "next" ~> scan = "off"
=============================================================================
