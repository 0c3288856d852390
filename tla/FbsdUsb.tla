------------------------------ MODULE FbsdUsb ------------------------------
(***************************************************************************)
(* The FreeBSD backend of libusb: bulk transfers of several threads over   *)
(* one ugen descriptor.  A thread binds its endpoint to a slot, starts the *)
(* transfer under the handle's lock, then polls; whoever wakes collects    *)
(* every completion for all.                                               *)
(*                                                                         *)
(* The driver is not in this repository.  It is modelled as ugen(4)        *)
(* behaves towards this code: one transfer per open slot; a notice queued  *)
(* when it ends, in a queue with room for one notice per slot; collecting  *)
(* a notice copies out what the slot's transfer left, and is refused with  *)
(* EBUSY while the slot has another one running, with EINVAL if the slot   *)
(* is closed.                                                              *)
(*                                                                         *)
(* A transfer is named by its thread and its number.  StaysLocked,         *)
(* FreshSlotFirst, StillBound, NotRearmed, OwnOnly and NotLooped           *)
(* are faulty variants of the definitions that follow them, used by        *)
(* nothing here.                                                           *)
(***************************************************************************)
EXTENDS Naturals, Sequences, FiniteSets

CONSTANTS
    Threads,        \* threads that submit transfers on the handle
    Endpoints,      \* bulk endpoints of the device
    Uses,           \* Uses[t]: the endpoints thread t submits to
    Lengths,        \* lengths of transfers
    MaxBufSize,     \* USB_FS_MAX_BUFSIZE
    NFSEP,          \* FBSD_NFSEP, the number of slots
    MaxTransfers,   \* MaxTransfers[t]: bound on the transfers of thread t
    None            \* no endpoint, no thread, no transfer

Slots == 1..NFSEP
Ids   == Threads \X Nat

\* libusb leaves an endpoint to one thread; adb has one to read and one to write.
ASSUME FbsdAssumption ==
    /\ Uses \in [Threads -> SUBSET Endpoints]
    /\ \A t, u \in Threads : t # u => Uses[t] \cap Uses[u] = {}
    /\ None \notin Threads \cup Endpoints \cup Ids
    /\ Lengths \subseteq Nat /\ MaxBufSize \in Nat \ {0}
    /\ NFSEP \in Nat \ {0} /\ MaxTransfers \in [Threads -> Nat]

VARIABLES
    handle,     \* "closed", "plain" when USB_FS_INIT failed, or "fs"
    lock,       \* the thread that holds hpriv->lock
    hp,         \* the slot table of handle_priv
    pc,         \* where each thread is
    call,       \* the transfer each thread is in or was in last
    sent,       \* how many transfers each thread submitted
    outcome,    \* what its last transfer returned, and whose result that was
    xfer,       \* the driver's transfer of each slot
    notices,    \* completions the driver queued, by slot
    gone        \* whether the device was unplugged

driver == <<xfer, notices, gone>>
vars   == <<handle, lock, hp, pc, call, sent, outcome, driver>>

\* "ppbuf" is the transfer whose buffer the slot points at; "id" is the transfer
\* whose status and length were copied out last, "into" whose buffer its data.
FreeSlot == [ep |-> None, size |-> 0, ppbuf |-> None, done |-> FALSE,
             id |-> None, into |-> None]
NoXfer   == [state |-> "closed", id |-> None]
NewXfer  == [state |-> "idle", id |-> None]
NoCall   == [ep |-> None, len |-> 0, timed |-> FALSE, slot |-> 0]
Nothing  == [code |-> "none", id |-> None, into |-> None]

Id(t) == <<t, sent[t]>>
Goto(t, label) == pc' = [pc EXCEPT ![t] = label]
Waiting(t)     == pc[t] \in {"poll", "lock", "drain", "clock"}
InTransfer(t)  == pc[t] = "start" \/ Waiting(t)

Init ==
    /\ handle = "closed" /\ lock = None /\ gone = FALSE
    /\ hp = [s \in Slots |-> FreeSlot]
    /\ pc = [t \in Threads |-> "idle"]
    /\ call = [t \in Threads |-> NoCall]
    /\ sent = [t \in Threads |-> 0]
    /\ outcome = [t \in Threads |-> Nothing]
    /\ xfer = [s \in Slots |-> NoXfer]
    /\ notices = <<>>

\* pthread_mutex_unlock, also on the error paths.
StaysLocked(t) == UNCHANGED lock
Unlock(t)      == lock' = None

\* The transfer of t returns; its locals are gone.
ReturnResult(t, code, id, into) ==
    /\ Goto(t, "idle")
    /\ call' = [call EXCEPT ![t] = NoCall]
    /\ outcome' = [outcome EXCEPT ![t] = [code |-> code, id |-> id, into |-> into]]

Return(t, code) == ReturnResult(t, code, None, None)

-----------------------------------------------------------------------------
(* The driver                                                              *)

\* A transfer that ends is noticed in the queue, if there is room.
Notice(s) == notices' = IF Len(notices) < NFSEP THEN Append(notices, s) ELSE notices

\* The device answers, or the driver's own timer or an error ends the transfer.
XferEnds(s) ==
    /\ xfer[s].state = "running" /\ ~gone
    /\ xfer' = [xfer EXCEPT ![s].state = "ended"]
    /\ Notice(s)
    /\ UNCHANGED <<handle, lock, hp, pc, call, sent, outcome, gone>>

Unplug ==
    /\ ~gone /\ gone' = TRUE
    /\ UNCHANGED <<handle, lock, hp, pc, call, sent, outcome, xfer, notices>>

-----------------------------------------------------------------------------
(* fbsd_open, fbsd_close                                                   *)

OpenHandle ==
    /\ handle = "closed" /\ ~gone
    /\ handle' \in {"plain", "fs"}
    /\ hp' = [s \in Slots |-> FreeSlot]
    /\ UNCHANGED <<lock, pc, call, sent, outcome, driver>>

\* libusb closes a handle only when no call on it is running.
CloseHandle ==
    /\ handle # "closed"
    /\ \A t \in Threads : pc[t] = "idle"
    /\ handle' = "closed"
    /\ xfer' = [s \in Slots |-> NoXfer] /\ notices' = <<>>
    /\ UNCHANGED <<lock, hp, pc, call, sent, outcome, gone>>

-----------------------------------------------------------------------------
(* _fs_slot                                                                *)

Free        == {s \in Slots : hp[s].ep = None}
BoundTo(ep) == {s \in Slots : hp[s].ep = ep}
First(S)    == {s \in S : \A r \in S : s <= r}

\* The slot to use: the endpoint's own, else the first free one, else none.
FreshSlotFirst(ep) == IF Free # {} THEN First(Free) ELSE First(BoundTo(ep))
SlotFor(ep)        == IF BoundTo(ep) # {} THEN First(BoundTo(ep)) ELSE First(Free)

Fits(s, ep, len) == hp[s].ep = ep /\ hp[s].size >= len
OpenSize(len)    == IF len = 0 THEN 1 ELSE IF len > MaxBufSize THEN MaxBufSize ELSE len

\* USB_FS_CLOSE cancels what the slot was running.
Closed(s) ==
    IF hp[s].ep # None /\ xfer[s].state = "running" THEN Notice(s) ELSE UNCHANGED notices

\* A slot that was closed and could not be opened again.
StillBound(entry) == entry
Unbound(entry)    == [entry EXCEPT !.ep = None]

-----------------------------------------------------------------------------
(* _sync_gen_transfer                                                      *)

Submit(t) ==
    /\ pc[t] = "idle" /\ handle # "closed" /\ sent[t] < MaxTransfers[t]
    /\ sent' = [sent EXCEPT ![t] = @ + 1]
    /\ \/ /\ handle = "fs"
          /\ \E ep \in Uses[t], len \in Lengths, timed \in BOOLEAN :
                call' = [call EXCEPT ![t] = [ep |-> ep, len |-> len, timed |-> timed, slot |-> 0]]
          /\ Goto(t, "start")
          /\ outcome' = [outcome EXCEPT ![t] = Nothing]
       \/ handle = "plain" /\ Return(t, "not_supported")
    /\ UNCHANGED <<handle, lock, hp, driver>>

NoSlotLeft(t) ==
    /\ pc[t] = "start" /\ lock = None
    /\ SlotFor(call[t].ep) = {}
    /\ Return(t, "no_mem")
    /\ UNCHANGED <<handle, lock, hp, sent, driver>>

\* USB_FS_OPEN fails; a slot that was bound has been closed for it.
OpenFails(t) ==
    /\ pc[t] = "start" /\ lock = None
    /\ \E s \in SlotFor(call[t].ep) :
          /\ ~Fits(s, call[t].ep, call[t].len)
          /\ hp' = [hp EXCEPT ![s] = Unbound(@)]
          /\ xfer' = [xfer EXCEPT ![s] = NoXfer]
          /\ Closed(s)
    /\ Return(t, "open_failed")
    /\ UNCHANGED <<handle, lock, sent, gone>>

\* The slot is the endpoint's, large enough, and points at the new buffer.
NotRearmed(entry) == entry
Rearmed(entry)    == [entry EXCEPT !.done = FALSE]
Armed(t, s) ==
    [Rearmed(hp[s]) EXCEPT
        !.ep = call[t].ep, !.ppbuf = Id(t),
        !.size = IF Fits(s, call[t].ep, call[t].len) THEN @ ELSE OpenSize(call[t].len)]

\* The lock is held from the choice of the slot to USB_FS_START, which the
\* driver refuses while the slot's last transfer runs, when the length is
\* beyond what was opened, or for reasons of its own.
Start(t) ==
    /\ pc[t] = "start" /\ lock = None
    /\ \E s \in SlotFor(call[t].ep) :
          LET fits  == Fits(s, call[t].ep, call[t].len)
              now   == IF fits THEN xfer[s] ELSE NewXfer
              ready == ~gone /\ now.state # "running" /\ Armed(t, s).size >= call[t].len
          IN  /\ ~fits => ~gone
              /\ IF fits THEN UNCHANGED notices ELSE Closed(s)
              /\ hp' = [hp EXCEPT ![s] = Armed(t, s)]
              /\ \/ /\ ready
                    /\ call' = [call EXCEPT ![t].slot = s]
                    /\ xfer' = [xfer EXCEPT ![s] = [state |-> "running", id |-> Id(t)]]
                    /\ Goto(t, "poll") /\ UNCHANGED outcome
                 \/ /\ xfer' = [xfer EXCEPT ![s] = now]
                    /\ Return(t, "start_failed")
    /\ UNCHANGED <<handle, lock, sent, gone>>

\* poll(2) returns when a notice is queued, on hangup, or after 50 ms.
Poll(t) ==
    /\ pc[t] = "poll"
    /\ \/ gone /\ Return(t, "no_device")
       \/ ~gone /\ Goto(t, "lock") /\ UNCHANGED <<call, outcome>>
    /\ UNCHANGED <<handle, lock, hp, sent, driver>>

Lock(t) ==
    /\ pc[t] = "lock" /\ lock = None
    /\ lock' = t
    /\ Goto(t, "drain")
    /\ UNCHANGED <<handle, hp, call, sent, outcome, driver>>

\* _fs_drain puts what USB_FS_COMPLETE copied out into the slot it is for.
Filled(s) == [hp[s] EXCEPT !.done = TRUE, !.id = xfer[s].id, !.into = hp[s].ppbuf]
OwnOnly(t, s)   == IF s = call[t].slot THEN Filled(s) ELSE hp[s]
Completed(t, s) == Filled(s)

Collect(t) ==
    /\ pc[t] = "drain" /\ ~gone /\ notices # <<>>
    /\ xfer[Head(notices)].state \in {"idle", "ended"}
    /\ hp' = [hp EXCEPT ![Head(notices)] = Completed(t, Head(notices))]
    /\ notices' = Tail(notices)
    /\ UNCHANGED <<handle, lock, pc, call, sent, outcome, xfer, gone>>

\* ENXIO when the device is gone; EINVAL for a notice of a closed slot.
DrainFails(t) ==
    /\ pc[t] = "drain"
    /\ \/ gone /\ UNCHANGED notices
       \/ /\ ~gone /\ notices # <<>>
          /\ xfer[Head(notices)].state = "closed"
          /\ notices' = Tail(notices)
    /\ Unlock(t)
    /\ Return(t, "no_device")
    /\ UNCHANGED <<handle, hp, sent, xfer, gone>>

HasClock(t) == call[t].timed

\* EBUSY: nothing is queued, or a notice of a slot that runs again was.
Overtaken == notices # <<>> /\ xfer[Head(notices)].state = "running"
NotLooped == TRUE
Drained   == notices = <<>> \/ Overtaken

DrainEnds(t) ==
    /\ pc[t] = "drain" /\ ~gone /\ Drained
    /\ notices' = IF Overtaken THEN Tail(notices) ELSE notices
    /\ Unlock(t)
    /\ LET s == call[t].slot
       IN  \/ /\ hp[s].done
              /\ hp' = [hp EXCEPT ![s].done = FALSE]
              /\ ReturnResult(t, "completed", hp[s].id, hp[s].into)
           \/ /\ ~hp[s].done
              /\ Goto(t, IF HasClock(t) THEN "clock" ELSE "poll")
              /\ UNCHANGED <<hp, call, outcome>>
    /\ UNCHANGED <<handle, sent, xfer, gone>>

\* The comparison of the clock with the timeout.
Early(t) ==
    /\ pc[t] = "clock"
    /\ Goto(t, "poll")
    /\ UNCHANGED <<handle, lock, hp, call, sent, outcome, driver>>

TimesOut(t) ==
    /\ pc[t] = "clock"
    /\ Return(t, "timeout")
    /\ UNCHANGED <<handle, lock, hp, sent, driver>>

-----------------------------------------------------------------------------
(* _sync_control_transfer: the request runs under the lock                 *)

ControlBegins(t) ==
    /\ pc[t] = "idle" /\ handle # "closed" /\ lock = None
    /\ lock' = t
    /\ Goto(t, "control")
    /\ UNCHANGED <<handle, hp, call, sent, outcome, driver>>

ControlEnds(t) ==
    /\ pc[t] = "control"
    /\ Unlock(t)
    /\ Goto(t, "idle")
    /\ UNCHANGED <<handle, hp, call, sent, outcome, driver>>

-----------------------------------------------------------------------------
Begin(t)  == NoSlotLeft(t) \/ OpenFails(t) \/ Start(t)
Drain(t)  == Collect(t) \/ DrainFails(t) \/ DrainEnds(t)
Next ==
    \/ OpenHandle \/ CloseHandle \/ Unplug
    \/ \E s \in Slots : XferEnds(s)
    \/ \E t \in Threads : \/ Submit(t) \/ Begin(t) \/ Poll(t) \/ Lock(t) \/ Drain(t)
                          \/ Early(t) \/ TimesOut(t) \/ ControlBegins(t) \/ ControlEnds(t)

Spec == Init /\ [][Next]_vars

\* A thread is scheduled and not kept from the lock for ever, and time passes.
\* Nothing is assumed of the device.
Step(t)  == Begin(t) \/ Poll(t) \/ Lock(t) \/ Drain(t) \/ ControlEnds(t)
FairSpec == Spec /\ \A t \in Threads : SF_vars(Step(t)) /\ SF_vars(TimesOut(t))

-----------------------------------------------------------------------------
(* Properties                                                              *)

\* Types, and who is where: the lock is held by the thread that drains or has
\* a control request running, and one that waits has a slot.
Xfers  == [state : {"closed", "idle", "running", "ended"}, id : Ids \cup {None}]
Table  == [ep : Endpoints \cup {None}, size : Nat, ppbuf : Ids \cup {None}, done : BOOLEAN,
           id : Ids \cup {None}, into : Ids \cup {None}]
Calls  == [ep : Endpoints \cup {None}, len : Nat, timed : BOOLEAN, slot : Slots \cup {0}]
Codes  == {"none", "completed", "timeout", "no_device", "no_mem", "open_failed",
           "start_failed", "not_supported"}
Labels == {"idle", "start", "poll", "lock", "drain", "clock", "control"}

LockHeld == \A t \in Threads : lock = t <=> pc[t] \in {"drain", "control"}
SlotHeld == \A t \in Threads : Waiting(t) => call[t].slot \in Slots

TypeOK ==
    /\ LockHeld /\ SlotHeld
    /\ handle \in {"closed", "plain", "fs"} /\ gone \in BOOLEAN
    /\ lock \in Threads \cup {None}
    /\ hp \in [Slots -> Table]
    /\ pc \in [Threads -> Labels]
    /\ call \in [Threads -> Calls]
    /\ sent \in [Threads -> Nat]
    /\ outcome \in [Threads -> [code : Codes, id : Ids \cup {None}, into : Ids \cup {None}]]
    /\ xfer \in [Slots -> Xfers]
    /\ notices \in Seq(Slots)

\* A transfer that returns success or an I/O error, whichever the status says,
\* returns what the device did with that transfer, and the data are in that transfer's buffer: never the
\* result of an earlier transfer on the endpoint that timed out and ended late,
\* nor of another thread's (freebsd_usb.c:713-721).
OwnResult ==
    \A t \in Threads :
        outcome[t].code = "completed" =>
            outcome[t].id = Id(t) /\ outcome[t].into = Id(t)

\* The slot table says of every slot what the driver has: bound exactly when the
\* driver has it open.  The code never asks the driver (freebsd_usb.c:612-634).
TableMatchesDriver ==
    handle = "fs" => \A s \in Slots : (hp[s].ep = None) <=> (xfer[s].state = "closed")

\* An endpoint has one slot, whatever opening, growing and failing went before:
\* the driver would refuse a second (freebsd_usb.c:599-602).
OneSlotPerEndpoint ==
    \A s, r \in Slots : hp[s].ep = hp[r].ep /\ hp[s].ep # None => s = r

\* No notice is lost, however many transfers time out and end late: the queue
\* has one place for every slot, as many as there are threads and endpoints
\* together (freebsd_usb.c:48-50).
NoNoticeLost ==
    [][\A s \in Slots : xfer[s].state = "running" /\ xfer'[s] # xfer[s] /\ handle' # "closed"
         => Len(notices') > Len(notices)]_vars

\* A transfer the driver has ended is returned by the thread that waits for it,
\* whichever thread collects the notice and however many late ones are queued
\* before it; so is one whose timeout passes, or whose device is unplugged
\* (freebsd_usb.c:697-734).
Answered(t) == Waiting(t) /\ LET x == xfer[call[t].slot] IN x.state = "ended" /\ x.id = Id(t)
TransfersReturn ==
    \A t \in Threads :
        (Answered(t) \/ (InTransfer(t) /\ (call[t].timed \/ gone))) ~> pc[t] = "idle"
=============================================================================
