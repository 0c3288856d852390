---------------------------- MODULE Fbsd_proofs ----------------------------
(***************************************************************************)
(* Types, the slot table and the results of transfers of FbsdUsb, for any  *)
(* number of threads, endpoints and slots.                                 *)
(***************************************************************************)
EXTENDS FbsdUsb, FiniteSetTheorems, TLAPS

-----------------------------------------------------------------------------
(* Types *)

LEMMA IdType == ASSUME TypeOK, NEW t \in Threads PROVE Id(t) \in Ids
BY DEF TypeOK, Id, Ids

LEMMA SlotForType == \A ep : SlotFor(ep) \subseteq Slots
BY DEF SlotFor, First, BoundTo, Free

LEMMA TailType == ASSUME NEW q \in Seq(Slots), q # <<>> PROVE Head(q) \in Slots /\ Tail(q) \in Seq(Slots)
OBVIOUS

LEMMA NoticeType == ASSUME TypeOK, NEW s \in Slots, Notice(s) PROVE notices' \in Seq(Slots)
BY DEF TypeOK, Notice

LEMMA ClosedType == ASSUME TypeOK, NEW s \in Slots, Closed(s) PROVE notices' \in Seq(Slots)
BY NoticeType DEF TypeOK, Closed

LEMMA ArmedType ==
    ASSUME TypeOK, NEW t \in Threads, NEW s \in Slots
    PROVE  /\ Armed(t, s) \in Table
           /\ Armed(t, s).ep = call[t].ep /\ Armed(t, s).ppbuf = Id(t) /\ ~Armed(t, s).done
<1>1. hp[s] \in Table /\ call[t] \in Calls /\ Id(t) \in Ids
  BY IdType DEF TypeOK, Calls
<1>2. OpenSize(call[t].len) \in Nat
  BY <1>1, FbsdAssumption DEF OpenSize, Calls
<1>3. Rearmed(hp[s]) \in Table /\ ~Rearmed(hp[s]).done /\ call[t].ep \in Endpoints \cup {None}
  BY <1>1 DEF Rearmed, Table, Calls
<1>4. QED BY <1>1, <1>2, <1>3 DEF Armed, Table

LEMMA FilledType == ASSUME TypeOK, NEW s \in Slots PROVE Filled(s) \in Table
<1>1. hp[s] \in Table /\ xfer[s] \in Xfers
  BY DEF TypeOK
<1>2. QED BY <1>1 DEF Filled, Table, Xfers

LEMMA InitHasTypes == Init => TypeOK
<1> SUFFICES ASSUME Init PROVE TypeOK
  OBVIOUS
<1>1. LockHeld /\ SlotHeld /\ lock \in Threads \cup {None} /\ pc \in [Threads -> Labels]
  BY FbsdAssumption DEF Init, LockHeld, SlotHeld, Waiting, Labels
<1>2. FreeSlot \in Table /\ NoXfer \in Xfers /\ NoCall \in Calls
  BY DEF FreeSlot, Table, NoXfer, Xfers, NoCall, Calls
<1>3. Nothing \in [code : Codes, id : Ids \cup {None}, into : Ids \cup {None}]
  BY DEF Nothing, Codes
<1>4. sent \in [Threads -> Nat] /\ hp \in [Slots -> Table] /\ xfer \in [Slots -> Xfers]
  BY <1>2 DEF Init
<1>5. call \in [Threads -> Calls] /\ notices \in Seq(Slots)
      /\ outcome \in [Threads -> [code : Codes, id : Ids \cup {None}, into : Ids \cup {None}]]
  BY <1>2, <1>3 DEF Init
<1>6. QED BY <1>1, <1>4, <1>5 DEF Init, TypeOK

Holding  == {"drain", "control"}
PlacesOK == LockHeld /\ SlotHeld /\ lock \in Threads \cup {None} /\ pc \in [Threads -> Labels]
Outcomes == [code : Codes, id : Ids \cup {None}, into : Ids \cup {None}]

\* A thread moves, and the lock with it.
LEMMA Moves ==
    ASSUME TypeOK, NEW t \in Threads, NEW label \in Labels, Goto(t, label),
           \A u \in Threads \ {t} : call'[u] = call[u],
           label \in {"poll", "lock", "drain", "clock"} => call'[t].slot \in Slots,
           \/ label \notin Holding /\ pc[t] \notin Holding /\ lock' = lock
           \/ label \notin Holding /\ pc[t] \in Holding /\ lock' = None
           \/ label \in Holding /\ lock = None /\ lock' = t
    PROVE  PlacesOK'
<1>1. pc' = [pc EXCEPT ![t] = label] /\ pc' \in [Threads -> Labels]
  BY DEF Goto, TypeOK
<1>2. SlotHeld'
  BY <1>1 DEF TypeOK, SlotHeld, Waiting
<1>3. LockHeld' /\ lock' \in Threads \cup {None}
  BY <1>1, FbsdAssumption DEF TypeOK, LockHeld, Holding
<1>4. QED BY <1>1, <1>2, <1>3 DEF PlacesOK

LEMMA Returns ==
    ASSUME TypeOK, NEW t \in Threads, NEW code \in Codes, NEW id \in Ids \cup {None},
           NEW into \in Ids \cup {None}, ReturnResult(t, code, id, into),
           \/ pc[t] \notin Holding /\ lock' = lock
           \/ pc[t] \in Holding /\ lock' = None
    PROVE  PlacesOK' /\ call' \in [Threads -> Calls] /\ outcome' \in [Threads -> Outcomes]
<1>1. NoCall \in Calls
  BY DEF NoCall, Calls
<1>2. [code |-> code, id |-> id, into |-> into] \in Outcomes
  BY DEF Outcomes
<1>3. call' \in [Threads -> Calls] /\ outcome' \in [Threads -> Outcomes]
  BY <1>1, <1>2 DEF ReturnResult, TypeOK, Outcomes
<1>4. PlacesOK'
  BY Moves DEF ReturnResult, TypeOK, Labels, Holding
<1>5. QED BY <1>3, <1>4

LEMMA NextKeepsTypes == TypeOK /\ [Next]_vars => TypeOK'
<1> SUFFICES ASSUME TypeOK, [Next]_vars PROVE TypeOK'
  OBVIOUS
<1> USE DEF driver
<1>0. /\ hp \in [Slots -> Table] /\ xfer \in [Slots -> Xfers] /\ notices \in Seq(Slots)
      /\ call \in [Threads -> Calls]
  BY DEF TypeOK
<1>1. CASE OpenHandle
  <2>1. FreeSlot \in Table
    BY DEF FreeSlot, Table
  <2>2. QED BY <1>1, <2>1 DEF OpenHandle, TypeOK, LockHeld, SlotHeld, Waiting
<1>2. CASE CloseHandle
  <2>1. NoXfer \in Xfers
    BY DEF NoXfer, Xfers
  <2>2. QED BY <1>2, <2>1 DEF CloseHandle, TypeOK, LockHeld, SlotHeld, Waiting
<1>3. CASE Unplug
  BY <1>3 DEF Unplug, TypeOK, LockHeld, SlotHeld, Waiting
<1>4. ASSUME NEW s \in Slots, XferEnds(s) PROVE TypeOK'
  <2>1. xfer' = [xfer EXCEPT ![s].state = "ended"]
    BY <1>4 DEF XferEnds
  <2>2. xfer' \in [Slots -> Xfers]
    BY <2>1 DEF TypeOK, Xfers
  <2>3. QED BY <1>4, <2>2, NoticeType DEF XferEnds, TypeOK, LockHeld, SlotHeld, Waiting
<1>5. ASSUME NEW t \in Threads, Submit(t) PROVE TypeOK'
  <2>1. pc[t] = "idle" /\ lock' = lock /\ sent' \in [Threads -> Nat]
    BY <1>5 DEF Submit, TypeOK
  <2>2. CASE Return(t, "not_supported")
    <3>1. PlacesOK' /\ call' \in [Threads -> Calls] /\ outcome' \in [Threads -> Outcomes]
      BY <2>1, <2>2, Returns DEF Return, Codes, Holding
    <3>2. QED BY <1>5, <2>1, <3>1 DEF Submit, TypeOK, PlacesOK, Outcomes
  <2>3. ASSUME NEW ep \in Uses[t], NEW len \in Lengths, NEW timed \in BOOLEAN,
               call' = [call EXCEPT ![t] = [ep |-> ep, len |-> len, timed |-> timed, slot |-> 0]],
               Goto(t, "start"), outcome' = [outcome EXCEPT ![t] = Nothing]
        PROVE  TypeOK'
    <3>1. [ep |-> ep, len |-> len, timed |-> timed, slot |-> 0] \in Calls
      BY FbsdAssumption DEF Calls
    <3>2. Nothing \in Outcomes
      BY DEF Nothing, Codes, Outcomes
    <3>3. call' \in [Threads -> Calls] /\ outcome' \in [Threads -> Outcomes]
      BY <2>3, <3>1, <3>2 DEF TypeOK, Outcomes
    <3>4. PlacesOK'
      BY <2>1, <2>3, Moves DEF TypeOK, Labels, Holding
    <3>5. QED BY <1>5, <2>1, <3>3, <3>4 DEF Submit, TypeOK, PlacesOK, Outcomes
  <2>4. QED BY <1>5, <2>2, <2>3 DEF Submit
<1>6. ASSUME NEW t \in Threads, NoSlotLeft(t) PROVE TypeOK'
  <2>1. PlacesOK' /\ call' \in [Threads -> Calls] /\ outcome' \in [Threads -> Outcomes]
    BY <1>6, Returns DEF NoSlotLeft, Return, Codes, Holding
  <2>2. QED BY <1>6, <2>1 DEF NoSlotLeft, TypeOK, PlacesOK, Outcomes
<1>7. ASSUME NEW t \in Threads, OpenFails(t) PROVE TypeOK'
  <2>1. PICK s \in Slots : /\ hp' = [hp EXCEPT ![s] = Unbound(@)]
                           /\ xfer' = [xfer EXCEPT ![s] = NoXfer]
                           /\ Closed(s)
    BY <1>7, SlotForType DEF OpenFails
  <2>2. hp' \in [Slots -> Table] /\ xfer' \in [Slots -> Xfers] /\ notices' \in Seq(Slots)
    <3>1. Unbound(hp[s]) \in Table /\ NoXfer \in Xfers
      <4>1. hp[s] \in Table
        BY <1>0
      <4>2. Unbound(hp[s]) \in Table
        BY <4>1 DEF Unbound, Table
      <4>3. QED BY <4>2 DEF NoXfer, Xfers
    <3>2. QED BY <2>1, <3>1, ClosedType DEF TypeOK
  <2>3. PlacesOK' /\ call' \in [Threads -> Calls] /\ outcome' \in [Threads -> Outcomes]
    BY <1>7, Returns DEF OpenFails, Return, Codes, Holding
  <2>4. QED BY <1>7, <2>2, <2>3 DEF OpenFails, TypeOK, PlacesOK, Outcomes
<1>8. ASSUME NEW t \in Threads, Start(t) PROVE TypeOK'
  <2> DEFINE fits(s) == Fits(s, call[t].ep, call[t].len)
             now(s)  == IF fits(s) THEN xfer[s] ELSE NewXfer
             begun   == [state |-> "running", id |-> Id(t)]
  <2>1. PICK s \in Slots : /\ IF fits(s) THEN UNCHANGED notices ELSE Closed(s)
                           /\ hp' = [hp EXCEPT ![s] = Armed(t, s)]
                           /\ \/ /\ call' = [call EXCEPT ![t].slot = s]
                                 /\ xfer' = [xfer EXCEPT ![s] = begun]
                                 /\ Goto(t, "poll") /\ UNCHANGED outcome
                              \/ /\ xfer' = [xfer EXCEPT ![s] = now(s)]
                                 /\ Return(t, "start_failed")
    BY <1>8, SlotForType DEF Start
  <2> HIDE DEF fits, now, begun
  <2>2. notices' \in Seq(Slots)
    BY <2>1, ClosedType DEF TypeOK
  <2>3. hp' \in [Slots -> Table]
    <3>1. Armed(t, s) \in Table
      BY ArmedType
    <3>2. QED BY <1>0, <2>1, <3>1
  <2>4. begun \in Xfers /\ now(s) \in Xfers
    BY IdType DEF TypeOK, NewXfer, Xfers, begun, now
  <2>5. xfer' \in [Slots -> Xfers]
    BY <1>0, <2>1, <2>4
  <2>6. pc[t] = "start" /\ UNCHANGED <<handle, lock, sent, gone>>
    BY <1>8 DEF Start
  <2>7. CASE Return(t, "start_failed")
    <3>1. PlacesOK' /\ call' \in [Threads -> Calls] /\ outcome' \in [Threads -> Outcomes]
      BY <2>6, <2>7, Returns DEF Return, Codes, Holding
    <3>2. QED BY <2>2, <2>3, <2>5, <2>6, <3>1 DEF TypeOK, PlacesOK, Outcomes
  <2>8. CASE /\ call' = [call EXCEPT ![t].slot = s]
             /\ Goto(t, "poll") /\ UNCHANGED outcome
    <3>1. call' \in [Threads -> Calls]
      BY <2>8 DEF TypeOK, Calls
    <3>2. call'[t].slot \in Slots /\ \A u \in Threads \ {t} : call'[u] = call[u]
      BY <1>0, <2>8 DEF Calls
    <3>3. PlacesOK'
      BY <2>6, <2>8, <3>2, Moves DEF Labels, Holding
    <3>4. QED BY <2>2, <2>3, <2>5, <2>6, <2>8, <3>1, <3>3 DEF TypeOK, PlacesOK
  <2>9. QED BY <2>1, <2>7, <2>8
<1>9. ASSUME NEW t \in Threads, Poll(t) PROVE TypeOK'
  <2>1. CASE Return(t, "no_device")
    <3>1. PlacesOK' /\ call' \in [Threads -> Calls] /\ outcome' \in [Threads -> Outcomes]
      BY <1>9, <2>1, Returns DEF Poll, Return, Codes, Holding
    <3>2. QED BY <1>9, <3>1 DEF Poll, TypeOK, PlacesOK, Outcomes
  <2>2. CASE Goto(t, "lock") /\ UNCHANGED <<call, outcome>>
    <3>1. call[t].slot \in Slots
      BY <1>9 DEF Poll, TypeOK, SlotHeld, Waiting
    <3>2. PlacesOK'
      BY <1>9, <2>2, <3>1, Moves DEF Poll, Labels, Holding
    <3>3. QED BY <1>9, <2>2, <3>2 DEF Poll, TypeOK, PlacesOK
  <2>3. QED BY <1>9, <2>1, <2>2 DEF Poll
<1>10. ASSUME NEW t \in Threads, Lock(t) PROVE TypeOK'
  <2>1. call[t].slot \in Slots
    BY <1>10 DEF Lock, TypeOK, SlotHeld, Waiting
  <2>2. PlacesOK'
    BY <1>10, <2>1, Moves DEF Lock, Labels, Holding
  <2>3. QED BY <1>10, <2>2 DEF Lock, TypeOK, PlacesOK
<1>11. ASSUME NEW t \in Threads, Collect(t) PROVE TypeOK'
  <2>1. Head(notices) \in Slots /\ notices' \in Seq(Slots)
    BY <1>0, <1>11, TailType DEF Collect
  <2>2. hp' \in [Slots -> Table]
    BY <1>11, <2>1, FilledType DEF Collect, Completed, TypeOK
  <2>3. QED BY <1>11, <2>1, <2>2 DEF Collect, TypeOK, LockHeld, SlotHeld, Waiting
<1>12. ASSUME NEW t \in Threads, DrainFails(t) PROVE TypeOK'
  <2>1. notices' \in Seq(Slots)
    BY <1>0, <1>12, TailType DEF DrainFails
  <2>2. PlacesOK' /\ call' \in [Threads -> Calls] /\ outcome' \in [Threads -> Outcomes]
    BY <1>12, Returns DEF DrainFails, Unlock, Return, Codes, Holding
  <2>3. QED BY <1>12, <2>1, <2>2 DEF DrainFails, TypeOK, PlacesOK, Outcomes
<1>13. ASSUME NEW t \in Threads, DrainEnds(t) PROVE TypeOK'
  <2> DEFINE s == call[t].slot
  <2>0. notices' \in Seq(Slots)
    BY <1>0, <1>13, TailType DEF DrainEnds, Overtaken
  <2>1. /\ pc[t] = "drain" /\ lock' = None /\ UNCHANGED <<handle, sent, xfer, gone>>
        /\ notices' \in Seq(Slots) /\ s \in Slots
    BY <1>13, <2>0 DEF DrainEnds, TypeOK, Unlock, SlotHeld, Waiting
  <2> HIDE DEF s
  <2>2. CASE /\ hp[s].done
             /\ hp' = [hp EXCEPT ![s].done = FALSE]
             /\ ReturnResult(t, "completed", hp[s].id, hp[s].into)
    <3>1. hp' \in [Slots -> Table]
      <4>1. hp[s] \in Table
        BY <1>0, <2>1
      <4>2. [hp[s] EXCEPT !.done = FALSE] \in Table
        BY <4>1 DEF Table
      <4>3. hp' = [hp EXCEPT ![s] = [hp[s] EXCEPT !.done = FALSE]]
        BY <2>2
      <4>4. QED BY <1>0, <4>2, <4>3
    <3>2. hp[s].id \in Ids \cup {None} /\ hp[s].into \in Ids \cup {None}
      BY <2>1 DEF TypeOK, Table
    <3>3. PlacesOK' /\ call' \in [Threads -> Calls] /\ outcome' \in [Threads -> Outcomes]
      BY <2>1, <2>2, <3>2, Returns DEF Codes, Holding
    <3>4. QED BY <2>1, <3>1, <3>3 DEF TypeOK, PlacesOK, Outcomes
  <2>3. CASE /\ Goto(t, IF HasClock(t) THEN "clock" ELSE "poll")
             /\ UNCHANGED <<hp, call, outcome>>
    <3>1. PlacesOK'
      BY <2>1, <2>3, Moves DEF Labels, Holding, s
    <3>2. QED BY <2>1, <2>3, <3>1 DEF TypeOK, PlacesOK
  <2>4. QED BY <1>13, <2>2, <2>3 DEF DrainEnds, s
<1>14. ASSUME NEW t \in Threads, Early(t) PROVE TypeOK'
  <2>1. call[t].slot \in Slots
    BY <1>14 DEF Early, TypeOK, SlotHeld, Waiting
  <2>2. PlacesOK'
    BY <1>14, <2>1, Moves DEF Early, Labels, Holding
  <2>3. QED BY <1>14, <2>2 DEF Early, TypeOK, PlacesOK
<1>15. ASSUME NEW t \in Threads, TimesOut(t) PROVE TypeOK'
  <2>1. PlacesOK' /\ call' \in [Threads -> Calls] /\ outcome' \in [Threads -> Outcomes]
    BY <1>15, Returns DEF TimesOut, Return, Codes, Holding
  <2>2. QED BY <1>15, <2>1 DEF TimesOut, TypeOK, PlacesOK, Outcomes
<1>16. ASSUME NEW t \in Threads, ControlBegins(t) PROVE TypeOK'
  <2>1. PlacesOK'
    BY <1>16, Moves DEF ControlBegins, Labels, Holding
  <2>2. QED BY <1>16, <2>1 DEF ControlBegins, TypeOK, PlacesOK
<1>17. ASSUME NEW t \in Threads, ControlEnds(t) PROVE TypeOK'
  <2>1. PlacesOK'
    BY <1>17, Moves DEF ControlEnds, Unlock, Labels, Holding
  <2>2. QED BY <1>17, <2>1 DEF ControlEnds, TypeOK, PlacesOK
<1>18. CASE UNCHANGED vars
  BY <1>18 DEF vars, TypeOK, LockHeld, SlotHeld, Waiting
<1>19. QED
  BY <1>1, <1>2, <1>3, <1>4, <1>5, <1>6, <1>7, <1>8, <1>9, <1>10, <1>11, <1>12, <1>13, <1>14,
     <1>15, <1>16, <1>17, <1>18 DEF Next, Begin, Drain

\* In every reachable state the handle's table, the driver's slots and the
\* threads are well formed: the lock belongs to the thread that drains or runs a
\* control request, and a thread that waits for a transfer has a slot.
THEOREM FbsdTypes == Spec => []TypeOK
<1>1. QED BY InitHasTypes, NextKeepsTypes, PTL DEF Spec

-----------------------------------------------------------------------------
(* The slot table *)

\* Without USB_FS_INIT the driver has no slot open and no thread is in a bulk
\* transfer.
NoSlotsWithoutFs ==
    handle # "fs" => /\ \A s \in Slots : xfer[s].state = "closed"
                     /\ \A t \in Threads : ~InTransfer(t)

OwnEndpoint == \A t \in Threads : InTransfer(t) => call[t].ep \in Uses[t]

TableInv == TypeOK /\ NoSlotsWithoutFs /\ TableMatchesDriver /\ OneSlotPerEndpoint /\ OwnEndpoint

LEMMA SlotForMeaning ==
    ASSUME NEW ep, NEW s \in SlotFor(ep)
    PROVE  /\ s \in Slots
           /\ \/ hp[s].ep = ep
              \/ hp[s].ep = None /\ \A r \in Slots : hp[r].ep # ep
BY DEF SlotFor, First, BoundTo, Free

\* What Start does to the table and to the driver, whether or not the driver
\* takes the transfer.
LEMMA StartTouchesOneSlot ==
    ASSUME TableInv, NEW t \in Threads, Start(t)
    PROVE  \E s \in SlotFor(call[t].ep), x \in Xfers :
              /\ s \in Slots
              /\ hp' = [hp EXCEPT ![s] = Armed(t, s)]
              /\ xfer' = [xfer EXCEPT ![s] = x]
              /\ x.state # "closed"
              /\ \/ x.state = "running" /\ x.id = Id(t) /\ Goto(t, "poll")
                    /\ call' = [call EXCEPT ![t].slot = s] /\ UNCHANGED outcome
                 \/ Return(t, "start_failed")
<1> DEFINE fits(s) == Fits(s, call[t].ep, call[t].len)
           now(s)  == IF fits(s) THEN xfer[s] ELSE NewXfer
           begun   == [state |-> "running", id |-> Id(t)]
<1>1. PICK s \in SlotFor(call[t].ep) :
         /\ hp' = [hp EXCEPT ![s] = Armed(t, s)]
         /\ \/ /\ call' = [call EXCEPT ![t].slot = s]
               /\ xfer' = [xfer EXCEPT ![s] = begun]
               /\ Goto(t, "poll") /\ UNCHANGED outcome
            \/ /\ xfer' = [xfer EXCEPT ![s] = now(s)]
               /\ Return(t, "start_failed")
  BY DEF Start
<1>2. s \in Slots /\ pc[t] = "start"
  BY SlotForMeaning DEF Start
<1>3. call[t].ep # None /\ handle = "fs"
  BY <1>2, FbsdAssumption DEF TableInv, OwnEndpoint, NoSlotsWithoutFs, InTransfer
<1>4. fits(s) => xfer[s].state # "closed"
  BY <1>2, <1>3 DEF TableInv, TableMatchesDriver, Fits
<1>5. now(s) \in Xfers /\ now(s).state # "closed" /\ begun \in Xfers
  BY <1>2, <1>4, IdType DEF TableInv, TypeOK, NewXfer, Xfers
<1> HIDE DEF fits, now
<1>6. CASE xfer' = [xfer EXCEPT ![s] = now(s)] /\ Return(t, "start_failed")
  BY <1>1, <1>2, <1>5, <1>6
<1>7. CASE /\ call' = [call EXCEPT ![t].slot = s]
           /\ xfer' = [xfer EXCEPT ![s] = begun]
           /\ Goto(t, "poll") /\ UNCHANGED outcome
  BY <1>1, <1>2, <1>5, <1>7
<1>8. QED BY <1>1, <1>6, <1>7

LEMMA InitHasTable == Init => NoSlotsWithoutFs /\ TableMatchesDriver /\ OneSlotPerEndpoint /\ OwnEndpoint
BY DEF Init, NoSlotsWithoutFs, TableMatchesDriver, OneSlotPerEndpoint, OwnEndpoint, InTransfer, Waiting,
       NoXfer, FreeSlot

TableFacts == NoSlotsWithoutFs /\ TableMatchesDriver /\ OneSlotPerEndpoint /\ OwnEndpoint

\* Steps that leave the handle, the bindings and the set of open slots alone.
LEMMA BindingsKept ==
    ASSUME TableInv, UNCHANGED handle,
           \A s \in Slots : /\ hp'[s].ep = hp[s].ep
                            /\ xfer'[s].state = "closed" <=> xfer[s].state = "closed",
           \A t \in Threads : InTransfer(t)' => InTransfer(t) /\ call'[t].ep = call[t].ep
    PROVE  TableFacts'
BY DEF TableInv, TableFacts, NoSlotsWithoutFs, TableMatchesDriver, OneSlotPerEndpoint, OwnEndpoint

LEMMA ReturnEndsTransfer ==
    ASSUME TypeOK, NEW t \in Threads, NEW code, NEW id, NEW into, ReturnResult(t, code, id, into)
    PROVE  /\ ~InTransfer(t)' /\ pc'[t] = "idle"
           /\ \A u \in Threads \ {t} : /\ pc'[u] = pc[u] /\ call'[u] = call[u]
                                        /\ outcome'[u] = outcome[u]
           /\ outcome'[t] = [code |-> code, id |-> id, into |-> into]
BY DEF TypeOK, ReturnResult, Goto, InTransfer, Waiting

LEMMA NextKeepsTable == TableInv /\ [Next]_vars => TableFacts'
<1> SUFFICES ASSUME TableInv, [Next]_vars PROVE TableFacts'
  OBVIOUS
<1> USE DEF driver
<1>0. /\ hp \in [Slots -> Table] /\ xfer \in [Slots -> Xfers] /\ notices \in Seq(Slots)
      /\ call \in [Threads -> Calls] /\ pc \in [Threads -> Labels] /\ TypeOK
  BY DEF TableInv, TypeOK
<1>1. CASE OpenHandle
  BY <1>0, <1>1 DEF OpenHandle, FreeSlot, TableInv, TableFacts, NoSlotsWithoutFs, TableMatchesDriver,
                    OneSlotPerEndpoint, OwnEndpoint, InTransfer, Waiting
<1>2. CASE CloseHandle
  BY <1>0, <1>2 DEF CloseHandle, NoXfer, TableInv, TableFacts, NoSlotsWithoutFs, TableMatchesDriver,
                    OneSlotPerEndpoint, OwnEndpoint, InTransfer, Waiting
<1>3. CASE Unplug
  BY <1>3, BindingsKept DEF Unplug, InTransfer, Waiting
<1>4. ASSUME NEW s \in Slots, XferEnds(s) PROVE TableFacts'
  <2>1. xfer' = [xfer EXCEPT ![s].state = "ended"]
    BY <1>4 DEF XferEnds
  <2>2. \A r \in Slots : xfer'[r].state = "closed" <=> xfer[r].state = "closed"
    BY <1>0, <1>4, <2>1 DEF XferEnds, Xfers
  <2>3. QED BY <1>4, <2>2, BindingsKept DEF XferEnds, InTransfer, Waiting
<1>5. ASSUME NEW t \in Threads, Submit(t) PROVE TableFacts'
  <2>1. CASE Return(t, "not_supported")
    <3>1. \A u \in Threads : InTransfer(u)' => InTransfer(u) /\ call'[u].ep = call[u].ep
      BY <1>0, <2>1, ReturnEndsTransfer DEF Return, InTransfer, Waiting
    <3>2. QED BY <1>5, <3>1, BindingsKept DEF Submit
  <2>2. ASSUME handle = "fs", NEW ep \in Uses[t], NEW len \in Lengths, NEW timed \in BOOLEAN,
               call' = [call EXCEPT ![t] = [ep |-> ep, len |-> len, timed |-> timed, slot |-> 0]],
               Goto(t, "start")
        PROVE  TableFacts'
    <3>1. OwnEndpoint'
      BY <1>0, <2>2 DEF TableInv, OwnEndpoint, InTransfer, Waiting, Goto
    <3>2. QED BY <1>5, <2>2, <3>1
              DEF Submit, TableInv, TableFacts, NoSlotsWithoutFs, TableMatchesDriver, OneSlotPerEndpoint
  <2>3. QED BY <1>5, <2>1, <2>2 DEF Submit
<1>6. ASSUME NEW t \in Threads, NoSlotLeft(t) \/ TimesOut(t) \/ DrainFails(t) PROVE TableFacts'
  <2>1. \A u \in Threads : InTransfer(u)' => InTransfer(u) /\ call'[u].ep = call[u].ep
    BY <1>0, <1>6, ReturnEndsTransfer DEF NoSlotLeft, TimesOut, DrainFails, Return, InTransfer, Waiting
  <2>2. UNCHANGED <<handle, hp, xfer>>
    BY <1>6 DEF NoSlotLeft, TimesOut, DrainFails
  <2>3. QED BY <2>1, <2>2, BindingsKept
<1>7. ASSUME NEW t \in Threads, OpenFails(t) PROVE TableFacts'
  <2>1. PICK s \in Slots : /\ hp' = [hp EXCEPT ![s] = Unbound(@)]
                           /\ xfer' = [xfer EXCEPT ![s] = NoXfer]
    BY <1>7, SlotForMeaning DEF OpenFails
  <2>2. hp'[s].ep = None /\ xfer'[s].state = "closed"
    BY <1>0, <2>1 DEF Unbound, NoXfer, Table
  <2>3. \A r \in Slots \ {s} : hp'[r] = hp[r] /\ xfer'[r] = xfer[r]
    BY <1>0, <2>1
  <2>4. \A u \in Threads : InTransfer(u)' => InTransfer(u) /\ call'[u].ep = call[u].ep
    BY <1>0, <1>7, ReturnEndsTransfer DEF OpenFails, Return, InTransfer, Waiting
  <2>5. QED BY <1>7, <2>2, <2>3, <2>4
            DEF OpenFails, TableInv, TableFacts, NoSlotsWithoutFs, TableMatchesDriver,
                OneSlotPerEndpoint, OwnEndpoint
<1>8. ASSUME NEW t \in Threads, Start(t) PROVE TableFacts'
  <2>1. PICK s \in SlotFor(call[t].ep), x \in Xfers :
           /\ s \in Slots
           /\ hp' = [hp EXCEPT ![s] = Armed(t, s)]
           /\ xfer' = [xfer EXCEPT ![s] = x]
           /\ x.state # "closed"
           /\ \/ Goto(t, "poll") /\ call' = [call EXCEPT ![t].slot = s]
              \/ Return(t, "start_failed")
    BY <1>8, StartTouchesOneSlot
  <2>2. pc[t] = "start" /\ UNCHANGED handle
    BY <1>8 DEF Start
  <2>3. call[t].ep # None /\ handle = "fs"
    BY <2>2, FbsdAssumption DEF TableInv, OwnEndpoint, NoSlotsWithoutFs, InTransfer
  <2>4. hp'[s].ep = call[t].ep /\ xfer'[s].state # "closed"
    BY <1>0, <2>1, ArmedType
  <2>5. \A r \in Slots \ {s} : hp'[r] = hp[r] /\ xfer'[r] = xfer[r]
    BY <1>0, <2>1
  <2>6. hp[s].ep = call[t].ep \/ \A r \in Slots : hp[r].ep # call[t].ep
    BY <2>1, SlotForMeaning
  <2>7. OneSlotPerEndpoint'
    BY <2>1, <2>4, <2>5, <2>6 DEF TableInv, OneSlotPerEndpoint
  <2>8. \A u \in Threads : InTransfer(u)' => InTransfer(u) /\ call'[u].ep = call[u].ep
    <3>1. CASE Return(t, "start_failed")
      BY <1>0, <3>1, ReturnEndsTransfer DEF Return, InTransfer, Waiting
    <3>2. CASE Goto(t, "poll") /\ call' = [call EXCEPT ![t].slot = s]
      BY <1>0, <2>2, <3>2 DEF Goto, InTransfer, Waiting, Calls
    <3>3. QED BY <2>1, <3>1, <3>2
  <2>9. QED BY <2>1, <2>2, <2>3, <2>4, <2>5, <2>7, <2>8
            DEF TableInv, TableFacts, NoSlotsWithoutFs, TableMatchesDriver, OwnEndpoint
<1>9. ASSUME NEW t \in Threads, Poll(t) PROVE TableFacts'
  <2>1. \A u \in Threads : InTransfer(u)' => InTransfer(u) /\ call'[u].ep = call[u].ep
    BY <1>0, <1>9, ReturnEndsTransfer DEF Poll, Goto, Return, InTransfer, Waiting
  <2>2. QED BY <1>9, <2>1, BindingsKept DEF Poll
<1>10. ASSUME NEW t \in Threads, Lock(t) \/ Early(t) \/ ControlBegins(t) \/ ControlEnds(t) PROVE TableFacts'
  <2>1. \A u \in Threads : InTransfer(u)' => InTransfer(u)
    BY <1>0, <1>10 DEF Lock, Early, ControlBegins, ControlEnds, Goto, InTransfer, Waiting
  <2>2. UNCHANGED <<handle, hp, xfer, call>>
    BY <1>10 DEF Lock, Early, ControlBegins, ControlEnds
  <2>3. QED BY <2>1, <2>2, BindingsKept
<1>11. ASSUME NEW t \in Threads, Collect(t) PROVE TableFacts'
  <2>1. Head(notices) \in Slots
    BY <1>0, <1>11, TailType DEF Collect
  <2>2. \A s \in Slots : hp'[s].ep = hp[s].ep
    BY <1>0, <1>11, <2>1 DEF Collect, Completed, Filled, Table
  <2>3. QED BY <1>11, <2>2, BindingsKept DEF Collect, InTransfer, Waiting
<1>12. ASSUME NEW t \in Threads, DrainEnds(t) PROVE TableFacts'
  <2>1. \A s \in Slots : hp'[s].ep = hp[s].ep
    <3> DEFINE r == call[t].slot
    <3>1. hp' = hp \/ hp' = [hp EXCEPT ![r] = [hp[r] EXCEPT !.done = FALSE]]
      BY <1>12 DEF DrainEnds
    <3> HIDE DEF r
    <3>2. ASSUME NEW s \in Slots PROVE hp'[s] = hp[s] \/ hp'[s] = [hp[s] EXCEPT !.done = FALSE]
      BY <1>0, <3>1
    <3>3. QED BY <1>0, <3>2 DEF Table
  <2>2. \A u \in Threads : InTransfer(u)' => InTransfer(u) /\ call'[u].ep = call[u].ep
    BY <1>0, <1>12, ReturnEndsTransfer DEF DrainEnds, Goto, InTransfer, Waiting
  <2>3. QED BY <1>12, <2>1, <2>2, BindingsKept DEF DrainEnds
<1>13. CASE UNCHANGED vars
  BY <1>13, BindingsKept DEF vars, InTransfer, Waiting
<1>14. QED
  BY <1>1, <1>2, <1>3, <1>4, <1>5, <1>6, <1>7, <1>8, <1>9, <1>10, <1>11, <1>12, <1>13
  DEF Next, Begin, Drain

LEMMA TableInvariant == Spec => []TableInv
<1>1. Init => TableInv
  BY InitHasTypes, InitHasTable DEF TableInv
<1>2. TableInv /\ [Next]_vars => TableInv'
  BY NextKeepsTypes, NextKeepsTable DEF TableInv, TableFacts
<1>3. QED BY <1>1, <1>2, PTL DEF Spec

\* The slot table never disagrees with the driver about which slots are open,
\* for any threads, endpoints and number of slots, however openings fail.
THEOREM FbsdTable == Spec => []TableMatchesDriver
<1>1. TableInv => TableMatchesDriver
  BY DEF TableInv
<1>2. QED BY <1>1, TableInvariant, PTL

\* _fs_slot never binds an endpoint to a second slot, which the driver would
\* refuse, whatever opening, growing and failing went before.
THEOREM FbsdOneSlot == Spec => []OneSlotPerEndpoint
<1>1. TableInv => OneSlotPerEndpoint
  BY DEF TableInv
<1>2. QED BY <1>1, TableInvariant, PTL

-----------------------------------------------------------------------------
(* Results *)

\* While t waits, its slot is bound to its endpoint, points at its buffer and is
\* the one the driver has its transfer in; what was collected for the slot is its.
Owns(t) ==
    LET s == call[t].slot
    IN  /\ s \in Slots
        /\ hp[s].ep = call[t].ep /\ hp[s].ppbuf = Id(t)
        /\ xfer[s].id = Id(t)
        /\ hp[s].done => hp[s].id = Id(t) /\ hp[s].into = Id(t)

Told(t) ==
    outcome[t].code = "completed" =>
        outcome[t].id = Id(t) /\ outcome[t].into = Id(t)

Sound(t)  == (Waiting(t) => Owns(t)) /\ Told(t)
ResultInv == TableInv /\ \A t \in Threads : Sound(t)

\* A thread whose place, call and slot a step leaves alone stays sound.
LEMMA Undisturbed ==
    ASSUME NEW u \in Threads, Sound(u), pc'[u] = pc[u], call'[u] = call[u], sent'[u] = sent[u],
           outcome'[u] = outcome[u],
           Waiting(u) => LET s == call[u].slot
                         IN  hp'[s] = hp[s] /\ xfer'[s].id = xfer[s].id
    PROVE  Sound(u)'
BY DEF Sound, Owns, Told, Waiting, Id

\* Two threads that are in a transfer never have the same slot.
LEMMA SlotsApart ==
    ASSUME ResultInv, NEW t \in Threads, NEW u \in Threads \ {t}, Waiting(u),
           NEW s \in Slots, hp[s].ep \in Uses[t] \cup {None}
    PROVE  call[u].slot # s
<1>1. hp[call[u].slot].ep \in Uses[u]
  BY DEF ResultInv, Sound, Owns, TableInv, OwnEndpoint, InTransfer
<1>2. QED BY <1>1, FbsdAssumption

LEMMA ReturnIsSound ==
    ASSUME TypeOK, NEW t \in Threads, NEW code \in Codes \ {"completed"}, Return(t, code)
    PROVE  Sound(t)'
<1>1. ~Waiting(t)' /\ outcome'[t] = [code |-> code, id |-> None, into |-> None]
  BY ReturnEndsTransfer DEF Return, InTransfer
<1>2. outcome'[t].code # "completed"
  BY <1>1
<1>3. QED BY <1>1, <1>2 DEF Sound, Told

LEMMA NextKeepsResults == ResultInv /\ [Next]_vars => \A t \in Threads : Sound(t)'
<1> SUFFICES ASSUME ResultInv, [Next]_vars, NEW u \in Threads PROVE Sound(u)'
  OBVIOUS
<1> USE DEF driver
<1>0. /\ hp \in [Slots -> Table] /\ xfer \in [Slots -> Xfers] /\ notices \in Seq(Slots)
      /\ call \in [Threads -> Calls] /\ pc \in [Threads -> Labels] /\ sent \in [Threads -> Nat]
      /\ outcome \in [Threads -> [code : Codes, id : Ids \cup {None}, into : Ids \cup {None}]]
      /\ TableInv /\ TypeOK /\ Sound(u)
      /\ Waiting(u) => call[u].slot \in Slots
  BY DEF ResultInv, TableInv, TypeOK, SlotHeld
<1>1. CASE OpenHandle
  <2>1. ~Waiting(u)
    BY <1>0, <1>1 DEF OpenHandle, TableInv, NoSlotsWithoutFs, InTransfer
  <2>2. QED BY <1>0, <1>1, <2>1, Undisturbed DEF OpenHandle
<1>2. CASE CloseHandle
  BY <1>0, <1>2, Undisturbed DEF CloseHandle, Waiting
<1>3. CASE Unplug \/ UNCHANGED vars
  BY <1>0, <1>3, Undisturbed DEF Unplug, vars
<1>4. ASSUME NEW s \in Slots, XferEnds(s) PROVE Sound(u)'
  <2>1. xfer' = [xfer EXCEPT ![s].state = "ended"]
    BY <1>4 DEF XferEnds
  <2>2. \A r \in Slots : xfer'[r].id = xfer[r].id
    BY <1>0, <2>1 DEF Xfers
  <2>3. QED BY <1>0, <1>4, <2>2, Undisturbed DEF XferEnds
\* Steps of t that leave the table and the driver's transfers alone.
<1>5. ASSUME NEW t \in Threads, u # t, UNCHANGED <<hp, xfer>>, sent'[u] = sent[u],
             pc'[u] = pc[u], call'[u] = call[u], outcome'[u] = outcome[u]
      PROVE  Sound(u)'
  BY <1>0, <1>5, Undisturbed
<1>6. ASSUME NEW t \in Threads, Submit(t) PROVE Sound(u)'
  <2>1. CASE u # t
    <3>1. pc'[u] = pc[u] /\ call'[u] = call[u] /\ outcome'[u] = outcome[u] /\ sent'[u] = sent[u]
      BY <1>0, <1>6, <2>1 DEF Submit, Goto, Return, ReturnResult
    <3>2. QED BY <1>5, <1>6, <2>1, <3>1 DEF Submit
  <2>2. CASE u = t
    <3>1. CASE Return(t, "not_supported")
      BY <1>0, <2>2, <3>1, ReturnIsSound DEF Codes
    <3>2. CASE Goto(t, "start") /\ outcome' = [outcome EXCEPT ![t] = Nothing]
      <4>1. pc'[t] = "start" /\ outcome'[t].code = "none"
        BY <1>0, <3>2 DEF Goto, Nothing
      <4>2. QED BY <2>2, <4>1 DEF Sound, Told, Waiting
    <3>3. QED BY <1>6, <3>1, <3>2 DEF Submit
  <2>3. QED BY <2>1, <2>2
<1>7. ASSUME NEW t \in Threads, NoSlotLeft(t) \/ TimesOut(t) \/ DrainFails(t) PROVE Sound(u)'
  <2>1. PICK code \in Codes \ {"completed"} : Return(t, code)
    BY <1>7 DEF NoSlotLeft, TimesOut, DrainFails, Codes
  <2>2. UNCHANGED <<hp, xfer, sent>>
    BY <1>7 DEF NoSlotLeft, TimesOut, DrainFails
  <2>3. CASE u = t
    <3>1. Sound(t)'
      BY <1>0, <2>1, ReturnIsSound
    <3>2. QED BY <2>3, <3>1
  <2>4. CASE u # t
    <3>1. pc'[u] = pc[u] /\ call'[u] = call[u] /\ outcome'[u] = outcome[u]
      BY <1>0, <2>1, <2>4, ReturnEndsTransfer DEF Return
    <3>2. QED BY <1>5, <2>2, <2>4, <3>1
  <2>5. QED BY <2>3, <2>4
<1>8. ASSUME NEW t \in Threads, OpenFails(t) PROVE Sound(u)'
  <2>1. PICK s \in SlotFor(call[t].ep) : /\ hp' = [hp EXCEPT ![s] = Unbound(@)]
                                        /\ xfer' = [xfer EXCEPT ![s] = NoXfer]
    BY <1>8 DEF OpenFails
  <2>2. s \in Slots /\ hp[s].ep \in Uses[t] \cup {None} /\ UNCHANGED sent /\ Return(t, "open_failed")
    BY <1>0, <1>8, SlotForMeaning DEF OpenFails, TableInv, OwnEndpoint, InTransfer
  <2>3. CASE u = t
    BY <1>0, <2>2, <2>3, ReturnIsSound DEF Codes
  <2>4. CASE u # t
    <3>1. Waiting(u) => call[u].slot # s
      BY <2>2, <2>4, SlotsApart
    <3>2. Waiting(u) => hp'[call[u].slot] = hp[call[u].slot] /\ xfer'[call[u].slot] = xfer[call[u].slot]
      BY <1>0, <2>1, <2>2, <3>1
    <3>3. pc'[u] = pc[u] /\ call'[u] = call[u] /\ outcome'[u] = outcome[u]
      BY <1>0, <2>2, <2>4, ReturnEndsTransfer DEF Return
    <3>4. QED BY <1>0, <2>2, <3>2, <3>3, Undisturbed
  <2>5. QED BY <2>3, <2>4
<1>9. ASSUME NEW t \in Threads, Start(t) PROVE Sound(u)'
  <2>1. PICK s \in SlotFor(call[t].ep), x \in Xfers :
           /\ s \in Slots
           /\ hp' = [hp EXCEPT ![s] = Armed(t, s)]
           /\ xfer' = [xfer EXCEPT ![s] = x]
           /\ \/ x.id = Id(t) /\ Goto(t, "poll") /\ call' = [call EXCEPT ![t].slot = s] /\ UNCHANGED outcome
              \/ Return(t, "start_failed")
    BY <1>0, <1>9, StartTouchesOneSlot
  <2>2. pc[t] = "start" /\ UNCHANGED sent
    BY <1>9 DEF Start
  <2>3. CASE u = t
    <3>1. CASE Return(t, "start_failed")
      BY <1>0, <2>3, <3>1, ReturnIsSound DEF Codes
    <3>2. CASE x.id = Id(t) /\ Goto(t, "poll") /\ call' = [call EXCEPT ![t].slot = s] /\ UNCHANGED outcome
      <4>1. call'[t].slot = s /\ call'[t].ep = call[t].ep /\ pc'[t] = "poll"
        BY <1>0, <3>2 DEF Calls, Goto
      <4>2. hp'[s].ep = call[t].ep /\ hp'[s].ppbuf = Id(t) /\ ~hp'[s].done /\ xfer'[s].id = Id(t)
        BY <1>0, <2>1, <3>2, ArmedType
      <4>3. QED BY <1>0, <2>1, <2>2, <2>3, <3>2, <4>1, <4>2 DEF Sound, Owns, Told, Id
    <3>3. QED BY <2>1, <3>1, <3>2
  <2>4. CASE u # t
    <3>1. hp[s].ep \in Uses[t] \cup {None}
      BY <1>0, <2>1, <2>2, SlotForMeaning DEF TableInv, OwnEndpoint, InTransfer
    <3>2. Waiting(u) => call[u].slot # s
      BY <2>1, <2>4, <3>1, SlotsApart
    <3>3. Waiting(u) => hp'[call[u].slot] = hp[call[u].slot] /\ xfer'[call[u].slot] = xfer[call[u].slot]
      BY <1>0, <2>1, <3>2
    <3>4. pc'[u] = pc[u] /\ call'[u] = call[u] /\ outcome'[u] = outcome[u]
      BY <1>0, <2>1, <2>4, ReturnEndsTransfer DEF Return, Goto
    <3>5. QED BY <1>0, <2>2, <3>3, <3>4, Undisturbed
  <2>5. QED BY <2>3, <2>4
<1>10. ASSUME NEW t \in Threads, Poll(t) PROVE Sound(u)'
  <2>1. UNCHANGED <<hp, xfer, sent>> /\ pc[t] = "poll"
    BY <1>10 DEF Poll
  <2>2. CASE Return(t, "no_device")
    <3>1. CASE u = t
      BY <1>0, <2>2, <3>1, ReturnIsSound DEF Codes
    <3>2. CASE u # t
      BY <1>0, <1>5, <2>1, <2>2, <3>2, ReturnEndsTransfer DEF Return
    <3>3. QED BY <3>1, <3>2
  <2>3. CASE Goto(t, "lock") /\ UNCHANGED <<call, outcome>>
    BY <1>0, <2>1, <2>3 DEF Goto, Sound, Owns, Told, Waiting, Id
  <2>4. QED BY <1>10, <2>2, <2>3 DEF Poll
<1>11. ASSUME NEW t \in Threads, Lock(t) \/ Early(t) PROVE Sound(u)'
  BY <1>0, <1>11 DEF Lock, Early, Goto, Sound, Owns, Told, Waiting, Id
<1>12. ASSUME NEW t \in Threads, ControlBegins(t) \/ ControlEnds(t) PROVE Sound(u)'
  BY <1>0, <1>12 DEF ControlBegins, ControlEnds, Goto, Sound, Owns, Told, Waiting, Id
<1>13. ASSUME NEW t \in Threads, Collect(t) PROVE Sound(u)'
  <2> DEFINE n == Head(notices)
  <2>1. n \in Slots /\ UNCHANGED <<pc, call, sent, outcome, xfer>> /\ hp' = [hp EXCEPT ![n] = Filled(n)]
    BY <1>0, <1>13, TailType DEF Collect, Completed
  <2> HIDE DEF n
  <2>2. CASE Waiting(u) /\ call[u].slot = n
    <3>1. hp'[n].ep = hp[n].ep /\ hp'[n].ppbuf = hp[n].ppbuf
          /\ hp'[n].id = xfer[n].id /\ hp'[n].into = hp[n].ppbuf
      BY <1>0, <2>1 DEF Filled, Table
    <3>2. QED BY <1>0, <2>1, <2>2, <3>1 DEF Sound, Owns, Told, Waiting, Id
  <2>3. CASE ~(Waiting(u) /\ call[u].slot = n)
    <3>1. Waiting(u) => hp'[call[u].slot] = hp[call[u].slot]
      BY <1>0, <2>1, <2>3
    <3>2. QED BY <1>0, <2>1, <3>1, Undisturbed
  <2>4. QED BY <2>2, <2>3
<1>14. ASSUME NEW t \in Threads, DrainEnds(t) PROVE Sound(u)'
  <2> DEFINE s == call[t].slot
  <2>1. UNCHANGED <<sent, xfer>> /\ pc[t] = "drain" /\ Waiting(t) /\ Owns(t) /\ s \in Slots
    BY <1>0, <1>14 DEF DrainEnds, ResultInv, Sound, Waiting, Owns
  <2>2. CASE /\ hp[s].done
             /\ hp' = [hp EXCEPT ![s].done = FALSE]
             /\ ReturnResult(t, "completed", hp[s].id, hp[s].into)
    <3>1. CASE u = t
      <4>1. hp[s].id = Id(t) /\ hp[s].into = Id(t)
        BY <2>1, <2>2 DEF Owns
      <4>2. ~Waiting(t)' /\ outcome'[t] = [code |-> "completed",
                                           id |-> hp[s].id, into |-> hp[s].into]
        BY <1>0, <2>2, ReturnEndsTransfer DEF InTransfer
      <4>3. outcome'[t].id = Id(t) /\ outcome'[t].into = Id(t)
        BY <4>1, <4>2
      <4>4. QED BY <2>1, <3>1, <4>2, <4>3 DEF Sound, Told, Id
    <3>2. CASE u # t
      <4>1. hp[s].ep \in Uses[t]
        BY <1>0, <2>1 DEF Owns, TableInv, OwnEndpoint, InTransfer
      <4>2. Waiting(u) => call[u].slot # s
        BY <2>1, <3>2, <4>1, SlotsApart
      <4>3. Waiting(u) => hp'[call[u].slot] = hp[call[u].slot]
        BY <1>0, <2>1, <2>2, <4>2
      <4>4. QED BY <1>0, <2>1, <2>2, <3>2, <4>3, ReturnEndsTransfer, Undisturbed
    <3>3. QED BY <3>1, <3>2
  <2>3. CASE /\ Goto(t, IF HasClock(t) THEN "clock" ELSE "poll")
             /\ UNCHANGED <<hp, call, outcome>>
    BY <1>0, <2>1, <2>3 DEF Goto, Sound, Owns, Told, Waiting, Id
  <2>4. QED BY <1>14, <2>2, <2>3 DEF DrainEnds
<1>15. QED
  BY <1>1, <1>2, <1>3, <1>4, <1>6, <1>7, <1>8, <1>9, <1>10, <1>11, <1>12, <1>13, <1>14
  DEF Next, Begin, Drain

\* Every transfer that returns success or an I/O error returns the driver's
\* result of that transfer, with the data in that transfer's buffer, for any
\* threads with endpoints of their own, any number of slots and transfers, and
\* however late earlier transfers end.
THEOREM FbsdOwnResult == Spec => []OwnResult
<1>1. Init => ResultInv
  BY InitHasTypes, InitHasTable DEF TableInv, ResultInv, Init, Sound, Told, Waiting, Nothing
<1>2. ResultInv /\ [Next]_vars => ResultInv'
  BY NextKeepsTypes, NextKeepsTable, NextKeepsResults DEF ResultInv, TableInv, TableFacts
<1>3. ResultInv => OwnResult
  BY DEF ResultInv, Sound, Told, OwnResult
<1>4. QED BY <1>1, <1>2, <1>3, PTL DEF Spec

-----------------------------------------------------------------------------
(* The driver's queue of notices *)

\* The queue has room for one notice per thread and one per endpoint: the four
\* slots of FBSD_NFSEP are the two threads and two endpoints of adb.
Roomy == /\ IsFiniteSet(Threads) /\ IsFiniteSet(Endpoints)
         /\ Cardinality(Threads) + Cardinality(Endpoints) <= NFSEP

Running  == {s \in Slots : xfer[s].state = "running"}
Between  == {"idle", "start", "clock", "control"}
CanStart == {t \in Threads : pc[t] \in Between}

\* A transfer that ends turns into a notice.  A thread that may start another
\* before it drains the queue has room left for that one; draining either empties
\* the queue or, overtaken, takes the notice away that makes this room.
QueueInv ==
    /\ Len(notices) + Cardinality(Running) <= NFSEP
    /\ ~gone => Len(notices) + Cardinality(Running) + Cardinality(CanStart) <= NFSEP

LEMMA SomeSlots == ASSUME NEW S \in SUBSET Slots PROVE IsFiniteSet(S) /\ Cardinality(S) \in Nat
<1>1. NFSEP \in Nat
  BY FbsdAssumption
<1>2. IsFiniteSet(1 .. NFSEP)
  BY <1>1, FS_Interval
<1>3. IsFiniteSet(S)
  BY <1>2, FS_Subset DEF Slots
<1>4. QED BY <1>3, FS_CardinalityType

LEMMA SomeThreads == ASSUME Roomy, NEW S \in SUBSET Threads
    PROVE IsFiniteSet(S) /\ Cardinality(S) \in Nat /\ Cardinality(S) <= Cardinality(Threads)
<1>1. IsFiniteSet(S) /\ Cardinality(S) <= Cardinality(Threads)
  BY FS_Subset DEF Roomy
<1>2. QED BY <1>1, FS_CardinalityType

LEMMA Sizes ==
    ASSUME Roomy, TypeOK
    PROVE  /\ Len(notices) \in Nat /\ Cardinality(Running) \in Nat /\ Cardinality(CanStart) \in Nat
           /\ NFSEP \in Nat /\ Cardinality(Threads) \in Nat /\ Cardinality(Endpoints) \in Nat
<1>1. Len(notices) \in Nat /\ NFSEP \in Nat
  BY FbsdAssumption DEF TypeOK
<1>2. Cardinality(Running) \in Nat
  BY SomeSlots DEF Running
<1>3. Cardinality(CanStart) \in Nat
  BY SomeThreads DEF CanStart
<1>4. Cardinality(Threads) \in Nat /\ Cardinality(Endpoints) \in Nat
  BY FS_CardinalityType DEF Roomy
<1>5. QED BY <1>1, <1>2, <1>3, <1>4

\* Every running transfer has an endpoint of its own.
LEMMA OneRunningPerEndpoint ==
    ASSUME Roomy, TableInv PROVE Cardinality(Running) <= Cardinality(Endpoints)
<1> DEFINE f == [s \in Running |-> hp[s].ep]
<1>1. \A s \in Running : s \in Slots /\ hp[s].ep # None
  BY DEF Running, TableInv, NoSlotsWithoutFs, TableMatchesDriver
<1>2. \A s \in Running : hp[s].ep \in Endpoints
  BY <1>1 DEF TableInv, TypeOK, Table
<1>3. f \in [Running -> Endpoints]
  BY <1>2
<1>4. \A s, r \in Running : f[s] = f[r] => s = r
  BY <1>1 DEF TableInv, OneSlotPerEndpoint
<1>5. IsFiniteSet(Running) /\ Cardinality(Running) \in Nat
  BY SomeSlots DEF Running
<1>6. IsFiniteSet(Endpoints) /\ Cardinality(Endpoints) \in Nat
  BY FS_CardinalityType DEF Roomy
<1> HIDE DEF f
<1>7. ~ (Cardinality(Endpoints) < Cardinality(Running))
  BY <1>3, <1>4, <1>5, <1>6, FS_PigeonHole
<1>8. QED BY <1>5, <1>6, <1>7

\* How a thread that moves changes the number of those that may start.
LEMMA Moved ==
    ASSUME Roomy, TypeOK, NEW t \in Threads, NEW label, Goto(t, label)
    PROVE  /\ label \in Between /\ pc[t] \in Between => CanStart' = CanStart
           /\ label \notin Between /\ pc[t] \notin Between => CanStart' = CanStart
           /\ label \notin Between /\ pc[t] \in Between =>
                 Cardinality(CanStart') = Cardinality(CanStart) - 1
           /\ label \in Between /\ pc[t] \notin Between =>
                 Cardinality(CanStart') = Cardinality(CanStart) + 1
<1>1. \A u \in Threads : pc'[u] = IF u = t THEN label ELSE pc[u]
  BY DEF Goto, TypeOK
<1>2. IsFiniteSet(CanStart)
  BY SomeThreads DEF CanStart
<1>3. CASE label \in Between <=> pc[t] \in Between
  BY <1>1, <1>3 DEF CanStart
<1>4. CASE label \notin Between /\ pc[t] \in Between
  <2>1. CanStart' = CanStart \ {t} /\ t \in CanStart
    BY <1>1, <1>4 DEF CanStart
  <2>2. QED BY <1>2, <1>4, <2>1, FS_RemoveElement
<1>5. CASE label \in Between /\ pc[t] \notin Between
  <2>1. CanStart' = CanStart \cup {t} /\ t \notin CanStart
    BY <1>1, <1>5 DEF CanStart
  <2>2. QED BY <1>2, <1>5, <2>1, FS_AddElement
<1>6. QED BY <1>3, <1>4, <1>5

\* How a slot whose transfer changes changes the number of those that run.
LEMMA Turned ==
    ASSUME TypeOK, NEW s \in Slots, NEW x, xfer' = [xfer EXCEPT ![s] = x]
    PROVE  /\ (x.state = "running" <=> xfer[s].state = "running") => Running' = Running
           /\ x.state # "running" /\ xfer[s].state = "running" =>
                 Cardinality(Running') = Cardinality(Running) - 1
           /\ x.state = "running" /\ xfer[s].state # "running" =>
                 Cardinality(Running') = Cardinality(Running) + 1
<1>1. \A r \in Slots : xfer'[r] = IF r = s THEN x ELSE xfer[r]
  BY DEF TypeOK
<1>2. IsFiniteSet(Running)
  BY SomeSlots DEF Running
<1>3. CASE (x.state = "running" <=> xfer[s].state = "running")
  BY <1>1, <1>3 DEF Running
<1>4. CASE x.state # "running" /\ xfer[s].state = "running"
  <2>1. Running' = Running \ {s} /\ s \in Running
    BY <1>1, <1>4 DEF Running
  <2>2. QED BY <1>2, <1>4, <2>1, FS_RemoveElement
<1>5. CASE x.state = "running" /\ xfer[s].state # "running"
  <2>1. Running' = Running \cup {s} /\ s \notin Running
    BY <1>1, <1>5 DEF Running
  <2>2. QED BY <1>2, <1>5, <2>1, FS_AddElement
<1>6. QED BY <1>3, <1>4, <1>5

\* A notice finds room, when there is less queued than the queue holds.
LEMMA NoticeCounts ==
    ASSUME TypeOK, NEW s \in Slots, Notice(s)
    PROVE  /\ Len(notices) < NFSEP => Len(notices') = Len(notices) + 1
           /\ Len(notices) \in Nat /\ Len(notices') \in Nat /\ Len(notices') <= Len(notices) + 1
<1>1. notices \in Seq(Slots) /\ NFSEP \in Nat /\ Len(notices) \in Nat
  BY FbsdAssumption DEF TypeOK
<1>2. Len(Append(notices, s)) = Len(notices) + 1
  BY <1>1
<1>3. QED BY <1>1, <1>2 DEF Notice

\* What closing a slot adds to the queue is what it takes from the running.
LEMMA ClosedCounts ==
    ASSUME Roomy, TableInv, NEW s \in Slots, Closed(s), NEW x,
           xfer' = [xfer EXCEPT ![s] = x], x.state # "running"
    PROVE  /\ Len(notices') \in Nat /\ Cardinality(Running') \in Nat
           /\ Len(notices') + Cardinality(Running') <= Len(notices) + Cardinality(Running)
<1>1. TypeOK
  BY DEF TableInv
<1>2. CASE xfer[s].state = "running" /\ hp[s].ep # None
  <2>1. Cardinality(Running') = Cardinality(Running) - 1
    BY <1>1, <1>2, Turned
  <2>2. Len(notices') \in Nat /\ Len(notices') <= Len(notices) + 1
    BY <1>1, <1>2, NoticeCounts DEF Closed
  <2>3. Running # {} /\ Cardinality(Running) # 0
    <3>1. s \in Running /\ IsFiniteSet(Running)
      BY <1>2, SomeSlots DEF Running
    <3>2. QED BY <3>1, FS_EmptySet
  <2>4. QED BY <1>1, <2>1, <2>2, <2>3, Sizes
<1>3. CASE ~ (xfer[s].state = "running" /\ hp[s].ep # None)
  <2>1. notices' = notices
    BY <1>3 DEF Closed
  <2>2. CASE xfer[s].state = "running"
    <3>1. handle = "fs" => FALSE
      BY <1>3, <2>2 DEF TableInv, TableMatchesDriver
    <3>2. handle # "fs" => FALSE
      BY <2>2 DEF TableInv, NoSlotsWithoutFs
    <3>3. QED BY <3>1, <3>2
  <2>3. CASE xfer[s].state # "running"
    <3>1. Running' = Running
      BY <1>1, <2>3, Turned
    <3>2. QED BY <1>1, <2>1, <3>1, Sizes
  <2>4. QED BY <2>2, <2>3
<1>4. QED BY <1>2, <1>3

\* Steps that add nothing to the queue nor to the running, and let no thread
\* start that could not, keep the room that is left.
LEMMA RoomKept ==
    ASSUME Roomy, TypeOK, QueueInv, gone' = gone,
           Len(notices') \in Nat, Cardinality(Running') \in Nat, Cardinality(CanStart') \in Nat,
           Len(notices') + Cardinality(Running') <= Len(notices) + Cardinality(Running),
           ~gone => Cardinality(CanStart') <= Cardinality(CanStart)
    PROVE  QueueInv'
<1>1. Len(notices') + Cardinality(Running') <= NFSEP
  BY Sizes DEF QueueInv
<1>2. ~gone => Len(notices') + Cardinality(Running') + Cardinality(CanStart') <= NFSEP
  BY Sizes DEF QueueInv
<1>3. QED BY <1>1, <1>2 DEF QueueInv

\* An empty queue has room for every thread and endpoint.
LEMMA EmptyHasRoom ==
    ASSUME Roomy, TableInv, notices' = <<>>, Running' = Running \/ Running' = {},
           Cardinality(CanStart') \in Nat, Cardinality(CanStart') <= Cardinality(Threads)
    PROVE  QueueInv'
<1>1. Cardinality(Running') \in Nat /\ Cardinality(Running') <= Cardinality(Endpoints)
  <2>1. Cardinality({}) = 0
    BY FS_EmptySet
  <2>2. QED BY <2>1, OneRunningPerEndpoint, Sizes DEF TableInv
<1>2. Len(notices') = 0
  OBVIOUS
<1>3. TypeOK
  BY DEF TableInv
<1>4. Len(notices') + Cardinality(Running') + Cardinality(CanStart') <= NFSEP
  BY <1>1, <1>2, <1>3, Sizes DEF Roomy
<1>5. QED BY <1>1, <1>2, <1>3, <1>4, Sizes DEF QueueInv

\* What a step that starts, or fails to start, a transfer of t does to the slot.
LEMMA StartCounts ==
    ASSUME Roomy, TableInv, QueueInv, NEW t \in Threads, Start(t)
    PROVE  QueueInv'
<1> DEFINE fits(s) == Fits(s, call[t].ep, call[t].len)
           now(s)  == IF fits(s) THEN xfer[s] ELSE NewXfer
           begun   == [state |-> "running", id |-> Id(t)]
<1>1. PICK s \in SlotFor(call[t].ep) :
         /\ IF fits(s) THEN UNCHANGED notices ELSE Closed(s)
         /\ \/ /\ ~gone /\ now(s).state # "running"
               /\ xfer' = [xfer EXCEPT ![s] = begun]
               /\ Goto(t, "poll")
            \/ /\ xfer' = [xfer EXCEPT ![s] = now(s)]
               /\ Return(t, "start_failed")
  BY DEF Start
<1>2. s \in Slots /\ pc[t] = "start" /\ gone' = gone /\ TypeOK
  BY SlotForMeaning DEF Start, TableInv
<1>3. NewXfer.state # "running" /\ begun.state = "running"
  BY DEF NewXfer
<1>4. fits(s) => now(s) = xfer[s]
  OBVIOUS
<1>5. ~fits(s) => now(s).state # "running"
  BY <1>3
<1> HIDE DEF fits, now, begun
<1>6. CASE xfer' = [xfer EXCEPT ![s] = now(s)] /\ Return(t, "start_failed")
  <2>1. CanStart' = CanStart
    BY <1>2, <1>6, Moved DEF Return, ReturnResult, Between
  <2>2. CASE fits(s)
    <3>1. Running' = Running /\ notices' = notices
      BY <1>1, <1>2, <1>4, <1>6, <2>2, Turned
    <3>2. QED BY <1>2, <2>1, <3>1, Sizes, RoomKept
  <2>3. CASE ~fits(s)
    <3>1. /\ Len(notices') \in Nat /\ Cardinality(Running') \in Nat
          /\ Len(notices') + Cardinality(Running') <= Len(notices) + Cardinality(Running)
      BY <1>1, <1>2, <1>5, <1>6, <2>3, ClosedCounts
    <3>2. QED BY <1>2, <2>1, <3>1, Sizes, RoomKept
  <2>4. QED BY <2>2, <2>3
<1>7. CASE /\ ~gone /\ now(s).state # "running"
           /\ xfer' = [xfer EXCEPT ![s] = begun] /\ Goto(t, "poll")
  <2>1. Cardinality(CanStart') = Cardinality(CanStart) - 1
    BY <1>2, <1>7, Moved DEF Between
  <2>2. Cardinality(CanStart') \in Nat
    BY SomeThreads DEF CanStart
  <2>3. /\ Len(notices') \in Nat /\ Cardinality(Running') \in Nat
        /\ Len(notices') + Cardinality(Running') <= Len(notices) + Cardinality(Running) + 1
    <3>1. CASE xfer[s].state # "running"
      <4>1. Cardinality(Running') = Cardinality(Running) + 1
        BY <1>2, <1>3, <1>7, <3>1, Turned
      <4>2. notices' = notices
        BY <1>1, <3>1 DEF Closed
      <4>3. QED BY <1>2, <4>1, <4>2, Sizes
    <3>2. CASE xfer[s].state = "running"
      <4>1. Running' = Running
        BY <1>2, <1>3, <1>7, <3>2, Turned
      <4>2. ~fits(s)
        BY <1>4, <1>7, <3>2
      <4>3. Notice(s) \/ notices' = notices
        BY <1>1, <4>2 DEF Closed
      <4>4. Len(notices') \in Nat /\ Len(notices') <= Len(notices) + 1
        BY <1>2, <4>3, NoticeCounts, Sizes
      <4>5. QED BY <1>2, <4>1, <4>4, Sizes
    <3>3. QED BY <3>1, <3>2
  <2>4. Len(notices') + Cardinality(Running') + Cardinality(CanStart') <= NFSEP
    BY <1>2, <1>7, <2>1, <2>3, Sizes DEF QueueInv
  <2>5. QED BY <1>2, <2>2, <2>3, <2>4, Sizes DEF QueueInv
<1>8. QED BY <1>1, <1>6, <1>7

LEMMA NextKeepsQueue == ASSUME Roomy, TableInv, QueueInv, [Next]_vars PROVE QueueInv'
<1> USE DEF driver
<1>0. TypeOK /\ notices \in Seq(Slots)
  BY DEF TableInv, TypeOK
<1>1. CASE OpenHandle \/ UNCHANGED vars
  <2>1. UNCHANGED <<gone, notices, xfer, pc>>
    BY <1>1 DEF OpenHandle, vars
  <2>2. QED BY <2>1 DEF QueueInv, Running, CanStart
<1>2. CASE CloseHandle
  <2>1. xfer' = [s \in Slots |-> NoXfer] /\ notices' = <<>> /\ pc' = pc
    BY <1>2 DEF CloseHandle
  <2>2. Running' = {}
    BY <2>1 DEF Running, NoXfer
  <2>3. CanStart' = CanStart
    BY <2>1 DEF CanStart
  <2>4. Cardinality(CanStart') \in Nat /\ Cardinality(CanStart') <= Cardinality(Threads)
    BY <2>3, SomeThreads DEF CanStart
  <2>5. QED BY <2>1, <2>2, <2>4, EmptyHasRoom
<1>3. CASE Unplug
  BY <1>3 DEF Unplug, QueueInv, Running, CanStart
<1>4. ASSUME NEW s \in Slots, XferEnds(s) PROVE QueueInv'
  <2> DEFINE x == [xfer[s] EXCEPT !.state = "ended"]
  <2>1. xfer' = [xfer EXCEPT ![s] = x] /\ x.state = "ended" /\ xfer[s].state = "running"
    BY <1>0, <1>4 DEF XferEnds, TypeOK, Xfers
  <2>2. Cardinality(Running') = Cardinality(Running) - 1 /\ Cardinality(Running') \in Nat
    <3>1. Cardinality(Running') \in Nat
      BY SomeSlots DEF Running
    <3>2. QED BY <1>0, <2>1, <3>1, Turned
  <2>3. Len(notices') \in Nat /\ Len(notices') <= Len(notices) + 1
    BY <1>0, <1>4, NoticeCounts DEF XferEnds
  <2>4. CanStart' = CanStart /\ gone' = gone
    BY <1>4 DEF XferEnds, CanStart
  <2>5. Len(notices') + Cardinality(Running') <= Len(notices) + Cardinality(Running)
    BY <1>0, <2>2, <2>3, Sizes
  <2>6. QED BY <1>0, <2>2, <2>3, <2>4, <2>5, Sizes, RoomKept
\* Steps that leave the driver alone.
<1>5. ASSUME UNCHANGED <<gone, notices, xfer>>, Cardinality(CanStart') \in Nat,
             ~gone => Cardinality(CanStart') <= Cardinality(CanStart)
      PROVE  QueueInv'
  <2>1. Running' = Running
    BY <1>5 DEF Running
  <2>2. QED BY <1>0, <1>5, <2>1, Sizes, RoomKept
<1>6. Cardinality(CanStart') \in Nat /\ Cardinality(CanStart') <= Cardinality(Threads)
      /\ Cardinality(CanStart) \in Nat
  BY SomeThreads DEF CanStart
<1>7. ASSUME NEW t \in Threads,
             Submit(t) \/ NoSlotLeft(t) \/ Lock(t) \/ Early(t) \/ TimesOut(t) \/ ControlBegins(t)
             \/ ControlEnds(t)
      PROVE  QueueInv'
  <2>1. PICK label \in Labels :
           /\ Goto(t, label) /\ UNCHANGED <<gone, notices, xfer>>
           /\ pc[t] \notin Between => label \notin Between
    BY <1>7 DEF Submit, NoSlotLeft, Lock, Early, TimesOut, ControlBegins, ControlEnds, Return,
                ReturnResult, Between, Labels
  <2>2. Cardinality(CanStart') <= Cardinality(CanStart)
    BY <1>0, <1>6, <2>1, Moved
  <2>3. QED BY <1>5, <1>6, <2>1, <2>2
<1>8. ASSUME NEW t \in Threads, Poll(t) PROVE QueueInv'
  <2>1. UNCHANGED <<gone, notices, xfer>> /\ pc[t] = "poll"
    BY <1>8 DEF Poll
  <2>2. CASE gone
    BY <1>5, <1>6, <2>1, <2>2
  <2>3. CASE Goto(t, "lock")
    <3>1. CanStart' = CanStart
      BY <1>0, <2>1, <2>3, Moved DEF Between
    <3>2. QED BY <1>5, <1>6, <2>1, <3>1
  <2>4. QED BY <1>8, <2>2, <2>3 DEF Poll
<1>9. ASSUME NEW t \in Threads, OpenFails(t) PROVE QueueInv'
  <2>1. PICK s \in Slots : xfer' = [xfer EXCEPT ![s] = NoXfer] /\ Closed(s)
    BY <1>9, SlotForMeaning DEF OpenFails
  <2>2. /\ Len(notices') \in Nat /\ Cardinality(Running') \in Nat
        /\ Len(notices') + Cardinality(Running') <= Len(notices) + Cardinality(Running)
    <3>1. NoXfer.state # "running"
      BY DEF NoXfer
    <3>2. QED BY <2>1, <3>1, ClosedCounts
  <2>3. Goto(t, "idle") /\ pc[t] = "start" /\ gone' = gone
    BY <1>9 DEF OpenFails, Return, ReturnResult
  <2>4. CanStart' = CanStart
    BY <1>0, <2>3, Moved DEF Between
  <2>5. QED BY <1>0, <1>6, <2>2, <2>3, <2>4, RoomKept
<1>10. ASSUME NEW t \in Threads, Start(t) PROVE QueueInv'
  BY <1>10, StartCounts
<1>11. ASSUME notices # <<>>
       PROVE  Len(Tail(notices)) \in Nat /\ Len(Tail(notices)) = Len(notices) - 1
  BY <1>0, <1>11
<1>12. ASSUME NEW t \in Threads, Collect(t) PROVE QueueInv'
  <2>1. UNCHANGED <<gone, xfer, pc>> /\ notices' = Tail(notices) /\ notices # <<>>
    BY <1>12 DEF Collect
  <2>2. Running' = Running /\ CanStart' = CanStart
    BY <2>1 DEF Running, CanStart
  <2>3. Len(notices') \in Nat /\ Len(notices') <= Len(notices)
    BY <1>0, <1>11, <2>1, Sizes
  <2>4. QED BY <1>0, <1>6, <2>1, <2>2, <2>3, Sizes, RoomKept
\* The notice that is taken makes room for the transfer that may come.
<1>13. ASSUME UNCHANGED <<gone, xfer>>, notices # <<>>, notices' = Tail(notices),
              Cardinality(CanStart') <= Cardinality(CanStart) + 1
       PROVE  QueueInv'
  <2>1. Running' = Running
    BY <1>13 DEF Running
  <2>2. Len(notices') \in Nat /\ Len(notices') = Len(notices) - 1
    BY <1>11, <1>13
  <2>3. QED BY <1>0, <1>6, <1>13, <2>1, <2>2, Sizes DEF QueueInv
<1>14. ASSUME NEW t \in Threads, NEW label, Goto(t, label)
       PROVE  Cardinality(CanStart') <= Cardinality(CanStart) + 1
  BY <1>0, <1>6, <1>14, Moved
<1>15. ASSUME NEW t \in Threads, DrainFails(t) PROVE QueueInv'
  <2>1. UNCHANGED <<gone, xfer>> /\ Goto(t, "idle")
    BY <1>15 DEF DrainFails, Return, ReturnResult
  <2>2. CASE gone /\ UNCHANGED notices
    BY <1>5, <1>6, <2>1, <2>2
  <2>3. CASE notices # <<>> /\ notices' = Tail(notices)
    BY <1>13, <1>14, <2>1, <2>3
  <2>4. QED BY <1>15, <2>2, <2>3 DEF DrainFails
<1>16. ASSUME NEW t \in Threads, DrainEnds(t) PROVE QueueInv'
  <2>1. UNCHANGED <<gone, xfer>> /\ \E label \in Labels : Goto(t, label)
    <3>1. Goto(t, "idle") \/ Goto(t, IF HasClock(t) THEN "clock" ELSE "poll")
      BY <1>16 DEF DrainEnds, ReturnResult
    <3>2. Goto(t, "idle") \/ Goto(t, "clock") \/ Goto(t, "poll")
      BY <3>1 DEF Goto
    <3>3. QED BY <1>16, <3>2 DEF DrainEnds, Labels
  <2>2. CASE Overtaken
    <3>1. notices # <<>> /\ notices' = Tail(notices)
      BY <1>16, <2>2 DEF DrainEnds, Overtaken
    <3>2. QED BY <1>13, <1>14, <2>1, <3>1
  <2>3. CASE ~Overtaken
    <3>1. notices' = <<>> /\ Running' = Running
      BY <1>16, <2>1, <2>3 DEF DrainEnds, Drained, Running
    <3>2. QED BY <1>6, <3>1, EmptyHasRoom
  <2>4. QED BY <2>2, <2>3
<1>17. QED
  BY <1>1, <1>2, <1>3, <1>4, <1>7, <1>8, <1>9, <1>10, <1>12, <1>15, <1>16 DEF Next, Begin, Drain

LEMMA EveryNoticeFits ==
    ASSUME Roomy, TableInv, QueueInv, [Next]_vars, NEW s \in Slots,
           xfer[s].state = "running", xfer'[s] # xfer[s], handle' # "closed"
    PROVE  Len(notices') > Len(notices)
<1> USE DEF driver
<1>0. TypeOK
  BY DEF TableInv
<1>1. Len(notices) < NFSEP
  <2>1. s \in Running /\ IsFiniteSet(Running)
    BY SomeSlots DEF Running
  <2>2. Cardinality(Running) # 0
    BY <2>1, FS_EmptySet
  <2>3. QED BY <1>0, <2>2, Sizes DEF QueueInv
<1>2. ASSUME Notice(s) PROVE Len(notices') > Len(notices)
  BY <1>0, <1>1, <1>2, NoticeCounts
<1>3. ASSUME NEW r \in Slots, XferEnds(r) PROVE Len(notices') > Len(notices)
  <2>1. r = s
    BY <1>0, <1>3 DEF XferEnds, TypeOK
  <2>2. QED BY <1>2, <1>3, <2>1 DEF XferEnds
<1>4. hp[s].ep # None
  BY DEF TableInv, NoSlotsWithoutFs, TableMatchesDriver
<1>5. ASSUME Closed(s) PROVE Len(notices') > Len(notices)
  BY <1>2, <1>4, <1>5 DEF Closed
<1>6. ASSUME NEW t \in Threads, OpenFails(t) PROVE Len(notices') > Len(notices)
  <2>1. PICK r \in Slots : xfer' = [xfer EXCEPT ![r] = NoXfer] /\ Closed(r)
    BY <1>6, SlotForMeaning DEF OpenFails
  <2>2. r = s
    BY <1>0, <2>1 DEF TypeOK
  <2>3. QED BY <1>5, <2>1, <2>2
<1>7. ASSUME NEW t \in Threads, Start(t) PROVE Len(notices') > Len(notices)
  <2> DEFINE fits(r) == Fits(r, call[t].ep, call[t].len)
             now(r)  == IF fits(r) THEN xfer[r] ELSE NewXfer
             begun   == [state |-> "running", id |-> Id(t)]
  <2>1. PICK r \in SlotFor(call[t].ep) :
           /\ IF fits(r) THEN UNCHANGED notices ELSE Closed(r)
           /\ \/ now(r).state # "running" /\ xfer' = [xfer EXCEPT ![r] = begun]
              \/ xfer' = [xfer EXCEPT ![r] = now(r)]
    BY <1>7 DEF Start
  <2>2. r \in Slots
    BY <2>1, SlotForMeaning
  <2>3. fits(r) => now(r) = xfer[r]
    OBVIOUS
  <2> HIDE DEF fits, now, begun
  <2>4. r = s
    BY <1>0, <2>1, <2>2 DEF TypeOK
  <2>5. ~fits(r)
    BY <1>0, <2>1, <2>2, <2>3, <2>4 DEF TypeOK
  <2>6. QED BY <1>5, <2>1, <2>4, <2>5
<1>8. ASSUME xfer' = xfer PROVE FALSE
  BY <1>8
<1>9. ASSUME NEW t \in Threads,
             Submit(t) \/ NoSlotLeft(t) \/ Poll(t) \/ Lock(t) \/ Drain(t) \/ Early(t) \/ TimesOut(t)
             \/ ControlBegins(t) \/ ControlEnds(t)
      PROVE  xfer' = xfer
  BY <1>9 DEF Submit, NoSlotLeft, Poll, Lock, Drain, Collect, DrainFails, DrainEnds, Early, TimesOut,
              ControlBegins, ControlEnds
<1>10. CASE OpenHandle \/ Unplug \/ UNCHANGED vars
  BY <1>8, <1>10 DEF OpenHandle, Unplug, vars
<1>11. CASE CloseHandle
  BY <1>11 DEF CloseHandle
<1>12. QED BY <1>3, <1>6, <1>7, <1>8, <1>9, <1>10, <1>11 DEF Next, Begin

\* No notice of the driver is ever dropped for want of room, however many
\* transfers time out and end late and whichever thread drains: for any number
\* of transfers, when the queue has one place for every thread and endpoint, as
\* FBSD_NFSEP has for the two of each that adb has (freebsd_usb.c:48-50).
THEOREM FbsdQueueHoldsAll == Roomy => (Spec => NoNoticeLost)
<1> SUFFICES ASSUME Roomy PROVE Spec => NoNoticeLost
  OBVIOUS
<1>1. Init => QueueInv
  <2>1. SUFFICES ASSUME Init PROVE QueueInv
    OBVIOUS
  <2>2. Running = {} /\ Cardinality({}) = 0 /\ Len(notices) = 0
    BY <2>1, FS_EmptySet DEF Init, Running, NoXfer
  <2>3. Cardinality(CanStart) <= Cardinality(Threads) /\ Cardinality(CanStart) \in Nat
    BY SomeThreads DEF CanStart
  <2>4. Cardinality(Threads) \in Nat /\ Cardinality(Endpoints) \in Nat /\ NFSEP \in Nat
    BY FS_CardinalityType, FbsdAssumption DEF Roomy
  <2>5. QED BY <2>2, <2>3, <2>4 DEF QueueInv, Roomy
<1>2. TableInv /\ QueueInv /\ [Next]_vars => QueueInv'
  BY NextKeepsQueue
<1>3. TableInv /\ QueueInv /\ [Next]_vars =>
        [\A s \in Slots : xfer[s].state = "running" /\ xfer'[s] # xfer[s] /\ handle' # "closed"
            => Len(notices') > Len(notices)]_vars
  BY EveryNoticeFits
<1>4. QED BY <1>1, <1>2, <1>3, TableInvariant, PTL DEF Spec, NoNoticeLost
=============================================================================
