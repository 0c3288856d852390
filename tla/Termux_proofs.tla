--------------------------- MODULE Termux_proofs ---------------------------
(***************************************************************************)
(* What the hooks of libtermuxadb answer, for any number of devices, plugs *)
(* and walks: TermuxAdb's descriptors never go back, its walks are         *)
(* complete, and fastboot goes on with every descriptor it was sent.       *)
(***************************************************************************)
EXTENDS TermuxAdb, FiniteSetTheorems, WellFoundedInduction, TLAPS

-----------------------------------------------------------------------------
(* Sets of naturals, and places in them                                    *)

\* A set of naturals has a least element.
LEMMA Least == ASSUME NEW S \in SUBSET Nat, S # {} PROVE \E x \in S : \A y \in S : x <= y
<1> DEFINE R == {p \in Nat \X Nat : p[1] < p[2]}
<1>1. R = OpToRel(<, Nat)
  BY DEF OpToRel
<1>2. IsWellFoundedOn(R, Nat)
  BY <1>1, NatLessThanWellFounded
<1>3. \E x \in S : \A y \in S : ~ (<<y, x>> \in R)
  BY <1>2, WFMin
<1>4. \A x, y \in S : <<y, x>> \in R <=> y < x
  OBVIOUS
<1>5. \A x, y \in S : ~ (y < x) => x <= y
  OBVIOUS
<1>6. QED BY <1>3, <1>4, <1>5

Upto(S, d)  == {e \in S : e <= d}
Place(S, d) == Cardinality(Upto(S, d))

LEMMA SomeDevices == ASSUME NEW S \in SUBSET Devices
                     PROVE  /\ IsFiniteSet(S) /\ S \subseteq Nat
                            /\ Cardinality(S) \in 0 .. Cardinality(Devices)
<1>1. IsFiniteSet(Devices) /\ Devices \subseteq Nat
  BY TermuxAssumption
<1>2. IsFiniteSet(S) /\ Cardinality(S) <= Cardinality(Devices)
  BY <1>1, FS_Subset
<1>3. Cardinality(S) \in Nat /\ Cardinality(Devices) \in Nat
  BY <1>1, <1>2, FS_CardinalityType
<1>4. QED BY <1>1, <1>2, <1>3

\* Two of a set are never in one place.
LEMMA OnePlace == ASSUME NEW S \in SUBSET Devices, NEW d \in S, NEW e \in S, d < e
                  PROVE  Place(S, d) \in Nat /\ Place(S, e) \in Nat /\ Place(S, d) < Place(S, e)
<1>0. S \subseteq Nat
  BY SomeDevices
<1>1. Upto(S, d) \in SUBSET Devices /\ Upto(S, e) \in SUBSET Devices
  BY DEF Upto
<1>2. Upto(S, d) \in SUBSET Upto(S, e) /\ e \in Upto(S, e) /\ e \notin Upto(S, d)
  <2>1. d \in Nat /\ e \in Nat /\ \A f \in S : f \in Nat
    BY <1>0
  <2>2. \A f \in S : f <= d => f <= e
    BY <2>1
  <2>3. Upto(S, d) \subseteq Upto(S, e)
    BY <2>2 DEF Upto
  <2>4. e \in Upto(S, e) /\ e \notin Upto(S, d)
    BY <2>1 DEF Upto
  <2>5. QED BY <2>3, <2>4
<1>3. IsFiniteSet(Upto(S, e)) /\ Place(S, d) \in Nat /\ Place(S, e) \in Nat
  BY <1>1, SomeDevices DEF Place
<1>4. Place(S, d) <= Place(S, e) /\ Place(S, d) # Place(S, e)
  BY <1>2, <1>3, FS_Subset DEF Place
<1>5. QED BY <1>3, <1>4

LEMMA PlaceType == ASSUME NEW S \in SUBSET Devices, NEW d PROVE Place(S, d) \in 0 .. Cardinality(S)
<1>1. Upto(S, d) \in SUBSET S /\ Upto(S, d) \in SUBSET Devices
  BY DEF Upto
<1>2. IsFiniteSet(S) /\ Place(S, d) \in Nat /\ Cardinality(S) \in Nat
  BY <1>1, SomeDevices DEF Place
<1>3. QED BY <1>1, <1>2, FS_Subset DEF Place

\* The places of a set have no gap: after all of the first n there is an n+1st,
\* or the set has only n.
LEMMA NoGap == ASSUME NEW S \in SUBSET Devices, NEW n \in Nat,
                      Cardinality({e \in S : Place(S, e) <= n}) = n,
                      NEW d \in S, Place(S, d) > n
               PROVE  \E e \in S : Place(S, e) = n + 1
<1> DEFINE U == {e \in S : Place(S, e) > n}
           B == {e \in S : Place(S, e) <= n}
<1>0. S \subseteq Nat /\ \A e \in S : Place(S, e) \in Nat
  <2>1. Cardinality(S) \in Nat /\ S \subseteq Nat
    BY SomeDevices
  <2>2. QED BY <2>1, PlaceType
<1>1. PICK e \in U : \A f \in U : e <= f
  <2>1. U \in SUBSET Nat /\ U # {}
    BY <1>0
  <2>2. QED BY <2>1, Least
<1>2. Upto(S, e) \subseteq B \cup {e}
  <2>1. SUFFICES ASSUME NEW f \in S, f <= e, f # e PROVE f \in B
    BY DEF Upto
  <2>2. ~ (e <= f)
    BY <1>0, <2>1
  <2>3. f \notin U
    BY <1>1, <2>2
  <2>4. QED BY <1>0, <2>3
<1>3. e \notin B /\ B \in SUBSET Devices
  <2>1. e \in S /\ Place(S, e) > n
    BY <1>1
  <2>2. ~ (Place(S, e) <= n)
    BY <1>0, <2>1
  <2>3. QED BY <2>2
<1>4. IsFiniteSet(B) /\ IsFiniteSet(B \cup {e}) /\ Cardinality(B \cup {e}) = n + 1
  BY <1>3, SomeDevices, FS_AddElement
<1>5. Place(S, e) <= n + 1
  BY <1>2, <1>4, FS_Subset DEF Place
<1>6. QED BY <1>0, <1>5

-----------------------------------------------------------------------------
(* Types                                                                   *)

Message  == [dev : Devices, fd : Nat \ {0}]
OneChild == \A c, e \in children : c = e

\* A walk: it has returned the first "pos" of its entries.
WalkInv ==
    /\ walk \in [open : BOOLEAN, entries : SUBSET Devices, pos : Nat, seen : SUBSET Devices]
    /\ walk.seen = {d \in walk.entries : Place(walk.entries, d) <= walk.pos}
    /\ Cardinality(walk.seen) = walk.pos

\* The listener works on a message.
Working == listener \in {"dir", "fd"}
MsgInv  == Working => msg \in Message

\* The descriptors of a device are in the order they were made in, from the map
\* over the message the listener works on and the socket to a child of termux-usb.
Places   == DOMAIN socket
Granting == {c \in children : c.fd # 0}

OfChildren == \A c \in children : c.fd <= conn[c.dev]
OfGranting ==
    \A c \in Granting :
        /\ fds[c.dev] <= c.fd
        /\ \A i \in Places : socket[i].dev = c.dev => socket[i].fd <= c.fd
        /\ Working /\ msg.dev = c.dev => msg.fd <= c.fd
OfSocket ==
    \A i \in Places : fds[socket[i].dev] <= socket[i].fd /\ socket[i].fd <= conn[socket[i].dev]
InOrder ==
    \A i, j \in Places : i < j /\ socket[i].dev = socket[j].dev => socket[i].fd <= socket[j].fd
OfMsg ==
    Working => /\ fds[msg.dev] <= msg.fd /\ msg.fd <= conn[msg.dev]
               /\ \A i \in Places : socket[i].dev = msg.dev => msg.fd <= socket[i].fd

OrderInv == OfChildren /\ OfGranting /\ OfSocket /\ InOrder /\ OfMsg

Inv == TypeOK /\ WalkInv /\ MsgInv /\ OneChild /\ OrderInv

LEMMA Sizes == /\ IsFiniteSet(Devices) /\ Cardinality(Devices) \in Nat /\ Devices \subseteq Nat
               /\ Cardinality({}) = 0
               /\ \A x : Cardinality({x}) = 1
<1>1. \A x : Cardinality({x}) = 1
  BY FS_Singleton
<1>2. Cardinality({}) = 0
  BY FS_EmptySet
<1>3. Cardinality(Devices) \in Nat
  BY TermuxAssumption, FS_CardinalityType
<1>4. QED BY <1>1, <1>2, <1>3, TermuxAssumption

LEMMA AtMostOne == ASSUME NEW S, \A c, e \in S : c = e PROVE Cardinality(S) <= 1
<1>1. CASE S = {}
  BY <1>1, Sizes
<1>2. ASSUME NEW c \in S PROVE Cardinality(S) <= 1
  <2>1. S = {c}
    BY <1>2
  <2>2. Cardinality({c}) = 1
    BY Sizes
  <2>3. QED BY <2>1, <2>2
<1>3. QED BY <1>1, <1>2

LEMMA InitOrder == ASSUME Init PROVE OrderInv
BY DEF Init, OrderInv, OfChildren, OfGranting, OfSocket, InOrder, OfMsg, Granting, Places, Working

LEMMA InitInv == Init => Inv
<1> SUFFICES ASSUME Init PROVE Inv
  OBVIOUS
<1>1. MsgInv /\ OneChild /\ Cardinality(children) <= 1
  BY AtMostOne DEF Init, MsgInv, OneChild, Working
<1>2. conn \in [Devices -> Nat] /\ fds \in [Devices -> Nat]
      /\ \A d \in Devices : fds[d] <= conn[d] /\ conn[d] <= MaxPlugs[d]
  BY TermuxAssumption DEF Init
<1>3. received \in 0 .. Cardinality(Devices) /\ walk.pos \in 0 .. Cardinality(Devices)
      /\ walks \in 0 .. MaxWalks /\ walk.entries = {}
  BY Sizes, TermuxAssumption DEF Init, NoWalk
<1>5. socket \in Seq([dev : Devices, fd : Nat \ {0}]) /\ Len(socket) <= Room
  BY TermuxAssumption DEF Init
<1>6. TypeOK
  BY <1>1, <1>2, <1>3, <1>5 DEF Init, TypeOK
<1>4. WalkInv
  BY Sizes DEF Init, WalkInv, NoWalk
<1>7. QED BY <1>1, <1>4, <1>6, InitOrder DEF Inv

LEMMA KeepsOneChild == OneChild /\ [Next]_vars => OneChild'
<1> SUFFICES ASSUME OneChild, [Next]_vars PROVE OneChild'
  OBVIOUS
<1>1. ASSUME NEW d \in Devices, Ask(d) PROVE OneChild'
  BY <1>1 DEF Ask, Waited, OneChild
<1>2. ASSUME NEW c \in children, Granted(c) PROVE OneChild'
  BY <1>2 DEF Granted, OneChild
<1>3. ASSUME NEW c \in children, Send(c) \/ Refuse(c) PROVE OneChild'
  BY <1>3 DEF Send, Refuse, OneChild
<1>4. CASE children' = children
  BY <1>4 DEF OneChild
<1>5. CASE List \/ AllAsked \/ WakeUp \/ Join \/ Works \/ ReceiveFails \/ ListenerPanics \/ Hook
  BY <1>4, <1>5 DEF List, AllAsked, WakeUp, Join, Works, Receive, AddDir, AddFd, ReadSerial,
                    ListenerEnds, ReceiveFails, ListenerPanics, Hook, Opendir, Readdir, Closedir
<1>6. QED BY <1>1, <1>2, <1>3, <1>4, <1>5 DEF Next, Scan, Child, Plug, Unplug, vars

LEMMA WalkKept == ASSUME Inv, walk' = walk PROVE WalkInv'
BY DEF Inv, WalkInv, Place, Upto

\* A walk goes from one place to the next.
LEMMA KeepsWalk == Inv /\ [Next]_vars => WalkInv'
<1> SUFFICES ASSUME Inv, [Next]_vars PROVE WalkInv'
  OBVIOUS
<1> DEFINE W == [open : BOOLEAN, entries : SUBSET Devices, pos : Nat, seen : SUBSET Devices]
<1>0. walk \in W /\ dirs \subseteq Devices
  BY DEF Inv, WalkInv, TypeOK
<1>1. CASE Opendir
  <2>1. walk' = [open |-> TRUE, entries |-> dirs, pos |-> 0, seen |-> {}]
    BY <1>1 DEF Opendir, NoWalk
  <2>2. \A d \in dirs : Place(dirs, d) \in Nat /\ Place(dirs, d) # 0
    <3>1. SUFFICES ASSUME NEW d \in dirs PROVE Place(dirs, d) \in Nat /\ Place(dirs, d) # 0
      OBVIOUS
    <3>2. d \in Upto(dirs, d) /\ Upto(dirs, d) \in SUBSET Devices
      <4>1. d \in Nat
        BY <1>0, Sizes
      <4>2. d \in Upto(dirs, d)
        BY <4>1 DEF Upto
      <4>3. Upto(dirs, d) \in SUBSET Devices
        BY <1>0 DEF Upto
      <4>4. QED BY <4>2, <4>3
    <3>3. IsFiniteSet(Upto(dirs, d)) /\ Place(dirs, d) \in Nat
      BY <3>2, SomeDevices DEF Place
    <3>4. QED BY <3>2, <3>3, FS_EmptySet DEF Place
  <2>3. {d \in dirs : Place(dirs, d) <= 0} = {}
    BY <2>2
  <2>4. walk'.entries = dirs /\ walk'.pos = 0 /\ walk'.seen = {} /\ walk' \in W
    BY <1>0, <2>1
  <2>5. QED BY <2>3, <2>4, Sizes DEF WalkInv, Place, Upto
<1>2. CASE Readdir
  <2> DEFINE S == walk.entries
  <2>1. PICK d \in Nth(S, walk.pos + 1) :
           walk' = [walk EXCEPT !.pos = @ + 1, !.seen = @ \cup {d}]
    BY <1>2 DEF Readdir, Stream
  <2>2. d \in S /\ Place(S, d) = walk.pos + 1 /\ S \in SUBSET Devices
    BY <1>0, <2>1 DEF Nth, Place, Upto
  <2>3. /\ walk'.pos = walk.pos + 1 /\ walk'.seen = walk.seen \cup {d} /\ walk'.entries = S
        /\ walk' \in W
    <3>1. d \in Devices /\ walk.pos + 1 \in Nat /\ walk.seen \cup {d} \in SUBSET Devices
      BY <1>0, <2>2
    <3>2. QED BY <1>0, <2>1, <3>1
  <2>4. \A e \in S : Place(S, e) \in Nat /\ (Place(S, e) = walk.pos + 1 => e = d)
    <3>1. SUFFICES ASSUME NEW e \in S
                   PROVE  Place(S, e) \in Nat /\ (Place(S, e) = walk.pos + 1 => e = d)
      OBVIOUS
    <3>2. Place(S, e) \in Nat
      BY <2>2, SomeDevices DEF Place, Upto
    <3>3. d \in Nat /\ e \in Nat
      <4>1. Devices \subseteq Nat
        BY Sizes
      <4>2. QED BY <2>2, <4>1
    <3>5. d < e \/ e < d \/ e = d
      BY <3>3
    <3>4. QED BY <2>2, <3>2, <3>5, OnePlace
  <2>5. walk.seen = {e \in S : Place(S, e) <= walk.pos} /\ walk.pos \in Nat
    BY <1>0 DEF Inv, WalkInv
  <2>6. walk'.seen = {e \in S : Place(S, e) <= walk.pos + 1}
    BY <2>2, <2>3, <2>4, <2>5
  <2>7. d \notin walk.seen /\ walk.seen \in SUBSET Devices
    BY <1>0, <2>2, <2>5
  <2>8. Cardinality(walk.seen \cup {d}) = walk.pos + 1
    BY <2>7, SomeDevices, FS_AddElement DEF Inv, WalkInv
  <2>9. QED BY <2>3, <2>6, <2>8 DEF WalkInv, Place, Upto
<1>3. CASE Closedir
  <2>1. walk' = [open |-> FALSE, entries |-> {}, pos |-> 0, seen |-> {}]
    BY <1>3 DEF Closedir, NoWalk
  <2>2. walk'.entries = {} /\ walk'.pos = 0 /\ walk'.seen = {} /\ walk' \in W
    BY <2>1
  <2>3. QED BY <2>2, Sizes DEF WalkInv
<1>4. CASE walk' = walk
  BY <1>4, WalkKept
<1>5. ASSUME NEW c \in children, Granted(c) \/ Send(c) \/ Refuse(c) PROVE walk' = walk
  BY <1>5 DEF Granted, Send, Refuse, hooks
<1>6. ASSUME NEW d \in Devices, Ask(d) \/ Plug(d) \/ Unplug(d) PROVE walk' = walk
  BY <1>6 DEF Ask, Plug, Unplug, hooks
<1>7. CASE List \/ AllAsked \/ WakeUp \/ Join \/ Works \/ ReceiveFails \/ ListenerPanics
  BY <1>4, <1>7 DEF List, AllAsked, WakeUp, Join, Works, Receive, AddDir, AddFd, ReadSerial,
                    ListenerEnds, ReceiveFails, ListenerPanics, hooks
<1>8. QED BY <1>1, <1>2, <1>3, <1>4, <1>5, <1>6, <1>7 DEF Next, Scan, Child, Hook, vars, hooks

\* The parts of TypeOK that bound sizes, and those of the other variables.
Bounded == /\ received \in 0 .. Cardinality(Devices) /\ walk.pos \in 0 .. Cardinality(Devices)
           /\ walks \in 0 .. MaxWalks /\ Cardinality(children) <= 1
Within  == /\ conn \in [Devices -> Nat] /\ fds \in [Devices -> Nat]
           /\ \A d \in Devices : fds[d] <= conn[d] /\ conn[d] <= MaxPlugs[d]
Queued  == socket \in Seq(Message) /\ Len(socket) <= Room
Placed  ==
    /\ mode \in {"adb", "fastboot"} /\ plugged \subseteq Devices
    /\ main \in {"list", "ask", "sleep", "join", "done", "aborted"}
    /\ last \subseteq Devices /\ listed \subseteq Devices /\ todo \subseteq listed
    /\ children \subseteq [dev : Devices, fd : Nat]
    /\ listener \in {"off", "recv", "dir", "fd", "serial", "ended", "dead"}
    /\ msg \in Message \cup {NoMessage}
    /\ dirs \subseteq Devices
    /\ refused \subseteq Devices /\ wasted \subseteq Devices /\ failed \in BOOLEAN

LEMMA TypeParts == TypeOK <=> Placed /\ Within /\ Queued /\ Bounded /\ walk.entries \subseteq Devices
BY DEF TypeOK, Placed, Within, Queued, Bounded, Message

LEMMA TakeFirst == ASSUME Queued, socket # <<>>
                   PROVE  /\ Head(socket) \in Message /\ Tail(socket) \in Seq(Message)
                          /\ Len(Tail(socket)) = Len(socket) - 1 /\ Len(socket) \in Nat
                          /\ \A i \in 1 .. Len(Tail(socket)) : Tail(socket)[i] = socket[i + 1]
                          /\ Head(socket) = socket[1] /\ 1 \in 1 .. Len(socket)
BY DEF Queued

LEMMA KeepsQueue == ASSUME Inv, [Next]_vars PROVE Queued'
<1>0. Queued /\ children \subseteq [dev : Devices, fd : Nat] /\ Room \in Nat
  BY TypeParts, TermuxAssumption DEF Inv, Placed
<1>1. ASSUME NEW c \in children, Send(c) PROVE Queued'
  <2>1. c \in Message /\ socket' = Append(socket, c) /\ Len(socket) < Room
    BY <1>0, <1>1 DEF Send, Message
  <2>2. QED BY <1>0, <2>1 DEF Queued
<1>2. CASE Receive
  <2>1. socket' = Tail(socket) /\ socket # <<>>
    BY <1>2 DEF Receive
  <2>2. QED BY <1>0, <2>1, TakeFirst DEF Queued
<1>3. CASE socket' = socket
  BY <1>0, <1>3 DEF Queued
<1>4. CASE \/ Scan \/ ReceiveFails \/ ListenerPanics \/ Hook \/ AddDir \/ AddFd \/ ReadSerial
           \/ ListenerEnds \/ \E c \in children : Granted(c) \/ Refuse(c)
           \/ \E d \in Devices : Plug(d) \/ Unplug(d)
  BY <1>3, <1>4 DEF Scan, List, Ask, AllAsked, WakeUp, Join, AddDir, AddFd, ReadSerial,
                    ListenerEnds, ReceiveFails, ListenerPanics, Hook, Opendir, Readdir, Closedir,
                    Granted, Refuse, Plug, Unplug
<1>5. QED BY <1>1, <1>2, <1>3, <1>4 DEF Next, Child, Works, vars

\* What OrderInv is about is left alone.
Stays == UNCHANGED <<children, socket, fds, conn, msg>> /\ Working' = Working

LEMMA StaysInOrder == ASSUME OrderInv, Stays PROVE OrderInv'
BY DEF OrderInv, Stays, OfChildren, OfGranting, OfSocket, InOrder, OfMsg, Granting, Places, Working

\* What the order of descriptors says for its parts' types.
LEMMA OrderTypes ==
    ASSUME Inv
    PROVE  /\ conn \in [Devices -> Nat] /\ fds \in [Devices -> Nat]
           /\ \A c \in children : c \in [dev : Devices, fd : Nat] /\ c.dev \in Devices /\ c.fd \in Nat
           /\ socket \in Seq(Message) /\ Len(socket) \in Nat /\ Places = 1 .. Len(socket)
           /\ \A i \in Places : socket[i].dev \in Devices /\ socket[i].fd \in Nat /\ socket[i].fd # 0
           /\ Working => msg.dev \in Devices /\ msg.fd \in Nat /\ msg.fd # 0
<1>1. Placed /\ Within /\ Queued
  BY TypeParts DEF Inv
<1>2. socket \in Seq(Message) /\ Len(socket) \in Nat /\ Places = 1 .. Len(socket)
  BY <1>1 DEF Queued, Places
<1>3. \A i \in Places : socket[i] \in Message
  BY <1>2
<1>4. \A m \in Message : m.dev \in Devices /\ m.fd \in Nat /\ m.fd # 0
  BY DEF Message
<1>5. Working => msg \in Message
  BY DEF Inv, MsgInv
<1>6. \A c \in [dev : Devices, fd : Nat] : c.dev \in Devices /\ c.fd \in Nat
  OBVIOUS
<1>7. QED BY <1>1, <1>2, <1>3, <1>4, <1>5, <1>6 DEF Placed, Within

LEMMA KeepsOrder == ASSUME Inv, [Next]_vars PROVE OrderInv'
<1> DEFINE L == Len(socket)
<1>0. OrderInv /\ OneChild
  BY DEF Inv
<1>1. ASSUME NEW d \in Devices, Plug(d) PROVE OrderInv'
  <2>1. conn' = [conn EXCEPT ![d] = @ + 1] /\ UNCHANGED <<children, socket, fds, msg, listener>>
    BY <1>1 DEF Plug, scanner, incoming, maps
  <2>2. \A e \in Devices : conn[e] <= conn'[e] /\ conn[e] \in Nat /\ conn'[e] \in Nat
    BY <2>1, OrderTypes
  <2>3. OfChildren'
    BY <1>0, <2>1, <2>2, OrderTypes DEF OrderInv, OfChildren
  <2>4. OfSocket'
    BY <1>0, <2>1, <2>2, OrderTypes DEF OrderInv, OfSocket, Places
  <2>5. OfMsg'
    BY <1>0, <2>1, <2>2, OrderTypes DEF OrderInv, OfMsg, Places, Working
  <2>6. InOrder' /\ OfGranting'
    BY <1>0, <2>1 DEF OrderInv, InOrder, OfGranting, Granting, Places, Working
  <2>7. QED BY <2>3, <2>4, <2>5, <2>6 DEF OrderInv
<1>2. ASSUME NEW d \in Devices, Ask(d) PROVE OrderInv'
  <2>1. children' = {[dev |-> d, fd |-> 0]} /\ UNCHANGED <<conn, socket, fds, msg, listener>>
    BY <1>2 DEF Ask, Waited, world, incoming, maps
  <2>2. OfChildren'
    BY <2>1, OrderTypes DEF OfChildren
  <2>3. OfGranting'
    BY <2>1 DEF OfGranting, Granting
  <2>4. QED BY <1>0, <2>1, <2>2, <2>3 DEF OrderInv, OfSocket, InOrder, OfMsg, Places, Working
<1>3. ASSUME NEW c \in children, Granted(c) PROVE OrderInv'
  <2> DEFINE g == [dev |-> c.dev, fd |-> conn[c.dev]]
  <2>1. children = {c}
    BY <1>0 DEF OneChild
  <2>2. c \in [dev : Devices, fd : Nat]
    BY OrderTypes
  <2>3. [c EXCEPT !.fd = conn[c.dev]] = g /\ g.dev = c.dev /\ g.fd = conn[c.dev]
    BY <2>2
  <2>4. children' = {g} /\ UNCHANGED <<conn, socket, fds, msg, listener>>
    BY <1>3, <2>1, <2>3 DEF Granted, world, incoming, maps
  <2>5. \A d \in Devices : conn[d] \in Nat /\ fds[d] <= conn[d]
    BY TypeParts DEF Inv, Within
  <2>6. OfChildren'
    BY <2>2, <2>4, <2>5 DEF OfChildren
  <2>7. OfGranting'
    BY <1>0, <2>2, <2>3, <2>4, <2>5 DEF OrderInv, OfGranting, Granting, OfSocket, OfMsg, Places, Working
  <2>8. QED BY <1>0, <2>4, <2>6, <2>7 DEF OrderInv, OfSocket, InOrder, OfMsg, Places, Working
<1>4. ASSUME NEW c \in children, Refuse(c) PROVE OrderInv'
  <2>1. children' \subseteq children /\ UNCHANGED <<conn, socket, fds, msg, listener>>
    BY <1>4 DEF Refuse, world, incoming, maps
  <2>2. OfChildren' /\ OfGranting'
    BY <1>0, <2>1 DEF OrderInv, OfChildren, OfGranting, Granting, Places, Working
  <2>3. QED BY <1>0, <2>1, <2>2 DEF OrderInv, OfSocket, InOrder, OfMsg, Places, Working
<1>5. ASSUME NEW c \in children, Send(c) PROVE OrderInv'
  <2>1. children' = {} /\ c \in Granting
    BY <1>0, <1>5 DEF Send, OneChild, Granting
  <2>2. socket' = Append(socket, c) /\ UNCHANGED <<conn, fds, msg, listener>>
    BY <1>5 DEF Send, world, incoming, maps
  <2>3. /\ Places' = 1 .. (L + 1) /\ socket'[L + 1] = c /\ L \in Nat
        /\ \A i \in 1 .. L : socket'[i] = socket[i] /\ i \in Places
    BY <2>2, OrderTypes DEF Places
  <2>4. \A i \in Places' : i = L + 1 \/ i \in 1 .. L
    BY <2>3
  <2>5. /\ fds[c.dev] <= c.fd /\ c.fd <= conn[c.dev]
        /\ \A i \in Places : socket[i].dev = c.dev => socket[i].fd <= c.fd
        /\ Working /\ msg.dev = c.dev => msg.fd <= c.fd
    BY <1>0, <2>1 DEF OrderInv, OfGranting, OfChildren, Granting
  <2>6. OfSocket'
    BY <1>0, <2>2, <2>3, <2>4, <2>5 DEF OrderInv, OfSocket
  <2>7. InOrder'
    <3>1. SUFFICES ASSUME NEW i \in Places', NEW j \in Places', i < j,
                          socket'[i].dev = socket'[j].dev
                   PROVE  socket'[i].fd <= socket'[j].fd
      BY DEF InOrder
    <3>2. i \in 1 .. L
      BY <2>3, <3>1
    <3>3. CASE j = L + 1
      BY <2>3, <2>5, <3>1, <3>2, <3>3
    <3>4. CASE j \in 1 .. L
      BY <1>0, <2>3, <3>1, <3>2, <3>4 DEF OrderInv, InOrder
    <3>5. QED BY <2>4, <3>3, <3>4
  <2>8. OfMsg'
    BY <1>0, <2>2, <2>3, <2>4, <2>5 DEF OrderInv, OfMsg, Working
  <2>9. QED BY <2>1, <2>6, <2>7, <2>8 DEF OrderInv, OfChildren, OfGranting, Granting
<1>6. CASE Receive
  <2>1. socket' = Tail(socket) /\ socket # <<>> /\ UNCHANGED <<conn, fds, children>>
    BY <1>6 DEF Receive, world, maps
  <2>2. Queued
    BY TypeParts DEF Inv
  <2>3. /\ Places' = 1 .. (L - 1) /\ Places = 1 .. L /\ L \in Nat
        /\ \A i \in Places' : socket'[i] = socket[i + 1] /\ i + 1 \in Places
        /\ Head(socket) = socket[1] /\ 1 \in Places
    <3>1. Len(Tail(socket)) = L - 1 /\ Tail(socket) \in Seq(Message)
      BY <2>1, <2>2, TakeFirst
    <3>2. Places' = 1 .. (L - 1)
      BY <2>1, <3>1 DEF Places
    <3>3. QED BY <2>1, <2>2, <3>1, <3>2, TakeFirst, OrderTypes
  <2>4. OfSocket' /\ OfChildren'
    BY <1>0, <2>1, <2>3 DEF OrderInv, OfSocket, OfChildren
  <2>5. InOrder'
    <3>1. SUFFICES ASSUME NEW i \in Places', NEW j \in Places', i < j,
                          socket'[i].dev = socket'[j].dev
                   PROVE  socket'[i].fd <= socket'[j].fd
      BY DEF InOrder
    <3>2. i + 1 < j + 1
      BY <2>3, <3>1
    <3>3. QED BY <1>0, <2>3, <3>1, <3>2 DEF OrderInv, InOrder
  <2>6. CASE msg' = Head(socket)
    <3>1. OfMsg'
      <4>1. /\ fds[socket[1].dev] <= socket[1].fd /\ socket[1].fd <= conn[socket[1].dev]
        BY <1>0, <2>3 DEF OrderInv, OfSocket
      <4>2. \A i \in Places' : 1 < i + 1 /\ i + 1 \in Places
        BY <2>3
      <4>3. \A i \in Places' : socket'[i].dev = socket[1].dev => socket[1].fd <= socket'[i].fd
        BY <1>0, <2>3, <4>2 DEF OrderInv, InOrder
      <4>4. QED BY <2>1, <2>3, <2>6, <4>1, <4>3 DEF OfMsg
    <3>2. OfGranting'
      BY <1>0, <2>1, <2>3, <2>6 DEF OrderInv, OfGranting, Granting
    <3>3. QED BY <2>4, <2>5, <3>1, <3>2 DEF OrderInv
  <2>7. CASE UNCHANGED <<msg, listener>>
    <3>1. OfMsg' /\ OfGranting'
      BY <1>0, <2>1, <2>3, <2>7 DEF OrderInv, OfMsg, OfGranting, Granting, Working
    <3>2. QED BY <2>4, <2>5, <3>1 DEF OrderInv
  <2>8. QED BY <1>6, <2>6, <2>7 DEF Receive
<1>7. CASE AddFd
  <2>1. /\ Working /\ ~Working' /\ fds' = [fds EXCEPT ![msg.dev] = msg.fd]
        /\ UNCHANGED <<conn, socket, children>>
    BY <1>7 DEF AddFd, Working, world
  <2>2. \A d \in Devices : fds'[d] = IF d = msg.dev THEN msg.fd ELSE fds[d]
    BY <2>1, OrderTypes
  <2>3. OfSocket'
    BY <1>0, <2>1, <2>2, OrderTypes DEF OrderInv, OfSocket, OfMsg, Places
  <2>4. OfGranting'
    BY <1>0, <2>1, <2>2, OrderTypes DEF OrderInv, OfGranting, OfMsg, Granting, Places
  <2>5. QED BY <1>0, <2>1, <2>3, <2>4 DEF OrderInv, OfChildren, InOrder, OfMsg, Places
<1>8. CASE ReadSerial \/ ListenerPanics
  <2>1. ~Working' /\ UNCHANGED <<conn, socket, children, fds>>
    BY <1>8 DEF ReadSerial, ListenerPanics, Working, world, maps
  <2>2. QED BY <1>0, <2>1 DEF OrderInv, OfChildren, OfGranting, OfSocket, InOrder, OfMsg, Granting, Places
<1>9. CASE Stays
  BY <1>0, <1>9, StaysInOrder
<1>10. CASE List
  <2>1. UNCHANGED <<conn, socket, children, fds, msg>>
    BY <1>10 DEF List, world, maps
  <2>2. Working' => Working /\ listener' = listener
    BY <1>10 DEF List, Working
  <2>3. QED BY <1>0, <2>1, <2>2
             DEF OrderInv, OfChildren, OfGranting, OfSocket, InOrder, OfMsg, Granting, Places, Working
<1>11. CASE \/ AllAsked \/ WakeUp \/ Join \/ AddDir \/ ListenerEnds \/ ReceiveFails \/ Hook
            \/ \E d \in Devices : Unplug(d)
  <2>1. CASE AllAsked \/ WakeUp \/ Join \/ ReceiveFails \/ Hook \/ \E d \in Devices : Unplug(d)
    <3>1. UNCHANGED <<children, socket, fds, conn, msg, listener>>
      BY <2>1 DEF AllAsked, WakeUp, Join, ReceiveFails, Hook, Opendir, Readdir, Closedir, Unplug,
                  world, maps, incoming
    <3>2. QED BY <1>9, <3>1 DEF Stays, Working
  <2>2. CASE AddDir \/ ListenerEnds
    <3>1. UNCHANGED <<children, socket, fds, conn, msg>> /\ Working' = Working
      BY <2>2 DEF AddDir, ListenerEnds, Working, world, maps
    <3>2. QED BY <1>9, <3>1 DEF Stays
  <2>3. QED BY <1>11, <2>1, <2>2
<1>12. CASE UNCHANGED vars
  BY <1>9, <1>12 DEF vars, Stays, Working, world, maps, incoming
<1>13. QED BY <1>1, <1>2, <1>3, <1>4, <1>5, <1>6, <1>7, <1>8, <1>10, <1>11, <1>12
           DEF Next, Scan, Child, Works

LEMMA KeepsWithin == ASSUME Inv, [Next]_vars PROVE Within'
<1>0. Within /\ OfMsg /\ MaxPlugs \in [Devices -> Nat \ {0}]
  BY TypeParts, TermuxAssumption DEF Inv, OrderInv
<1>1. ASSUME NEW d \in Devices, Plug(d) PROVE Within'
  BY <1>0, <1>1 DEF Plug, Within, maps
<1>2. CASE AddFd
  <2>1. /\ fds' = [fds EXCEPT ![msg.dev] = msg.fd] /\ conn' = conn
        /\ msg.dev \in Devices /\ msg.fd \in Nat /\ msg.fd <= conn[msg.dev]
    BY <1>0, <1>2, OrderTypes DEF AddFd, OfMsg, Working, world
  <2>2. QED BY <1>0, <2>1 DEF Within
<1>3. CASE UNCHANGED <<conn, fds>>
  BY <1>0, <1>3 DEF Within
<1>4. ASSUME NEW c \in children, Granted(c) \/ Send(c) \/ Refuse(c) PROVE UNCHANGED <<conn, fds>>
  BY <1>4 DEF Granted, Send, Refuse, world, maps
<1>5. ASSUME NEW d \in Devices, Ask(d) \/ Unplug(d) PROVE UNCHANGED <<conn, fds>>
  BY <1>5 DEF Ask, Unplug, world, maps
<1>6. CASE \/ List \/ AllAsked \/ WakeUp \/ Join \/ Receive \/ AddDir \/ ReadSerial \/ ListenerEnds
           \/ ReceiveFails \/ ListenerPanics \/ Hook
  BY <1>3, <1>6 DEF List, AllAsked, WakeUp, Join, Receive, AddDir, ReadSerial, ListenerEnds,
                    ReceiveFails, ListenerPanics, Hook, Opendir, Readdir, Closedir, world, maps
<1>7. CASE UNCHANGED vars
  BY <1>3, <1>7 DEF vars, world, maps
<1>8. QED BY <1>1, <1>2, <1>3, <1>4, <1>5, <1>6, <1>7 DEF Next, Scan, Child, Works

LEMMA KeepsBounds == ASSUME Inv, [Next]_vars PROVE Bounded'
<1>0. Bounded /\ Placed /\ Cardinality(Devices) \in Nat /\ MaxWalks \in Nat
  BY TypeParts, Sizes, TermuxAssumption DEF Inv
<1>1. Cardinality(children)' <= 1
  <2>1. OneChild'
    BY KeepsOneChild DEF Inv
  <2>2. QED BY <2>1, AtMostOne DEF OneChild
<1>2. received' \in 0 .. Cardinality(Devices)
  <2>1. CASE received' = received
    BY <1>0, <2>1 DEF Bounded
  <2>2. CASE Receive \/ ReceiveFails
    <3>1. Continues /\ Counted
      BY <2>2 DEF Receive, ReceiveFails
    <3>2. Cardinality(listed) \in 0 .. Cardinality(Devices)
      BY <1>0, SomeDevices DEF Placed
    <3>3. QED BY <1>0, <3>1, <3>2 DEF Continues, Counted, Expected, Bounded
  <2>3. ASSUME NEW c \in children, Granted(c) \/ Send(c) \/ Refuse(c) PROVE received' = received
    BY <2>3 DEF Granted, Send, Refuse, incoming
  <2>4. ASSUME NEW d \in Devices, Ask(d) \/ Plug(d) \/ Unplug(d) PROVE received' = received
    BY <2>4 DEF Ask, Plug, Unplug, incoming
  <2>5. CASE \/ List \/ AllAsked \/ WakeUp \/ Join \/ AddDir \/ AddFd \/ ReadSerial \/ ListenerEnds
             \/ ListenerPanics \/ Hook
    BY <2>1, <2>5 DEF List, AllAsked, WakeUp, Join, AddDir, AddFd, ReadSerial, ListenerEnds,
                      ListenerPanics, Hook, Opendir, Readdir, Closedir, incoming
  <2>6. CASE UNCHANGED vars
    BY <2>1, <2>6 DEF vars, incoming
  <2>7. QED BY <2>1, <2>2, <2>3, <2>4, <2>5, <2>6 DEF Next, Scan, Child, Works
<1>3. walk'.pos \in 0 .. Cardinality(Devices)
  <2>1. WalkInv'
    BY KeepsWalk
  <2>2. walk'.seen \in SUBSET Devices /\ Cardinality(walk'.seen) = walk'.pos
    BY <2>1 DEF WalkInv
  <2>3. QED BY <2>2, SomeDevices
<1>4. walks' \in 0 .. MaxWalks
  <2>1. CASE walks' = walks
    BY <1>0, <2>1 DEF Bounded
  <2>2. CASE Opendir
    BY <1>0, <2>2 DEF Opendir, Bounded
  <2>3. ASSUME NEW c \in children, Granted(c) \/ Send(c) \/ Refuse(c) PROVE walks' = walks
    BY <2>3 DEF Granted, Send, Refuse, hooks
  <2>4. ASSUME NEW d \in Devices, Ask(d) \/ Plug(d) \/ Unplug(d) PROVE walks' = walks
    BY <2>4 DEF Ask, Plug, Unplug, hooks
  <2>5. CASE \/ List \/ AllAsked \/ WakeUp \/ Join \/ Receive \/ AddDir \/ AddFd \/ ReadSerial
             \/ ListenerEnds \/ ReceiveFails \/ ListenerPanics \/ Readdir \/ Closedir
    BY <2>1, <2>5 DEF List, AllAsked, WakeUp, Join, Receive, AddDir, AddFd, ReadSerial,
                      ListenerEnds, ReceiveFails, ListenerPanics, Readdir, Closedir, hooks
  <2>6. CASE UNCHANGED vars
    BY <2>1, <2>6 DEF vars, hooks
  <2>7. QED BY <2>1, <2>2, <2>3, <2>4, <2>5, <2>6 DEF Next, Scan, Child, Works, Hook
<1>5. QED BY <1>1, <1>2, <1>3, <1>4 DEF Bounded

LEMMA KeepsPlaces == ASSUME Inv, [Next]_vars PROVE Placed' /\ MsgInv'
<1>0. Placed /\ MsgInv
  BY TypeParts DEF Inv
<1> USE DEF Placed, MsgInv, Working
<1>1. CASE List
  BY <1>0, <1>1 DEF List, world, maps
<1>2. ASSUME NEW d \in Devices, Ask(d) PROVE Placed' /\ MsgInv'
  <2>1. [dev |-> d, fd |-> 0] \in [dev : Devices, fd : Nat]
    OBVIOUS
  <2>2. children' \subseteq [dev : Devices, fd : Nat]
    BY <1>0, <1>2, <2>1 DEF Ask
  <2>3. QED BY <1>0, <1>2, <2>2 DEF Ask, world, incoming, maps, history
<1>3. CASE AllAsked \/ WakeUp \/ Join
  <2>1. last' \subseteq Devices /\ main' \in {"list", "ask", "sleep", "join", "done", "aborted"}
    BY <1>0, <1>3 DEF AllAsked, WakeUp, Join, Remembered
  <2>2. UNCHANGED <<mode, plugged, listed, todo, children, listener, msg, dirs, refused, wasted, failed>>
    BY <1>3 DEF AllAsked, WakeUp, Join, world, incoming, maps, history
  <2>3. QED BY <1>0, <2>1, <2>2
<1>4. ASSUME NEW c \in children, Granted(c) PROVE Placed' /\ MsgInv'
  <2>1. [c EXCEPT !.fd = conn[c.dev]] \in [dev : Devices, fd : Nat]
    BY OrderTypes
  <2>2. children' \subseteq [dev : Devices, fd : Nat]
    BY <1>0, <1>4, <2>1 DEF Granted
  <2>3. QED BY <1>0, <1>4, <2>2 DEF Granted, world, scanner, incoming, maps, history
<1>5. ASSUME NEW c \in children, Send(c) PROVE Placed' /\ MsgInv'
  BY <1>0, <1>5 DEF Send, world, scanner, incoming, maps, history
<1>6. ASSUME NEW c \in children, Refuse(c) PROVE Placed' /\ MsgInv'
  BY <1>0, <1>6, OrderTypes DEF Refuse, world, scanner, incoming, maps
<1>7. CASE Receive
  <2>1. Head(socket) \in Message /\ Head(socket).dev \in Devices
    BY <1>7, TakeFirst, TypeParts DEF Receive, Inv, Message
  <2>2. QED BY <1>0, <1>7, <2>1 DEF Receive, world, scanner, maps
<1>8. CASE ReceiveFails
  BY <1>0, <1>8 DEF ReceiveFails, world, scanner, maps
<1>9. CASE AddDir
  BY <1>0, <1>9, OrderTypes DEF AddDir, world, scanner, history
<1>10. CASE AddFd \/ ReadSerial \/ ListenerPanics \/ ListenerEnds
  BY <1>0, <1>10 DEF AddFd, ReadSerial, ListenerPanics, ListenerEnds, world, scanner, maps, history
<1>11. CASE Hook
  BY <1>0, <1>11 DEF Hook, Opendir, Readdir, Closedir, world, scanner, incoming, maps, history
<1>12. ASSUME NEW d \in Devices, Plug(d) \/ Unplug(d) PROVE Placed' /\ MsgInv'
  BY <1>0, <1>12 DEF Plug, Unplug, scanner, incoming, maps, history
<1>13. CASE UNCHANGED vars
  BY <1>0, <1>13 DEF vars, world, scanner, incoming, maps, history
<1>14. QED BY <1>1, <1>2, <1>3, <1>4, <1>5, <1>6, <1>7, <1>8, <1>9, <1>10, <1>11, <1>12, <1>13
           DEF Next, Scan, Child, Works

LEMMA NextKeepsInv == Inv /\ [Next]_vars => Inv'
<1> SUFFICES ASSUME Inv, [Next]_vars PROVE Inv'
  OBVIOUS
<1>1. Placed' /\ MsgInv' /\ Within' /\ Queued' /\ Bounded'
  BY KeepsPlaces, KeepsWithin, KeepsQueue, KeepsBounds
<1>2. WalkInv' /\ OneChild' /\ OrderInv'
  BY KeepsWalk, KeepsOneChild, KeepsOrder DEF Inv
<1>3. walk'.entries \subseteq Devices
  BY <1>2 DEF WalkInv
<1>4. TypeOK'
  BY <1>1, <1>3 DEF TypeOK, Placed, Within, Queued, Bounded, Message
<1>5. QED BY <1>1, <1>2, <1>4 DEF Inv

LEMMA Invariant == Spec => []Inv
<1>1. QED BY InitInv, NextKeepsInv, PTL DEF Spec

\* Every variable has a value its code gives it; no more than one child of
\* termux-usb runs, and the map has no descriptor of a connection to come.
THEOREM TermuxTypes == Spec => []TypeOK
<1>1. Inv => TypeOK
  BY DEF Inv
<1>2. QED BY <1>1, Invariant, PTL

-----------------------------------------------------------------------------
(* The descriptors that open returns                                       *)

LEMMA NotOlder == ASSUME Inv, [Next]_vars, NEW d \in Devices PROVE fds'[d] >= fds[d]
<1>0. OfMsg /\ fds \in [Devices -> Nat]
  BY OrderTypes DEF Inv, OrderInv
<1>1. CASE AddFd
  <2>1. /\ fds' = [fds EXCEPT ![msg.dev] = msg.fd] /\ msg.dev \in Devices
        /\ msg.fd \in Nat /\ fds[msg.dev] <= msg.fd
    BY <1>0, <1>1, OrderTypes DEF AddFd, OfMsg, Working
  <2>2. QED BY <1>0, <2>1
<1>2. CASE fds' = fds
  BY <1>0, <1>2
<1>3. ASSUME NEW c \in children, Granted(c) \/ Send(c) \/ Refuse(c) PROVE fds' = fds
  BY <1>3 DEF Granted, Send, Refuse, maps
<1>4. ASSUME NEW e \in Devices, Ask(e) \/ Plug(e) \/ Unplug(e) PROVE fds' = fds
  BY <1>4 DEF Ask, Plug, Unplug, maps
<1>5. CASE \/ List \/ AllAsked \/ WakeUp \/ Join \/ Receive \/ AddDir \/ ReadSerial \/ ListenerEnds
           \/ ReceiveFails \/ ListenerPanics \/ Hook
  BY <1>2, <1>5 DEF List, AllAsked, WakeUp, Join, Receive, AddDir, ReadSerial, ListenerEnds,
                    ReceiveFails, ListenerPanics, Hook, Opendir, Readdir, Closedir, maps
<1>6. CASE UNCHANGED vars
  BY <1>2, <1>6 DEF vars, maps
<1>7. QED BY <1>1, <1>2, <1>3, <1>4, <1>5, <1>6 DEF Next, Scan, Child, Works

\* What open returns for a device is never the descriptor of an earlier
\* connection than before: the children of termux-usb run one at a time, the
\* socket keeps the order, so what the listener puts into USB_FD_MAP is the
\* later of the two, for any number of devices, plugs and messages under way.
THEOREM OpenNeverGoesBack == Spec => NeverOlder
<1>1. Inv /\ [Next]_vars => [\A d \in Devices : Opens(d)' >= Opens(d)]_vars
  BY NotOlder DEF Opens
<1>2. QED BY <1>1, Invariant, PTL DEF Spec, NeverOlder

-----------------------------------------------------------------------------
(* Walks over the directory                                                *)

LEMMA EndOfWalk == ASSUME Inv, Closedir
                   PROVE  walk.entries \subseteq walk.seen /\ Cardinality(walk.seen) = walk.pos
<1> DEFINE S == walk.entries
<1>1. /\ S \in SUBSET Devices /\ walk.pos \in Nat /\ Cardinality(walk.seen) = walk.pos
      /\ walk.seen = {e \in S : Place(S, e) <= walk.pos}
  BY DEF Inv, WalkInv
<1>2. \A e \in S : Place(S, e) # walk.pos + 1
  BY DEF Closedir, Nth, Stream, Place, Upto
<1>3. ASSUME NEW d \in S, d \notin walk.seen PROVE FALSE
  <2>1. Place(S, d) \in Nat
    BY <1>1, SomeDevices DEF Place, Upto
  <2>2. Place(S, d) > walk.pos
    BY <1>1, <1>3, <2>1
  <2>3. QED BY <1>1, <1>2, <2>2, NoGap
<1>4. QED BY <1>1, <1>3

\* A walk that readdir ends has returned every device that was there when
\* opendir copied DIR_MAP, and none twice: for any number of devices, and
\* whatever the listener adds to the map meanwhile.
THEOREM WalksAreComplete == Spec => WalkComplete
<1>1. Inv /\ [Next]_vars =>
        [Closedir => walk.entries \subseteq walk.seen /\ Cardinality(walk.seen) = walk.pos]_vars
  BY EndOfWalk
<1>2. QED BY <1>1, Invariant, PTL DEF Spec, WalkComplete

-----------------------------------------------------------------------------
(* What fastboot waits for                                                 *)

\* Where fastboot and its listener are.
Phases ==
    /\ main = "list" => /\ children = {} /\ socket = <<>> /\ received = 0
                        /\ listener = "off" /\ last = {}
    /\ main # "sleep"
    /\ main \in {"join", "done", "aborted"} => todo = {} /\ children = {}
    /\ listener = "ended" => received >= Cardinality(listed) /\ main # "list"
    /\ main = "done" => listener = "ended"

\* The messages that were received, and those that may still be, are no more
\* than the devices that were listed.
Counts ==
    main # "list" /\ ~failed =>
        Len(socket) + received + Cardinality(todo) + Cardinality(children) <= Cardinality(listed)

\* Where the request of a listed device is.
Underway(d) ==
    \/ d \in todo \cup refused \cup wasted
    \/ \E c \in children : c.dev = d
    \/ \E i \in Places : socket[i].dev = d
    \/ Working /\ msg.dev = d
    \/ fds[d] # 0

Accounts == main # "list" => \A d \in listed : Underway(d)

Fastboot == /\ mode = "fastboot" => Phases /\ Counts /\ Accounts
            /\ main \in {"join", "done", "aborted"} => mode = "fastboot"

LEMMA InitFastboot == Init => Fastboot
BY DEF Init, Fastboot, Phases, Counts, Accounts

LEMMA ModeStays == ASSUME [Next]_vars PROVE mode' = mode
<1>1. ASSUME NEW c \in children, Granted(c) \/ Send(c) \/ Refuse(c) PROVE mode' = mode
  BY <1>1 DEF Granted, Send, Refuse, world
<1>2. ASSUME NEW e \in Devices, Ask(e) \/ Plug(e) \/ Unplug(e) PROVE mode' = mode
  BY <1>2 DEF Ask, Plug, Unplug, world
<1>3. CASE \/ List \/ AllAsked \/ WakeUp \/ Join \/ Works \/ ReceiveFails \/ ListenerPanics \/ Hook
  BY <1>3 DEF List, AllAsked, WakeUp, Join, Works, Receive, AddDir, AddFd, ReadSerial, ListenerEnds,
              ReceiveFails, ListenerPanics, Hook, Opendir, Readdir, Closedir, world
<1>4. CASE UNCHANGED vars
  BY <1>4 DEF vars, world
<1>5. QED BY <1>1, <1>2, <1>3, <1>4 DEF Next, Scan, Child

LEMMA FastbootTypes == ASSUME Inv
    PROVE  /\ Placed /\ Queued /\ Bounded /\ OneChild
           /\ IsFiniteSet(todo) /\ Cardinality(todo) \in Nat /\ IsFiniteSet(listed)
           /\ Cardinality(listed) \in Nat /\ received \in Nat /\ Len(socket) \in Nat
           /\ \A c \in children : Cardinality(children) = 1 /\ children \ {c} = {}
<1>1. Placed /\ Queued /\ Bounded /\ OneChild
  BY TypeParts DEF Inv
<1>2. todo \in SUBSET Devices /\ listed \in SUBSET Devices
  BY <1>1 DEF Placed
<1>3. IsFiniteSet(todo) /\ Cardinality(todo) \in Nat
  BY <1>2, SomeDevices
<1>4. IsFiniteSet(listed) /\ Cardinality(listed) \in Nat
  BY <1>2, SomeDevices
<1>5. \A c \in children : Cardinality(children) = 1 /\ children \ {c} = {}
  <2>1. SUFFICES ASSUME NEW c \in children PROVE Cardinality(children) = 1 /\ children \ {c} = {}
    OBVIOUS
  <2>2. children = {c}
    BY <1>1 DEF OneChild
  <2>3. Cardinality({c}) = 1
    BY Sizes
  <2>4. QED BY <2>2, <2>3
<1>6. QED BY <1>1, <1>3, <1>4, <1>5 DEF Bounded, Queued

LEMMA KeepsPhases == ASSUME Inv, mode = "fastboot", Phases, [Next]_vars PROVE Phases'
<1> USE DEF Phases
<1>1. CASE List
  BY <1>1 DEF List
<1>2. ASSUME NEW d \in Devices, Ask(d) PROVE Phases'
  BY <1>2 DEF Ask, incoming
<1>3. CASE AllAsked
  BY <1>3 DEF AllAsked, Waited, incoming
<1>4. CASE WakeUp \/ Join
  BY <1>4 DEF WakeUp, Join, incoming
<1>5. ASSUME NEW c \in children, Granted(c) \/ Send(c) \/ Refuse(c) PROVE Phases'
  BY <1>5 DEF Granted, Send, Refuse, scanner, incoming
<1>6. CASE Receive \/ ReceiveFails
  BY <1>6 DEF Receive, ReceiveFails, scanner
<1>7. CASE AddDir \/ AddFd \/ ReadSerial \/ ListenerPanics
  BY <1>7 DEF AddDir, AddFd, ReadSerial, ListenerPanics, scanner
<1>8. CASE ListenerEnds
  BY <1>8, FastbootTypes DEF ListenerEnds, Continues, Expected, scanner
<1>9. CASE Hook
  BY <1>9 DEF Hook, Opendir, Readdir, Closedir, scanner, incoming
<1>10. ASSUME NEW d \in Devices, Plug(d) \/ Unplug(d) PROVE Phases'
  BY <1>10 DEF Plug, Unplug, scanner, incoming
<1>11. CASE UNCHANGED vars
  BY <1>11 DEF vars, scanner, incoming
<1>12. QED BY <1>1, <1>2, <1>3, <1>4, <1>5, <1>6, <1>7, <1>8, <1>9, <1>10, <1>11
           DEF Next, Scan, Child, Works

LEMMA KeepsCounts == ASSUME Inv, mode = "fastboot", Phases, Counts, [Next]_vars PROVE Counts'
<1>0. Cardinality({}) = 0
  BY Sizes
<1>1. CASE List
  <2>1. children' = {} /\ socket' = <<>> /\ received' = 0 /\ todo' = listed'
    BY <1>1 DEF List, Phases
  <2>2. listed' \in SUBSET Devices
    BY <1>1, FastbootTypes DEF List, Placed
  <2>3. Cardinality(listed') \in Nat
    BY <2>2, SomeDevices
  <2>4. Len(socket') = 0
    BY <2>1
  <2>5. QED BY <1>0, <2>1, <2>3, <2>4 DEF Counts
<1>2. ASSUME NEW d \in Devices, Ask(d) PROVE Counts'
  <2>1. /\ d \in todo /\ todo' = todo \ {d} /\ children = {}
        /\ UNCHANGED <<main, listed, socket, received, failed>>
    BY <1>2 DEF Ask, Waited, incoming, history
  <2>2. children' = {[dev |-> d, fd |-> 0]}
    BY <1>2, <2>1 DEF Ask
  <2>3. Cardinality(children') = 1
    BY <2>2, Sizes
  <2>4. Cardinality(todo') = Cardinality(todo) - 1
    BY <2>1, FastbootTypes, FS_RemoveElement
  <2>5. QED BY <1>0, <2>1, <2>3, <2>4, FastbootTypes DEF Counts
<1>3. ASSUME NEW c \in children, Granted(c) PROVE Counts'
  <2>1. UNCHANGED <<main, listed, todo, socket, received, failed>>
    BY <1>3 DEF Granted, scanner, incoming, history
  <2>2. Cardinality(children') = 1
    <3>1. children' = {[c EXCEPT !.fd = conn[c.dev]]}
      BY <1>3, FastbootTypes DEF Granted
    <3>2. QED BY <3>1, Sizes
  <2>3. QED BY <2>1, <2>2, FastbootTypes DEF Counts
<1>4. ASSUME NEW c \in children, Send(c) PROVE Counts'
  <2>1. /\ UNCHANGED <<main, listed, todo, received, failed>> /\ children' = {}
        /\ socket' = Append(socket, c) /\ c \in Message
    BY <1>4, FastbootTypes DEF Send, scanner, incoming, history, Message, Placed
  <2>2. Len(socket') = Len(socket) + 1
    BY <2>1, FastbootTypes DEF Queued
  <2>3. QED BY <1>0, <2>1, <2>2, FastbootTypes DEF Counts
<1>5. ASSUME NEW c \in children, Refuse(c) PROVE Counts'
  <2>1. UNCHANGED <<main, listed, todo, socket, received, failed>> /\ children' = {}
    BY <1>5, FastbootTypes DEF Refuse, scanner, incoming
  <2>2. QED BY <1>0, <2>1, FastbootTypes DEF Counts
<1>6. CASE Receive
  <2>1. UNCHANGED <<main, listed, todo, children, failed>> /\ received' = received + 1
        /\ socket' = Tail(socket) /\ socket # <<>>
    BY <1>6 DEF Receive, Counted, scanner
  <2>2. Len(socket') = Len(socket) - 1
    BY <2>1, TakeFirst, FastbootTypes
  <2>3. CASE children = {}
    BY <1>0, <2>1, <2>2, <2>3, FastbootTypes DEF Counts
  <2>4. ASSUME NEW c \in children PROVE Counts'
    BY <2>1, <2>2, FastbootTypes DEF Counts
  <2>5. QED BY <2>3, <2>4
<1>7. CASE ReceiveFails
  BY <1>7 DEF ReceiveFails, Counts
<1>8. CASE UNCHANGED <<main, listed, todo, children, socket, received, failed>>
  BY <1>8 DEF Counts
<1>9. CASE AllAsked
  <2>1. UNCHANGED <<listed, todo, children, socket, received, failed>> /\ main = "ask"
    BY <1>9 DEF AllAsked, incoming, history
  <2>2. QED BY <2>1 DEF Counts
<1>10. CASE WakeUp \/ Join
  <2>1. UNCHANGED <<listed, todo, children, socket, received, failed>> /\ main # "list"
    BY <1>10 DEF WakeUp, Join, incoming, history
  <2>2. QED BY <2>1 DEF Counts
<1>11. CASE \/ AddDir \/ AddFd \/ ReadSerial \/ ListenerPanics \/ ListenerEnds \/ Hook
            \/ \E d \in Devices : Plug(d) \/ Unplug(d)
  BY <1>8, <1>11 DEF AddDir, AddFd, ReadSerial, ListenerPanics, ListenerEnds, Hook, Opendir, Readdir,
                     Closedir, Plug, Unplug, scanner, incoming, history
<1>12. CASE UNCHANGED vars
  BY <1>8, <1>12 DEF vars, scanner, incoming, history
<1>13. QED BY <1>1, <1>2, <1>3, <1>4, <1>5, <1>6, <1>7, <1>9, <1>10, <1>11, <1>12
           DEF Next, Scan, Child, Works

\* Every request goes on from where it was: from "todo" to a child, the socket,
\* the listener, and the map.
LEMMA KeepsAccounts == ASSUME Inv, mode = "fastboot", Phases, Accounts, [Next]_vars PROVE Accounts'
<1>1. CASE List
  <2>1. todo' = listed'
    BY <1>1 DEF List, Phases
  <2>2. QED BY <2>1 DEF Accounts, Underway
<1>2. ASSUME NEW d \in Devices, Ask(d) PROVE Accounts'
  <2>1. /\ todo' = todo \ {d} /\ children' = children \cup {[dev |-> d, fd |-> 0]}
        /\ UNCHANGED <<main, listed, socket, listener, msg, fds, refused, wasted>>
    BY <1>2 DEF Ask, incoming, maps, history
  <2>2. \E c \in children' : c.dev = d
    <3>1. [dev |-> d, fd |-> 0] \in children' /\ [dev |-> d, fd |-> 0].dev = d
      BY <2>1
    <3>2. QED BY <3>1
  <2>3. \A e \in Devices : Underway(e) => Underway(e)'
    BY <2>1, <2>2 DEF Underway, Places, Working
  <2>4. QED BY <2>1, <2>3, FastbootTypes DEF Accounts, Placed
<1>3. ASSUME NEW c \in children, Granted(c) PROVE Accounts'
  <2>1. /\ children' = (children \ {c}) \cup {[c EXCEPT !.fd = conn[c.dev]]}
        /\ UNCHANGED <<main, listed, todo, socket, listener, msg, fds, refused, wasted>>
    BY <1>3 DEF Granted, scanner, incoming, maps, history
  <2>2. [c EXCEPT !.fd = conn[c.dev]].dev = c.dev
    BY OrderTypes
  <2>3. \A e \in Devices : Underway(e) => Underway(e)'
    BY <2>1, <2>2 DEF Underway, Places, Working
  <2>4. QED BY <2>1, <2>3, FastbootTypes DEF Accounts, Placed
<1>4. ASSUME NEW c \in children, Send(c) PROVE Accounts'
  <2>1. /\ children' = children \ {c} /\ socket' = Append(socket, c) /\ c \in Message
        /\ UNCHANGED <<main, listed, todo, listener, msg, fds, refused, wasted>>
    BY <1>4, FastbootTypes DEF Send, scanner, incoming, maps, history, Message, Placed
  <2>2. /\ Places' = 1 .. (Len(socket) + 1) /\ Places = 1 .. Len(socket)
        /\ socket'[Len(socket) + 1] = c /\ Len(socket) \in Nat
        /\ \A i \in Places : socket'[i] = socket[i]
    BY <2>1, FastbootTypes DEF Queued, Places
  <2>3. Len(socket) + 1 \in Places' /\ Places \subseteq Places'
    BY <2>2
  <2>4. \A e \in Devices : Underway(e) => Underway(e)'
    <3>1. SUFFICES ASSUME NEW e \in Devices, Underway(e) PROVE Underway(e)'
      OBVIOUS
    <3>2. CASE \E k \in children : k.dev = e
      <4>1. CASE c.dev = e
        <5>1. \E i \in Places' : socket'[i].dev = e
          BY <2>2, <2>3, <4>1
        <5>2. QED BY <5>1 DEF Underway
      <4>2. CASE c.dev # e
        <5>1. \E k \in children' : k.dev = e
          BY <2>1, <3>2, <4>2
        <5>2. QED BY <5>1 DEF Underway
      <4>3. QED BY <4>1, <4>2
    <3>3. CASE \E i \in Places : socket[i].dev = e
      <4>1. \E i \in Places' : socket'[i].dev = e
        BY <2>2, <2>3, <3>3
      <4>2. QED BY <4>1 DEF Underway
    <3>4. CASE e \in todo \cup refused \cup wasted \/ (Working /\ msg.dev = e) \/ fds[e] # 0
      BY <2>1, <3>4 DEF Underway, Working
    <3>5. QED BY <3>1, <3>2, <3>3, <3>4 DEF Underway
  <2>5. QED BY <2>1, <2>4, FastbootTypes DEF Accounts, Placed
<1>5. ASSUME NEW c \in children, Refuse(c) PROVE Accounts'
  <2>1. /\ children' = children \ {c} /\ refused' = refused \cup {c.dev}
        /\ UNCHANGED <<main, listed, todo, socket, listener, msg, fds, wasted>>
    BY <1>5 DEF Refuse, scanner, incoming, maps
  <2>2. \A e \in Devices : Underway(e) => Underway(e)'
    BY <2>1 DEF Underway, Places, Working
  <2>3. QED BY <2>1, <2>2, FastbootTypes DEF Accounts, Placed
<1>6. CASE Receive
  <2>1. /\ ~Working /\ socket' = Tail(socket) /\ socket # <<>>
        /\ UNCHANGED <<main, listed, todo, children, fds, refused>>
    BY <1>6 DEF Receive, Working, scanner, maps
  <2>2. \/ Working' /\ msg' = Head(socket) /\ wasted' = wasted
        \/ wasted' = wasted \cup {Head(socket).dev}
    BY <1>6 DEF Receive, Working
  <2>3. \A i \in Places : \/ i = 1 /\ socket[i] = Head(socket)
                          \/ i - 1 \in Places' /\ socket'[i - 1] = socket[i]
    <3>1. Len(Tail(socket)) = Len(socket) - 1 /\ Tail(socket) \in Seq(Message)
          /\ Head(socket) = socket[1] /\ \A i \in 1 .. Len(Tail(socket)) : Tail(socket)[i] = socket[i + 1]
      BY <2>1, TakeFirst, FastbootTypes
    <3>2. Places' = 1 .. (Len(socket) - 1) /\ Places = 1 .. Len(socket) /\ Len(socket) \in Nat
      BY <2>1, <3>1, FastbootTypes DEF Places, Queued
    <3>3. Head(socket) = socket[1]
      BY <3>1
    <3>4. ASSUME NEW i \in Places, i # 1 PROVE i - 1 \in Places' /\ socket'[i - 1] = socket[i]
      <4>1. i \in 1 .. Len(socket)
        BY <3>2
      <4>2. i - 1 \in 1 .. (Len(socket) - 1) /\ (i - 1) + 1 = i
        BY <3>2, <3>4, <4>1
      <4>3. QED BY <2>1, <3>1, <3>2, <4>2
    <3>5. \A i \in Places : i = 1 => i = 1 /\ socket[i] = Head(socket)
      BY <3>3
    <3>6. QED BY <3>4, <3>5
  <2>4. \A e \in Devices : Underway(e) => Underway(e)'
    <3>1. SUFFICES ASSUME NEW e \in Devices, Underway(e) PROVE Underway(e)'
      OBVIOUS
    <3>2. ASSUME NEW i \in Places, socket[i].dev = e PROVE Underway(e)'
      <4>1. CASE socket[i] = Head(socket)
        BY <2>2, <3>2, <4>1 DEF Underway
      <4>2. CASE i - 1 \in Places' /\ socket'[i - 1] = socket[i]
        BY <3>2, <4>2 DEF Underway
      <4>3. QED BY <2>3, <4>1, <4>2
    <3>3. CASE e \in todo \cup refused \cup wasted \/ (\E c \in children : c.dev = e) \/ fds[e] # 0
      BY <2>1, <2>2, <3>3 DEF Underway
    <3>4. QED BY <2>1, <3>1, <3>2, <3>3 DEF Underway
  <2>5. QED BY <2>1, <2>4, FastbootTypes DEF Accounts, Placed
<1>7. CASE AddFd
  <2>1. /\ fds' = [fds EXCEPT ![msg.dev] = msg.fd] /\ Working
        /\ UNCHANGED <<main, listed, todo, children, socket, refused, wasted>>
    BY <1>7 DEF AddFd, Working, scanner, history
  <2>2. \A e \in Devices : (e = msg.dev => fds'[e] # 0) /\ (e # msg.dev => fds'[e] = fds[e])
    BY <2>1, OrderTypes
  <2>3. \A e \in Devices : Underway(e) => Underway(e)'
    BY <2>1, <2>2 DEF Underway, Places
  <2>4. QED BY <2>1, <2>3, FastbootTypes DEF Accounts, Placed
<1>8. CASE ReadSerial \/ ListenerPanics \/ ListenerEnds
  <2>1. ~Working /\ UNCHANGED <<main, listed, todo, children, socket, fds, refused, wasted>>
    BY <1>8 DEF ReadSerial, ListenerPanics, ListenerEnds, Working, scanner, maps, history
  <2>2. QED BY <2>1 DEF Accounts, Underway, Places
<1>9. CASE AllAsked \/ WakeUp \/ Join
  <2>1. main # "list" /\ UNCHANGED <<listed, todo, children, socket, listener, msg, fds, refused, wasted>>
    BY <1>9 DEF AllAsked, WakeUp, Join, incoming, maps, history
  <2>2. QED BY <2>1 DEF Accounts, Underway, Places, Working
<1>10. CASE AddDir
  <2>1. Working /\ Working'
        /\ UNCHANGED <<main, listed, todo, children, socket, msg, fds, refused, wasted>>
    BY <1>10 DEF AddDir, Working, scanner, history
  <2>2. QED BY <2>1 DEF Accounts, Underway, Places
<1>11. CASE UNCHANGED <<main, listed, todo, children, socket, listener, msg, fds, refused>>
            /\ wasted' = wasted
  BY <1>11 DEF Accounts, Underway, Places, Working
<1>12. CASE ReceiveFails \/ Hook \/ \E d \in Devices : Plug(d) \/ Unplug(d)
  BY <1>11, <1>12 DEF ReceiveFails, Hook, Opendir, Readdir, Closedir, Plug, Unplug, scanner, incoming,
                      maps, history
<1>13. CASE UNCHANGED vars
  BY <1>11, <1>13 DEF vars, scanner, incoming, maps, history
<1>14. QED BY <1>1, <1>2, <1>3, <1>4, <1>5, <1>6, <1>7, <1>8, <1>9, <1>10, <1>12, <1>13
           DEF Next, Scan, Child, Works

LEMMA KeepsEnd == ASSUME main \in {"join", "done", "aborted"} => mode = "fastboot",
                         mode \in {"adb", "fastboot"}, [Next]_vars
                  PROVE  main' \in {"join", "done", "aborted"} => mode = "fastboot"
<1>1. ASSUME NEW c \in children, Granted(c) \/ Send(c) \/ Refuse(c) PROVE main' = main
  BY <1>1 DEF Granted, Send, Refuse, scanner
<1>2. ASSUME NEW e \in Devices, Ask(e) \/ Plug(e) \/ Unplug(e) PROVE main' = main
  BY <1>2 DEF Ask, Plug, Unplug, scanner
<1>3. CASE Works \/ ReceiveFails \/ ListenerPanics \/ Hook
  BY <1>3 DEF Works, Receive, AddDir, AddFd, ReadSerial, ListenerEnds, ReceiveFails, ListenerPanics,
              Hook, Opendir, Readdir, Closedir, scanner
<1>4. CASE List \/ AllAsked \/ WakeUp \/ Join
  BY <1>4 DEF List, AllAsked, WakeUp, Join
<1>5. CASE UNCHANGED vars
  BY <1>5 DEF vars, scanner
<1>6. QED BY <1>1, <1>2, <1>3, <1>4, <1>5 DEF Next, Scan, Child

LEMMA KeepsFastboot == Inv /\ Fastboot /\ [Next]_vars => Fastboot'
<1> SUFFICES ASSUME Inv, Fastboot, [Next]_vars PROVE Fastboot'
  OBVIOUS
<1>1. mode' = mode /\ mode \in {"adb", "fastboot"}
  BY ModeStays, FastbootTypes DEF Placed
<1>2. main' \in {"join", "done", "aborted"} => mode = "fastboot"
  BY <1>1, KeepsEnd DEF Fastboot
<1>3. ASSUME mode = "fastboot" PROVE Phases' /\ Counts' /\ Accounts'
  BY <1>3, KeepsPhases, KeepsCounts, KeepsAccounts DEF Fastboot
<1>4. QED BY <1>1, <1>2, <1>3 DEF Fastboot

LEMMA AllHeard == ASSUME Inv, Fastboot PROVE AuthorizedWhenDone
<1> SUFFICES ASSUME main = "done", ~failed, NEW d \in listed \ (refused \cup wasted)
             PROVE  fds[d] # 0
  BY DEF AuthorizedWhenDone, Opens
<1>1. Phases /\ Counts /\ Accounts
  BY DEF Fastboot
<1>2. todo = {} /\ children = {} /\ listener = "ended" /\ received >= Cardinality(listed)
  BY <1>1 DEF Phases
<1>3. Len(socket) = 0
  BY <1>1, <1>2, Sizes, FastbootTypes DEF Counts
<1>4. Underway(d) /\ ~Working /\ Places = {}
  BY <1>1, <1>2, <1>3, OrderTypes DEF Accounts, Working
<1>5. QED BY <1>2, <1>4 DEF Underway

\* When the thread that lists is joined, fastboot has a descriptor in USB_FD_MAP
\* of every device it listed whose request sent one, for any number of devices:
\* the listener returns after one message for each, so it left none behind.
THEOREM FastbootHasThem == Spec => []AuthorizedWhenDone
<1>1. Inv /\ Fastboot => AuthorizedWhenDone
  BY AllHeard
<1>2. QED BY <1>1, InitInv, InitFastboot, NextKeepsInv, KeepsFastboot, PTL DEF Spec
=============================================================================
