------------------------------- MODULE MemMap -------------------------------
(***************************************************************************)
(* mem_map.h: who owns which pages while mappings are made, moved, taken   *)
(* from a reservation and reset.  The header decides ownership; mmap,      *)
(* munmap and what is in mem_map.cc are external.  A page has Page bytes.  *)
(*                                                                         *)
(* SwapsOnly and TakesAnywhere are faulty variants of the definitions      *)
(* below them and are used by nothing here.                                *)
(***************************************************************************)
EXTENDS Naturals, Sequences, SequencesExt, FiniteSets

Page  == 2
Pages == 0..3

Invalid    == [begin |-> 0, size |-> 0, base |-> 0, baseSize |-> 0]
IsValid(m) == m.baseSize # 0
End(m)     == m.begin + m.size
BaseEnd(m) == m.base + m.baseSize
HasAddress(m, addr) == m.begin <= addr /\ addr < End(m)

RoundedUp(n) == ((n + Page - 1) \div Page) * Page
At(addr, n)  == [begin |-> addr, size |-> n, base |-> addr, baseSize |-> RoundedUp(n)]
PagesOf(m)   == {p \in Pages : p * Page >= m.base /\ p * Page < BaseEnd(m)}

\* A state: the mapping of each handle, and the pages that the kernel has mapped.
Empty(handles) == [map |-> [h \in handles |-> Invalid], mapped |-> {}]

-----------------------------------------------------------------------------
(* External *)

\* DoReset: the pages go back to the kernel.
DoReset(s, h) == [s EXCEPT !.mapped = @ \ PagesOf(s.map[h]), !.map[h] = Invalid]

\* The mapping that is asked for at an address, "null" if anywhere will do, out of
\* a reservation or of free pages; the call returns it and may fail.
Gaps(s, n) == {p \in Pages : \A q \in p..(p + RoundedUp(n) \div Page - 1) : q \in Pages \ s.mapped}
Map(s, addr, n, reservation) ==
    LET r == s.map[reservation] IN
    CASE n = 0 -> [s |-> s, map |-> Invalid]
      [] n # 0 /\ reservation = "none" ->
           IF Gaps(s, n) = {} THEN [s |-> s, map |-> Invalid]
           ELSE LET m == At(Page * (CHOOSE p \in Gaps(s, n) : \A q \in Gaps(s, n) : p <= q), n) IN
                [s |-> [s EXCEPT !.mapped = @ \cup PagesOf(m)], map |-> m]
      [] OTHER ->
           IF ~IsValid(r) \/ addr # r.begin \/ RoundedUp(n) > r.baseSize THEN [s |-> s, map |-> Invalid]
           ELSE LET taken == At(addr, n)
                    rest  == IF RoundedUp(n) = r.baseSize THEN Invalid
                             ELSE [begin |-> BaseEnd(taken), size |-> r.baseSize - taken.baseSize,
                                   base |-> BaseEnd(taken), baseSize |-> r.baseSize - taken.baseSize] IN
                [s |-> [s EXCEPT !.map[reservation] = rest], map |-> taken]

-----------------------------------------------------------------------------
(* Operations of the header *)

Reset(s, h)   == IF IsValid(s.map[h]) THEN DoReset(s, h) ELSE s
Swap(s, h, g) == [s EXCEPT !.map[h] = s.map[g], !.map[g] = s.map[h]]

SwapsOnly(s, h, g)  == Swap(s, h, g)
MoveAssign(s, h, g) == Swap(Reset(s, h), h, g)

\* What a function returned is a temporary: it is moved to h and then destroyed.
Returned(r, h) == Reset(MoveAssign([r.s EXCEPT !.map["temporary"] = r.map], h, "temporary"), "temporary")

MapAnonymous(s, h, n) == Returned(Map(s, "null", n, "none"), h)

TakesAnywhere(s, h, n, reservation) == Returned(Map(s, 0, n, reservation), h)
MapAnonymousFrom(s, h, n, reservation) ==
    Returned(Map(s, IF reservation # "none" THEN s.map[reservation].begin ELSE "null", n, reservation), h)

MapFile(s, h, n) == Returned(Map(s, "null", n, "none"), h)

-----------------------------------------------------------------------------
(* Property *)

Call(op, h, g, n) == [op |-> op, h |-> h, g |-> g, n |-> n]
Does(s, c) ==
    CASE c.op = "map"    -> MapAnonymous(s, c.h, c.n)
      [] c.op = "file"   -> MapFile(s, c.h, c.n)
      [] c.op = "take"   -> MapAnonymousFrom(s, c.h, c.n, c.g)
      [] c.op = "assign" -> MoveAssign(s, c.h, c.g)
      [] c.op = "swap"   -> Swap(s, c.h, c.g)
      [] c.op = "reset"  -> Reset(s, c.h)

\* After any calls every mapped page belongs to exactly one valid handle, its data
\* lie in what it owns, also where a reservation is assigned what was taken from
\* itself or a handle is assigned to itself (which unmaps it); what is taken from a
\* reservation that is large enough is where the reservation began.
PagesOwnedOnce(calls, handles) ==
    LET s == FoldLeft(Does, Empty(handles \cup {"temporary", "none"}), calls)
        Owners(p) == {h \in DOMAIN s.map : p \in PagesOf(s.map[h])}
        last == calls[Len(calls)]
        before == FoldLeft(Does, Empty(handles \cup {"temporary", "none"}), Front(calls)) IN
    /\ \A p \in Pages : Cardinality(Owners(p)) = IF p \in s.mapped THEN 1 ELSE 0
    /\ \A h \in DOMAIN s.map : \A addr \in 0..9 :
         HasAddress(s.map[h], addr) => IsValid(s.map[h]) /\ s.map[h].base <= addr /\ addr < BaseEnd(s.map[h])
    /\ last.op = "take" /\ last.g # "none" /\ last.n \in 1..before.map[last.g].baseSize =>
         s.map[last.h] = At(before.map[last.g].begin, last.n)
    /\ last.op = "assign" => ~IsValid(s.map[last.g]) /\ (last.h # last.g => s.map[last.h] = before.map[last.g])
=============================================================================
