--------------------------- MODULE NetInterfaces ---------------------------
(***************************************************************************)
(* GetAllInterfaces of the BSD port of openscreen                          *)
(* (network_interface_bsd.cc): one walk over the list of getifaddrs, where *)
(* an interface has an entry for each of its addresses, and the media is   *)
(* asked for as long as the interface is not yet in the result.            *)
(*                                                                         *)
(* Bits is the width of a byte.  A media is the answer of SIOCGIFMEDIA,    *)
(* "none" where the call fails.                                            *)
(*                                                                         *)
(* AnyTail and OneAddress are faulty variants of the definitions below     *)
(* them and are used by nothing here.                                      *)
(***************************************************************************)
EXTENDS Integers, Sequences, SequencesExt, FiniteSets, FiniteSetsExt

CONSTANT Bits  \* 8 in the code

Full == 2^Bits - 1

-----------------------------------------------------------------------------
(* ToPrefixLength *)

\* Leading ones of a byte, and what the shifts leave of it.
Ones(b) == Max({j \in 0..Bits : b >= 2^Bits - 2^(Bits - j)})
Rest(b) == (b * 2^Ones(b)) % 2^Bits

AnyTail(mask, i) == TRUE
ZeroFrom(mask, i) == \A j \in i..Len(mask) : mask[j] = 0

Aborts == -1    \* OSP_CHECK

ToPrefixLength(mask) ==
    LET ff == Max({n \in 0..Len(mask) : \A j \in 1..n : mask[j] = Full}) IN
    CASE ff = Len(mask)                          -> Bits * ff
      [] ff < Len(mask) /\ mask[ff + 1] = 0       -> IF ZeroFrom(mask, ff + 1) THEN Bits * ff ELSE Aborts
      [] OTHER -> IF Rest(mask[ff + 1]) = 0 /\ ZeroFrom(mask, ff + 2)
                  THEN Bits * ff + Ones(mask[ff + 1]) ELSE Aborts

-----------------------------------------------------------------------------
(* GetAllInterfaces *)

\* The type of an interface that is not yet in the result, or "skip".  The bits
\* of the type are tested, not compared: FDDI is 3 where Ethernet is 1.
TypeOf(e) ==
    CASE e.media = "none" -> IF e.loopback THEN "loopback" ELSE "skip"
      [] e.media = "down" -> "skip"
      [] e.media \in {"802.11", "ATM", "CARP"} -> "wifi"
      [] e.media \in {"Ethernet", "FDDI"} -> "ethernet"
      [] OTHER -> "other"

Index(result, name) == {i \in DOMAIN result : result[i].name = name}

NoAddress == "000000"
Found(result, e) ==
    IF Index(result, e.name) # {} THEN result
    ELSE Append(result, [name |-> e.name, type |-> TypeOf(e), hardware |-> NoAddress, addresses |-> << >>])

\* A mask of the other family counts as none: all zero.
Length(e) == IF e.mask = << >> THEN 0 ELSE ToPrefixLength(e.mask)

OneAddress(i, e) == [i EXCEPT !.addresses = <<[ip |-> e.address, prefix |-> Length(e)]>>]
AddAddress(i, e) == [i EXCEPT !.addresses = Append(@, [ip |-> e.address, prefix |-> Length(e)])]

With(i, e) ==
    CASE e.family = "link"                    -> [i EXCEPT !.hardware = e.address]
      [] e.family = "v6" /\ e.deprecated      -> i
      [] e.family = "v4" \/ (e.family = "v6" /\ ~e.deprecated) -> AddAddress(i, e)
      [] OTHER                                -> i

Walk(result, e) ==
    IF ~e.running \/ e.family = "null" \/ (Index(result, e.name) = {} /\ TypeOf(e) = "skip")
    THEN result
    ELSE LET found == Found(result, e)
             n     == CHOOSE i \in DOMAIN found : found[i].name = e.name
         IN [found EXCEPT ![n] = With(@, e)]

GetAllInterfaces(entries) == FoldLeft(Walk, << >>, entries)

-----------------------------------------------------------------------------
(* Properties *)

\* The bits of a mask, highest first.
BitsOf(mask) == [k \in 1..(Bits * Len(mask)) |->
    (mask[((k - 1) \div Bits) + 1] \div 2^(Bits - 1 - ((k - 1) % Bits))) % 2]

\* The prefix length of a mask is the number of its ones, and the walk goes on
\* exactly if no one stands behind a zero, across the borders of bytes too.
PrefixIsMask(mask) ==
    LET b    == BitsOf(mask)
        ones == {k \in DOMAIN b : b[k] = 1}
        Contiguous == \A k \in ones : 1..k \subseteq ones IN
    ToPrefixLength(mask) = IF Contiguous THEN Cardinality(ones) ELSE Aborts

\* Each interface that is up is listed once, with every address of its running
\* entries in their order, provided that its media did not change during the
\* walk; one that came up meanwhile lacks the addresses before that.
EveryAddressOnce(entries) ==
    LET result == GetAllInterfaces(entries)
        Of(name)   == SelectSeq(entries, LAMBDA e : e.name = name /\ e.running /\ e.family # "null")
        Counts(e)  == e.family = "v4" \/ (e.family = "v6" /\ ~e.deprecated)
        Ips(seq)   == [i \in DOMAIN seq |-> seq[i].address]
        Steady(name) == \A i, j \in DOMAIN Of(name) : TypeOf(Of(name)[i]) = TypeOf(Of(name)[j])
        Listed(i)  == [k \in DOMAIN result[i].addresses |-> result[i].addresses[k].ip]
        All(name)  == Ips(SelectSeq(Of(name), Counts)) IN
    /\ \A i, j \in DOMAIN result : result[i].name = result[j].name => i = j
    /\ \A i \in DOMAIN result : LET name == result[i].name IN
         /\ IsSuffix(Listed(i), All(name))
         /\ Steady(name) => Listed(i) = All(name)
    /\ \A k \in DOMAIN entries : LET e == entries[k] IN
         e.running /\ e.family # "null" /\ TypeOf(e) # "skip" => Index(result, e.name) # {}
=============================================================================
