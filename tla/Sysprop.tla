------------------------------ MODULE Sysprop ------------------------------
(***************************************************************************)
(* The generated accessor of ro.incremental.enable                         *)
(* (IncrementalProperties.sysprop.cpp): parsing and formatting of values   *)
(* and lists of values, and the store behind it: on hosts an array that    *)
(* nothing adds to, on bionic the fallbacks of faked_functions.cpp.        *)
(*                                                                         *)
(* A string is a sequence of characters; an optional is << >> or <<v>>.    *)
(*                                                                         *)
(* Unescaped and FirstSet are faulty variants of the definitions below     *)
(* them and are used by nothing here.                                      *)
(***************************************************************************)
EXTENDS Integers, Sequences, SequencesExt

Comma == ","
Slash == "\\"
None  == << >>
Some(v) == <<v>>

-----------------------------------------------------------------------------
(* Values *)

ParseBool(s) ==
    CASE s \in {"1", "true", "TRUE"}   -> Some(TRUE)
      [] s \in {"0", "false", "FALSE"} -> Some(FALSE)
      [] OTHER                         -> None
FormatBool(v) == IF v = None THEN "" ELSE IF v[1] THEN "true" ELSE "false"

ParseString(s) == IF s = << >> THEN None ELSE Some(s)

Digits == <<"0", "1", "2", "3", "4", "5", "6", "7", "8", "9">>
DigitValue(c) == CHOOSE n \in 0..9 : Digits[n + 1] = c

\* Numbers up to 99.
Decimal(n)     == IF n < 10 THEN <<Digits[n + 1]>> ELSE <<Digits[(n \div 10) + 1], Digits[(n % 10) + 1]>>
FormatInt(v)   == IF v = None THEN << >>
                  ELSE IF v[1] < 0 THEN <<"-">> \o Decimal(-v[1]) ELSE Decimal(v[1])

\* External: android::base::ParseInt and ParseUint, with the limits of the type.
ReadNumber(s, low, high) ==
    LET negative == s # << >> /\ s[1] = "-"
        digits   == IF negative THEN Tail(s) ELSE s
        value    == FoldLeft(LAMBDA n, c : 10 * n + DigitValue(c), 0, digits) IN
    IF digits = << >> \/ \E i \in DOMAIN digits : digits[i] \notin ToSet(Digits) THEN None
    ELSE IF (IF negative THEN -value ELSE value) \in low..high THEN Some(IF negative THEN -value ELSE value) ELSE None

\* Three bits in place of 32, five in place of 64.
ParseInt32(s)  == ReadNumber(s, -4, 3)
ParseUint32(s) == IF s # << >> /\ s[1] = "-" THEN None ELSE ReadNumber(s, 0, 7)
ParseInt64(s)  == ReadNumber(s, -16, 15)
ParseUint64(s) == IF s # << >> /\ s[1] = "-" THEN None ELSE ReadNumber(s, 0, 31)

\* strtod is external: the value, where it stopped, and the errno it leaves.
ParseDouble(d, length, errno) ==
    CASE d.errno # "0"                                       -> [value |-> None, errno |-> d.errno]
      [] d.errno = "0" /\ (d.end = 0 \/ d.end # length)       -> [value |-> None, errno |-> "EINVAL"]
      [] OTHER                                               -> [value |-> Some(d.value), errno |-> errno]

\* The scanner of DoParseList: the elements so far, the characters of the
\* current one, and whether the last character was a backslash.
Scan(st, c) ==
    CASE st.escaped                 -> [st EXCEPT !.value = Append(@, c), !.escaped = FALSE]
      [] ~st.escaped /\ c = Slash   -> [st EXCEPT !.escaped = TRUE]
      [] ~st.escaped /\ c = Comma   -> [st EXCEPT !.list = Append(@, ParseString(st.value)), !.value = << >>]
      [] OTHER                      -> [st EXCEPT !.value = Append(@, c)]

ParseList(s) ==
    IF s = << >> THEN << >>
    ELSE LET end == FoldLeft(Scan, [list |-> << >>, value |-> << >>, escaped |-> FALSE], s)
         IN Append(end.list, ParseString(end.value))

Unescaped(c) == <<c>>
Escaped(c)   == IF c \in {Slash, Comma} THEN <<Slash, c>> ELSE <<c>>

FormatElement(v) == IF v = None THEN << >> ELSE FlattenSeq([i \in DOMAIN v[1] |-> Escaped(v[1][i])])

FormatList(list) ==
    FoldLeft(LAMBDA s, i : s \o (IF i = 1 THEN << >> ELSE <<Comma>>) \o FormatElement(list[i]),
             << >>, [i \in DOMAIN list |-> i])

-----------------------------------------------------------------------------
(* The store *)

\* store is a sequence of [name, value]; the callback runs on the entry found.
Foreach(store, count) == SubSeq(store, 1, count)
ReadCallback(entry)   == entry.value

Property(store, count, key) ==
    LET hits == SelectSeq(Foreach(store, count), LAMBDA e : e.name = key) IN
    IF hits = << >> THEN << >> ELSE ReadCallback(hits[1])

FirstSet(store, count, key, legacy) ==
    IF legacy # "" THEN ParseString(Property(store, count, legacy))
    ELSE ParseString(Property(store, count, key))
GetProp(store, count, key, legacy) ==
    LET value == Property(store, count, key) IN
    IF value = << >> /\ legacy # "" THEN ParseString(Property(store, count, legacy))
    ELSE ParseString(value)

\* The fallbacks on bionic: a value is read by what libc has had for long, and
\* comes with the serial 0; a wait ends at once, as if its time were over.
BionicReadCallback(entry) == IF entry.there THEN <<entry.value, 0>> ELSE << >>
PropertyWait   == FALSE
PropertiesInit == 0

\* What the caller is told of a property it sets.
SetProp(bionic, answer) == IF bionic THEN answer = 0 ELSE TRUE

\* Machines where cacheflush leaves the instruction cache alone.
Cacheflush(macros) == macros \cap {"__s390x__", "__ppc__", "__hexagon__"} = {}

\* property_count is 0 on hosts.
Enable(store, count) == GetProp(store, count, "ro.incremental.enable", "")

-----------------------------------------------------------------------------
(* Properties *)

\* A list that was parsed from any text, and then written, reads as the same
\* list again, with commas and backslashes inside its elements; the one
\* exception is the list of one missing element, which is written as no list.
ListsSurvive(text) ==
    LET list == ParseList(text) IN
    ParseList(FormatList(list)) = IF list = <<None>> THEN << >> ELSE list

\* A property that is set is found under its own name first, and an empty one
\* counts as not set; the array of the hosts answers nothing whatever it holds.
OwnNameFirst(store, key, legacy) ==
    LET n == Len(store)
        Value(k) == {store[i].value : i \in {j \in 1..n :
                       store[j].name = k /\ \A m \in 1..(j - 1) : store[m].name # k}} IN
    /\ GetProp(store, n, key, legacy) =
         IF \E v \in Value(key) : v # << >> THEN Some(CHOOSE v \in Value(key) : TRUE)
         ELSE IF \E v \in Value(legacy) : v # << >> THEN Some(CHOOSE v \in Value(legacy) : TRUE)
         ELSE None
    /\ Enable(store, 0) = None
    /\ \A b \in BOOLEAN : ParseBool(FormatBool(Some(b))) = Some(b)

\* A number that is written is read back as itself in its own width, and in a
\* narrower one or without a sign only if it fits there: it is never another.
NumbersSurvive(n) ==
    LET text == FormatInt(Some(n)) IN
    /\ ParseInt64(text)  = IF n \in -16..15 THEN Some(n) ELSE None
    /\ ParseUint64(text) = IF n \in 0..31 THEN Some(n) ELSE None
    /\ ParseInt32(text)  = IF n \in -4..3 THEN Some(n) ELSE None
    /\ ParseUint32(text) = IF n \in 0..7 THEN Some(n) ELSE None
    /\ ParseInt64(FormatInt(None)) = None

\* A number with a fraction is taken only whole, and errno is the caller's again
\* afterwards; the error of one that is refused stays.
ErrnoRestored(d, length, errno) ==
    LET r == ParseDouble(d, length, errno) IN
    /\ r.value # None => r.errno = errno /\ d.end = length
    /\ r.value = None => r.errno # "0"

\* On bionic a value is read while the property is there; a wait that cannot be
\* made is never taken for a change, and only bionic tells a refused set.
BionicFallsBack(entry, answer) ==
    /\ (BionicReadCallback(entry) = << >>) = ~entry.there
    /\ entry.there => BionicReadCallback(entry)[1] = ReadCallback(entry)
    /\ ~PropertyWait /\ PropertiesInit = 0
    /\ SetProp(TRUE, answer) = (answer = 0) /\ SetProp(FALSE, answer)
    /\ Cacheflush({"__aarch64__"}) /\ ~Cacheflush({"__s390x__"})
=============================================================================
