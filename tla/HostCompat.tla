----------------------------- MODULE HostCompat -----------------------------
(***************************************************************************)
(* Functions on strings and lines, supplied where libc has none:           *)
(* strlcpy, strlcat and qsort_r (strl_compat.h), getline and hasmntopt     *)
(* (host_compat.h).  A string is a sequence of characters without the      *)
(* terminating NUL; what a function writes to a buffer is the sequence of  *)
(* cells from the first one on.                                            *)
(*                                                                         *)
(* CopiesAll, GrowsLate, AnyPlace and FirstContext are faulty variants of  *)
(* the definitions below them and are used by nothing here.                *)
(***************************************************************************)
EXTENDS Naturals, Sequences, SequencesExt, FiniteSetsExt

NUL == "NUL"
Cells(s)  == Append(s, NUL)
Least(a, b) == IF a < b THEN a ELSE b

-----------------------------------------------------------------------------
(* strlcpy, strlcat *)

\* Characters that the loop copies before dsize or the string ends.
CopiesAll(s, dsize) == Least(Len(s) + 1, dsize)
Copied(s, dsize)    == IF dsize = 0 THEN 0 ELSE Least(Len(s) + 1, dsize - 1)

Strlcpy(s, dsize) ==
    LET n == Copied(s, dsize) IN
    [written |-> IF n = Len(s) + 1 THEN Cells(s)
                 ELSE SubSeq(s, 1, n) \o (IF dsize # 0 THEN <<NUL>> ELSE << >>),
     result  |-> Len(s)]

\* dst is the content of the buffer of dsize cells.
Strlcat(dst, s, dsize) ==
    LET ends == {i \in 1..dsize : dst[i] = NUL}
        dlen == IF ends = {} THEN dsize ELSE Min(ends) - 1
        room == dsize - dlen IN
    [written |-> IF room = 0 THEN << >>
                 ELSE SubSeq(dst, 1, dlen) \o Cells(SubSeq(s, 1, Least(Len(s), room - 1))),
     result  |-> dlen + Len(s)]

-----------------------------------------------------------------------------
(* getline *)

FirstSize == 4     \* 120 in the code

\* The buffer of the caller: its size as *n says and as malloc gave it.
NoBuffer == [claimed |-> 0, real |-> 0]

\* One character at pos of a line, memory for at most so many cells.
GrowsLate(b, pos, most) ==
    IF pos < b.claimed THEN b
    ELSE IF 2 * b.claimed > most THEN [b EXCEPT !.claimed = 2 * @, !.failed = TRUE]
    ELSE [b EXCEPT !.claimed = 2 * @, !.real = 2 * b.claimed]
PutChar(b, pos, most) ==
    IF pos + 1 < b.claimed THEN b
    ELSE IF 2 * b.claimed > most THEN [b EXCEPT !.claimed = 2 * @, !.failed = TRUE]
    ELSE [b EXCEPT !.claimed = 2 * @, !.real = 2 * b.claimed]

\* A line of len characters, the newline counted; 0 at the end of the file.
\* past: cells beyond the memory of the buffer that were written.
GetLine(buffer, len, most) ==
    LET first == IF buffer.claimed # 0 THEN buffer
                 ELSE [claimed |-> FirstSize, real |-> IF FirstSize > most THEN 0 ELSE FirstSize]
        start == [claimed |-> first.claimed, real |-> first.real, past |-> 0,
                  failed |-> first.real = 0]
        Put(b, pos) == IF b.failed THEN b
                       ELSE LET c == PutChar(b, pos, most) IN
                            IF c.failed \/ pos < c.real THEN c ELSE [c EXCEPT !.past = @ + 1]
        done  == FoldLeft(Put, start, [i \in 1..len |-> i - 1])
        nul   == IF ~done.failed /\ len # 0 /\ len >= done.real THEN 1 ELSE 0 IN
    [buffer |-> [claimed |-> done.claimed, real |-> done.real],
     result |-> IF done.failed \/ len = 0 THEN "-1" ELSE "line",
     past   |-> done.past + nul, failed |-> done.failed]

-----------------------------------------------------------------------------
(* hasmntopt *)

At(s, i) == IF i \in DOMAIN s THEN s[i] ELSE NUL

Occurs(s, opt, i) == i + Len(opt) - 1 <= Len(s) /\ SubSeq(s, i, i + Len(opt) - 1) = opt

AnyPlace(s, opt, p) == At(s, p + Len(opt)) \in {NUL, ",", "="}
Matches(s, opt, p) ==
    /\ p = 1 \/ s[p - 1] = ","
    /\ At(s, p + Len(opt)) \in {NUL, ",", "="}

\* The place of opt in the options s, 0 if it is not there.
Hasmntopt(s, opt) ==
    LET From[rest \in 1..(Len(s) + 1)] ==
          LET found  == {i \in rest..Len(s) : Occurs(s, opt, i)}
              p      == Min(found)
              commas == {i \in p..Len(s) : s[i] = ","} IN
          CASE found = {}                             -> 0
            [] found # {} /\ Matches(s, opt, p)       -> p
            [] OTHER -> IF commas = {} THEN 0 ELSE From[Min(commas) + 1]
    IN From[1]

-----------------------------------------------------------------------------
(* qsort_r: the comparison and its argument are in static variables. *)

\* The sorts that are running, the innermost last, after what happened: a sort
\* starts or ends, or one of them compares.
StartsSort(arg) == <<"start", arg>>
Ended  == <<"end", "">>
Compares(sort) == <<"compare", sort>>

\* compared: pairs of the sort that compares and the argument it compares by.
FirstContext(s, arg) == [s EXCEPT !.ctx = IF @ = "" THEN arg ELSE @]
SetContext(s, arg)      == [s EXCEPT !.ctx = arg]

QsortR(events) ==
    LET Step(s, e) ==
          CASE e[1] = "start"   -> SetContext([s EXCEPT !.running = Append(@, e[2])], e[2])
            [] e[1] = "compare" -> [s EXCEPT !.compared = @ \cup {<<e[2], s.ctx>>}]
            [] OTHER            -> [s EXCEPT !.running = IF @ = << >> THEN @ ELSE Front(@)]
    IN FoldLeft(Step, [ctx |-> "", running |-> << >>, compared |-> {}], events)

-----------------------------------------------------------------------------
(* Properties *)

\* What strlcpy and strlcat leave in a buffer that has room for a NUL is the
\* longest start of the full string that fits, terminated, and never a cell
\* more; the result tells the caller by how much it was cut.
StringsFit(dst, s, dsize) ==
    LET Cut(t) == Cells(SubSeq(t, 1, Least(Len(t), dsize - 1)))
        ends   == {i \in 1..dsize : dst[i] = NUL} IN
    /\ Strlcpy(s, dsize) = [written |-> IF dsize = 0 THEN << >> ELSE Cut(s), result |-> Len(s)]
    /\ Strlcat(dst, s, dsize) =
         IF ends = {} THEN [written |-> << >>, result |-> dsize + Len(s)]
         ELSE LET whole == SubSeq(dst, 1, Min(ends) - 1) \o s IN
              [written |-> Cut(whole), result |-> Len(whole)]

\* Whatever the lengths of the lines, getline never writes past its buffer, as
\* long as no earlier call ran out of memory: *n is then larger than the memory
\* behind it, and a caller that goes on writes past it.
LinesFit(lens, most) ==
    LET Call(c, len) ==
          IF c.failed THEN c
          ELSE LET g == GetLine(c.buffer, len, most) IN
               [buffer |-> g.buffer, failed |-> g.failed, past |-> c.past + g.past,
                lines |-> c.lines + (IF g.result = "line" THEN 1 ELSE 0)]
        end == FoldLeft(Call, [buffer |-> NoBuffer, failed |-> FALSE, past |-> 0, lines |-> 0], lens) IN
    /\ end.past = 0
    /\ ~end.failed => end.buffer.claimed = end.buffer.real
                      /\ end.lines = Len(SelectSeq(lens, LAMBDA l : l # 0))

\* hasmntopt finds the first option of the list with that name, with or without
\* a value, though the name also occurs inside other options and their values.
OptionFound(s, opt) ==
    LET starts  == {1} \cup {i + 1 : i \in {j \in DOMAIN s : s[j] = ","}}
        Name(i) == LET ends == {j \in i..Len(s) : s[j] \in {",", "="}} IN
                   SubSeq(s, i, IF ends = {} THEN Len(s) ELSE Min(ends) - 1)
        fits    == {i \in starts : Name(i) = opt} IN
    Hasmntopt(s, opt) = IF fits = {} THEN 0 ELSE Min(fits)

\* Every comparison of a sort is by the argument of that sort, if no two sorts
\* run at a time; one that starts inside a comparison of another, or in another
\* thread, leaves its argument to the comparisons that follow.
ComparesByOwn(events) ==
    LET Legal(k) == LET r == QsortR(SubSeq(events, 1, k)).running IN
                    events[k][1] = "compare" => \E i \in DOMAIN r : r[i] = events[k][2]
        alone    == \A k \in DOMAIN events : Len(QsortR(SubSeq(events, 1, k)).running) <= 1
        own      == \A c \in QsortR(events).compared : c[1] = c[2]
        broken   == \E i, j \in DOMAIN events : i < j /\ events[i][1] = "start" /\ events[j][1] = "start"
                                              /\ events[i][2] # events[j][2] IN
    (\A k \in DOMAIN events : Legal(k)) => (alone => own) /\ (~own => broken)
=============================================================================
