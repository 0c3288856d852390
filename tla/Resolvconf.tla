----------------------------- MODULE Resolvconf -----------------------------
(***************************************************************************)
(* __get_resolv_conf of the patched musl: what the resolver is told by     *)
(* /etc/resolv.conf, by ANDROID_DATA, or by nothing.                       *)
(*                                                                         *)
(* A line is a record: its keyword, whether the buffer of 256 bytes cuts   *)
(* it, and what it says.  An address that is none is "bad", an option is   *)
(* <<n>>, or << >> where the line has no digits for it.  The caller wants  *)
(* the search list too.                                                    *)
(*                                                                         *)
(* CountsEvery and FirstWins are faulty variants of the definitions below  *)
(* them and are used by nothing here.                                      *)
(***************************************************************************)
EXTENDS Naturals, Sequences, SequencesExt

MaxServers == 3     \* MAXNS
SearchSize == 256   \* of __res_msend's callers
Option     == {"ndots", "attempts", "timeout"}
Limit      == [ndots |-> 15, attempts |-> 10, timeout |-> 60]
Preset     == [ndots |-> 1, attempts |-> 2, timeout |-> 5]

NothingRead == [set |-> Preset, servers |-> << >>, search |-> [text |-> "", length |-> 0]]

Capped(n, most) == IF n > most THEN most ELSE n

Options(conf, line) == [conf EXCEPT !.set =
    [o \in Option |-> IF line.set[o] = << >> THEN @[o] ELSE Capped(line.set[o][1], Limit[o])]]

CountsEvery(conf, line) ==
    IF Len(conf.servers) >= MaxServers THEN conf ELSE [conf EXCEPT !.servers = Append(@, line.address)]
Nameserver(conf, line) ==
    IF Len(conf.servers) >= MaxServers \/ line.address = "bad" THEN conf
    ELSE [conf EXCEPT !.servers = Append(@, line.address)]

FirstWins(conf, line) ==
    IF conf.search.length # 0 THEN conf ELSE [conf EXCEPT !.search = line.domains]
Search(conf, line) ==
    IF line.domains.length >= SearchSize THEN conf ELSE [conf EXCEPT !.search = line.domains]

ReadLine(conf, line) ==
    CASE line.cut                            -> conf
      [] ~line.cut /\ line.key = "options"    -> Options(conf, line)
      [] ~line.cut /\ line.key = "nameserver" -> Nameserver(conf, line)
      [] ~line.cut /\ line.key = "search"     -> Search(conf, line)
      [] OTHER                                -> conf

\* file is the sequence of lines, or the error of opening it.
Answer(conf) ==
    IF conf.servers = << >> THEN [conf EXCEPT !.servers = <<"127.0.0.1">>] ELSE conf

GetResolvConf(android, opened, file) ==
    CASE android -> [NothingRead EXCEPT !.servers = <<"8.8.8.8", "1.1.1.1">>]
      [] ~android /\ opened = "0" -> Answer(FoldLeft(ReadLine, NothingRead, file))
      [] ~android /\ opened \in {"ENOENT", "ENOTDIR", "EACCES"} -> Answer(NothingRead)
      [] OTHER -> [NothingRead EXCEPT !.servers = <<"-1">>]

-----------------------------------------------------------------------------
(* Property *)

Take(s, n)         == SubSeq(s, 1, Capped(Len(s), n))

\* The resolver has the first three usable servers in the order of the file,
\* or the one of this machine if there is none; each option has its last
\* number, within its limit, whatever garbage the file has between them.
ReadsTheFile(opened, file) ==
    LET lines    == IF opened = "0" THEN SelectSeq(file, LAMBDA l : ~l.cut) ELSE << >>
        servers  == SelectSeq(lines, LAMBDA l : l.key = "nameserver" /\ l.address # "bad")
        lists    == SelectSeq(lines, LAMBDA l : l.key = "search")
        Sets(o)  == SelectSeq(lines, LAMBDA l : l.key = "options" /\ l.set[o] # << >>)
        conf     == GetResolvConf(FALSE, opened, file) IN
    opened \in {"0", "ENOENT", "ENOTDIR", "EACCES"} =>
      /\ conf.servers = IF servers = << >> THEN <<"127.0.0.1">>
                        ELSE Take([i \in DOMAIN servers |-> servers[i].address], MaxServers)
      /\ conf.search = IF lists = << >> THEN NothingRead.search ELSE Last(lists).domains
      /\ \A o \in Option : conf.set[o] =
           IF Sets(o) = << >> THEN Preset[o] ELSE Capped(Last(Sets(o)).set[o][1], Limit[o])
=============================================================================
