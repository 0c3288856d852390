---------------------------- MODULE Temp_proofs -----------------------------
(***************************************************************************)
(* tmpfile's file is private and what other programs have stays, for any   *)
(* processes, names, number of tries and lengths of TMPDIR, and the name   *)
(* of tmpnam was free where TMPDIR leaves room for all of it.              *)
(***************************************************************************)
EXTENDS TempFiles, TLAPS

Types ==
    /\ tmpdir \in TmpdirLengths
    /\ entries \in [Paths -> {"-"} \cup Others \cup Makers]
    /\ stage \in [Processes -> Places]
    /\ tries \in [Processes -> Nat]
    /\ handle \in [Makers -> {"-"} \cup Others \cup Makers]
    /\ name \in [Processes -> Paths \cup {NoName}]

\* Between its two calls a process has the descriptor of its own file under the
\* path it created; PrivateFile alone does not say whose file Unlink removes.
CreatedIsMine ==
    \A m \in Makers : stage[m] = "created" =>
        name[m] \in Paths /\ entries[name[m]] = m /\ handle[m] = m

Inv == Types /\ CreatedIsMine /\ PrivateFile

LEMMA InitHolds == TempAssumption /\ Init => Inv
BY DEF TempAssumption, Init, Inv, Types, CreatedIsMine, PrivateFile, Processes, Places, Others

\* TMPDIR stays, and with it the paths.
LEMMA PathsStay == [Next]_vars => tmpdir' = tmpdir /\ Paths' = Paths
<1>1. [Next]_vars => tmpdir' = tmpdir
  BY DEF Next, Open, Unlink, Close, Crash, Look, UseName, Start, Litter, TryAgain, vars
<1>2. tmpdir' = tmpdir => Paths' = Paths
  BY DEF Paths, Returned
<1>3. QED BY <1>1, <1>2

\* A step of tmpfile that failed, or a step of tmpnam, moves one process to a
\* place without a file.
LEMMA FilelessStep ==
    ASSUME TempAssumption, Inv, NEW p \in Processes, NEW s \in Places \ {"holding", "created"}, To(p, s),
           p \in Makers => stage[p] \in {"out", "trying"},
           \A m \in Makers : name'[m] = name[m],
           UNCHANGED <<tmpdir, entries, handle>>
    PROVE  CreatedIsMine' /\ PrivateFile'
<1>1. \A m \in Makers : stage'[m] = IF m = p THEN s ELSE stage[m]
  BY DEF Inv, Types, To, Processes
<1>2. s # "created" /\ s # "holding"
  OBVIOUS
<1>p. Paths' = Paths
  BY DEF Paths, Returned
<1>3. CreatedIsMine'
  BY <1>1, <1>2, <1>p DEF Inv, CreatedIsMine
<1>4. ASSUME NEW n \in Paths, NEW m \in Makers, entries[n] = m
      PROVE  (stage'[m] = "created" /\ name'[m] = n) \/ stage'[m] = "dead"
  <2>1. (stage[m] = "created" /\ name[m] = n) \/ stage[m] = "dead"
    BY <1>4 DEF Inv, PrivateFile
  <2>2. m # p
    BY <2>1
  <2>3. QED BY <1>1, <2>1, <2>2
<1>5. \A m \in Makers : stage'[m] = "holding" => handle[m] = m
  BY <1>1, <1>2 DEF Inv, PrivateFile
<1>6. QED BY <1>3, <1>4, <1>5, <1>p DEF PrivateFile

LEMMA TryAgainHolds ==
    ASSUME TempAssumption, Inv, NEW p \in Processes, TryAgain(p), stage[p] = "trying"
    PROVE  Inv'
<1>p. Paths' = Paths
  BY DEF TryAgain, Paths, Returned
<1>1. Types'
  BY <1>p DEF TempAssumption, TryAgain, To, Inv, Types, Processes, Places
<1>2. \E s \in {"trying", "out"} : To(p, s)
  BY DEF TryAgain
<1>3. CreatedIsMine' /\ PrivateFile'
  BY <1>2, FilelessStep DEF TempAssumption, TryAgain, Places
<1>4. QED BY <1>1, <1>3 DEF Inv

LEMMA MakersStep ==
    ASSUME TempAssumption, Inv, NEW m \in Makers, Open(m) \/ Unlink(m) \/ Close(m) \/ Crash(m)
    PROVE  Inv'
<1> USE DEF TempAssumption, Processes, Places, Others
<1>0. m \in Processes
  OBVIOUS
<1>p. tmpdir' = tmpdir /\ Paths' = Paths /\ Names \subseteq Paths
  BY PathsStay DEF Next, Paths
<1>1. CASE Open(m)
  <2>1. PICK n \in Names :
          \/ /\ Creates(n)
             /\ handle' = [handle EXCEPT ![m] = IF entries[n] = "-" THEN m ELSE entries[n]]
             /\ entries' = IF entries[n] = "-" THEN [entries EXCEPT ![n] = m] ELSE entries
             /\ To(m, "created") /\ Has(m, n)
             /\ UNCHANGED <<tmpdir, tries>>
          \/ TryAgain(m)
    BY <1>1 DEF Open
  <2>2. CASE TryAgain(m)
    BY <1>0, <1>1, <2>2, TryAgainHolds DEF Open
  <2>3. CASE ~TryAgain(m)
    <3>1. /\ entries[n] = "-" /\ stage[m] = "trying"
          /\ entries' = [entries EXCEPT ![n] = m] /\ handle' = [handle EXCEPT ![m] = m]
          /\ stage' = [stage EXCEPT ![m] = "created"] /\ name' = [name EXCEPT ![m] = n]
          /\ UNCHANGED tries
      BY <1>1, <2>1, <2>3 DEF Open, Creates, To, Has
    <3>2. Types'
      BY <1>p, <3>1 DEF Inv, Types
    <3>3. CreatedIsMine'
      BY <1>p, <3>1 DEF Inv, Types, CreatedIsMine
    <3>4. PrivateFile'
      BY <1>p, <3>1 DEF Inv, Types, PrivateFile
    <3>5. QED BY <3>2, <3>3, <3>4 DEF Inv
  <2>4. QED BY <2>2, <2>3
<1>2. CASE Unlink(m)
  <2>1. /\ entries[name[m]] = m /\ handle[m] = m /\ name[m] \in Paths /\ stage[m] = "created"
        /\ entries' = [entries EXCEPT ![name[m]] = "-"] /\ UNCHANGED tries
        /\ name' = [name EXCEPT ![m] = NoName]
        /\ \/ stage' = [stage EXCEPT ![m] = "holding"] /\ handle' = handle
           \/ stage' = [stage EXCEPT ![m] = "out"] /\ handle' = [handle EXCEPT ![m] = "-"]
    BY <1>2 DEF Unlink, To, Has, Inv, CreatedIsMine
  <2>2. Types'
    BY <1>p, <2>1 DEF Inv, Types
  <2>3. CreatedIsMine'
    BY <1>p, <2>1 DEF Inv, Types, CreatedIsMine
  <2>4. PrivateFile'
    BY <1>p, <2>1 DEF Inv, Types, PrivateFile
  <2>5. QED BY <2>2, <2>3, <2>4 DEF Inv
<1>3. CASE Close(m) \/ Crash(m)
  <2>1. /\ \/ stage[m] = "holding" /\ stage' = [stage EXCEPT ![m] = "out"]
              /\ name' = name
           \/ stage[m] = "created" /\ stage' = [stage EXCEPT ![m] = "dead"]
              /\ name' = [name EXCEPT ![m] = NoName]
        /\ handle' = [handle EXCEPT ![m] = "-"] /\ UNCHANGED <<entries, tries>>
    BY <1>3 DEF Close, Crash, To, Has
  <2>2. Types'
    BY <1>p, <2>1 DEF Inv, Types
  <2>3. CreatedIsMine'
    BY <1>p, <2>1 DEF Inv, Types, CreatedIsMine
  <2>4. PrivateFile'
    BY <1>p, <2>1 DEF Inv, Types, PrivateFile
  <2>5. QED BY <2>2, <2>3, <2>4 DEF Inv
<1>4. QED BY <1>1, <1>2, <1>3

LEMMA NamersStep ==
    ASSUME TempAssumption, Inv, NEW p \in Namers, Look(p) \/ UseName(p)
    PROVE  Inv'
<1> USE DEF TempAssumption, Processes, Places, Others
<1>0. p \in Processes /\ p \notin Makers
  OBVIOUS
<1>p. tmpdir' = tmpdir /\ Paths' = Paths
  BY PathsStay DEF Next
<1>1. CASE Look(p)
  <2>1. PICK n \in Names :
          IF Missing(n)
          THEN To(p, "named") /\ Has(p, Returned(n)) /\ UNCHANGED <<tmpdir, entries, tries, handle>>
          ELSE TryAgain(p)
    BY <1>1 DEF Look
  <2>2. CASE Missing(n)
    <3>1. Types'
      BY <1>p, <2>1, <2>2 DEF To, Has, Inv, Types, Paths
    <3>2. \A m \in Makers : name'[m] = name[m]
      BY <1>0, <2>1, <2>2 DEF Has, Inv, Types
    <3>3. CreatedIsMine' /\ PrivateFile'
      BY <1>0, <2>1, <2>2, <3>2, FilelessStep
    <3>4. QED BY <3>1, <3>3 DEF Inv
  <2>3. CASE ~Missing(n)
    BY <1>0, <1>1, <2>1, <2>3, TryAgainHolds DEF Look
  <2>4. QED BY <2>2, <2>3
<1>2. CASE UseName(p)
  <2>1. /\ stage' = [stage EXCEPT ![p] = "out"] /\ name' = [name EXCEPT ![p] = NoName]
        /\ UNCHANGED <<tries, handle>>
        /\ \/ entries' = entries
           \/ entries' = [entries EXCEPT ![name[p]] = IF @ = "-" THEN "file" ELSE @]
    BY <1>2 DEF UseName, To, Has
  <2>2. entries' \in [Paths -> {"-"} \cup Others \cup Makers]
        /\ \A n \in Paths : entries'[n] = entries[n] \/ (entries[n] = "-" /\ entries'[n] = "file")
    BY <2>1 DEF Inv, Types
  <2>3. Types'
    BY <1>p, <2>1, <2>2 DEF Inv, Types
  <2>4. CreatedIsMine' /\ PrivateFile'
    BY <1>0, <1>p, <2>1, <2>2 DEF Inv, Types, CreatedIsMine, PrivateFile
  <2>5. QED BY <2>3, <2>4 DEF Inv
<1>3. QED BY <1>1, <1>2

LEMMA NextHolds == TempAssumption /\ Inv /\ [Next]_vars => Inv'
<1> SUFFICES ASSUME TempAssumption, Inv, [Next]_vars PROVE Inv'
  OBVIOUS
<1>p. tmpdir' = tmpdir /\ Paths' = Paths
  BY PathsStay
<1>1. ASSUME NEW p \in Processes, Start(p) PROVE Inv'
  <2>1. Types'
    BY <1>p, <1>1 DEF TempAssumption, Start, To, Inv, Types, Processes, Places
  <2>2. CreatedIsMine' /\ PrivateFile'
    BY <1>1, FilelessStep DEF TempAssumption, Start, Places
  <2>3. QED BY <2>1, <2>2 DEF Inv
<1>2. CASE Litter
  <2>1. PICK n \in Paths, e \in Others : entries[n] = "-" /\ entries' = [entries EXCEPT ![n] = e]
    BY <1>2 DEF Litter
  <2>2. UNCHANGED <<stage, tries, handle, name>>
    BY <1>2 DEF Litter
  <2>3. QED BY <1>p, <2>1, <2>2 DEF TempAssumption, Inv, Types, CreatedIsMine, PrivateFile, Processes, Others
<1>3. CASE UNCHANGED vars
  BY <1>p, <1>3 DEF vars, Inv, Types, CreatedIsMine, PrivateFile, Places
<1>4. QED BY <1>1, <1>2, <1>3, MakersStep, NamersStep DEF Next

\* No step of either function, or of a process being killed, changes what other
\* programs have in the directory.
LEMMA SparesOthers ==
    TempAssumption /\ Inv /\ [Next]_vars =>
      [\A n \in Paths : entries[n] \in Others => entries'[n] = entries[n]]_vars
<1> SUFFICES ASSUME TempAssumption, Inv, Next, NEW n \in Paths, entries[n] \in Others
             PROVE  entries'[n] = entries[n]
  BY DEF vars
<1> USE DEF TempAssumption, Inv, Types, Others
<1>1. ASSUME NEW m \in Makers, Open(m) \/ Unlink(m) \/ Close(m) \/ Crash(m)
      PROVE  entries'[n] = entries[n]
  BY <1>1 DEF Open, Unlink, Close, Crash, Creates, TryAgain, CreatedIsMine
<1>2. ASSUME NEW p \in Namers, Look(p) \/ UseName(p)
      PROVE  entries'[n] = entries[n]
  BY <1>2 DEF Look, UseName, TryAgain
<1>3. ASSUME NEW p \in Processes, Start(p)
      PROVE  entries'[n] = entries[n]
  BY <1>3 DEF Start
<1>4. CASE Litter
  BY <1>4 DEF Litter
<1>5. QED BY <1>1, <1>2, <1>3, <1>4 DEF Next

\* What tmpnam returns is the name it looked up where L_tmpnam has room for it,
\* and a beginning of it otherwise.
LEMMA ReturnedIsCut ==
    ASSUME TempAssumption, tmpdir \in TmpdirLengths, NEW n \in Names
    PROVE  /\ tmpdir <= 5 => Returned(n) = n
           /\ tmpdir > 5 => \E k \in 0..5 : Returned(n) = [i \in 1..k |-> n[i]]
<1>1. tmpdir \in 1..240 /\ n \in [1..6 -> STRING]
  BY DEF TempAssumption, MaxTmpdir
<1>2. ASSUME tmpdir <= 5 PROVE Returned(n) = n
  <2>1. {j \in 1..6 : tmpdir + 8 + j < L_tmpnam} = 1..6
    BY <1>1, <1>2 DEF L_tmpnam
  <2>2. QED BY <1>1, <2>1 DEF Returned
<1>3. ASSUME tmpdir > 5 PROVE \E k \in 0..5 : Returned(n) = [i \in 1..k |-> n[i]]
  <2> DEFINE k == IF tmpdir < 11 THEN 11 - tmpdir ELSE 0
  <2>1. k \in 0..5
    BY <1>1, <1>3
  <2>2. {j \in 1..6 : tmpdir + 8 + j < L_tmpnam} = 1..k
    BY <1>1, <1>3 DEF L_tmpnam
  <2>3. Returned(n) = [i \in 1..k |-> n[i]]
    BY <2>2 DEF Returned
  <2>4. QED BY <2>1, <2>3
<1>4. QED BY <1>2, <1>3

\* A step in which tmpnam gets a name has found it free, or that of which it is
\* the beginning.
LEMMA FindsFree ==
    TempAssumption /\ Inv /\ [Next]_vars =>
      [\A p \in Namers : stage[p] # "named" /\ stage'[p] = "named" =>
         IF tmpdir <= 5
         THEN entries[name'[p]] = "-"
         ELSE \E n \in Names, k \in 0..5 :
                entries[n] = "-" /\ name'[p] = [i \in 1..k |-> n[i]]]_vars
<1> SUFFICES ASSUME TempAssumption, Inv, Next,
                    NEW p \in Namers, stage[p] # "named", stage'[p] = "named"
             PROVE  IF tmpdir <= 5
                    THEN entries[name'[p]] = "-"
                    ELSE \E n \in Names, k \in 0..5 :
                           entries[n] = "-" /\ name'[p] = [i \in 1..k |-> n[i]]
  BY DEF vars
<1> USE DEF Inv, Types, Processes, To
<1>1. ASSUME NEW m \in Makers, Open(m) \/ Unlink(m) \/ Close(m) \/ Crash(m) PROVE FALSE
  BY <1>1 DEF Open, Unlink, Close, Crash, TryAgain, TempAssumption
<1>2. ASSUME NEW q \in Processes, Start(q) PROVE FALSE
  BY <1>2 DEF Start
<1>3. ~Litter
  BY DEF Litter
<1>4. PICK q \in Namers : Look(q) \/ UseName(q)
  BY <1>1, <1>2, <1>3 DEF Next
<1>5. p = q /\ Look(p)
  BY <1>4 DEF Look, UseName, TryAgain
<1>6. PICK n \in Names : entries[n] = "-" /\ name' = [name EXCEPT ![p] = Returned(n)]
  BY <1>5 DEF Look, Missing, TryAgain, Has
<1>7. name'[p] = Returned(n)
  BY <1>6 DEF TempAssumption
<1>8. /\ tmpdir <= 5 => name'[p] = n
      /\ tmpdir > 5 => \E k \in 0..5 : name'[p] = [i \in 1..k |-> n[i]]
  BY <1>7, ReturnedIsCut
<1>9. tmpdir <= 5 \/ tmpdir > 5
  BY DEF TempAssumption, MaxTmpdir
<1> QED BY <1>6, <1>8, <1>9

\* Whatever names collide, whichever processes are killed: the file of tmpfile
\* is its caller's own and no path leads to it, what others have in the directory
\* stays, and the name tmpnam gives was free if TMPDIR leaves room for it, and
\* the beginning of one that was free if not.
THEOREM TempSafe ==
    ASSUME TempAssumption
    PROVE  Spec => TempFilesSafe
<1>1. Init => Inv
  BY InitHolds
<1>2. Inv /\ [Next]_vars => Inv'
  BY NextHolds
<1>3. Inv => PrivateFile
  BY DEF Inv
<1>4. Inv /\ [Next]_vars => [\A n \in Paths : entries[n] \in Others => entries'[n] = entries[n]]_vars
  BY SparesOthers
<1>5. Inv /\ [Next]_vars =>
        [\A p \in Namers : stage[p] # "named" /\ stage'[p] = "named" =>
           IF tmpdir <= 5
           THEN entries[name'[p]] = "-"
           ELSE \E n \in Names, k \in 0..5 :
                  entries[n] = "-" /\ name'[p] = [i \in 1..k |-> n[i]]]_vars
  BY FindsFree
<1>6. QED BY <1>1, <1>2, <1>3, <1>4, <1>5, PTL DEF Spec, TempFilesSafe, OthersUntouched, FreshName
=============================================================================
