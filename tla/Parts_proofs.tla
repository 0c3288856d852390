---------------------------- MODULE Parts_proofs ----------------------------
(***************************************************************************)
(* The parts beside one another, for every value of their constants.  What *)
(* is proved of faccessat, of the temporary files and of the catalog's     *)
(* making in modules of their own holds in the system that TLC checks; the *)
(* semaphore, the USB transport of fastboot, the scan of the FreeBSD       *)
(* backend, the two spawns, with the promise they implement, and apex      *)
(* licenses are proved of it here.                                         *)
(***************************************************************************)
EXTENDS Parts, TLAPS, FiniteSetTheorems, WellFoundedInduction, SequenceTheorems

AccessProofs == INSTANCE Faccessat_proofs WITH
    Callers <- Askers, Platforms <- MayBeAndroid, faulted <- broken
TempProofs   == INSTANCE Temp_proofs WITH handle <- file
PipeProofs   == INSTANCE CatalogPipeline_proofs WITH at <- scanner, disturbed <- scanDisturbed

-----------------------------------------------------------------------------
(* The semaphore *)

LEMMA InitHasTypes == Init => TypeOK
BY SemAssumption DEF Init, TypeOK, Threads, Waiters, CallerLabels, NativeLabels, PosterLabels

LEMMA NextKeepsTypes == TypeOK /\ [Next]_vars => TypeOK'
<1> SUFFICES ASSUME TypeOK, [Next]_vars PROVE TypeOK'
  OBVIOUS
<1> USE SemAssumption DEF TypeOK, Threads, Waiters, CallerLabels, NativeLabels, PosterLabels, Goto
<1>1. ASSUME NEW c \in Callers, Call(c) \/ Try(c) \/ Sleep(c) \/ GiveUp(c)
      PROVE  TypeOK'
  BY <1>1 DEF Call, Try, Sleep, GiveUp, Decremented
<1>2. ASSUME NEW n \in Natives, NativeCall(n) \/ NativeTry(n) \/ NativeSleep(n)
      PROVE  TypeOK'
  BY <1>2 DEF NativeCall, NativeTry, NativeSleep
<1>3. ASSUME NEW t \in Waiters, Return(t)
      PROVE  TypeOK'
  BY <1>3 DEF Return
<1>4. ASSUME NEW p \in Posters, Post(p)
      PROVE  TypeOK'
  BY <1>4 DEF Post
<1>5. ASSUME NEW p \in Posters, Wake(p)
      PROVE  TypeOK'
  BY <1>5 DEF Wake, Woken
<1>6. CASE UNCHANGED vars
  BY <1>6 DEF vars
<1>7. QED BY <1>1, <1>2, <1>3, <1>4, <1>5, <1>6 DEF Next

\* In every reachable state the word holds -1 or more and each thread is at a
\* place of its own call, for any threads and any bound on the posts.
THEOREM SemTypes == Spec => []TypeOK
<1>1. QED BY InitHasTypes, NextKeepsTypes, PTL DEF Spec

-----------------------------------------------------------------------------
(* Tokens *)

LEMMA ReturningIsFinite == IsFiniteSet(Returning) /\ Cardinality(Returning) \in Nat
<1>1. Returning \subseteq Waiters
  BY DEF Returning
<1>2. QED BY <1>1, SemAssumption, FS_Subset, FS_CardinalityType

\* A thread that reaches or leaves its return is one more or one less.
LEMMA OneMoreReturns ==
    ASSUME NEW t \in Waiters, pc[t] # "done", Returning' = Returning \cup {t}
    PROVE  Cardinality(Returning') = Cardinality(Returning) + 1
BY ReturningIsFinite, FS_AddElement DEF Returning

LEMMA OneLessReturns ==
    ASSUME NEW t \in Waiters, pc[t] = "done", Returning' = Returning \ {t}
    PROVE  Cardinality(Returning') = Cardinality(Returning) - 1
<1>1. t \in Returning
  BY DEF Returning
<1>2. QED BY <1>1, ReturningIsFinite, FS_RemoveElement

LEMMA NextConservesTokens == TypeOK /\ TokensConserved /\ [Next]_vars => TokensConserved'
<1> SUFFICES ASSUME TypeOK, TokensConserved, [Next]_vars PROVE TokensConserved'
  OBVIOUS
<1> DEFINE n == Cardinality(Returning)
<1>0. n \in Nat /\ served \in Nat /\ posts \in Nat /\ Initial \in Nat /\ value \in Int
      /\ value >= -1 /\ pc \in [Threads -> CallerLabels \cup PosterLabels]
  BY ReturningIsFinite, SemAssumption DEF TypeOK
<1> HIDE DEF n
<1>1. ASSUME Returning' = Returning
      PROVE  n' = n
  BY <1>1 DEF n
<1>2. ASSUME NEW t \in Waiters, pc[t] # "done", Goto(t, "done")
      PROVE  n' = n + 1
  <2>1. Returning' = Returning \cup {t}
    BY <1>0, <1>2 DEF Returning, Goto, Threads, Waiters
  <2>2. QED BY <1>2, <2>1, OneMoreReturns DEF n
<1>3. ASSUME NEW t \in Waiters, Try(t) \/ NativeTry(t)
      PROVE  TokensConserved'
  <2>1. CASE value > 0
    <3>1. pc[t] # "done" /\ Goto(t, "done")
      BY <1>3, <2>1 DEF Try, NativeTry, Goto
    <3>2. value' = value - 1 /\ UNCHANGED <<posts, served>>
      BY <1>0, <1>3, <2>1 DEF Try, NativeTry, Decremented
    <3>3. QED BY <1>0, <1>2, <2>1, <3>1, <3>2 DEF TokensConserved, Tokens, n
  <2>2. CASE ~(value > 0)
    <3>1. Returning' = Returning
      BY <1>0, <1>3, <2>2 DEF Returning, Try, NativeTry, Goto, Threads, Waiters
    <3>2. ~(value' > 0) /\ UNCHANGED <<posts, served>>
      BY <1>0, <1>3, <2>2 DEF Try, NativeTry, Decremented
    <3>3. QED BY <1>0, <1>1, <2>2, <3>1, <3>2 DEF TokensConserved, Tokens, n
  <2>3. QED BY <2>1, <2>2
<1>4. ASSUME NEW t \in Waiters,
             \/ Call(t) \/ Sleep(t) \/ GiveUp(t) \/ NativeCall(t) \/ NativeSleep(t)
      PROVE  TokensConserved'
  <2>1. Returning' = Returning
    BY <1>0, <1>4 DEF Returning, Call, Sleep, GiveUp, NativeCall, NativeSleep, Goto, Threads, Waiters
  <2>2. UNCHANGED <<value, posts, served>>
    BY <1>4 DEF Call, Sleep, GiveUp, NativeCall, NativeSleep
  <2>3. QED BY <2>1, <2>2 DEF TokensConserved, Tokens
<1>5. ASSUME NEW t \in Waiters, Return(t)
      PROVE  TokensConserved'
  <2>1. Returning' = Returning \ {t}
    BY <1>0, <1>5 DEF Returning, Return, Goto, Threads, Waiters
  <2>2. n' = n - 1
    BY <1>5, <2>1, OneLessReturns DEF n, Return
  <2>3. value' = value /\ posts' = posts /\ served' = served + 1
    BY <1>5 DEF Return
  <2>4. QED BY <1>0, <2>2, <2>3 DEF TokensConserved, Tokens, n
<1>6. ASSUME NEW p \in Posters, Post(p)
      PROVE  TokensConserved'
  <2>1. Returning' = Returning
    BY <1>0, <1>6, SemAssumption DEF Returning, Post, Goto, Threads, Waiters
  <2>2. /\ value' = IF value < 0 THEN 1 ELSE value + 1
        /\ posts' = posts + 1 /\ served' = served
    BY <1>6 DEF Post
  <2>3. QED BY <1>0, <1>1, <2>1, <2>2 DEF TokensConserved, Tokens, n
<1>7. ASSUME NEW p \in Posters, Wake(p)
      PROVE  TokensConserved'
  <2>1. Returning' = Returning
    BY <1>0, <1>7, SemAssumption DEF Returning, Wake, Woken, Threads, Waiters
  <2>2. QED BY <1>7, <2>1 DEF TokensConserved, Tokens, Wake
<1>8. CASE UNCHANGED vars
  BY <1>8 DEF vars, TokensConserved, Tokens, Returning
<1>9. QED BY <1>3, <1>4, <1>5, <1>6, <1>7, <1>8 DEF Next, Waiters

\* No wait returns 0 without a token of its own, whichever functions the threads
\* mix: the tokens left, those of waits about to return and those of waits that
\* returned add up to what was put in.
THEOREM SemConservation == Spec => []TokensConserved
<1>1. Init => TokensConserved
  <2> SUFFICES ASSUME Init PROVE TokensConserved
    OBVIOUS
  <2>1. Returning = {}
    BY DEF Init, Returning, Threads, Waiters
  <2>2. Cardinality(Returning) = 0
    BY <2>1, FS_EmptySet
  <2>3. QED BY <2>2, SemAssumption DEF Init, TokensConserved, Tokens
<1>2. TypeOK /\ TokensConserved /\ [Next]_vars => (TypeOK /\ TokensConserved)'
  BY NextKeepsTypes, NextConservesTokens
<1>3. QED BY <1>1, <1>2, InitHasTypes, PTL DEF Spec

-----------------------------------------------------------------------------
(* Wakes *)

\* A thread sleeps in libc's sem_wait only over a word of -1, until somebody has
\* posted and is about to wake all.
NativesAnnounced ==
    \A n \in Natives : pc[n] = "asleep" => value = -1 \/ \E p \in Posters : pc[p] = "wake"

LEMMA NextKeepsAnnounced == TypeOK /\ NativesAnnounced /\ [Next]_vars => NativesAnnounced'
<1> SUFFICES ASSUME TypeOK, NativesAnnounced, [Next]_vars,
                    NEW n \in Natives, pc'[n] = "asleep"
             PROVE  value' = -1 \/ \E p \in Posters : pc'[p] = "wake"
  BY DEF NativesAnnounced
<1> DEFINE Announced == value = -1 \/ \E p \in Posters : pc[p] = "wake"
<1>0. /\ pc \in [Threads -> CallerLabels \cup PosterLabels] /\ value \in Int /\ value >= -1
      /\ n \in Threads /\ Callers \cup Natives \cup Posters = Threads
      /\ Callers \cap Natives = {} /\ (Callers \cup Natives) \cap Posters = {}
  BY SemAssumption DEF TypeOK, Threads, Waiters
<1>1. pc[n] = "asleep" => Announced
  BY DEF NativesAnnounced
\* A waiter that moves leaves the posters where they are.
<1>2. ASSUME NEW t \in Callers \cup Natives, NEW l, Goto(t, l)
      PROVE  /\ \A p \in Posters : pc'[p] = pc[p]
             /\ pc'[n] = IF t = n THEN l ELSE pc[n]
  BY <1>0, <1>2 DEF Goto
<1>3. ASSUME NEW c \in Callers, Call(c) \/ Try(c) \/ Sleep(c) \/ GiveUp(c)
      PROVE  Announced'
  <2>1. value' = value \/ (value' = value - 1 /\ value > 0)
    BY <1>0, <1>3 DEF Call, Try, Sleep, GiveUp, Decremented
  <2>2. \E l : Goto(c, l)
    BY <1>3 DEF Call, Try, Sleep, GiveUp
  <2>3. pc[n] = "asleep" /\ \A p \in Posters : pc'[p] = pc[p]
    BY <1>0, <1>2, <2>2
  <2>4. QED BY <1>0, <1>1, <2>1, <2>3
<1>4. ASSUME NEW m \in Natives, NativeCall(m) \/ NativeTry(m)
      PROVE  Announced'
  <2>1. value' = value \/ (value >= 0 /\ value' = value - 1)
    BY <1>0, <1>4 DEF NativeCall, NativeTry
  <2>2. \E l \in {"again", "done", "futex"} : Goto(m, l)
    BY <1>4 DEF NativeCall, NativeTry
  <2>3. pc[n] = "asleep" /\ \A p \in Posters : pc'[p] = pc[p]
    BY <1>0, <1>2, <2>2
  <2>4. QED BY <1>0, <1>1, <2>1, <2>3
<1>5. ASSUME NEW m \in Natives, NativeSleep(m)
      PROVE  Announced'
  <2>1. value' = value /\ \A p \in Posters : pc'[p] = pc[p]
    BY <1>0, <1>2, <1>5 DEF NativeSleep
  <2>2. m = n => value = -1
    BY <1>0, <1>5 DEF NativeSleep, Goto
  <2>3. m # n => pc[n] = "asleep"
    BY <1>0, <1>2, <1>5 DEF NativeSleep
  <2>4. QED BY <1>1, <2>1, <2>2, <2>3
<1>6. ASSUME NEW t \in Waiters, Return(t)
      PROVE  Announced'
  BY <1>0, <1>1, <1>2, <1>6 DEF Return, Waiters
<1>7. ASSUME NEW p \in Posters, Post(p)
      PROVE  Announced'
  <2>1. CASE value < 0
    BY <1>0, <1>7, <2>1 DEF Post, Goto
  <2>2. CASE ~(value < 0)
    BY <1>0, <1>1, <1>7, <2>2 DEF Post
  <2>3. QED BY <2>1, <2>2
<1>8. ASSUME NEW p \in Posters, Wake(p)
      PROVE  Announced'
  BY <1>0, <1>8 DEF Wake, Woken
<1>9. CASE UNCHANGED vars
  BY <1>1, <1>9 DEF vars
<1>10. QED BY <1>3, <1>4, <1>5, <1>6, <1>7, <1>8, <1>9 DEF Next, Waiters

\* Threads in libc's sem_wait lose no wake, however many threads are in the shim
\* meanwhile: its decrements never touch the -1 that announces them.
THEOREM SemPostWakes == Spec => []PostWakes
<1>1. Init => NativesAnnounced
  BY DEF Init, NativesAnnounced, Threads, Waiters
<1>2. TypeOK /\ NativesAnnounced => PostWakes
  BY DEF NativesAnnounced, PostWakes, WokenForTokens, Sleepers, TypeOK
<1>3. TypeOK /\ NativesAnnounced /\ [Next]_vars => (TypeOK /\ NativesAnnounced)'
  BY NextKeepsTypes, NextKeepsAnnounced
<1>4. QED BY <1>1, <1>2, <1>3, InitHasTypes, PTL DEF Spec

-----------------------------------------------------------------------------
(* A step of the system is a step of a part or leaves the part alone *)

LEMMA AccessMoves ==
    /\ Starts => AccessProofs!Init
    /\ [OnePart]_allVars => [AccessProofs!Next]_(AccessProofs!vars)
<1>1. Access!Next => AccessProofs!Next
  BY DEF Access!Next, Access!Call, Access!InCall, Access!MakePipe, Access!Clone, Access!CloseWrite,
         Access!ClosedFirst, Access!Read, Access!AtEnd, Access!CloseRead, Access!Wait, Access!Waited,
         Access!Child, Access!SwitchIds, Access!AskKernel, Access!AnswerFor, Access!Exit, Access!Killed,
         Access!Dies, Access!Set, Access!Faults,
         AccessProofs!Next, AccessProofs!Call, AccessProofs!InCall, AccessProofs!MakePipe,
         AccessProofs!Clone, AccessProofs!CloseWrite, AccessProofs!ClosedFirst, AccessProofs!Read,
         AccessProofs!AtEnd, AccessProofs!CloseRead, AccessProofs!Wait, AccessProofs!Waited,
         AccessProofs!Child, AccessProofs!SwitchIds, AccessProofs!AskKernel, AccessProofs!AnswerFor,
         AccessProofs!Exit, AccessProofs!Killed, AccessProofs!Dies, AccessProofs!Set, AccessProofs!Faults
<1>2. OnePart => AccessProofs!Next \/ UNCHANGED AccessProofs!vars
  BY <1>1 DEF OnePart, OthersStay, accessVars, AccessProofs!vars
<1>3. UNCHANGED allVars => UNCHANGED AccessProofs!vars
  BY DEF allVars, accessVars, AccessProofs!vars
<1>4. Starts => AccessProofs!Init
  BY DEF Starts, Access!Init, AccessProofs!Init
<1> QED
  BY <1>2, <1>3, <1>4

\* Every thread of the system that has called faccessat got the answer for its
\* effective ids, or for a failure of its own call.
THEOREM PartsAnswerForEffective == Parts => []AnswersForEffective
<1>1. AccessProofs!AccessAssumption
  BY AccessParameters DEF Access!AccessAssumption, AccessProofs!AccessAssumption
<1>2. AccessProofs!Init => AccessProofs!Inv
  BY <1>1, AccessProofs!InitHolds
<1>3. AccessProofs!Inv /\ [AccessProofs!Next]_(AccessProofs!vars) => AccessProofs!Inv'
  BY <1>1, AccessProofs!Inductive
<1>4. AccessProofs!Inv => AnswersForEffective
  BY AccessProofs!InvIsSafe
     DEF AnswersForEffective, Access!AnswersForEffective, AccessProofs!AnswersForEffective
<1> QED
  BY <1>2, <1>3, <1>4, AccessMoves, PTL DEF Parts

LEMMA TempMoves ==
    /\ Starts => TempProofs!Init
    /\ [OnePart]_allVars => [TempProofs!Next]_(TempProofs!vars)
<1>1. Temp!Next => TempProofs!Next
  BY DEF Temp!Next, Temp!Start, Temp!TryAgain, Temp!Creates, Temp!Open, Temp!Unlink, Temp!Close,
         Temp!Crash, Temp!Missing, Temp!Look, Temp!UseName, Temp!Litter, Temp!Step, Temp!To, Temp!Has,
         Temp!Processes, Temp!Others, Temp!Paths, Temp!Returned, Temp!NoName, Temp!L_tmpnam, Temp!vars,
         TempProofs!Next, TempProofs!Start, TempProofs!TryAgain,
         TempProofs!Creates, TempProofs!Open, TempProofs!Unlink, TempProofs!Close, TempProofs!Crash,
         TempProofs!Missing, TempProofs!Look, TempProofs!UseName, TempProofs!Litter, TempProofs!Step,
         TempProofs!To, TempProofs!Has, TempProofs!Processes, TempProofs!Others, TempProofs!Paths,
         TempProofs!Returned, TempProofs!NoName, TempProofs!L_tmpnam, TempProofs!vars
<1>2. OnePart => TempProofs!Next \/ UNCHANGED TempProofs!vars
  BY <1>1 DEF OnePart, OthersStay, tempVars, TempProofs!vars
<1>3. UNCHANGED allVars => UNCHANGED TempProofs!vars
  BY DEF allVars, tempVars, TempProofs!vars
<1>4. Starts => TempProofs!Init
  BY DEF Starts, Temp!Init, TempProofs!Init, Temp!Processes, TempProofs!Processes, Temp!Paths,
         TempProofs!Paths, Temp!Returned, TempProofs!Returned, Temp!NoName, TempProofs!NoName,
         Temp!L_tmpnam, TempProofs!L_tmpnam
<1> QED
  BY <1>2, <1>3, <1>4

\* In the system, too, the file of tmpfile is its caller's alone, what others have
\* in the directory stays, and a name of tmpnam was free if TMPDIR leaves room for
\* it, and is the beginning of one that was free if not.
THEOREM PartsTempFilesSafe == Parts => TempFilesSafe
<1>1. TempProofs!TempAssumption
  BY TempParameters DEF Temp!TempAssumption, TempProofs!TempAssumption, Temp!Others, TempProofs!Others,
     Temp!MaxTmpdir, TempProofs!MaxTmpdir
<1>2. TempProofs!Init => TempProofs!Inv
  BY <1>1, TempProofs!InitHolds
<1>3. TempProofs!Inv /\ [TempProofs!Next]_(TempProofs!vars) => TempProofs!Inv'
  BY <1>1, TempProofs!NextHolds
<1>p. Temp!Paths = TempProofs!Paths
  BY DEF Temp!Paths, TempProofs!Paths, Temp!Returned, TempProofs!Returned, Temp!L_tmpnam,
     TempProofs!L_tmpnam
<1>4. TempProofs!Inv => Temp!PrivateFile
  BY <1>p DEF TempProofs!Inv, TempProofs!PrivateFile, Temp!PrivateFile
<1>5. TempProofs!Inv /\ [TempProofs!Next]_(TempProofs!vars) =>
        [\A n \in Temp!Paths : entries[n] \in Temp!Others => entries'[n] = entries[n]]_(Temp!vars)
  BY <1>1, <1>p, TempProofs!SparesOthers DEF Temp!Others, TempProofs!Others, Temp!vars, TempProofs!vars
<1>6. TempProofs!Inv /\ [TempProofs!Next]_(TempProofs!vars) =>
        [\A p \in Namers : stage[p] # "named" /\ stage'[p] = "named" =>
           IF tmpdir <= 5
           THEN entries[name'[p]] = "-"
           ELSE \E n \in Names, k \in 0..5 :
                  entries[n] = "-" /\ name'[p] = [i \in 1..k |-> n[i]]]_(Temp!vars)
  BY <1>1, TempProofs!FindsFree DEF Temp!vars, TempProofs!vars
<1> QED
  BY <1>2, <1>3, <1>4, <1>5, <1>6, TempMoves, PTL
     DEF Parts, TempFilesSafe, Temp!TempFilesSafe, Temp!OthersUntouched, Temp!FreshName

LEMMA PipeMoves ==
    /\ Starts => PipeProofs!Init
    /\ [OnePart]_allVars => [PipeProofs!Next]_(PipeProofs!vars)
<1>1. Pipe!Next => PipeProofs!Next
  BY DEF Pipe!Next, Pipe!Run, Pipe!Publishes, Pipe!Publish, Pipe!Set, Pipe!Replace, Pipe!Cancel,
         Pipe!Goto, Pipe!Disturbs, Pipe!Busy, Pipe!Fresh, Pipe!Start, Pipe!NextPage, Pipe!ListAssets,
         Pipe!WithEntry, Pipe!ReadDigest, Pipe!Fetch, Pipe!Push, Pipe!Put, Pipe!Idle, Pipe!Pieces,
         Pipe!NoCatalog, Pipe!release, Pipe!scans, PipeProofs!Next, PipeProofs!Run,
         PipeProofs!Publishes, PipeProofs!Publish, PipeProofs!Set, PipeProofs!Replace,
         PipeProofs!Cancel, PipeProofs!Goto, PipeProofs!Disturbs, PipeProofs!Busy, PipeProofs!Fresh,
         PipeProofs!Start, PipeProofs!NextPage, PipeProofs!ListAssets, PipeProofs!WithEntry,
         PipeProofs!ReadDigest, PipeProofs!Fetch, PipeProofs!Push, PipeProofs!Put, PipeProofs!Idle,
         PipeProofs!Pieces, PipeProofs!NoCatalog, PipeProofs!release, PipeProofs!scans
<1>2. OnePart => PipeProofs!Next \/ UNCHANGED PipeProofs!vars
  BY <1>1 DEF OnePart, OthersStay, catalogVars, PipeProofs!vars
<1>3. UNCHANGED allVars => UNCHANGED PipeProofs!vars
  BY DEF allVars, catalogVars, PipeProofs!vars
<1>4. Starts => PipeProofs!Init
  BY DEF Starts, Pipe!Init, PipeProofs!Init, Pipe!NoCatalog, PipeProofs!NoCatalog, Pipe!Idle, PipeProofs!Idle
<1> QED
  BY <1>2, <1>3, <1>4

\* In the system, too, the branch has what an undisturbed scan found.
THEOREM PartsCatalogIsScan == Parts => []CatalogIsScan
<1>1. PipeProofs!Inv => CatalogIsScan
  BY DEF PipeProofs!Inv, PipeProofs!CatalogIsScan, CatalogIsScan, Pipe!CatalogIsScan
<1> QED
  BY <1>1, PipeProofs!InitHolds, PipeProofs!Inductive, PipeMoves, PTL DEF Parts

-----------------------------------------------------------------------------
(* FastbootUsb: what usb_open takes and gives back *)

\* What is held at each place of usb_open; the transport's two only with a claim.
Claim == IF claimed = << >> THEN {} ELSE {"handle", "interface"}
HeldInv ==
    /\ phase \in {"start", "list", "device", "setting", "free", "open", "null", "closed"}
    /\ phase \in {"start", "list", "device", "null"} => claimed = << >>
    /\ phase = "open" => claimed # << >>
    /\ phase \in {"start", "null", "closed"} => held = {}
    /\ phase = "list" => held = {"context"}
    /\ phase = "device" => held = {"context", "list"}
    /\ phase = "setting" => held = {"context", "list", "config"} \cup Claim
    /\ phase = "free" => held \ {"list"} = {"context"} \cup Claim
    /\ phase = "open" => held = {"context"} \cup Claim

LEMMA HeldStart == Starts => HeldInv
BY DEF Starts, Fastboot!Init, HeldInv

LEMMA HeldStep == HeldInv /\ Fastboot!Next => HeldInv'
<1> SUFFICES ASSUME HeldInv, Fastboot!Next PROVE HeldInv'
  OBVIOUS
<1> USE DEF HeldInv, Claim
<1>1. CASE Fastboot!InitLibrary
  BY <1>1 DEF Fastboot!InitLibrary
<1>2. CASE Fastboot!ListDevices
  BY <1>2 DEF Fastboot!ListDevices
<1>3. CASE Fastboot!LookAtDevice
  BY <1>3 DEF Fastboot!LookAtDevice
<1>4. CASE Fastboot!TrySetting
  <2>1. <<device, setting>> # << >>
    OBVIOUS
  <2> QED
    BY <1>4, <2>1 DEF Fastboot!TrySetting, Fastboot!Stop, Fastboot!Found, Fastboot!Kept, Fastboot!Position
<1>5. CASE Fastboot!EndDevice
  BY <1>5 DEF Fastboot!EndDevice, Fastboot!Stop, Fastboot!Found
<1>6. CASE Fastboot!Finish
  BY <1>6 DEF Fastboot!Finish, Fastboot!GivenUp, Fastboot!Found
<1>7. CASE Fastboot!StartWrite \/ Fastboot!Transfer \/ Fastboot!EndWrite
  BY <1>7 DEF Fastboot!StartWrite, Fastboot!Transfer, Fastboot!EndWrite, Fastboot!finding
<1>8. CASE Fastboot!Close
  BY <1>8 DEF Fastboot!Close
<1> QED
  BY <1>1, <1>2, <1>3, <1>4, <1>5, <1>6, <1>7, <1>8 DEF Fastboot!Next

-----------------------------------------------------------------------------
(* FastbootUsb: which setting is claimed *)

Fitting == UNION {{<<d, s>> : s \in {i \in DOMAIN Devices[d] : Fastboot!Fits(Devices[d][i])}} :
                    d \in DOMAIN Devices}

\* The settings the loops have behind them.
Behind(p) == \/ p[1] < device
             \/ phase = "setting" /\ p[1] = device /\ p[2] < setting

\* Every fitting setting behind the loops was refused, or is the one claimed and
\* those before it were refused.
FitInv ==
    /\ device \in Nat \ {0} /\ setting \in Nat \ {0}
    /\ phase = "setting" => device \in DOMAIN Devices
    /\ claimed = << >> => \A p \in Fitting : Behind(p) => p \in passedOver
    /\ claimed # << >> =>
         /\ claimed \in Fitting
         /\ \A p \in Fitting :
              p[1] < claimed[1] \/ (p[1] = claimed[1] /\ p[2] < claimed[2]) => p \in passedOver

LEMMA InFitting ==
    ASSUME Fastboot!FastbootAssumption, NEW p \in Fitting
    PROVE  /\ p = <<p[1], p[2]>>
           /\ p[1] \in DOMAIN Devices /\ p[1] \in Nat
           /\ p[2] \in DOMAIN Devices[p[1]] /\ p[2] \in Nat
           /\ Fastboot!Fits(Devices[p[1]][p[2]])
BY DEF Fitting, Fastboot!FastbootAssumption

LEMMA FitStart == Starts => FitInv
<1> SUFFICES ASSUME Starts PROVE FitInv
  OBVIOUS
<1>1. phase = "start" /\ device = 1 /\ setting = 1 /\ claimed = << >>
  BY DEF Starts, Fastboot!Init
<1>2. \A p \in Fitting : ~(p[1] < 1)
  BY InFitting, FastbootParameters DEF Fastboot!FastbootAssumption
<1> QED
  BY <1>1, <1>2 DEF FitInv, Behind

LEMMA FitStep == FitInv /\ HeldInv /\ Fastboot!Next => FitInv'
<1> SUFFICES ASSUME FitInv, HeldInv, Fastboot!Next PROVE FitInv'
  OBVIOUS
<1> USE FastbootParameters
<1>1. CASE Fastboot!InitLibrary \/ Fastboot!ListDevices \/ Fastboot!Finish
  BY <1>1 DEF Fastboot!InitLibrary, Fastboot!ListDevices, Fastboot!Finish, FitInv, Behind
<1>2. CASE Fastboot!LookAtDevice
  <2>1. CASE device > Len(Devices) /\ phase' = "free" /\ UNCHANGED <<device, setting, claimed, passedOver>>
    BY <1>2, <2>1 DEF Fastboot!LookAtDevice, FitInv, Behind
  <2>2. CASE device <= Len(Devices) /\ phase' = "setting" /\ setting' = 1 /\ UNCHANGED <<device, claimed, passedOver>>
    <3>1. device \in DOMAIN Devices
      BY <2>2 DEF FitInv, Fastboot!FastbootAssumption
    <3>2. claimed = << >> /\ phase = "device"
      BY <1>2 DEF HeldInv, Fastboot!LookAtDevice
    <3>3. ASSUME NEW p \in Fitting, Behind(p)' PROVE p[1] < device
      BY <2>2, <3>3, InFitting DEF Behind, FitInv, Fastboot!FastbootAssumption
    <3> QED
      BY <2>2, <3>1, <3>2, <3>3 DEF FitInv, Behind
  <2>3. CASE device' = device + 1 /\ passedOver' = passedOver \cup Fastboot!Unread
             /\ UNCHANGED <<phase, setting, claimed>> /\ device <= Len(Devices)
    <3>1. claimed = << >> /\ phase = "device"
      BY <1>2 DEF HeldInv, Fastboot!LookAtDevice
    <3>2. ASSUME NEW p \in Fitting, p[1] = device PROVE p \in Fastboot!Unread
      BY <3>2, InFitting DEF Fastboot!Unread
    <3>3. ASSUME NEW p \in Fitting, Behind(p)' PROVE p[1] < device \/ p[1] = device
      BY <2>3, <3>1, <3>3, InFitting DEF Behind, FitInv
    <3> QED
      BY <2>3, <3>1, <3>2, <3>3 DEF FitInv, Behind
  <2> QED
    BY <1>2, <2>1, <2>2, <2>3 DEF Fastboot!LookAtDevice
<1>3. CASE Fastboot!TrySetting
  <2>1. /\ phase = "setting" /\ claimed = << >> /\ device \in DOMAIN Devices
        /\ setting \in DOMAIN Devices[device] /\ setting' = setting + 1 /\ UNCHANGED <<phase, device>>
    BY <1>3 DEF Fastboot!TrySetting, Fastboot!Stop, Fastboot!Found, FitInv, Fastboot!FastbootAssumption
  <2>2. PICK took \in BOOLEAN :
           /\ took => Fastboot!Fits(Devices[device][setting])
           /\ claimed' = IF took THEN <<device, setting>> ELSE claimed
           /\ passedOver' = IF Fastboot!Fits(Devices[device][setting]) /\ ~took
                            THEN passedOver \cup {<<device, setting>>} ELSE passedOver
    BY <1>3 DEF Fastboot!TrySetting, Fastboot!Here, Fastboot!Position
  <2>3. CASE took
    <3>1. claimed' = <<device, setting>> /\ passedOver' = passedOver
      BY <2>2, <2>3
    <3>2. <<device, setting>> \in Fitting
      BY <2>1, <2>2, <2>3 DEF Fitting
    <3>3. \A p \in Fitting : p[1] < device \/ (p[1] = device /\ p[2] < setting) => p \in passedOver
      BY <2>1 DEF FitInv, Behind
    <3> QED
      BY <2>1, <3>1, <3>2, <3>3 DEF FitInv
  <2>4. CASE ~took
    <3>1. claimed' = << >>
      BY <2>1, <2>2, <2>4
    <3>2. ASSUME NEW p \in Fitting, Behind(p)' PROVE Behind(p) \/ p = <<device, setting>>
      BY <2>1, <3>2, InFitting DEF Behind, FitInv
    <3>3. <<device, setting>> \in Fitting => <<device, setting>> \in passedOver'
      <4>1. ASSUME <<device, setting>> \in Fitting PROVE Fastboot!Fits(Devices[device][setting])
        <5> DEFINE q == <<device, setting>>
        <5>1. Fastboot!Fits(Devices[q[1]][q[2]])
          BY <4>1, InFitting
        <5> QED
          BY <5>1
      <4> QED
        BY <2>2, <2>4, <4>1
    <3> QED
      BY <2>1, <2>2, <3>1, <3>2, <3>3 DEF FitInv
  <2> QED
    BY <2>3, <2>4
<1>4. CASE Fastboot!EndDevice
  <2>1. CASE claimed # << >>
    BY <1>4, <2>1 DEF Fastboot!EndDevice, Fastboot!Stop, Fastboot!Found, FitInv
  <2>2. CASE claimed = << >>
    <3>1. /\ phase = "setting" /\ setting > Len(Devices[device]) /\ device \in DOMAIN Devices
          /\ phase' = "device" /\ device' = device + 1 /\ UNCHANGED <<setting, claimed, passedOver>>
      BY <1>4, <2>2 DEF Fastboot!EndDevice, Fastboot!Stop, Fastboot!Found, FitInv
    <3>2. ASSUME NEW p \in Fitting, Behind(p)' PROVE Behind(p)
      BY <3>1, <3>2, InFitting DEF Behind, FitInv, Fastboot!FastbootAssumption
    <3> QED
      BY <2>2, <3>1, <3>2 DEF FitInv
  <2> QED
    BY <2>1, <2>2
<1>5. CASE Fastboot!StartWrite \/ Fastboot!Transfer \/ Fastboot!EndWrite
  BY <1>5 DEF Fastboot!StartWrite, Fastboot!Transfer, Fastboot!EndWrite, Fastboot!finding, FitInv, Behind
<1>6. CASE Fastboot!Close
  BY <1>6 DEF Fastboot!Close, FitInv, Behind
<1> QED
  BY <1>1, <1>2, <1>3, <1>4, <1>5, <1>6 DEF Fastboot!Next

-----------------------------------------------------------------------------
(* FastbootUsb: what is written *)

\* What the device has received is the buffer up to what was counted, except
\* where an error cut the count short.
WriteInv ==
    /\ count \in Nat /\ bytes \in Nat
    /\ received \in Seq(Nat) /\ \A i \in 1..Len(received) : received[i] = i
    /\ written \in {"running", "all"} => Len(received) = count
    /\ written = "all" => bytes = 0

LEMMA WriteStart == Starts => WriteInv
BY DEF Starts, Fastboot!Init, WriteInv

LEMMA AfterFirst ==
    ASSUME NEW s \in Seq(Nat), NEW t \in Seq(Nat), NEW i \in 1..(Len(s) + Len(t)), i > Len(s)
    PROVE  (s \o t)[i] = t[i - Len(s)]
OBVIOUS

LEMMA WriteStep == WriteInv /\ Fastboot!Next => WriteInv'
<1> SUFFICES ASSUME WriteInv, Fastboot!Next PROVE WriteInv'
  OBVIOUS
<1>1. CASE UNCHANGED <<count, bytes, received, written>>
  BY <1>1 DEF WriteInv
<1>2. CASE Fastboot!StartWrite
  BY <1>2, FastbootParameters DEF Fastboot!StartWrite, WriteInv, Fastboot!FastbootAssumption
<1>3. CASE Fastboot!Transfer
  <2> DEFINE n == IF bytes < Chunk THEN bytes ELSE Chunk
  <2>1. PICK done \in 0..n :
           /\ received' = received \o [i \in 1..done |-> count + i]
           /\ \/ /\ count' = count + done /\ bytes' = bytes - done
                 /\ UNCHANGED written
              \/ written' = "error" /\ UNCHANGED <<count, bytes>>
    BY <1>3 DEF Fastboot!Transfer, Fastboot!Counted
  <2>2. /\ written = "running" /\ Len(received) = count
        /\ n \in Nat /\ n <= bytes /\ done \in Nat /\ done <= bytes
    BY <1>3, FastbootParameters DEF Fastboot!Transfer, WriteInv, Fastboot!FastbootAssumption
  <2>3. [i \in 1..done |-> count + i] \in Seq(Nat) /\ Len([i \in 1..done |-> count + i]) = done
    BY <2>2 DEF WriteInv
  <2>4. received' \in Seq(Nat) /\ Len(received') = count + done
    BY <2>1, <2>2, <2>3 DEF WriteInv
  <2>5. ASSUME NEW i \in 1..Len(received') PROVE received'[i] = i
    <3>1. CASE i <= count
      <4>1. i \in 1..Len(received) /\ received'[i] = received[i]
        BY <2>1, <2>2, <2>3, <2>4, <3>1 DEF WriteInv
      <4> QED
        BY <4>1 DEF WriteInv
    <3>2. CASE i > count
      <4>1. i - count \in 1..done
        BY <2>2, <2>4, <3>2 DEF WriteInv
      <4>2. received'[i] = [j \in 1..done |-> count + j][i - count]
        <5>1. received \in Seq(Nat) /\ i \in 1..(Len(received) + done) /\ i > Len(received)
          BY <2>2, <2>4, <3>2 DEF WriteInv
        <5> QED
          BY <2>1, <2>2, <2>3, <5>1, AfterFirst
      <4>3. [j \in 1..done |-> count + j][i - count] = count + (i - count)
        BY <4>1
      <4>4. count + (i - count) = i
        BY <2>2, <2>4 DEF WriteInv
      <4> QED
        BY <4>2, <4>3, <4>4
    <3> QED
      BY <2>4, <3>1, <3>2 DEF WriteInv
  <2>6. count' \in Nat /\ bytes' \in Nat
    BY <2>1, <2>2 DEF WriteInv
  <2> QED
    BY <2>1, <2>2, <2>4, <2>5, <2>6 DEF WriteInv
<1>4. CASE Fastboot!EndWrite
  BY <1>4 DEF Fastboot!EndWrite, WriteInv
<1> QED
  BY <1>1, <1>2, <1>3, <1>4
     DEF Fastboot!Next, Fastboot!InitLibrary, Fastboot!ListDevices, Fastboot!LookAtDevice,
         Fastboot!TrySetting, Fastboot!EndDevice, Fastboot!Finish, Fastboot!Close, Fastboot!writing

FastbootInv == HeldInv /\ FitInv /\ WriteInv

LEMMA FastbootHolds == Parts => []FastbootInv
<1>1. Starts => FastbootInv
  BY HeldStart, FitStart, WriteStart DEF FastbootInv
<1>2. FastbootInv /\ [OnePart]_allVars => FastbootInv'
  <2>1. CASE Fastboot!Next
    BY <2>1, HeldStep, FitStep, WriteStep DEF FastbootInv
  <2>2. CASE UNCHANGED fastbootVars
    BY <2>2 DEF FastbootInv, HeldInv, Claim, FitInv, Behind, WriteInv, fastbootVars
  <2>3. [OnePart]_allVars => Fastboot!Next \/ UNCHANGED fastbootVars
    BY DEF OnePart, OthersStay, allVars
  <2> QED
    BY <2>1, <2>2, <2>3
<1> QED
  BY <1>1, <1>2, PTL DEF Parts

\* The transport of fastboot is on the first setting that fits unless libusb
\* refused those before it, and what Write says was written has reached the device
\* once and in order (fastboot_usb_libusb.cpp: the three loops, Write).
THEOREM PartsTransportWorks == Parts => []TransportWorks
<1>1. FastbootInv => Fastboot!FirstFitting
  <2> SUFFICES ASSUME FastbootInv PROVE Fastboot!FirstFitting
    OBVIOUS
  <2> DEFINE Before(p) == {q \in Fitting : q[1] < p[1] \/ (q[1] = p[1] /\ q[2] < p[2])}
  <2>1. phase = "open" => claimed \in Fitting /\ Before(claimed) \subseteq passedOver
    BY DEF FastbootInv, FitInv, HeldInv
  <2>2. phase = "null" /\ device > Len(Devices) => Fitting \subseteq passedOver
    <3> SUFFICES ASSUME phase = "null", device > Len(Devices), NEW p \in Fitting PROVE p \in passedOver
      OBVIOUS
    <3>1. p[1] < device
      BY InFitting, FastbootParameters DEF FastbootInv, FitInv, Fastboot!FastbootAssumption
    <3> QED
      BY <3>1 DEF FastbootInv, FitInv, HeldInv, Behind
  <2> QED
    BY <2>1, <2>2 DEF Fastboot!FirstFitting, Fitting
<1>2. FastbootInv => Fastboot!WrittenInOrder
  <2> SUFFICES ASSUME FastbootInv PROVE Fastboot!WrittenInOrder
    OBVIOUS
  <2> DEFINE upTo == [i \in 1..Len(received) |-> i]
  <2>1. received \in Seq(Nat) /\ upTo \in Seq(Nat) /\ Len(upTo) = Len(received)
    BY DEF FastbootInv, WriteInv
  <2>2. received = upTo
    BY <2>1 DEF FastbootInv, WriteInv
  <2>3. Fastboot!IsPrefix(received, upTo)
    BY <2>1, <2>2 DEF Fastboot!IsPrefix
  <2> QED
    BY <2>3 DEF Fastboot!WrittenInOrder, FastbootInv, WriteInv
<1> QED
  BY <1>1, <1>2, FastbootHolds, PTL DEF TransportWorks

-----------------------------------------------------------------------------
(* FbsdDevices: who holds what *)

Devs == [unit : Units \cup {NoUnit}, cunit : Units \cup {NoUnit}, config : Configs \cup {0, 1}]

UsbTypes ==
    /\ plugged \in [Nodes -> Units \cup {NoUnit}]
    /\ active \in [Units -> Configs \cup {1}]
    /\ known \in [Nodes -> Devs]
    /\ refs \in [Nodes -> SUBSET {"scan", "list", "handle"}]
    /\ scan \in {"off", "next", "info", "describe", "config", "append"}
    /\ todo \in SUBSET Nodes
    /\ node \in Nodes \cup {NoUnit} /\ fd \in Units \cup {NoUnit}
    /\ handle \in [node : Nodes, unit : Units] \cup {Usb!NoHandle}
    /\ refresh \in BOOLEAN
    /\ changed \in [Nodes -> BOOLEAN] /\ missed \in [Nodes -> BOOLEAN]

\* Where the scan has an entry in hand, where it has a descriptor, and where a
\* reference: to that entry only, and to nobody else's before it is described.
ScanInv ==
    /\ scan \in {"off", "next"} <=> node = NoUnit
    /\ scan \in {"info", "describe", "config"} <=> fd # NoUnit
    /\ \A n \in Nodes : "scan" \in refs[n] <=> node = n /\ scan \in {"describe", "config", "append"}
    /\ scan \in {"describe", "config"} => refs[node] = {"scan"}
    /\ scan = "config" => known[node].unit = fd

HandleInv ==
    /\ \A n \in Nodes : "handle" \in refs[n] <=> handle.node = n
    /\ refresh => handle # Usb!NoHandle

\* Each unit is behind one node, and libusb keeps what somebody refers to.
NodeInv ==
    /\ \A m, n \in Nodes : plugged[m] = plugged[n] => m = n \/ plugged[m] = NoUnit
    /\ \A n \in Nodes : refs[n] = {} => known[n] = Usb!NoDevice

\* A device that has been read is that of the unit that is plugged in, but for a
\* configuration that was set through the handle and is still to be read back.
Described(n) ==
    refs[n] # {} /\ ~(node = n /\ scan \in {"describe", "config"}) /\ ~changed[n] =>
      /\ plugged[n] \in Units
      /\ known[n].unit = plugged[n] /\ known[n].cunit = plugged[n]
      /\ \/ missed[n]
         \/ refresh /\ handle.node = n
         \/ known[n].config = active[plugged[n]]
      /\ handle.node = n => handle.unit = plugged[n]

UsbInv == UsbTypes /\ ScanInv /\ HandleInv /\ NodeInv /\ \A n \in Nodes : Described(n)

LEMMA UsbStart == Starts => UsbInv
<1> SUFFICES ASSUME Starts PROVE UsbInv
  OBVIOUS
<1> USE UsbParameters DEF Usb!DevicesAssumption
<1>1. Usb!Init
  BY DEF Starts
<1>2. Usb!NoDevice \in Devs
  BY DEF Usb!NoDevice, Devs
<1>3. UsbTypes
  BY <1>1, <1>2 DEF Usb!Init, UsbTypes
<1>4. Usb!NoHandle.node = NoUnit
  BY DEF Usb!NoHandle
<1> QED
  BY <1>1, <1>3, <1>4 DEF Usb!Init, UsbInv, ScanInv, HandleInv, NodeInv, Described

\* What is kept while only one node's references or device change.
LEMMA HandleOf ==
    ASSUME UsbInv, handle # Usb!NoHandle
    PROVE  /\ handle.node \in Nodes /\ handle.unit \in Units
           /\ "handle" \in refs[handle.node]
BY DEF UsbInv, UsbTypes, HandleInv

LEMMA ReplugStep == ASSUME UsbInv, Usb!Replug PROVE UsbInv'
<1> USE UsbParameters DEF Usb!DevicesAssumption
<1>1. PICK n \in Nodes, u \in Units \cup {NoUnit} :
         /\ u # plugged[n]
         /\ u # NoUnit => \A m \in Nodes : plugged[m] # u
         /\ plugged' = [plugged EXCEPT ![n] = u]
         /\ active' = IF u = NoUnit THEN active ELSE [active EXCEPT ![u] = 1]
         /\ changed' = IF refs[n] # {} \/ node = n THEN [changed EXCEPT ![n] = TRUE] ELSE changed
  BY DEF Usb!Replug, Usb!Put
<1>2. UNCHANGED <<known, refs, scan, todo, node, fd, handle, refresh, missed>>
  BY DEF Usb!Replug, Usb!scanning, Usb!using
<1>3. UsbTypes'
  BY <1>1, <1>2 DEF UsbInv, UsbTypes
<1>4. ScanInv' /\ HandleInv'
  BY <1>2 DEF UsbInv, ScanInv, HandleInv
<1>5. NodeInv'
  BY <1>1, <1>2 DEF UsbInv, UsbTypes, NodeInv
<1>6. ASSUME NEW m \in Nodes PROVE Described(m)'
  <2>1. CASE m = n
    BY <1>1, <1>2, <2>1 DEF UsbInv, UsbTypes, Described
  <2>2. CASE m # n
    <3>1. plugged'[m] = plugged[m] /\ changed'[m] = changed[m]
      BY <1>1, <2>2 DEF UsbInv, UsbTypes
    <3>2. plugged[m] \in Units => active'[plugged[m]] = active[plugged[m]]
      BY <1>1, <2>2 DEF UsbInv, UsbTypes
    <3> QED
      BY <1>2, <3>1, <3>2 DEF UsbInv, Described
  <2> QED
    BY <2>1, <2>2
<1> QED
  BY <1>3, <1>4, <1>5, <1>6 DEF UsbInv

\* A device whose cache, unit and holders stay is described as before.
LEMMA DescribedStays ==
    ASSUME NEW n \in Nodes, Described(n), UNCHANGED <<plugged, active, refresh>>,
           refs'[n] # {} => /\ refs[n] # {} /\ known'[n] = known[n]
                            /\ changed'[n] = changed[n] /\ missed'[n] = missed[n],
           node = n /\ scan \in {"describe", "config"} =>
             (node' = n /\ scan' \in {"describe", "config"}) \/ refs'[n] = {},
           refresh => handle' = handle,
           handle'.node = n => handle' = handle
    PROVE  Described(n)'
BY DEF Described

LEMMA DropFacts ==
    ASSUME UsbInv, NEW n \in Nodes, NEW who, Usb!Drop(n, who)
    PROVE  /\ refs' \in [Nodes -> SUBSET {"scan", "list", "handle"}]
           /\ known' \in [Nodes -> Devs]
           /\ changed' \in [Nodes -> BOOLEAN] /\ missed' \in [Nodes -> BOOLEAN]
           /\ refs'[n] = refs[n] \ {who}
           /\ refs'[n] = {} => known'[n] = Usb!NoDevice
           /\ refs'[n] # {} => /\ known'[n] = known[n]
                               /\ changed'[n] = changed[n] /\ missed'[n] = missed[n]
           /\ \A m \in Nodes \ {n} : /\ refs'[m] = refs[m] /\ known'[m] = known[m]
                                     /\ changed'[m] = changed[m] /\ missed'[m] = missed[m]
<1>1. Usb!NoDevice \in Devs
  BY DEF Usb!NoDevice, Devs
<1>2. refs' = [refs EXCEPT ![n] = refs[n] \ {who}]
  BY DEF Usb!Drop, Usb!Put
<1>3. CASE refs[n] \subseteq {who}
  <2>1. /\ known' = [known EXCEPT ![n] = Usb!NoDevice]
        /\ changed' = [changed EXCEPT ![n] = FALSE] /\ missed' = [missed EXCEPT ![n] = FALSE]
    BY <1>3 DEF Usb!Drop, Usb!Put
  <2> QED
    BY <1>1, <1>2, <1>3, <2>1 DEF UsbInv, UsbTypes
<1>4. CASE ~(refs[n] \subseteq {who})
  <2>1. UNCHANGED <<known, changed, missed>>
    BY <1>4 DEF Usb!Drop
  <2> QED
    BY <1>2, <1>4, <2>1 DEF UsbInv, UsbTypes
<1> QED
  BY <1>3, <1>4

LEMMA StartStep == ASSUME UsbInv, Usb!StartScan \/ Usb!EndScan PROVE UsbInv'
<1>1. /\ scan \in {"off", "next"} /\ scan' \in {"off", "next"} /\ todo' \in SUBSET Nodes
      /\ UNCHANGED <<plugged, active, known, refs, node, fd, handle, refresh, changed, missed>>
  BY DEF Usb!StartScan, Usb!EndScan, Usb!using, UsbInv, UsbTypes
<1>2. UsbTypes'
  BY <1>1 DEF UsbInv, UsbTypes
<1>3. ScanInv' /\ HandleInv' /\ NodeInv'
  BY <1>1 DEF UsbInv, ScanInv, HandleInv, NodeInv
<1>4. \A n \in Nodes : Described(n)'
  BY <1>1 DEF UsbInv, Described
<1> QED
  BY <1>2, <1>3, <1>4 DEF UsbInv

LEMMA NextNodeStep == ASSUME UsbInv, Usb!NextNode PROVE UsbInv'
<1> USE UsbParameters DEF Usb!DevicesAssumption
<1>1. PICK n \in todo :
         /\ todo' = todo \ {n}
         /\ \/ /\ plugged[n] # NoUnit
               /\ scan' = "info" /\ node' = n /\ fd' = plugged[n]
               /\ changed' = IF refs[n] = {} THEN [changed EXCEPT ![n] = FALSE] ELSE changed
            \/ UNCHANGED <<scan, node, fd, changed>>
  BY DEF Usb!NextNode, Usb!Put
<1>2. /\ scan = "next" /\ n \in Nodes
      /\ UNCHANGED <<plugged, active, known, refs, handle, refresh, missed>>
  BY DEF Usb!NextNode, Usb!using, UsbInv, UsbTypes
<1>3. UsbTypes'
  BY <1>1, <1>2 DEF UsbInv, UsbTypes
<1>4. ScanInv' /\ HandleInv' /\ NodeInv'
  BY <1>1, <1>2 DEF UsbInv, UsbTypes, ScanInv, HandleInv, NodeInv
<1>5. ASSUME NEW m \in Nodes PROVE Described(m)'
  <2>1. refs[m] # {} => changed'[m] = changed[m]
    BY <1>1, <1>2 DEF UsbInv, UsbTypes
  <2> QED
    BY <1>1, <1>2, <2>1, DescribedStays DEF UsbInv
<1> QED
  BY <1>3, <1>4, <1>5 DEF UsbInv

\* The entry in hand is given up, with its reference if it has one.
LEMMA GiveUpStep ==
    ASSUME UsbInv, scan \in {"info", "describe", "config", "append"},
           scan' \in {"off", "next"}, node' = NoUnit, fd' = NoUnit, todo' \in SUBSET Nodes,
           UNCHANGED <<plugged, active, handle, refresh>>,
           \/ Usb!Drop(node, "scan")
           \/ scan = "info" /\ UNCHANGED <<known, refs, changed, missed>>
    PROVE  UsbInv'
<1> USE UsbParameters DEF Usb!DevicesAssumption
<1>1. node \in Nodes
  BY DEF UsbInv, UsbTypes, ScanInv
<1>2. CASE Usb!Drop(node, "scan")
  <2>1. UsbTypes'
    BY <1>1, <1>2, DropFacts DEF UsbInv, UsbTypes
  <2>2. ASSUME NEW n \in Nodes PROVE "scan" \notin refs'[n]
    BY <1>1, <1>2, <2>2, DropFacts DEF UsbInv, ScanInv
  <2>3. ASSUME NEW n \in Nodes PROVE "handle" \in refs'[n] <=> "handle" \in refs[n]
    BY <1>1, <1>2, <2>3, DropFacts
  <2>4. ScanInv' /\ HandleInv'
    BY <2>2, <2>3 DEF UsbInv, ScanInv, HandleInv
  <2>5. NodeInv'
    BY <1>1, <1>2, DropFacts DEF UsbInv, NodeInv
  <2>6. ASSUME NEW n \in Nodes PROVE Described(n)'
    <3>1. refs'[n] # {} => /\ refs[n] # {} /\ known'[n] = known[n]
                           /\ changed'[n] = changed[n] /\ missed'[n] = missed[n]
      BY <1>1, <1>2, DropFacts
    <3>2. node = n /\ scan \in {"describe", "config"} => refs'[n] = {}
      BY <1>1, <1>2, DropFacts DEF UsbInv, ScanInv
    <3> QED
      BY <3>1, <3>2, DescribedStays DEF UsbInv
  <2> QED
    BY <2>1, <2>4, <2>5, <2>6 DEF UsbInv
<1>3. CASE scan = "info" /\ UNCHANGED <<known, refs, changed, missed>>
  <2>1. UsbTypes'
    BY <1>3 DEF UsbInv, UsbTypes
  <2>2. ScanInv' /\ HandleInv' /\ NodeInv'
    BY <1>3 DEF UsbInv, ScanInv, HandleInv, NodeInv
  <2>3. ASSUME NEW n \in Nodes PROVE Described(n)'
    BY <1>3, DescribedStays DEF UsbInv
  <2> QED
    BY <2>1, <2>2, <2>3 DEF UsbInv
<1> QED
  BY <1>2, <1>3

LEMMA InfoStep == ASSUME UsbInv, Usb!Info PROVE UsbInv'
<1> USE UsbParameters DEF Usb!DevicesAssumption
<1>1. /\ scan = "info" /\ node \in Nodes /\ fd \in Units
      /\ UNCHANGED <<plugged, active, known, handle, refresh, changed, missed>>
  BY DEF Usb!Info, Usb!using, UsbInv, UsbTypes, ScanInv
<1>2. CASE UNCHANGED refs /\ (Usb!GiveUpNode \/ Usb!GiveUpScan)
  <2>1. scan' \in {"off", "next"} /\ node' = NoUnit /\ fd' = NoUnit /\ todo' \in SUBSET Nodes
    BY <1>2 DEF Usb!GiveUpNode, Usb!GiveUpScan, Usb!Closed, UsbInv, UsbTypes
  <2> QED
    BY <1>1, <1>2, <2>1, GiveUpStep
<1>3. CASE /\ scan' = IF refs[node] = {} THEN "describe" ELSE "append"
           /\ fd' = IF refs[node] = {} THEN fd ELSE NoUnit
           /\ refs' = [refs EXCEPT ![node] = refs[node] \cup {"scan"}]
           /\ UNCHANGED <<todo, node>>
  <2>1. UsbTypes'
    BY <1>1, <1>3 DEF UsbInv, UsbTypes
  <2>2. /\ refs'[node] = refs[node] \cup {"scan"}
        /\ \A n \in Nodes \ {node} : refs'[n] = refs[n]
    BY <1>1, <1>3 DEF UsbInv, UsbTypes
  <2>3. ScanInv'
    BY <1>1, <1>3, <2>2 DEF UsbInv, ScanInv
  <2>4. HandleInv'
    BY <1>1, <2>2 DEF UsbInv, HandleInv
  <2>5. NodeInv'
    BY <1>1, <2>2 DEF UsbInv, NodeInv
  <2>6. ASSUME NEW n \in Nodes PROVE Described(n)'
    BY <1>1, <1>3, <2>2 DEF UsbInv, Described
  <2> QED
    BY <2>1, <2>3, <2>4, <2>5, <2>6 DEF UsbInv
<1> QED
  BY <1>2, <1>3 DEF Usb!Info, Usb!Put

LEMMA DescribeStep == ASSUME UsbInv, Usb!Describe PROVE UsbInv'
<1> USE UsbParameters DEF Usb!DevicesAssumption
<1>1. /\ scan = "describe" /\ node \in Nodes /\ fd \in Units /\ refs[node] = {"scan"}
      /\ UNCHANGED <<plugged, active, handle, refresh>>
  BY DEF Usb!Describe, Usb!using, UsbInv, UsbTypes, ScanInv
<1>2. CASE Usb!GiveUpNode /\ Usb!Drop(node, "scan")
  <2>1. scan' = "next" /\ node' = NoUnit /\ fd' = NoUnit /\ todo' \in SUBSET Nodes
    BY <1>2 DEF Usb!GiveUpNode, Usb!Closed, UsbInv, UsbTypes
  <2> QED
    BY <1>1, <1>2, <2>1, GiveUpStep
<1>3. CASE /\ scan' = "config"
           /\ known' = [known EXCEPT ![node] = [Usb!NoDevice EXCEPT !.unit = fd]]
           /\ UNCHANGED <<refs, todo, node, fd, changed, missed>>
  <2>1. [Usb!NoDevice EXCEPT !.unit = fd] \in Devs /\ [Usb!NoDevice EXCEPT !.unit = fd].unit = fd
    BY <1>1 DEF Usb!NoDevice, Devs
  <2>2. UsbTypes'
    BY <1>1, <1>3, <2>1 DEF UsbInv, UsbTypes
  <2>3. known'[node].unit = fd /\ \A n \in Nodes \ {node} : known'[n] = known[n]
    BY <1>1, <1>3, <2>1 DEF UsbInv, UsbTypes
  <2>4. ScanInv' /\ HandleInv'
    BY <1>1, <1>3, <2>3 DEF UsbInv, ScanInv, HandleInv
  <2>5. NodeInv'
    BY <1>1, <1>3, <2>3 DEF UsbInv, NodeInv
  <2>6. ASSUME NEW n \in Nodes PROVE Described(n)'
    BY <1>1, <1>3, <2>3 DEF UsbInv, Described
  <2> QED
    BY <2>2, <2>4, <2>5, <2>6 DEF UsbInv
<1> QED
  BY <1>2, <1>3 DEF Usb!Describe, Usb!Put, Usb!Holder

LEMMA CachedFacts ==
    ASSUME UsbTypes, NEW d \in Devs, NEW u \in Units
    PROVE  /\ Usb!Cached(d, u) \in Devs
           /\ Usb!Cached(d, u).unit = d.unit /\ Usb!Cached(d, u).cunit = u
           /\ Usb!Cached(d, u).config = active[u]
<1>1. active[u] \in Configs \cup {0, 1}
  BY DEF UsbTypes
<1> QED
  BY <1>1 DEF Usb!Cached, Devs

LEMMA CacheConfigStep == ASSUME UsbInv, Usb!CacheConfig PROVE UsbInv'
<1> USE UsbParameters DEF Usb!DevicesAssumption
<1>1. /\ scan = "config" /\ node \in Nodes /\ fd \in Units
      /\ refs[node] = {"scan"} /\ known[node].unit = fd
      /\ UNCHANGED <<plugged, active, handle, refresh>>
  BY DEF Usb!CacheConfig, Usb!using, UsbInv, UsbTypes, ScanInv
<1>2. CASE Usb!GiveUpNode /\ Usb!Drop(node, "scan")
  <2>1. scan' = "next" /\ node' = NoUnit /\ fd' = NoUnit /\ todo' \in SUBSET Nodes
    BY <1>2 DEF Usb!GiveUpNode, Usb!Closed, UsbInv, UsbTypes
  <2> QED
    BY <1>1, <1>2, <2>1, GiveUpStep
<1>3. CASE /\ plugged[node] = fd /\ scan' = "append" /\ fd' = NoUnit
           /\ known' = [known EXCEPT ![node] = Usb!Cached(known[node], fd)]
           /\ UNCHANGED <<refs, todo, node, changed, missed>>
  <2>1. known[node] \in Devs
    BY <1>1 DEF UsbInv, UsbTypes
  <2>2. /\ known'[node] \in Devs
        /\ known'[node].unit = fd /\ known'[node].cunit = fd /\ known'[node].config = active[fd]
        /\ \A n \in Nodes \ {node} : known'[n] = known[n]
    BY <1>1, <1>3, <2>1, CachedFacts DEF UsbInv, UsbTypes
  <2>3. UsbTypes'
    BY <1>1, <1>3, <2>1, CachedFacts DEF UsbInv, UsbTypes
  <2>4. ScanInv' /\ HandleInv'
    BY <1>1, <1>3 DEF UsbInv, ScanInv, HandleInv
  <2>5. NodeInv'
    BY <1>1, <1>3, <2>2 DEF UsbInv, NodeInv
  <2>6. ASSUME NEW n \in Nodes PROVE Described(n)'
    <3>1. CASE n = node
      <4>1. handle.node # n
        BY <1>1, <3>1 DEF UsbInv, HandleInv
      <4> QED
        BY <1>1, <1>3, <2>2, <3>1, <4>1 DEF Described
    <3>2. CASE n # node
      BY <1>1, <1>3, <2>2, <3>2 DEF UsbInv, Described
    <3> QED
      BY <3>1, <3>2
  <2> QED
    BY <2>3, <2>4, <2>5, <2>6 DEF UsbInv
<1> QED
  BY <1>2, <1>3 DEF Usb!CacheConfig, Usb!Put, Usb!Holder, Usb!Present

LEMMA AppendStep == ASSUME UsbInv, Usb!Append PROVE UsbInv'
<1> USE UsbParameters DEF Usb!DevicesAssumption
<1>1. /\ scan = "append" /\ node \in Nodes /\ fd = NoUnit
      /\ UNCHANGED <<plugged, active, handle, refresh>>
  BY DEF Usb!Append, Usb!using, UsbInv, UsbTypes, ScanInv
<1>2. CASE Usb!GiveUpScan /\ Usb!Drop(node, "scan")
  <2>1. scan' = "off" /\ node' = NoUnit /\ fd' = NoUnit /\ todo' \in SUBSET Nodes
    BY <1>2 DEF Usb!GiveUpScan
  <2> QED
    BY <1>1, <1>2, <2>1, GiveUpStep
<1>3. CASE /\ scan' = "next" /\ node' = NoUnit
           /\ refs' = [refs EXCEPT ![node] = (refs[node] \ {"scan"}) \cup {"list"}]
           /\ UNCHANGED <<known, todo, fd, changed, missed>>
  <2>1. UsbTypes'
    BY <1>1, <1>3 DEF UsbInv, UsbTypes
  <2>2. /\ refs'[node] = (refs[node] \ {"scan"}) \cup {"list"}
        /\ \A n \in Nodes \ {node} : refs'[n] = refs[n]
    BY <1>1, <1>3 DEF UsbInv, UsbTypes
  <2>3. "scan" \in refs[node]
    BY <1>1 DEF UsbInv, ScanInv
  <2>4. ScanInv'
    BY <1>1, <1>3, <2>2 DEF UsbInv, ScanInv
  <2>5. HandleInv' /\ NodeInv'
    BY <1>1, <1>3, <2>2 DEF UsbInv, HandleInv, NodeInv
  <2>6. ASSUME NEW n \in Nodes PROVE Described(n)'
    BY <1>1, <1>3, <2>2, <2>3 DEF UsbInv, Described
  <2> QED
    BY <2>1, <2>4, <2>5, <2>6 DEF UsbInv
<1> QED
  BY <1>2, <1>3 DEF Usb!Append, Usb!Put

LEMMA FreeStep == ASSUME UsbInv, Usb!FreeDevice PROVE UsbInv'
<1>1. PICK n \in Nodes : "list" \in refs[n] /\ Usb!Drop(n, "list")
  BY DEF Usb!FreeDevice
<1>2. scan = "off" /\ UNCHANGED <<plugged, active, scan, todo, node, fd, handle, refresh>>
  BY DEF Usb!FreeDevice, Usb!scanning, Usb!using
<1>3. UsbTypes'
  BY <1>1, <1>2, DropFacts DEF UsbInv, UsbTypes
<1>4. ASSUME NEW m \in Nodes
      PROVE  ("scan" \in refs'[m] <=> "scan" \in refs[m]) /\ ("handle" \in refs'[m] <=> "handle" \in refs[m])
  BY <1>1, <1>4, DropFacts
<1>5. ScanInv' /\ HandleInv'
  BY <1>2, <1>4 DEF UsbInv, ScanInv, HandleInv
<1>6. NodeInv'
  BY <1>1, <1>2, DropFacts DEF UsbInv, NodeInv
<1>7. ASSUME NEW m \in Nodes PROVE Described(m)'
  <2>1. refs'[m] # {} => /\ refs[m] # {} /\ known'[m] = known[m]
                         /\ changed'[m] = changed[m] /\ missed'[m] = missed[m]
    BY <1>1, DropFacts
  <2> QED
    BY <1>2, <2>1, DescribedStays DEF UsbInv
<1> QED
  BY <1>3, <1>5, <1>6, <1>7 DEF UsbInv

LEMMA OpenStep == ASSUME UsbInv, Usb!Open PROVE UsbInv'
<1> USE UsbParameters DEF Usb!DevicesAssumption
<1>1. PICK n \in Nodes :
         /\ "list" \in refs[n] /\ plugged[n] # NoUnit
         /\ handle' = [node |-> n, unit |-> plugged[n]]
         /\ refs' = [refs EXCEPT ![n] = refs[n] \cup {"handle"}]
  BY DEF Usb!Open, Usb!Put
<1>2. /\ scan = "off" /\ handle = Usb!NoHandle /\ node = NoUnit
      /\ UNCHANGED <<plugged, active, known, scan, todo, node, fd, refresh, changed, missed>>
  BY DEF Usb!Open, Usb!scanning, UsbInv, ScanInv
<1>3. handle' \in [node : Nodes, unit : Units] /\ handle'.node = n /\ handle'.unit = plugged[n]
  BY <1>1 DEF UsbInv, UsbTypes
<1>4. /\ refs'[n] = refs[n] \cup {"handle"}
      /\ \A m \in Nodes \ {n} : refs'[m] = refs[m]
  BY <1>1 DEF UsbInv, UsbTypes
<1>5. UsbTypes'
  BY <1>1, <1>2, <1>3 DEF UsbInv, UsbTypes
<1>6. ScanInv'
  BY <1>2, <1>4 DEF UsbInv, ScanInv
<1>7. HandleInv'
  <2>1. handle.node = NoUnit /\ handle' # Usb!NoHandle
    BY <1>2, <1>3 DEF Usb!NoHandle
  <2> QED
    BY <1>3, <1>4, <2>1 DEF UsbInv, HandleInv
<1>8. NodeInv'
  BY <1>2, <1>4 DEF UsbInv, NodeInv
<1>9. ASSUME NEW m \in Nodes PROVE Described(m)'
  <2>1. ~refresh
    BY <1>2 DEF UsbInv, HandleInv
  <2> QED
    BY <1>1, <1>2, <1>3, <1>4, <2>1 DEF UsbInv, Described
<1> QED
  BY <1>5, <1>6, <1>7, <1>8, <1>9 DEF UsbInv

LEMMA CloseStep == ASSUME UsbInv, Usb!Close PROVE UsbInv'
<1> USE UsbParameters DEF Usb!DevicesAssumption
<1>1. /\ scan = "off" /\ ~refresh /\ handle' = Usb!NoHandle /\ handle # Usb!NoHandle
      /\ Usb!Drop(handle.node, "handle") /\ node = NoUnit
      /\ UNCHANGED <<plugged, active, scan, todo, node, fd, refresh>>
  BY DEF Usb!Close, Usb!scanning, UsbInv, ScanInv
<1>2. handle.node \in Nodes
  BY <1>1, HandleOf
<1>3. UsbTypes'
  BY <1>1, <1>2, DropFacts DEF UsbInv, UsbTypes
<1>4. ASSUME NEW m \in Nodes
      PROVE  ("scan" \in refs'[m] <=> "scan" \in refs[m]) /\ "handle" \notin refs'[m]
  BY <1>1, <1>2, <1>4, DropFacts DEF UsbInv, HandleInv
<1>5. Usb!NoHandle.node = NoUnit
  BY DEF Usb!NoHandle
<1>6. ScanInv' /\ HandleInv'
  BY <1>1, <1>4, <1>5 DEF UsbInv, ScanInv, HandleInv
<1>7. NodeInv'
  BY <1>1, <1>2, DropFacts DEF UsbInv, NodeInv
<1>8. ASSUME NEW m \in Nodes PROVE Described(m)'
  <2>1. refs'[m] # {} => /\ refs[m] # {} /\ known'[m] = known[m]
                         /\ changed'[m] = changed[m] /\ missed'[m] = missed[m]
    BY <1>1, <1>2, DropFacts
  <2> QED
    <3>1. handle'.node # m
      BY <1>1, <1>5
    <3> QED
      BY <1>1, <2>1, <3>1, DescribedStays DEF UsbInv
<1> QED
  BY <1>3, <1>6, <1>7, <1>8 DEF UsbInv

LEMMA SetStep == ASSUME UsbInv, Usb!SetConfiguration PROVE UsbInv'
<1>1. PICK c \in Configs : active' = [active EXCEPT ![handle.unit] = c]
  BY DEF Usb!SetConfiguration, Usb!Put
<1>2. /\ scan = "off" /\ handle # Usb!NoHandle /\ ~refresh /\ refresh'
      /\ plugged[handle.node] = handle.unit
      /\ UNCHANGED <<plugged, known, refs, scan, todo, node, fd, handle, changed, missed>>
  BY DEF Usb!SetConfiguration, Usb!scanning, Usb!Present
<1>3. handle.node \in Nodes /\ handle.unit \in Units
  BY <1>2, HandleOf
<1>4. UsbTypes'
  BY <1>1, <1>2 DEF UsbInv, UsbTypes
<1>5. ScanInv' /\ HandleInv' /\ NodeInv'
  BY <1>2 DEF UsbInv, ScanInv, HandleInv, NodeInv
<1>6. ASSUME NEW n \in Nodes PROVE Described(n)'
  <2>1. CASE n = handle.node
    BY <1>2, <2>1 DEF UsbInv, Described
  <2>2. CASE n # handle.node
    <3>1. plugged[n] \in Units => plugged[n] # handle.unit
      BY <1>2, <1>3, <2>2, UsbParameters DEF UsbInv, NodeInv, Usb!DevicesAssumption
    <3>2. plugged[n] \in Units => active'[plugged[n]] = active[plugged[n]]
      BY <1>1, <3>1 DEF UsbInv, UsbTypes
    <3> QED
      BY <1>2, <2>2, <3>2 DEF UsbInv, Described
  <2> QED
    BY <2>1, <2>2
<1> QED
  BY <1>4, <1>5, <1>6 DEF UsbInv

LEMMA RefreshStep == ASSUME UsbInv, Usb!Refresh PROVE UsbInv'
<1> USE UsbParameters DEF Usb!DevicesAssumption
<1> DEFINE h == handle.node
<1>1. /\ refresh /\ ~refresh' /\ refresh' \in BOOLEAN
      /\ UNCHANGED <<plugged, active, refs, scan, todo, node, fd, handle, changed>>
  BY DEF Usb!Refresh, Usb!scanning
<1>2. h \in Nodes /\ "handle" \in refs[h]
  BY <1>1, HandleOf DEF UsbInv, HandleInv
<1>3. \A n \in Nodes : known'[n].unit = known[n].unit \/ n = h
  BY <1>1, <1>2 DEF Usb!Refresh, Usb!Put, UsbInv, UsbTypes
<1>4. h # node \/ scan \notin {"describe", "config"}
  BY <1>2 DEF UsbInv, ScanInv
<1>5. CASE /\ plugged[h] # NoUnit
           /\ known' = [known EXCEPT ![h] = Usb!Cached(known[h], plugged[h])]
           /\ missed' = [missed EXCEPT ![h] = FALSE]
  <2>1. known[h] \in Devs /\ plugged[h] \in Units
    BY <1>2, <1>5 DEF UsbInv, UsbTypes
  <2>2. /\ Usb!Cached(known[h], plugged[h]) \in Devs
        /\ known'[h].unit = known[h].unit /\ known'[h].cunit = plugged[h]
        /\ known'[h].config = active[plugged[h]]
        /\ \A n \in Nodes \ {h} : known'[n] = known[n] /\ missed'[n] = missed[n]
    BY <1>2, <1>5, <2>1, CachedFacts, ZenonT(60) DEF UsbInv, UsbTypes
  <2>3. UsbTypes'
    BY <1>1, <1>5, <2>2 DEF UsbInv, UsbTypes
  <2>4. ScanInv' /\ HandleInv'
    <3>1. scan = "config" => known'[node].unit = fd
      BY <1>3, <1>4 DEF UsbInv, UsbTypes, ScanInv
    <3> QED
      BY <1>1, <3>1 DEF UsbInv, ScanInv, HandleInv
  <2>5. NodeInv'
    BY <1>1, <1>2, <2>2 DEF UsbInv, NodeInv
  <2>6. ASSUME NEW n \in Nodes PROVE Described(n)'
    <3>1. CASE n = h
      BY <1>1, <1>2, <1>4, <2>1, <2>2, <3>1 DEF UsbInv, Described
    <3>2. CASE n # h
      BY <1>1, <2>2, <3>2 DEF UsbInv, Described
    <3> QED
      BY <3>1, <3>2
  <2> QED
    BY <2>3, <2>4, <2>5, <2>6 DEF UsbInv
<1>6. CASE missed' = [missed EXCEPT ![h] = TRUE] /\ UNCHANGED known
  <2>1. UsbTypes'
    BY <1>1, <1>6 DEF UsbInv, UsbTypes
  <2>2. ScanInv' /\ HandleInv' /\ NodeInv'
    BY <1>1, <1>6 DEF UsbInv, ScanInv, HandleInv, NodeInv
  <2>3. missed'[h] /\ \A n \in Nodes \ {h} : missed'[n] = missed[n]
    BY <1>2, <1>6 DEF UsbInv, UsbTypes
  <2>4. ASSUME NEW n \in Nodes PROVE Described(n)'
    BY <1>1, <1>6, <2>3 DEF UsbInv, Described
  <2> QED
    BY <2>1, <2>2, <2>4 DEF UsbInv
<1> QED
  BY <1>5, <1>6 DEF Usb!Refresh, Usb!Put, Usb!Refreshed

LEMMA UsbStep == UsbInv /\ Usb!Next => UsbInv'
BY ReplugStep, StartStep, NextNodeStep, InfoStep, DescribeStep, CacheConfigStep, AppendStep,
   FreeStep, OpenStep, CloseStep, SetStep, RefreshStep DEF Usb!Next, Usb!Scanning

LEMMA UsbHolds == Parts => []UsbInv
<1>1. UsbInv /\ [OnePart]_allVars => UsbInv'
  <2>1. CASE UNCHANGED usbVars
    BY <2>1 DEF UsbInv, UsbTypes, ScanInv, HandleInv, NodeInv, Described, usbVars
  <2>2. [OnePart]_allVars => Usb!Next \/ UNCHANGED usbVars
    BY DEF OnePart, OthersStay, allVars
  <2> QED
    BY <2>1, <2>2, UsbStep
<1> QED
  BY <1>1, UsbStart, PTL DEF Parts

\* What libusb tells of a device it lists, or that is open, is of the unit that is
\* plugged in, whoever comes and goes during scans and configurations, unless the
\* unit was swapped while somebody held the device or its new configuration could
\* not be read back (freebsd_usb.c: the scan, fbsd_open, fbsd_set_configuration).
THEOREM PartsDescribesWhatIsPlugged == Parts => []DescribesWhatIsPlugged
<1>1. UsbInv => DescribesWhatIsPlugged
  <2> SUFFICES ASSUME UsbInv, NEW n \in Nodes, refs[n] \cap {"list", "handle"} # {}, ~changed[n]
               PROVE  /\ known[n].unit = plugged[n] /\ known[n].cunit = plugged[n]
                      /\ missed[n] \/ refresh \/ known[n].config = active[plugged[n]]
                      /\ handle.node = n => handle.unit = plugged[n]
    BY DEF DescribesWhatIsPlugged, Usb!DescribesWhatIsPlugged
  <2>1. ~(node = n /\ scan \in {"describe", "config"})
    BY DEF UsbInv, ScanInv
  <2> QED
    BY <2>1 DEF UsbInv, Described
<1> QED
  BY <1>1, UsbHolds, PTL

-----------------------------------------------------------------------------
(* Lists of file actions *)

Posix == INSTANCE Descriptors

\* What holds of no number below n unless it holds of a smaller one holds of none:
\* induction for sets, from the order of the numbers.
LEMMA NoLeast ==
    ASSUME NEW S \in SUBSET Nat, \A n \in S : \E m \in S : m < n
    PROVE  S = {}
<1> DEFINE R == {p \in Nat \X Nat : p[1] < p[2]}
<1>1. R = OpToRel(<, Nat)
  BY DEF OpToRel
<1>2. IsWellFoundedOn(R, Nat)
  BY <1>1, NatLessThanWellFounded
<1>3. S # {} => \E n \in S : \A m \in S : ~ (<<m, n>> \in R)
  BY <1>2, WFMin
<1>4. \A m, n \in S : <<m, n>> \in R <=> m < n
  OBVIOUS
<1> QED
  BY <1>3, <1>4

\* A set of numbers has a lowest one.
LEMMA LowestIn ==
    ASSUME NEW S \in SUBSET Nat, S # {}
    PROVE  Ndk!Lowest(S) \in S /\ Ninja!Lowest(S) \in S
<1>1. \E d \in S : \A e \in S : ~ (e < d)
  BY NoLeast
<1>2. \A d, e \in S : ~ (e < d) => d <= e
  OBVIOUS
<1>3. \E d \in S : \A e \in S : d <= e
  BY <1>1, <1>2
<1> QED
  BY <1>3 DEF Ndk!Lowest, Ninja!Lowest

\* The tables a list makes, one after another.
Runs(g, t, acts, n) ==
    g = [i \in 0..n |-> IF i = 0 THEN t ELSE Posix!Effect(g[i - 1], acts[i])]

LEMMA TablesExist ==
    ASSUME NEW t, NEW acts, NEW n \in Nat
    PROVE  \E g : Runs(g, t, acts, n)
<1> DEFINE S == {k \in Nat : ~ \E g : Runs(g, t, acts, k)}
<1>1. ASSUME NEW k \in S PROVE \E m \in S : m < k
  <2>1. CASE k = 0
    <3> DEFINE g == [i \in 0..0 |-> t]
    <3>1. g = [i \in 0..0 |-> IF i = 0 THEN t ELSE Posix!Effect(g[i - 1], acts[i])]
      OBVIOUS
    <3> HIDE DEF g
    <3> QED
      BY <2>1, <3>1 DEF Runs
  <2>2. CASE k # 0
    <3>1. k - 1 \in Nat /\ k - 1 < k
      BY <2>2
    <3>2. ASSUME NEW f, Runs(f, t, acts, k - 1) PROVE FALSE
      <4> DEFINE g == [i \in 0..k |-> IF i = k THEN Posix!Effect(f[k - 1], acts[k]) ELSE f[i]]
      <4>1. \A i \in 0..(k - 1) : f[i] = IF i = 0 THEN t ELSE Posix!Effect(f[i - 1], acts[i])
        BY <3>2, Zenon DEF Runs
      <4>2. ASSUME NEW i \in 0..k PROVE g[i] = IF i = 0 THEN t ELSE Posix!Effect(g[i - 1], acts[i])
        <5>1. CASE i = 0
          BY <2>2, <4>1, <5>1
        <5>2. CASE i # 0 /\ i # k
          <6>1. i \in 0..(k - 1) /\ i - 1 \in 0..k /\ i - 1 # k
            BY <5>2
          <6>2. g[i] = f[i] /\ g[i - 1] = f[i - 1]
            BY <5>2, <6>1
          <6> QED
            BY <4>1, <5>2, <6>1, <6>2
        <5>3. CASE i = k
          <6>1. k - 1 \in 0..k /\ k - 1 # k
            BY <3>1
          <6>2. g[i - 1] = f[k - 1]
            BY <5>3, <6>1
          <6> QED
            BY <2>2, <5>3, <6>2
        <5> QED
          BY <5>1, <5>2, <5>3
      <4>3. g = [i \in 0..k |-> g[i]]
        OBVIOUS
      <4> HIDE DEF g
      <4>4. g = [i \in 0..k |-> IF i = 0 THEN t ELSE Posix!Effect(g[i - 1], acts[i])]
        BY <4>2, <4>3
      <4> QED
        BY <4>4 DEF Runs
    <3> QED
      BY <3>1, <3>2
  <2> QED
    BY <2>1, <2>2
<1> HIDE DEF S
<1>2. S = {}
  BY <1>1, NoLeast DEF S
<1> QED
  BY <1>2 DEF S

LEMMA Tables ==
    ASSUME NEW t, NEW acts, Len(acts) \in Nat
    PROVE  /\ Posix!After(t, acts)[0] = t
           /\ \A i \in 1..Len(acts) :
                Posix!After(t, acts)[i] = Posix!Effect(Posix!After(t, acts)[i - 1], acts[i])
<1> DEFINE g == Posix!After(t, acts)
           n == Len(acts)
<1>1. \E f : Runs(f, t, acts, n)
  BY TablesExist
<1>2. Runs(g, t, acts, n)
  BY <1>1 DEF Runs, Posix!After
<1> HIDE DEF g
<1>3. \A i \in 0..n : g[i] = IF i = 0 THEN t ELSE Posix!Effect(g[i - 1], acts[i])
  BY <1>2, Zenon DEF Runs
<1>4. 0 \in 0..n /\ \A i \in 1..n : i \in 0..n /\ i # 0
  OBVIOUS
<1>5. g[0] = t /\ \A i \in 1..n : g[i] = Posix!Effect(g[i - 1], acts[i])
  BY <1>3, <1>4, Zenon
<1> QED
  BY <1>5 DEF g

LEMMA SameTables ==
    ASSUME NEW t, NEW acts
    PROVE  /\ Ndk!Contract!Requested(t, acts) = Posix!Requested(t, acts)
           /\ Ninja!Contract!Requested(t, acts) = Posix!Requested(t, acts)
           /\ Ninja!Requested(t, acts) = Posix!Requested(t, acts)
<1>1. Ndk!Contract!Requested(t, acts) = Posix!Requested(t, acts)
  BY DEF Posix!Requested, Posix!After, Posix!Effect, Posix!Broken, Posix!OpenOn, Posix!Close, Posix!CanDup,
         Posix!Valid, Posix!Free,
         Ndk!Contract!Requested, Ndk!Contract!After, Ndk!Contract!Effect, Ndk!Contract!Broken,
         Ndk!Contract!OpenOn, Ndk!Contract!Close, Ndk!Contract!CanDup, Ndk!Contract!Valid, Ndk!Contract!Free
<1>2. Ninja!Contract!Requested(t, acts) = Posix!Requested(t, acts)
  BY DEF Posix!Requested, Posix!After, Posix!Effect, Posix!Broken, Posix!OpenOn, Posix!Close, Posix!CanDup,
         Posix!Valid, Posix!Free,
         Ninja!Contract!Requested, Ninja!Contract!After, Ninja!Contract!Effect, Ninja!Contract!Broken,
         Ninja!Contract!OpenOn, Ninja!Contract!Close, Ninja!Contract!CanDup, Ninja!Contract!Valid,
         Ninja!Contract!Free
<1>3. Ninja!Requested(t, acts) = Posix!Requested(t, acts)
  BY DEF Posix!Requested, Posix!After, Posix!Effect, Posix!Broken, Posix!OpenOn, Posix!Close, Posix!CanDup,
         Posix!Valid, Posix!Free,
         Ninja!Requested, Ninja!After, Ninja!Effect, Ninja!Broken, Ninja!OpenOn, Ninja!Close, Ninja!CanDup,
         Ninja!Valid, Ninja!Free
<1> QED
  BY <1>1, <1>2, <1>3

-----------------------------------------------------------------------------
(* NdkSpawn implements Spawning *)

\* Where the child is in the list it was forked with, and that its table is the
\* one the list makes up to there.
Tables0      == Posix!After(NdkTable, request.actions)
IsTable(t)   == DOMAIN t = DOMAIN NdkTable /\ t = [d \in DOMAIN NdkTable |-> t[d]]
ApplyingInv  == LET n == Len(request.actions) - Len(left) IN
    /\ left \in Seq(NdkActions) /\ Len(left) <= Len(request.actions)
    /\ \A i \in 1..Len(left) : left[i] = request.actions[n + i]
    /\ fds = Tables0[n]
    /\ IsTable(fds)
NdkInv ==
    /\ parent \in {"building", "calling", "forked", "returned", "failed"}
    /\ child \in {"none", "applying", "running", "127"}
    /\ list \in Seq(NdkActions)
    /\ parent = "building" => request = Ndk!NoRequest
    /\ parent # "building" => request.actions \in Seq(NdkActions)
    /\ child = "none" <=> parent \in {"building", "calling", "failed"}
    /\ child = "none" => fds = NdkTable
    /\ child = "applying" => ApplyingInv

LEMMA NdkStart == Starts => NdkInv
BY DEF Starts, Ndk!Init, NdkInv

\* Each action of the child does to its table what POSIX says of it.
LEMMA NdkEffects ==
    ASSUME NEW t, IsTable(t), NEW a \in NdkActions
    PROVE  /\ a.op = "open" /\ a.file # "missing" /\ Ndk!Unused(t) # {} =>
                Ndk!Moved(t, a) = Posix!Effect(t, a) /\ IsTable(Ndk!Moved(t, a))
           /\ a.op = "close" =>
                Ndk!Close(t, a.fd) = Posix!Effect(t, a) /\ IsTable(Ndk!Close(t, a.fd))
           /\ a.op = "dup2" /\ Ndk!CanDup(t, a.src, a.fd) =>
                Ndk!Dup(t, a.src, a.fd) = Posix!Effect(t, a)
                /\ IsTable(Ndk!Dup(t, a.src, a.fd))
<1> USE DEF IsTable
<1> DEFINE Dom == DOMAIN NdkTable
<1>0. t # Posix!Broken
  BY NdkParameters DEF Ndk!NdkAssumption, Posix!Broken
<1>1. ASSUME a.op = "open", a.file # "missing", Ndk!Unused(t) # {}
      PROVE  Ndk!Moved(t, a) = Posix!Effect(t, a) /\ IsTable(Ndk!Moved(t, a))
  <2> DEFINE f == Ndk!Lowest(Ndk!Unused(t))
             opened == [t EXCEPT ![f] = Ndk!OpenOn(a.file)]
             wanted == [t EXCEPT ![a.fd] = Ndk!OpenOn(a.file)]
  <2>1. a.fd \in Dom
    BY <1>1, NdkParameters DEF Ndk!NdkAssumption
  <2>2. Ndk!Unused(t) \in SUBSET Nat /\ Ndk!Unused(t) = {d \in Dom : t[d] = Ndk!Free}
    BY NdkParameters DEF Ndk!NdkAssumption, Ndk!Unused
  <2>3. f \in Ndk!Unused(t)
    BY <1>1, <2>2, LowestIn
  <2>4. f \in Dom /\ t[f] = Ndk!Free
    BY <2>2, <2>3
  <2> HIDE DEF f
  <2>5. wanted = Posix!Effect(t, a) /\ IsTable(wanted)
    BY <1>0, <1>1, <2>1 DEF Posix!Effect, Posix!OpenOn, Ndk!OpenOn
  <2>6. Ndk!Moved(t, a) = IF f = a.fd THEN opened ELSE Ndk!Close(Ndk!Dup(opened, f, a.fd), f)
    BY <2>1 DEF Ndk!Moved, f
  <2>7. CASE f = a.fd
    BY <2>5, <2>6, <2>7
  <2>8. CASE f # a.fd
    <3> DEFINE moved == Ndk!Dup(opened, f, a.fd)
    <3>1. moved = [d \in Dom |-> IF d = a.fd \/ d = f THEN Ndk!OpenOn(a.file) ELSE t[d]]
      BY <2>1, <2>4, <2>8 DEF Ndk!Dup, Ndk!OpenOn
    <3> HIDE DEF moved
    <3>2. Ndk!Close(moved, f) = [d \in Dom |-> IF d = f THEN Ndk!Free ELSE moved[d]]
      BY <3>1, <2>4 DEF Ndk!Close
    <3>3. wanted = [d \in Dom |-> IF d = a.fd THEN Ndk!OpenOn(a.file) ELSE t[d]]
      BY <2>1
    <3>4. \A d \in Dom : (IF d = f THEN Ndk!Free ELSE moved[d])
                          = IF d = a.fd THEN Ndk!OpenOn(a.file) ELSE t[d]
      BY <3>1, <2>4, <2>8
    <3>5. Ndk!Close(moved, f) = wanted
      BY <3>2, <3>3, <3>4
    <3> QED
      BY <2>5, <2>6, <2>8, <3>5 DEF moved
  <2> QED
    BY <2>7, <2>8
<1>2. ASSUME a.op = "close"
      PROVE  Ndk!Close(t, a.fd) = Posix!Effect(t, a) /\ IsTable(Ndk!Close(t, a.fd))
  <2>1. Posix!Effect(t, a) = Posix!Close(t, a.fd)
    BY <1>0, <1>2 DEF Posix!Effect, Posix!Close, Posix!Broken
  <2>2. Ndk!Free = Posix!Free
    BY DEF Ndk!Free, Posix!Free
  <2> QED
    BY <2>1, <2>2 DEF Posix!Close, Ndk!Close
<1>3. ASSUME a.op = "dup2", Ndk!CanDup(t, a.src, a.fd)
      PROVE  /\ Ndk!Dup(t, a.src, a.fd) = Posix!Effect(t, a)
             /\ IsTable(Ndk!Dup(t, a.src, a.fd))
  <2>1. a.src # a.fd /\ a.src \in Dom /\ a.fd \in Dom
    BY <1>3, NdkParameters DEF Ndk!NdkAssumption, Ndk!CanDup, Ndk!Valid
  <2>2. Posix!CanDup(t, a.src, a.fd)
    BY <1>3 DEF Posix!CanDup, Posix!Valid, Posix!Free, Ndk!CanDup, Ndk!Valid, Ndk!Free
  <2> QED
    BY <1>0, <1>3, <2>1, <2>2 DEF Posix!Effect, Posix!OpenOn, Ndk!Dup, Ndk!OpenOn
<1> QED
  BY <1>1, <1>2, <1>3

LEMMA NdkStep == NdkInv /\ Ndk!Next => NdkInv'
<1> SUFFICES ASSUME NdkInv, Ndk!Next PROVE NdkInv'
  OBVIOUS
<1>1. CASE Ndk!Add
  BY <1>1 DEF Ndk!Add, NdkInv
<1>2. CASE Ndk!Call
  BY <1>2 DEF Ndk!Call, NdkInv
<1>3. CASE Ndk!Fork
  <2>1. CASE parent' = "failed" /\ UNCHANGED <<child, left, flags>>
    BY <1>3, <2>1 DEF Ndk!Fork, NdkInv
  <2>2. CASE parent' = "forked" /\ child' = "applying" /\ left' = request.actions
    <3>1. request.actions \in Seq(NdkActions) /\ request' = request /\ fds' = NdkTable /\ list' = list
      BY <1>3 DEF Ndk!Fork, NdkInv
    <3>2. Tables0[0] = NdkTable
      BY <3>1, Tables DEF Tables0
    <3>3. ApplyingInv'
      BY <2>2, <3>1, <3>2, NdkParameters DEF ApplyingInv, Tables0, Ndk!NdkAssumption, IsTable
    <3> QED
      BY <2>2, <3>1, <3>3 DEF NdkInv
  <2> QED
    BY <1>3, <2>1, <2>2 DEF Ndk!Fork
<1>4. CASE Ndk!Return
  BY <1>4 DEF Ndk!Return, NdkInv, ApplyingInv, Tables0
<1>5. CASE Ndk!Destroy
  BY <1>5 DEF Ndk!Destroy, NdkInv, ApplyingInv, Tables0
<1>6. CASE Ndk!ApplyAction
  <2>1. CASE Ndk!Exit127
    BY <1>6, <2>1 DEF Ndk!ApplyAction, Ndk!Exit127, NdkInv
  <2>2. CASE ~ Ndk!Exit127
    <3> DEFINE a == Head(left)
               n == Len(request.actions) - Len(left)
    <3>1. /\ child = "applying" /\ left # << >> /\ ApplyingInv
          /\ request.actions \in Seq(NdkActions) /\ request' = request
          /\ UNCHANGED <<list, parent>>
      BY <1>6 DEF Ndk!ApplyAction, NdkInv
    <3>2. a \in NdkActions /\ a = request.actions[n + 1] /\ n \in Nat /\ n + 1 \in 1..Len(request.actions)
      BY <3>1 DEF ApplyingInv
    <3>3. PICK t : /\ Ndk!Apply(t) /\ t = Posix!Effect(fds, a) /\ IsTable(t)
      BY <1>6, <2>2, <3>1, <3>2, NdkEffects DEF Ndk!ApplyAction, ApplyingInv
    <3>4. Tables0[n + 1] = Posix!Effect(Tables0[n], a)
      <4>1. Len(request.actions) \in Nat /\ (n + 1) - 1 = n
        BY <3>1, <3>2
      <4>2. Tables0[n + 1] = Posix!Effect(Tables0[(n + 1) - 1], request.actions[n + 1])
        BY <3>2, <4>1, Tables DEF Tables0
      <4> QED
        BY <3>2, <4>1, <4>2
    <3>5. left' = Tail(left) /\ fds' = Tables0[n + 1] /\ child' = child
      BY <3>1, <3>3, <3>4 DEF Ndk!Apply, ApplyingInv
    <3>6. /\ left' \in Seq(NdkActions) /\ Len(left') = Len(left) - 1
          /\ \A i \in 1..Len(left') : left'[i] = left[i + 1] /\ i + 1 \in 1..Len(left)
      BY <3>1, <3>5 DEF ApplyingInv
    <3>7. Len(request'.actions) - Len(left') = n + 1 /\ \A i \in 1..Len(left') : (n + 1) + i = n + (i + 1)
      <4>1. Len(request.actions) \in Nat /\ Len(left) \in Nat /\ request'.actions = request.actions
        BY <3>1 DEF ApplyingInv
      <4>2. Len(request'.actions) - Len(left') = n + 1
        BY <3>6, <4>1
      <4> HIDE DEF n
      <4> QED
        BY <3>2, <3>6, <4>2
    <3>8. IsTable(fds')
      BY <3>3 DEF Ndk!Apply
    <3>9. ApplyingInv'
      <4>1. Len(left') <= Len(request'.actions)
        BY <3>1, <3>6 DEF ApplyingInv
      <4>2. \A i \in 1..Len(left') : left'[i] = request'.actions[(n + 1) + i]
        BY <3>1, <3>6, <3>7 DEF ApplyingInv
      <4>3. Tables0' = Tables0
        BY <3>1 DEF Tables0
      <4> HIDE DEF n
      <4> QED
        BY <3>5, <3>6, <3>7, <3>8, <4>1, <4>2, <4>3 DEF ApplyingInv
    <3> QED
      BY <3>1, <3>5, <3>9 DEF NdkInv
  <2> QED
    BY <2>1, <2>2
<1>7. CASE Ndk!ApplyFlag
  BY <1>7 DEF Ndk!ApplyFlag, NdkInv, ApplyingInv, Tables0
<1>8. CASE Ndk!Exec
  BY <1>8 DEF Ndk!Exec, NdkInv
<1> QED
  BY <1>1, <1>2, <1>3, <1>4, <1>5, <1>6, <1>7, <1>8 DEF Ndk!Next

LEMMA NdkMoves ==
    ASSUME NdkInv, Ndk!Next
    PROVE  Ndk!Contract!Next \/ UNCHANGED Ndk!Contract!vars
<1> USE DEF Ndk!Contract!vars, Ndk!Contract!Next
<1>0. /\ Ndk!Contract!NoProgram = [st |-> "none", fds |-> Ndk!Broken]
      /\ Ndk!Contract!Lost = [st |-> "dead", fds |-> Ndk!Broken]
      /\ Ndk!Contract!Uncalled = Ndk!Uncalled
  BY DEF Ndk!Contract!NoProgram, Ndk!Contract!Lost, Ndk!Contract!Broken, Ndk!Broken, Ndk!Contract!Uncalled,
         Ndk!Uncalled
<1>1. ASSUME NEW s \in Seq(NdkActions) PROVE s # Ndk!Contract!Uncalled
  <2>1. CASE Len(s) = 1
    <3>1. s[1] \in NdkActions
      BY <2>1
    <3>2. s[1].op # "none"
      BY <3>1, NdkParameters DEF Ndk!NdkAssumption
    <3> QED
      BY <1>0, <3>2 DEF Ndk!Uncalled
  <2>2. CASE Len(s) # 1
    BY <1>0, <2>2 DEF Ndk!Uncalled
  <2> QED
    BY <2>1, <2>2
<1>2. CASE Ndk!Add \/ Ndk!Destroy \/ Ndk!ApplyFlag
  BY <1>2 DEF Ndk!Add, Ndk!Destroy, Ndk!ApplyFlag, NdkInv
<1>3. CASE Ndk!Call
  <2>1. /\ request.actions = Ndk!Contract!Uncalled /\ request'.actions # Ndk!Contract!Uncalled
        /\ parent = "building" /\ parent' = "calling" /\ UNCHANGED <<child, fds>>
    BY <1>3, <1>0, <1>1 DEF Ndk!Call, NdkInv, Ndk!NoRequest
  <2>2. Ndk!Contract!Ask
    BY <2>1 DEF Ndk!Contract!Ask
  <2> QED
    BY <2>2
<1>4. CASE Ndk!Fork
  <2>1. /\ request.actions # Ndk!Contract!Uncalled /\ UNCHANGED <<request, fds>>
        /\ parent = "calling" /\ child = "none"
    BY <1>4, <1>1 DEF Ndk!Fork, NdkInv
  <2>2. CASE parent' = "forked" /\ child' = "applying"
    BY <2>1, <2>2
  <2>3. CASE parent' = "failed" /\ child' = child
    <3>1. Ndk!Contract!Refuse
      BY <2>1, <2>3, <1>0 DEF Ndk!Contract!Refuse
    <3> QED
      BY <3>1
  <2> QED
    BY <1>4, <2>2, <2>3 DEF Ndk!Fork
<1>5. CASE Ndk!Return
  <2>1. /\ request.actions # Ndk!Contract!Uncalled /\ UNCHANGED <<request, child, fds>>
        /\ parent = "forked" /\ parent' = "returned"
    BY <1>5, <1>1 DEF Ndk!Return, NdkInv
  <2>2. Ndk!Contract!Succeed
    BY <2>1 DEF Ndk!Contract!Succeed
  <2> QED
    BY <2>2
<1>6. ASSUME child = "applying", child' = "127", UNCHANGED <<request, parent>>
      PROVE  Ndk!Contract!Next
  <2>1. request.actions # Ndk!Contract!Uncalled /\ parent # "failed"
    BY <1>6, <1>1 DEF NdkInv
  <2>2. Ndk!Contract!Lose
    BY <1>0, <1>6, <2>1 DEF Ndk!Contract!Lose
  <2> QED
    BY <2>2
<1>7. CASE Ndk!ApplyAction
  <2>1. child' = "127" \/ child' = child
    BY <1>7 DEF Ndk!ApplyAction, Ndk!Exit127, Ndk!Apply
  <2> QED
    BY <1>6, <1>7, <2>1 DEF Ndk!ApplyAction
<1>8. CASE Ndk!Exec
  <2>1. CASE child' = "running" /\ fds' = Ndk!AfterExec(fds)
    <3>1. /\ child = "applying" /\ left = << >> /\ ApplyingInv /\ UNCHANGED <<request, parent>>
          /\ request.actions \in Seq(NdkActions) /\ parent # "failed"
      BY <1>8 DEF Ndk!Exec, NdkInv
    <3>2. fds = Posix!Requested(NdkTable, request.actions)
      <4>1. Len(left) = 0 /\ Len(request.actions) - 0 = Len(request.actions)
        BY <3>1
      <4> QED
        BY <3>1, <4>1 DEF ApplyingInv, Tables0, Posix!Requested
    <3>3. fds = Ndk!Contract!Requested(NdkTable, request.actions)
      BY <3>2, SameTables
    <3>4. fds # Ndk!Contract!Broken
      BY <3>1, NdkParameters DEF ApplyingInv, Ndk!Contract!Broken, Ndk!NdkAssumption, IsTable
    <3>5. fds' = Ndk!Contract!AfterExec(fds)
      BY <2>1 DEF Ndk!AfterExec, Ndk!Contract!AfterExec, Ndk!Free, Ndk!Contract!Free
    <3>6. request.actions # Ndk!Contract!Uncalled
      BY <3>1, <1>1
    <3>7. Ndk!Contract!Run
      BY <1>0, <2>1, <3>1, <3>3, <3>4, <3>5, <3>6 DEF Ndk!Contract!Run
    <3> QED
      BY <3>7
  <2>2. CASE child' = "127"
    BY <1>6, <1>8, <2>2 DEF Ndk!Exec
  <2> QED
    BY <1>8, <2>1, <2>2 DEF Ndk!Exec
<1> QED
  BY <1>2, <1>3, <1>4, <1>5, <1>7, <1>8 DEF Ndk!Next

LEMMA NdkHolds == Parts => []NdkInv
<1>1. NdkInv /\ [OnePart]_allVars => NdkInv'
  <2>1. CASE Ndk!Next
    BY <2>1, NdkStep
  <2>2. CASE UNCHANGED ndkVars
    BY <2>2 DEF NdkInv, ApplyingInv, Tables0, IsTable, ndkVars
  <2>3. [OnePart]_allVars => Ndk!Next \/ UNCHANGED ndkVars
    BY DEF OnePart, OthersStay, allVars
  <2> QED
    BY <2>1, <2>2, <2>3
<1> QED
  BY <1>1, NdkStart, PTL DEF Parts

\* posix_spawn.h implements Spawning, for any table and any lists of file actions
\* up to any length: what runs has exactly the descriptors of the list as it was
\* at the call, and after a failed fork nothing runs.
THEOREM PartsNdkIsSpawn == Parts => NdkIsSpawn
<1>1. Starts => Ndk!Contract!Init
  <2> SUFFICES ASSUME Starts PROVE Ndk!Contract!Init
    OBVIOUS
  <2>1. Ndk!Init
    BY DEF Starts
  <2>2. request.actions = Ndk!Contract!Uncalled
    BY <2>1 DEF Ndk!Init, Ndk!NoRequest, Ndk!Uncalled, Ndk!Contract!Uncalled
  <2>3. Ndk!Contract!NoProgram = [st |-> "none", fds |-> Ndk!Broken]
    BY DEF Ndk!Contract!NoProgram, Ndk!Broken, Ndk!Contract!Broken
  <2> QED
    BY <2>1, <2>2, <2>3 DEF Ndk!Init, Ndk!Contract!Init
<1>2. NdkInv /\ [OnePart]_allVars => [Ndk!Contract!Next]_(Ndk!Contract!vars)
  <2>1. CASE Ndk!Next
    BY <2>1, NdkMoves
  <2>2. CASE UNCHANGED ndkVars
    BY <2>2 DEF ndkVars, Ndk!Contract!vars
  <2>3. [OnePart]_allVars => Ndk!Next \/ UNCHANGED ndkVars
    BY DEF OnePart, OthersStay, allVars
  <2> QED
    BY <2>1, <2>2, <2>3
<1> QED
  BY <1>1, <1>2, NdkHolds, PTL DEF Parts, NdkIsSpawn, Ndk!NdkIsSpawn, Ndk!Contract!Spec

-----------------------------------------------------------------------------
(* NinjaSpawn: what posix_spawnp takes and gives back *)

\* The two numbers of the pipe were free in ninja; while an end is open the table
\* is the one ninja had with that end in it.  Child counts the one child that
\* the caller has still to reap or to hand over.
Taken(d)       == d \in DOMAIN NinjaTable /\ NinjaTable[d] = Ninja!Free
WithRead(r)    == [NinjaTable EXCEPT ![r] = Ninja!Private("read")]
WithBoth(r, w) == [WithRead(r) EXCEPT ![w] = Ninja!Private("write")]
Places         == {"idle", "pipe", "fork", "close", "read", "reap", "answered", "returned"}
PipeInv ==
    /\ caller \in Places
    /\ caller \in {"fork", "close", "read"} => Taken(pipe[1]) /\ Taken(pipe[2]) /\ pipe[1] # pipe[2]
    /\ table = IF caller \in {"fork", "close"} THEN WithBoth(pipe[1], pipe[2])
               ELSE IF caller = "read" THEN WithRead(pipe[1])
               ELSE NinjaTable
KidsInv ==
    /\ data # "0" /\ errno # "0"
    /\ path \in Seq(STRING) /\ \A i \in DOMAIN path : path[i] # "0" /\ path[i] # "-"
    /\ dir \in Nat
    /\ caller \notin {"idle", "answered", "returned"} => dir \in DOMAIN path
    /\ worker # "none" => dir \in DOMAIN path
    /\ caller = "idle" => worker = "none"
    /\ caller \in {"idle", "pipe", "fork", "reap"} => ret # "0"
    /\ kids = IF caller \in {"close", "read", "reap"} \/ (caller = "answered" /\ ret = "0") THEN 1 ELSE 0

\* Closing an end leaves the table as it was before the end was opened.
LEMMA Closes ==
    ASSUME NEW r, NEW w, Taken(r), Taken(w), r # w
    PROVE  /\ Ninja!Close(WithBoth(r, w), w) = WithRead(r)
           /\ Ninja!Close(WithRead(r), r) = NinjaTable
           /\ Ninja!Close(Ninja!Close(WithBoth(r, w), r), w) = NinjaTable
<1> DEFINE D == DOMAIN NinjaTable
<1>1. NinjaTable = [d \in D |-> NinjaTable[d]]
  BY NinjaParameters DEF Ninja!NinjaAssumption
<1>2. /\ DOMAIN WithRead(r) = D /\ DOMAIN WithBoth(r, w) = D
      /\ \A d \in D : WithRead(r)[d] = IF d = r THEN Ninja!Private("read") ELSE NinjaTable[d]
      /\ \A d \in D : WithBoth(r, w)[d] = IF d = w THEN Ninja!Private("write") ELSE WithRead(r)[d]
  BY DEF WithRead, WithBoth
<1>3. ASSUME NEW t, DOMAIN t = D, t = [d \in D |-> t[d]], NEW n
      PROVE  Ninja!Close(t, n) = [d \in D |-> IF d = n THEN Ninja!Free ELSE t[d]]
  BY <1>3 DEF Ninja!Close
<1>4. /\ WithRead(r) = [d \in D |-> WithRead(r)[d]]
      /\ WithBoth(r, w) = [d \in D |-> WithBoth(r, w)[d]]
  BY DEF WithRead, WithBoth
<1>5. Ninja!Close(WithBoth(r, w), w) = [d \in D |-> IF d = w THEN Ninja!Free ELSE WithBoth(r, w)[d]]
  BY <1>2, <1>3, <1>4
<1>6. \A d \in D : (IF d = w THEN Ninja!Free ELSE WithBoth(r, w)[d]) = WithRead(r)[d]
  BY <1>2 DEF Taken
<1>7. Ninja!Close(WithBoth(r, w), w) = WithRead(r)
  BY <1>4, <1>5, <1>6
<1>8. Ninja!Close(WithRead(r), r) = NinjaTable
  <2>1. Ninja!Close(WithRead(r), r) = [d \in D |-> IF d = r THEN Ninja!Free ELSE WithRead(r)[d]]
    BY <1>2, <1>3, <1>4
  <2>2. \A d \in D : (IF d = r THEN Ninja!Free ELSE WithRead(r)[d]) = NinjaTable[d]
    BY <1>2 DEF Taken
  <2> QED
    BY <1>1, <2>1, <2>2
<1>9. Ninja!Close(Ninja!Close(WithBoth(r, w), r), w) = NinjaTable
  <2> DEFINE c == Ninja!Close(WithBoth(r, w), r)
  <2>1. c = [d \in D |-> IF d = r THEN Ninja!Free ELSE WithBoth(r, w)[d]]
    BY <1>2, <1>3, <1>4
  <2> HIDE DEF c
  <2>2. DOMAIN c = D /\ c = [d \in D |-> c[d]]
    BY <2>1
  <2>3. Ninja!Close(c, w) = [d \in D |-> IF d = w THEN Ninja!Free ELSE c[d]]
    BY <1>3, <2>2
  <2>4. \A d \in D : (IF d = w THEN Ninja!Free ELSE c[d]) = NinjaTable[d]
    BY <1>2, <2>1 DEF Taken
  <2>5. Ninja!Close(c, w) = NinjaTable
    BY <1>1, <2>3, <2>4
  <2> QED
    BY <2>5 DEF c
<1> QED
  BY <1>7, <1>8, <1>9

LEMMA PipeStep == PipeInv /\ Ninja!Next => PipeInv'
<1> SUFFICES ASSUME PipeInv, Ninja!Next PROVE PipeInv'
  OBVIOUS
<1> USE DEF PipeInv, Places, Ninja!Goto
<1>1. CASE Ninja!Call
  BY <1>1 DEF Ninja!Call
<1>2. CASE Ninja!NextDirectory
  BY <1>2 DEF Ninja!NextDirectory
<1>3. CASE Ninja!Return
  BY <1>3 DEF Ninja!Return
<1>4. CASE Ninja!MakePipe
  <2>1. CASE \A r, w \in Ninja!Unused(table) : r = w
    BY <1>4, <2>1 DEF Ninja!MakePipe
  <2>2. CASE \E r, w \in Ninja!Unused(table) : r # w
    <3> DEFINE U == Ninja!Unused(table)
               r == Ninja!Lowest(U)
               w == Ninja!Lowest(U \ {r})
    <3>1. table = NinjaTable /\ U = {d \in DOMAIN NinjaTable : NinjaTable[d] = Ninja!Free}
      BY <1>4 DEF Ninja!MakePipe, Ninja!Unused
    <3>2. U \in SUBSET Nat /\ U # {}
      BY <3>1, <2>2, NinjaParameters DEF Ninja!NinjaAssumption
    <3>3. r \in U
      BY <3>2, LowestIn
    <3>4. U \ {r} \in SUBSET Nat /\ U \ {r} # {}
      BY <3>2, <2>2
    <3>5. w \in U \ {r}
      BY <3>4, LowestIn
    <3> HIDE DEF r, w
    <3>6. /\ caller' = "fork" /\ pipe' = <<r, w>>
          /\ table' = [table EXCEPT ![r] = Ninja!Private("read"), ![w] = Ninja!Private("write")]
      BY <1>4, <2>2 DEF Ninja!MakePipe, r, w
    <3>7. Taken(r) /\ Taken(w) /\ r # w
      BY <3>1, <3>3, <3>5 DEF Taken
    <3>8. pipe'[1] = r /\ pipe'[2] = w
      BY <3>6
    <3> HIDE DEF U
    <3> QED
      BY <3>1, <3>6, <3>7, <3>8 DEF Taken, WithBoth, WithRead
  <2> QED
    BY <2>1, <2>2
<1>5. CASE Ninja!Fork
  BY <1>5, Closes DEF Ninja!Fork
<1>6. CASE Ninja!CloseWrite
  BY <1>6, Closes DEF Ninja!CloseWrite
<1>7. CASE Ninja!Read
  BY <1>7, Closes DEF Ninja!Read
<1>8. CASE Ninja!Reap
  BY <1>8 DEF Ninja!Reap
<1>9. CASE UNCHANGED <<caller, table, pipe>>
  BY <1>9 DEF Taken, WithBoth, WithRead
<1> QED
  BY <1>1, <1>2, <1>3, <1>4, <1>5, <1>6, <1>7, <1>8, <1>9
     DEF Ninja!Next, Ninja!Caller, Ninja!Child, Ninja!CloseRead, Ninja!SetAttributes, Ninja!ApplyAction,
         Ninja!Exec, Ninja!Report, Ninja!Exit, Ninja!Killed, Ninja!parentVars

LEMMA KidsStep == KidsInv /\ Ninja!Next => KidsInv'
<1> SUFFICES ASSUME KidsInv, Ninja!Next PROVE KidsInv'
  OBVIOUS
<1> USE DEF KidsInv, Ninja!Goto
<1>1. CASE Ninja!Call
  <2>1. path' \in Seq(STRING) /\ \A i \in DOMAIN path' : path'[i] # "0" /\ path'[i] # "-"
    BY <1>1, NinjaParameters DEF Ninja!Call, Ninja!NinjaAssumption
  <2>2. path' # << >> => 1 \in DOMAIN path'
    BY <2>1
  <2>3. worker' = "none" /\ kids = 0
    BY <1>1 DEF Ninja!Call, Ninja!childVars
  <2> QED
    BY <1>1, <2>1, <2>2, <2>3 DEF Ninja!Call, Ninja!childVars
<1>2. CASE Ninja!NextDirectory
  BY <1>2 DEF Ninja!NextDirectory, Ninja!childVars
<1>3. CASE Ninja!Return
  BY <1>3 DEF Ninja!Return, Ninja!childVars
<1>4. CASE Ninja!MakePipe
  BY <1>4 DEF Ninja!MakePipe, Ninja!childVars
<1>5. CASE Ninja!Fork
  BY <1>5 DEF Ninja!Fork, Ninja!childVars
<1>6. CASE Ninja!CloseWrite
  BY <1>6 DEF Ninja!CloseWrite, Ninja!childVars
<1>7. CASE Ninja!Read
  BY <1>7 DEF Ninja!Read, Ninja!childVars
<1>8. CASE Ninja!Reap
  BY <1>8 DEF Ninja!Reap, Ninja!Reaped, Ninja!childVars
<1>9. CASE Ninja!Child \/ Ninja!Killed
  BY <1>9
     DEF Ninja!Child, Ninja!CloseRead, Ninja!SetAttributes, Ninja!ApplyAction, Ninja!Exec, Ninja!Report,
         Ninja!Exit, Ninja!Killed, Ninja!parentVars, Ninja!Fails, Ninja!Apply
<1> QED
  BY <1>1, <1>2, <1>3, <1>4, <1>5, <1>6, <1>7, <1>8, <1>9 DEF Ninja!Next, Ninja!Caller

-----------------------------------------------------------------------------
(* NinjaSpawn implements Spawning *)

\* Caller and child together.  A child before its exec has the write end, so the
\* caller can be at end of file only when it runs or was killed.
SetsUp == {"started", "attributes", "actions"}
Waits  == {"close", "read"}
ChildInv ==
    /\ worker \in SetsUp \cup {"none", "failing", "exiting", "exited", "killed", "running"}
    /\ caller # "idle" => actions \in NinjaLists
    /\ caller = "idle" => worker = "none" /\ actions = Ninja!Uncalled
    /\ worker \in SetsUp \cup {"failing"} => caller \in Waits
    /\ worker = "exiting" => caller \in Waits \cup {"reap"}
    /\ caller \in Waits => worker # "none"
    /\ caller \in Waits /\ worker \in {"exiting", "exited"} => data # "-"
    /\ caller \in Waits /\ worker \in SetsUp \cup {"failing", "running"} => data = "-"
    /\ caller = "fork" => data = "-"
    /\ caller = "reap" => worker \in {"exiting", "exited", "killed"}
    /\ worker = "failing" => errno # "-"
    /\ worker = "running" => caller \in Waits \/ (caller \in {"answered", "returned"} /\ ret = "0")
    /\ ret = "0" => caller \in {"answered", "returned"} /\ worker \in {"running", "killed"}

\* The child's table is the one the list makes up to where it is, with the write
\* end of the pipe in a number that is free there.
Numbered     == [op : {"open", "close", "dup2"}, fd : Ninja!Open, src : Ninja!Open, file : STRING]
IsNinjas(t)  == /\ DOMAIN t = DOMAIN NinjaTable /\ t = [d \in DOMAIN NinjaTable |-> t[d]]
                /\ \A d \in DOMAIN NinjaTable : t[d] = Ninja!Free \/ t[d].file # "-"
WithWrite(t, w) == [t EXCEPT ![w] = Ninja!Private("write")]
Made         == Posix!After(NinjaTable, actions)
LeftInv == LET n == Len(actions) - Len(workerLeft) IN
    /\ workerLeft \in Seq(Numbered) /\ Len(workerLeft) <= Len(actions)
    /\ \A i \in 1..Len(workerLeft) : workerLeft[i] = actions[n + i]
    /\ IsNinjas(Made[n])
    /\ Made[n][pipe[1]] = Ninja!Free /\ Made[n][pipe[2]] = Ninja!Free
    /\ \A i \in 1..Len(workerLeft) :
         workerLeft[i].op = "close" => Made[n][workerLeft[i].fd] # Ninja!Free
    /\ workerFds = WithWrite(Made[n], pipe[2])
FdsInv ==
    /\ worker = "started" => workerFds = WithBoth(pipe[1], pipe[2]) /\ workerLeft = actions
    /\ worker \in {"attributes", "actions"} => LeftInv
    /\ worker \in SetsUp \cup {"failing"} => Ninja!HasWriteEnd(workerFds)

LEMMA Numbers ==
    ASSUME NEW acts \in NinjaLists
    PROVE  /\ acts \in Seq(Numbered) /\ Len(acts) \in Nat
           /\ acts # Ninja!Uncalled
           /\ \A i \in 1..Len(acts) :
                /\ acts[i].fd \in DOMAIN NinjaTable /\ NinjaTable[acts[i].fd] # Ninja!Free
                /\ acts[i].src \in DOMAIN NinjaTable /\ NinjaTable[acts[i].src] # Ninja!Free
                /\ acts[i].op \in {"open", "close", "dup2"}
                /\ acts[i].op = "open" => acts[i].file # "-"
                /\ acts[i].op = "dup2" => acts[i].src # acts[i].fd
           /\ \A i, j \in 1..Len(acts) :
                acts[i].op = "close" /\ acts[j].op = "close" /\ acts[i].fd = acts[j].fd => i = j
<1>1. Ninja!Sensible(acts)
  BY NinjaParameters DEF Ninja!NinjaAssumption
<1>2. acts \in Seq(Numbered) /\ Len(acts) \in Nat /\ DOMAIN acts = 1..Len(acts)
  BY <1>1 DEF Ninja!Sensible, Numbered
<1>3. \A i \in 1..Len(acts) : acts[i] \in Numbered
  BY <1>2
<1>4. \A a \in Numbered : /\ a.op \in {"open", "close", "dup2"}
                          /\ a.fd \in Ninja!Open /\ a.src \in Ninja!Open
  BY DEF Numbered
<1>5. acts # Ninja!Uncalled
  <2>1. CASE Len(acts) = 1
    <3>1. acts[1].op # "none"
      BY <1>3, <1>4, <2>1
    <3> QED
      BY <3>1 DEF Ninja!Uncalled
  <2>2. CASE Len(acts) # 1
    BY <2>2 DEF Ninja!Uncalled
  <2> QED
    BY <2>1, <2>2
<1>6. \A d \in Ninja!Open : d \in DOMAIN NinjaTable /\ NinjaTable[d] # Ninja!Free
  BY DEF Ninja!Open
<1> QED
  BY <1>1, <1>2, <1>3, <1>4, <1>5, <1>6 DEF Ninja!Sensible

\* Each action of the child does to its table what POSIX says of it, beside the
\* write end, and fails only where POSIX has no table.
LEMMA NinjaEffects ==
    ASSUME NEW t, IsNinjas(t), NEW w \in DOMAIN NinjaTable, t[w] = Ninja!Free,
           NEW a, a.fd \in DOMAIN NinjaTable, a.src \in DOMAIN NinjaTable, a.fd # w, a.src # w,
           a.op = "open" => a.file # "-",
           a.op = "dup2" => a.src # a.fd,
           NEW c, c = WithWrite(t, w)
    PROVE  LET e == Posix!Effect(t, a)
               f == Ninja!Lowest(Ninja!Unused(c))
               Keeps(u) == /\ u = WithWrite(e, w) /\ IsNinjas(e)
                           /\ \A d \in DOMAIN NinjaTable : d # a.fd => e[d] = t[d] IN
           /\ a.op = "open" /\ Ninja!Unused(c) # {} =>
                IF a.file = "missing" THEN e = Posix!Broken
                ELSE Keeps(Ninja!Moved([c EXCEPT ![f] = Ninja!OpenOn(a.file)], f, a)) /\ e[a.fd] # Ninja!Free
           /\ a.op = "close" =>
                (Ninja!Valid(c, a.fd) <=> t[a.fd] # Ninja!Free) /\ Keeps(Ninja!Close(c, a.fd))
           /\ a.op = "dup2" =>
                IF Ninja!CanDup(c, a.src, a.fd)
                THEN Keeps(Ninja!Dup(c, a.src, a.fd)) /\ e[a.fd] # Ninja!Free
                ELSE e = Posix!Broken
<1> DEFINE Dom == DOMAIN NinjaTable
           e == Posix!Effect(t, a)
           write == Ninja!Private("write")
<1> USE DEF IsNinjas
<1>0. t # Posix!Broken /\ Dom \subseteq Nat
  BY NinjaParameters DEF Ninja!NinjaAssumption, Posix!Broken
<1>1. DOMAIN c = Dom /\ c = [d \in Dom |-> IF d = w THEN write ELSE t[d]]
  BY DEF WithWrite
<1>2. write # Ninja!Free /\ \A x : x # "-" => Ninja!OpenOn(x) # Ninja!Free /\ Ninja!OpenOn(x).file = x
  BY DEF Ninja!Private, Ninja!Free, Ninja!OpenOn
<1>3. \A x : Posix!OpenOn(x) = Ninja!OpenOn(x)
  BY DEF Posix!OpenOn, Ninja!OpenOn
<1>4. Posix!Free = Ninja!Free
  BY DEF Posix!Free, Ninja!Free
<1> HIDE DEF write
<1>5. ASSUME a.op = "open", Ninja!Unused(c) # {}, a.file = "missing" PROVE e = Posix!Broken
  BY <1>0, <1>5 DEF Posix!Effect
\* Opening, closing or duplicating gives one number a new file.
<1>6. ASSUME NEW x, NEW u, x = Ninja!Free \/ x.file # "-",
             e = [t EXCEPT ![a.fd] = x], u = [c EXCEPT ![a.fd] = x]
      PROVE  /\ u = WithWrite(e, w) /\ IsNinjas(e) /\ e[a.fd] = x
             /\ \A d \in Dom : d # a.fd => e[d] = t[d]
  <2>1. /\ DOMAIN e = Dom /\ e = [d \in Dom |-> IF d = a.fd THEN x ELSE t[d]]
        /\ u = [d \in Dom |-> IF d = a.fd THEN x ELSE c[d]]
    BY <1>1, <1>6
  <2> HIDE DEF e
  <2>2. WithWrite(e, w) = [d \in Dom |-> IF d = w THEN write ELSE e[d]]
    BY <2>1 DEF WithWrite, write
  <2>3. \A d \in Dom : (IF d = a.fd THEN x ELSE c[d]) = IF d = w THEN write ELSE e[d]
    BY <1>1, <2>1
  <2>4. u = WithWrite(e, w)
    BY <2>1, <2>2, <2>3
  <2>5. \A d \in Dom : e[d] = Ninja!Free \/ e[d].file # "-"
    BY <1>6, <2>1
  <2> QED
    BY <2>1, <2>4, <2>5
<1>7. ASSUME a.op = "open", Ninja!Unused(c) # {}, a.file # "missing"
      PROVE  LET f == Ninja!Lowest(Ninja!Unused(c))
                 u == Ninja!Moved([c EXCEPT ![f] = Ninja!OpenOn(a.file)], f, a) IN
             /\ u = WithWrite(e, w) /\ IsNinjas(e) /\ e[a.fd] # Ninja!Free
             /\ \A d \in Dom : d # a.fd => e[d] = t[d]
  <2> DEFINE f == Ninja!Lowest(Ninja!Unused(c))
             x == Ninja!OpenOn(a.file)
             opened == [c EXCEPT ![f] = x]
             u == Ninja!Moved(opened, f, a)
  <2>1. Ninja!Unused(c) \in SUBSET Nat /\ Ninja!Unused(c) = {d \in Dom : c[d] = Ninja!Free}
    BY <1>0, <1>1 DEF Ninja!Unused
  <2>2. f \in Ninja!Unused(c)
    BY <1>7, <2>1, LowestIn
  <2>3. f \in Dom /\ c[f] = Ninja!Free
    BY <2>1, <2>2
  <2> HIDE DEF f
  <2>4. e = [t EXCEPT ![a.fd] = x]
    BY <1>0, <1>3, <1>7 DEF Posix!Effect
  <2>5. x # Ninja!Free /\ x.file # "-"
    BY <1>2, <1>7
  <2>6. u = [c EXCEPT ![a.fd] = x]
    <3>1. CASE f = a.fd
      BY <3>1 DEF Ninja!Moved
    <3>2. CASE f # a.fd
      <4> DEFINE moved == Ninja!Dup(opened, f, a.fd)
      <4>1. u = Ninja!Close(moved, f)
        BY <3>2 DEF Ninja!Moved
      <4>2. opened[f] = x /\ DOMAIN opened = Dom
        BY <1>1, <2>3
      <4>3. x.file = a.file
        BY <1>2, <1>7
      <4>4. moved = [d \in Dom |-> IF d = a.fd \/ d = f THEN x ELSE c[d]]
        BY <1>1, <2>3, <3>2, <4>2, <4>3 DEF Ninja!Dup
      <4> HIDE DEF moved
      <4>5. Ninja!Close(moved, f) = [d \in Dom |-> IF d = f THEN Ninja!Free ELSE moved[d]]
        BY <2>3, <4>4 DEF Ninja!Close
      <4>6. \A d \in Dom : (IF d = f THEN Ninja!Free ELSE moved[d]) = IF d = a.fd THEN x ELSE c[d]
        BY <2>3, <3>2, <4>4
      <4>7. [c EXCEPT ![a.fd] = x] = [d \in Dom |-> IF d = a.fd THEN x ELSE c[d]]
        BY <1>1
      <4> QED
        BY <4>1, <4>5, <4>6, <4>7
    <3> QED
      BY <3>1, <3>2
  <2> HIDE DEF u, x, e
  <2> QED
    BY <1>6, <2>4, <2>5, <2>6 DEF u, x, f
<1>8. ASSUME a.op = "close"
      PROVE  /\ Ninja!Valid(c, a.fd) <=> t[a.fd] # Ninja!Free
             /\ Ninja!Close(c, a.fd) = WithWrite(e, w) /\ IsNinjas(e)
             /\ \A d \in Dom : d # a.fd => e[d] = t[d]
  <2>1. e = [t EXCEPT ![a.fd] = Ninja!Free]
    BY <1>0, <1>4, <1>8 DEF Posix!Effect, Posix!Close
  <2>2. Ninja!Close(c, a.fd) = [c EXCEPT ![a.fd] = Ninja!Free]
    BY <1>1 DEF Ninja!Close
  <2>3. Ninja!Valid(c, a.fd) <=> t[a.fd] # Ninja!Free
    BY <1>1 DEF Ninja!Valid
  <2> HIDE DEF e
  <2> QED
    BY <1>6, <2>1, <2>2, <2>3
<1>9. c[a.src] = t[a.src] /\ (Ninja!CanDup(c, a.src, a.fd) <=> t[a.src] # Ninja!Free)
  BY <1>1 DEF Ninja!CanDup, Ninja!Valid
<1>10. ASSUME a.op = "dup2", Ninja!CanDup(c, a.src, a.fd)
       PROVE  /\ Ninja!Dup(c, a.src, a.fd) = WithWrite(e, w) /\ IsNinjas(e) /\ e[a.fd] # Ninja!Free
              /\ \A d \in Dom : d # a.fd => e[d] = t[d]
  <2> DEFINE x == Ninja!OpenOn(t[a.src].file)
  <2>1. t[a.src] # Ninja!Free /\ t[a.src].file # "-"
    BY <1>9, <1>10
  <2>2. Posix!CanDup(t, a.src, a.fd)
    BY <1>4, <2>1 DEF Posix!CanDup, Posix!Valid
  <2>3. e = [t EXCEPT ![a.fd] = x]
    BY <1>0, <1>3, <1>10, <2>2 DEF Posix!Effect
  <2>4. Ninja!Dup(c, a.src, a.fd) = [c EXCEPT ![a.fd] = x]
    BY <1>9, <1>10 DEF Ninja!Dup
  <2>5. x # Ninja!Free /\ x.file # "-"
    BY <1>2, <2>1
  <2> HIDE DEF e, x
  <2> QED
    BY <1>6, <2>3, <2>4, <2>5
<1>11. ASSUME a.op = "dup2", ~ Ninja!CanDup(c, a.src, a.fd) PROVE e = Posix!Broken
  <2>1. ~ Posix!CanDup(t, a.src, a.fd)
    BY <1>4, <1>9, <1>11 DEF Posix!CanDup, Posix!Valid
  <2> QED
    BY <1>0, <1>11, <2>1 DEF Posix!Effect
<1> HIDE DEF e
<1> QED
  BY <1>5, <1>7, <1>8, <1>10, <1>11 DEF e

\* A list that cannot be carried out at some action cannot be carried out.
LEMMA BrokenStays ==
    ASSUME NEW t, NEW acts, Len(acts) \in Nat, NEW k \in 0..Len(acts),
           Posix!After(t, acts)[k] = Posix!Broken
    PROVE  Posix!Requested(t, acts) = Posix!Broken
<1> DEFINE g == Posix!After(t, acts)
           S == {i \in Nat : i >= k /\ i <= Len(acts) /\ g[i] # Posix!Broken}
<1>1. ASSUME NEW n \in S PROVE \E m \in S : m < n
  <2>1. n # k /\ n \in 1..Len(acts) /\ n - 1 \in Nat /\ n - 1 >= k /\ n - 1 <= Len(acts) /\ n - 1 < n
    OBVIOUS
  <2> HIDE DEF g
  <2>2. g[n] = Posix!Effect(g[n - 1], acts[n])
    BY <2>1, Tables DEF g
  <2>3. g[n - 1] # Posix!Broken
    <3>1. \A a : Posix!Effect(Posix!Broken, a) = Posix!Broken
      BY DEF Posix!Effect, Posix!Close, Posix!CanDup, Posix!Broken
    <3> QED
      BY <2>2, <3>1
  <2>4. n - 1 \in S
    BY <2>1, <2>3
  <2> QED
    BY <2>1, <2>4
<1>2. S \in SUBSET Nat
  OBVIOUS
<1> HIDE DEF S
<1>3. S = {}
  BY <1>1, <1>2, NoLeast
<1>4. Len(acts) >= k /\ Len(acts) <= Len(acts)
  OBVIOUS
<1> HIDE DEF g
<1>5. g[Len(acts)] = Posix!Broken
  BY <1>3, <1>4 DEF S
<1> QED
  BY <1>5 DEF g, Posix!Requested

LEMMA WriteEnd ==
    ASSUME NEW t, DOMAIN t = DOMAIN NinjaTable, NEW w \in DOMAIN NinjaTable
    PROVE  Ninja!HasWriteEnd(WithWrite(t, w))
<1>1. DOMAIN WithWrite(t, w) = DOMAIN NinjaTable /\ WithWrite(t, w)[w].file = "write"
  BY DEF WithWrite, Ninja!Private
<1> QED
  BY <1>1 DEF Ninja!HasWriteEnd

\* A file action of the child is the next of the list: it makes the next table,
\* or fails where the list has none or for want of a number.
LEMMA NinjaApplies ==
    ASSUME PipeInv, ChildInv, FdsInv, Ninja!ApplyAction
    PROVE  LET n == Len(actions) - Len(workerLeft)
               a == Head(workerLeft) IN
           /\ LeftInv /\ actions \in NinjaLists /\ n \in Nat /\ n + 1 \in 1..Len(actions)
           /\ Taken(pipe[1]) /\ Taken(pipe[2]) /\ a = actions[n + 1]
           /\ Made[n + 1] = Posix!Effect(Made[n], a)
           /\ \/ /\ worker' = "failing" /\ UNCHANGED <<workerFds, workerLeft>> /\ errno' # "-"
                 /\ faulted' \/ Made[n + 1] = Posix!Broken
              \/ /\ UNCHANGED worker /\ workerLeft' = Tail(workerLeft)
                 /\ workerFds' = WithWrite(Made[n + 1], pipe[2])
                 /\ IsNinjas(Made[n + 1])
                 /\ \A d \in DOMAIN NinjaTable : d # a.fd => Made[n + 1][d] = Made[n][d]
                 /\ a.op # "close" => Made[n + 1][a.fd] # Ninja!Free
<1> DEFINE n == Len(actions) - Len(workerLeft)
           a == Head(workerLeft)
           t == Made[n]
           w == pipe[2]
           f == Ninja!Lowest(Ninja!Unused(workerFds))
<1>1. worker = "actions" /\ workerLeft # << >> /\ LeftInv /\ caller \in Waits
  BY DEF Ninja!ApplyAction, FdsInv, ChildInv, SetsUp
<1>2. actions \in NinjaLists
  BY <1>1 DEF ChildInv, Waits
<1>3. Len(actions) \in Nat
  BY <1>2, Numbers
<1>4. workerLeft \in Seq(Numbered) /\ Len(workerLeft) \in Nat /\ Len(workerLeft) # 0 /\ Len(workerLeft) <= Len(actions)
  BY <1>1 DEF LeftInv
<1>5. n \in Nat /\ n + 1 \in 1..Len(actions) /\ (n + 1) - 1 = n
  BY <1>3, <1>4
<1>6. a = actions[n + 1]
  BY <1>1, <1>4 DEF LeftInv
<1>7. Taken(pipe[1]) /\ Taken(pipe[2])
  BY <1>1 DEF PipeInv, Waits
<1>8. Made[n + 1] = Posix!Effect(t, a)
  <2>1. Made[n + 1] = Posix!Effect(Made[(n + 1) - 1], actions[n + 1])
    BY <1>3, <1>5, Tables DEF Made
  <2> QED
    BY <1>5, <1>6, <2>1
<1> HIDE DEF n
<1>9. /\ a.fd \in DOMAIN NinjaTable /\ NinjaTable[a.fd] # Ninja!Free
      /\ a.src \in DOMAIN NinjaTable /\ NinjaTable[a.src] # Ninja!Free
      /\ a.op \in {"open", "close", "dup2"}
      /\ a.op = "open" => a.file # "-"
      /\ a.op = "dup2" => a.src # a.fd
  BY <1>2, <1>5, <1>6, Numbers
<1>10. IsNinjas(t) /\ t[w] = Ninja!Free /\ workerFds = WithWrite(t, w)
  BY <1>1 DEF LeftInv, n
<1>11. w \in DOMAIN NinjaTable /\ a.fd # w /\ a.src # w
  BY <1>7, <1>9 DEF Taken
<1> DEFINE e == Posix!Effect(t, a)
           Keeps(u) == /\ u = WithWrite(e, w) /\ IsNinjas(e)
                       /\ \A d \in DOMAIN NinjaTable : d # a.fd => e[d] = t[d]
<1>12. \A i \in 1..Len(workerLeft) : workerLeft[i].op = "close" => t[workerLeft[i].fd] # Ninja!Free
  BY <1>1 DEF LeftInv, n
<1>13. a.op = "close" => t[a.fd] # Ninja!Free
  BY <1>4, <1>12
<1> HIDE DEF t, w, e, a
<1>14. /\ a.op = "open" /\ Ninja!Unused(workerFds) # {} =>
            IF a.file = "missing" THEN e = Posix!Broken
            ELSE Keeps(Ninja!Moved([workerFds EXCEPT ![f] = Ninja!OpenOn(a.file)], f, a)) /\ e[a.fd] # Ninja!Free
       /\ a.op = "close" =>
            (Ninja!Valid(workerFds, a.fd) <=> t[a.fd] # Ninja!Free) /\ Keeps(Ninja!Close(workerFds, a.fd))
       /\ a.op = "dup2" =>
            IF Ninja!CanDup(workerFds, a.src, a.fd)
            THEN Keeps(Ninja!Dup(workerFds, a.src, a.fd)) /\ e[a.fd] # Ninja!Free
            ELSE e = Posix!Broken
  BY <1>9, <1>10, <1>11, NinjaEffects DEF e
<1> DEFINE Fails == /\ worker' = "failing" /\ UNCHANGED <<workerFds, workerLeft>> /\ errno' # "-"
                    /\ faulted' \/ e = Posix!Broken
           Goes  == /\ UNCHANGED worker /\ workerLeft' = Tail(workerLeft)
                    /\ Keeps(workerFds')
                    /\ a.op # "close" => e[a.fd] # Ninja!Free
<1>15. Fails \/ Goes
  <2> HIDE DEF Keeps, f
  <2>1. CASE a.op = "open"
    <3>1. CASE Ninja!Unused(workerFds) = {}
      BY <2>1, <3>1, <1>9 DEF Ninja!ApplyAction, Ninja!Fails, a
    <3>2. CASE Ninja!Unused(workerFds) # {}
      BY <2>1, <3>2, <1>14 DEF Ninja!ApplyAction, Ninja!Fails, Ninja!Apply, a, f
    <3> QED
      BY <3>1, <3>2
  <2>2. CASE a.op = "close"
    BY <2>2, <1>13, <1>14 DEF Ninja!ApplyAction, Ninja!Fails, Ninja!Apply, a
  <2>3. CASE a.op = "dup2"
    BY <2>3, <1>14 DEF Ninja!ApplyAction, Ninja!Fails, Ninja!Apply, a
  <2> QED
    BY <1>9, <2>1, <2>2, <2>3
<1> QED
  BY <1>1, <1>2, <1>5, <1>6, <1>7, <1>8, <1>15 DEF n, a, t, w, e

LEMMA FdsStep == PipeInv /\ ChildInv /\ FdsInv /\ Ninja!Next => FdsInv'
<1> SUFFICES ASSUME PipeInv, ChildInv, FdsInv, Ninja!Next PROVE FdsInv'
  OBVIOUS
<1>1. CASE Ninja!Call \/ Ninja!MakePipe
  <2>1. worker' \notin SetsUp \cup {"failing"}
    BY <1>1 DEF Ninja!Call, Ninja!MakePipe, Ninja!childVars, ChildInv, SetsUp, Waits
  <2> QED
    BY <2>1 DEF FdsInv, SetsUp
<1>2. CASE UNCHANGED <<actions, pipe, worker, workerFds, workerLeft>>
  BY <1>2 DEF FdsInv, LeftInv, Made
<1>3. CASE Ninja!Fork
  <2>1. CASE UNCHANGED Ninja!childVars
    BY <1>3, <2>1, <1>2 DEF Ninja!Fork, Ninja!childVars
  <2>2. CASE worker' = "started" /\ workerFds' = table /\ workerLeft' = actions
    <3>1. UNCHANGED <<actions, pipe>> /\ table = WithBoth(pipe[1], pipe[2]) /\ Taken(pipe[1]) /\ Taken(pipe[2])
      BY <1>3 DEF Ninja!Fork, PipeInv
    <3>2. WithBoth(pipe[1], pipe[2]) = WithWrite(WithRead(pipe[1]), pipe[2])
      BY DEF WithBoth, WithWrite
    <3>3. Ninja!HasWriteEnd(table)
      BY <3>1, <3>2, WriteEnd DEF WithRead, Taken
    <3>4. Ninja!HasWriteEnd(workerFds')
      BY <2>2, <3>3 DEF Ninja!HasWriteEnd
    <3> QED
      BY <2>2, <3>1, <3>4 DEF FdsInv, SetsUp, WithBoth, WithRead
  <2> QED
    BY <1>3, <2>1, <2>2 DEF Ninja!Fork
<1>4. CASE Ninja!CloseRead
  <2> DEFINE r == pipe[1]
             w == pipe[2]
  <2>1. /\ worker = "started" /\ worker' = "attributes" /\ caller \in Waits /\ actions \in NinjaLists
        /\ workerFds = WithBoth(r, w) /\ workerLeft = actions /\ workerFds' = Ninja!Close(workerFds, r)
        /\ UNCHANGED <<actions, pipe, workerLeft>>
    BY <1>4 DEF Ninja!CloseRead, FdsInv, ChildInv, SetsUp, Waits, Ninja!parentVars
  <2>2. Taken(r) /\ Taken(w) /\ r # w
    BY <2>1 DEF PipeInv, Waits
  <2>3. /\ actions \in Seq(Numbered) /\ Len(actions) \in Nat
        /\ \A i \in 1..Len(actions) : actions[i].fd \in DOMAIN NinjaTable /\ NinjaTable[actions[i].fd] # Ninja!Free
    BY <2>1, Numbers
  <2>4. Made[0] = NinjaTable
    BY <2>3, Tables DEF Made
  <2>5. IsNinjas(NinjaTable)
    BY NinjaParameters DEF IsNinjas, Ninja!NinjaAssumption, Ninja!Open
  <2>6. workerFds' = WithWrite(NinjaTable, w)
    <3> DEFINE D == DOMAIN NinjaTable
    <3>1. WithBoth(r, w) = [d \in D |-> IF d = w THEN Ninja!Private("write")
                                        ELSE IF d = r THEN Ninja!Private("read") ELSE NinjaTable[d]]
      BY <2>2, <2>5 DEF WithBoth, WithRead, IsNinjas, Taken
    <3>2. WithWrite(NinjaTable, w) = [d \in D |-> IF d = w THEN Ninja!Private("write") ELSE NinjaTable[d]]
      BY <2>2, <2>5 DEF WithWrite, IsNinjas, Taken
    <3>3. NinjaTable[r] = Ninja!Free /\ r \in D
      BY <2>2 DEF Taken
    <3> QED
      BY <2>1, <2>2, <3>1, <3>2, <3>3 DEF Ninja!Close
  <2>7. Ninja!HasWriteEnd(WithWrite(NinjaTable, w))
    BY <2>2, WriteEnd DEF Taken
  <2>8. Ninja!HasWriteEnd(workerFds')
    BY <2>6, <2>7 DEF Ninja!HasWriteEnd
  <2>9. Len(actions) - Len(actions) = 0 /\ \A i \in 1..Len(actions) : 0 + i = i
    BY <2>3
  <2>10. LeftInv'
    <3>1. Made' = Made /\ workerLeft' = actions /\ actions' = actions /\ pipe' = pipe
      BY <2>1 DEF Made
    <3>2. WithWrite(Made[0], w) = workerFds'
      BY <2>4, <2>6
    <3> HIDE DEF r, w
    <3> QED
      BY <2>2, <2>3, <2>4, <2>5, <2>9, <3>1, <3>2 DEF LeftInv, Taken, r, w, IsNinjas
  <2> QED
    BY <2>1, <2>8, <2>10 DEF FdsInv
<1>5. CASE Ninja!SetAttributes
  BY <1>5 DEF Ninja!SetAttributes, Ninja!Fails, Ninja!parentVars, FdsInv, LeftInv, Made, SetsUp
<1>6. CASE Ninja!ApplyAction
  <2> DEFINE n == Len(actions) - Len(workerLeft)
             a == Head(workerLeft)
             e == Made[n + 1]
  <2>1. /\ LeftInv /\ actions \in NinjaLists /\ n \in Nat /\ n + 1 \in 1..Len(actions)
        /\ Taken(pipe[1]) /\ Taken(pipe[2]) /\ a = actions[n + 1]
    BY <1>6, NinjaApplies
  <2>2. worker = "actions" /\ workerLeft # << >> /\ UNCHANGED <<actions, pipe>>
    BY <1>6 DEF Ninja!ApplyAction, Ninja!parentVars
  <2>3. CASE worker' = "failing" /\ UNCHANGED <<workerFds, workerLeft>>
    <3>1. Ninja!HasWriteEnd(workerFds)
      BY <2>2 DEF FdsInv, SetsUp
    <3> QED
      BY <2>3, <3>1 DEF FdsInv, SetsUp, Ninja!HasWriteEnd
  <2>4. CASE /\ UNCHANGED worker /\ workerLeft' = Tail(workerLeft)
             /\ workerFds' = WithWrite(e, pipe[2])
             /\ IsNinjas(e)
             /\ \A d \in DOMAIN NinjaTable : d # a.fd => e[d] = Made[n][d]
             /\ a.op # "close" => e[a.fd] # Ninja!Free
    <3>1. workerLeft \in Seq(Numbered) /\ Len(workerLeft) \in Nat /\ Len(actions) \in Nat /\ Len(workerLeft) <= Len(actions)
      BY <2>1, Numbers DEF LeftInv
    <3>2. /\ workerLeft' \in Seq(Numbered) /\ Len(workerLeft') = Len(workerLeft) - 1
          /\ \A i \in 1..Len(workerLeft') : workerLeft'[i] = workerLeft[i + 1] /\ i + 1 \in 1..Len(workerLeft)
      BY <2>2, <2>4, <3>1
    <3>3. Len(actions') - Len(workerLeft') = n + 1 /\ Len(workerLeft') <= Len(actions')
      BY <2>2, <3>1, <3>2
    <3>4. \A i \in 1..Len(workerLeft) : workerLeft[i] = actions[n + i] /\ n + i \in 1..Len(actions)
      BY <2>1, <3>1 DEF LeftInv
    <3> HIDE DEF n
    <3>5. \A i \in 1..Len(workerLeft') : /\ workerLeft'[i] = actions[(n + 1) + i]
                                         /\ (n + 1) + i \in 1..Len(actions) /\ (n + 1) + i # n + 1
      <4>1. ASSUME NEW i \in 1..Len(workerLeft') PROVE n + (i + 1) = (n + 1) + i /\ (n + 1) + i # n + 1
        BY <2>1, <3>2
      <4> QED
        BY <3>2, <3>4, <4>1
    <3>6. /\ a.fd \in DOMAIN NinjaTable /\ NinjaTable[a.fd] # Ninja!Free
          /\ \A i \in 1..Len(actions) : actions[i].fd \in DOMAIN NinjaTable
          /\ \A i, j \in 1..Len(actions) :
               actions[i].op = "close" /\ actions[j].op = "close" /\ actions[i].fd = actions[j].fd => i = j
      BY <2>1, Numbers
    <3>7. /\ Made[n][pipe[1]] = Ninja!Free /\ Made[n][pipe[2]] = Ninja!Free
          /\ \A i \in 1..Len(workerLeft) :
               workerLeft[i].op = "close" => Made[n][workerLeft[i].fd] # Ninja!Free
      BY <2>1 DEF LeftInv, n
    <3> HIDE DEF a
    <3>8. e[pipe[1]] = Ninja!Free /\ e[pipe[2]] = Ninja!Free
      BY <2>1, <2>4, <3>6, <3>7 DEF Taken
    <3> HIDE DEF e
    <3>9. ASSUME NEW i \in 1..Len(workerLeft'), workerLeft'[i].op = "close"
          PROVE  e[workerLeft'[i].fd] # Ninja!Free
      <4>1. Made[n][workerLeft'[i].fd] # Ninja!Free
        BY <3>2, <3>7, <3>9
      <4>2. workerLeft'[i].fd \in DOMAIN NinjaTable
        BY <3>5, <3>6
      <4>3. CASE workerLeft'[i].fd # a.fd
        BY <2>4, <4>1, <4>2, <4>3
      <4>4. CASE workerLeft'[i].fd = a.fd
        <5>1. a.op # "close"
          BY <2>1, <3>5, <3>6, <3>9, <4>4
        <5> QED
          BY <2>4, <4>4, <5>1
      <4> QED
        BY <4>3, <4>4
    <3>10. LeftInv'
      <4>1. Made' = Made /\ Made'[n + 1] = e
        BY <2>2 DEF Made, e
      <4> HIDE DEF e
      <4> QED
        BY <2>2, <2>4, <3>2, <3>3, <3>5, <3>8, <3>9, <4>1 DEF LeftInv, IsNinjas
    <3>11. Ninja!HasWriteEnd(WithWrite(e, pipe[2]))
      BY <2>1, <2>4, WriteEnd DEF IsNinjas, Taken
    <3>12. Ninja!HasWriteEnd(workerFds')
      BY <2>4, <3>11 DEF Ninja!HasWriteEnd
    <3> QED
      BY <2>2, <2>4, <3>10, <3>12 DEF FdsInv
  <2>5. \/ worker' = "failing" /\ UNCHANGED <<workerFds, workerLeft>>
        \/ /\ UNCHANGED worker /\ workerLeft' = Tail(workerLeft)
           /\ workerFds' = WithWrite(e, pipe[2])
           /\ IsNinjas(e)
           /\ \A d \in DOMAIN NinjaTable : d # a.fd => e[d] = Made[n][d]
           /\ a.op # "close" => e[a.fd] # Ninja!Free
    BY <1>6, NinjaApplies
  <2> QED
    BY <2>3, <2>4, <2>5
<1>7. CASE Ninja!Exec
  BY <1>7 DEF Ninja!Exec, Ninja!Fails, FdsInv, SetsUp, Ninja!HasWriteEnd
<1>8. CASE Ninja!Report \/ Ninja!Exit \/ Ninja!Killed
  BY <1>8 DEF Ninja!Report, Ninja!Exit, Ninja!Killed, FdsInv, SetsUp
<1> QED
  BY <1>1, <1>2, <1>3, <1>4, <1>5, <1>6, <1>7, <1>8
     DEF Ninja!Next, Ninja!Caller, Ninja!Child, Ninja!NextDirectory, Ninja!Return, Ninja!CloseWrite,
         Ninja!Read, Ninja!Reap, Ninja!childVars

LEMMA ChildStep == KidsInv /\ ChildInv /\ FdsInv /\ Ninja!Next => ChildInv'
<1> SUFFICES ASSUME KidsInv, ChildInv, FdsInv, Ninja!Next PROVE ChildInv'
  OBVIOUS
<1> USE DEF ChildInv, SetsUp, Waits, Ninja!Goto
<1>1. CASE Ninja!Call
  BY <1>1 DEF Ninja!Call, Ninja!childVars, KidsInv
<1>2. CASE Ninja!NextDirectory
  BY <1>2 DEF Ninja!NextDirectory, Ninja!childVars
<1>3. CASE Ninja!Return
  BY <1>3 DEF Ninja!Return, Ninja!childVars
<1>4. CASE Ninja!MakePipe
  BY <1>4 DEF Ninja!MakePipe, Ninja!childVars
<1>5. CASE Ninja!Fork
  BY <1>5 DEF Ninja!Fork, Ninja!childVars, KidsInv
<1>6. CASE Ninja!CloseWrite
  BY <1>6 DEF Ninja!CloseWrite, Ninja!childVars
\* At end of file nobody has the write end: the child is not before its exec.
<1>7. CASE Ninja!Read
  <2>1. CASE data = "-"
    <3>1. ~ Ninja!HasWriteEnd(workerFds)
      BY <1>7, <2>1 DEF Ninja!Read, Ninja!EndOfFile
    <3>2. worker \in {"running", "killed"}
      BY <1>7, <2>1, <3>1 DEF Ninja!Read, FdsInv
    <3> QED
      BY <1>7, <2>1, <3>2 DEF Ninja!Read, Ninja!childVars
  <2>2. CASE data # "-"
    BY <1>7, <2>2 DEF Ninja!Read, Ninja!childVars, KidsInv
  <2> QED
    BY <2>1, <2>2
<1>8. CASE Ninja!Reap
  BY <1>8 DEF Ninja!Reap, Ninja!childVars, Ninja!Exited
<1>9. CASE Ninja!CloseRead \/ Ninja!SetAttributes \/ Ninja!Report \/ Ninja!Exit \/ Ninja!Killed
  BY <1>9 DEF Ninja!CloseRead, Ninja!SetAttributes, Ninja!Report, Ninja!Exit, Ninja!Killed, Ninja!Fails,
              Ninja!parentVars
<1>10. CASE Ninja!ApplyAction
  BY <1>10 DEF Ninja!ApplyAction, Ninja!Fails, Ninja!Apply, Ninja!parentVars
<1>11. CASE Ninja!Exec
  <2>1. path[dir] # "-"
    BY <1>11 DEF Ninja!Exec, KidsInv
  <2> QED
    BY <1>11, <2>1 DEF Ninja!Exec, Ninja!Fails, Ninja!parentVars
<1> QED
  BY <1>1, <1>2, <1>3, <1>4, <1>5, <1>6, <1>7, <1>8, <1>9, <1>10, <1>11
     DEF Ninja!Next, Ninja!Caller, Ninja!Child

\* Where the search of PATH is, while nothing but a directory has made it fail.
Good == ~ faulted /\ Posix!Requested(NinjaTable, actions) # Posix!Broken
SearchInv ==
    /\ \A i \in 1..(dir - 1) : path[i] # "ok"
    /\ caller \in Waits \cup {"reap"} /\ worker \in {"failing", "exiting", "exited"} => path[dir] # "ok"
    /\ caller \in {"answered", "returned"} /\ ret # "0" => path = << >> \/ path[dir] # "ok"
    /\ worker = "running" => path[dir] = "ok"
    /\ worker # "killed"
PathInv ==
    /\ caller # "idle" /\ path # << >> => dir \in 1..Len(path)
    /\ path = << >> => caller \in {"idle", "answered", "returned"}
    /\ caller = "returned" /\ ret # "0" => dir >= Len(path)
    /\ Good /\ caller # "idle" => SearchInv

LEMMA PathStep ==
    PipeInv /\ KidsInv /\ ChildInv /\ FdsInv /\ PathInv /\ Ninja!Next => PathInv'
<1> SUFFICES ASSUME PipeInv, KidsInv, ChildInv, FdsInv, PathInv, Ninja!Next PROVE PathInv'
  OBVIOUS
<1> USE DEF Ninja!Goto
<1>0. dir \in Nat /\ path \in Seq(STRING) /\ Len(path) \in Nat
  BY DEF KidsInv
<1>1. ASSUME UNCHANGED actions, Good', faulted => faulted' PROVE Good
  BY <1>1 DEF Good
<1>2. CASE Ninja!Call
  <2>1. dir' = 1 /\ worker' = "none" /\ path' \in Seq(STRING)
    BY <1>2, NinjaParameters DEF Ninja!Call, Ninja!childVars, ChildInv, Ninja!NinjaAssumption
  <2>2. path' # << >> => 1 \in 1..Len(path')
    BY <2>1
  <2> QED
    BY <1>2, <2>1, <2>2 DEF Ninja!Call, PathInv, SearchInv
<1>3. CASE Ninja!NextDirectory
  <2>1. /\ caller = "answered" /\ caller' = "pipe" /\ dir' = dir + 1 /\ dir < Len(path) /\ ret # "0"
        /\ UNCHANGED <<actions, path, worker, faulted>>
    BY <1>3 DEF Ninja!NextDirectory, Ninja!childVars
  <2>2. path # << >> /\ dir' \in 1..Len(path)
    BY <1>0, <2>1
  <2>3. worker # "running"
    BY <2>1 DEF ChildInv, Waits
  <2>4. Good' => SearchInv
    BY <1>1, <2>1 DEF PathInv
  <2>5. \A i \in 1..(dir' - 1) : i \in 1..(dir - 1) \/ i = dir
    BY <1>0, <2>1
  <2> QED
    BY <2>1, <2>2, <2>3, <2>4, <2>5 DEF PathInv, SearchInv, Waits
<1>4. CASE Ninja!Return
  <2>1. /\ caller = "answered" /\ caller' = "returned" /\ (ret = "0" \/ dir >= Len(path))
        /\ UNCHANGED <<actions, path, dir, ret, worker, faulted>>
    BY <1>4 DEF Ninja!Return, Ninja!childVars
  <2>2. Good' => SearchInv
    BY <1>1, <2>1 DEF PathInv
  <2> QED
    BY <2>1, <2>2 DEF PathInv, SearchInv, Waits
<1>5. CASE Ninja!MakePipe
  <2>1. /\ caller = "pipe" /\ UNCHANGED <<actions, path, dir, worker>> /\ worker # "running"
        /\ \/ caller' = "answered" /\ faulted'
           \/ caller' = "fork" /\ UNCHANGED faulted
    BY <1>5 DEF Ninja!MakePipe, Ninja!childVars, ChildInv, Waits
  <2>2. Good' => SearchInv /\ caller' = "fork"
    BY <1>1, <2>1 DEF PathInv, Good
  <2> QED
    BY <2>1, <2>2 DEF PathInv, SearchInv, Waits
<1>6. CASE Ninja!Fork
  <2>1. /\ caller = "fork" /\ UNCHANGED <<actions, path, dir>>
        /\ \/ caller' = "answered" /\ faulted'
           \/ caller' = "close" /\ worker' = "started" /\ UNCHANGED faulted
    BY <1>6 DEF Ninja!Fork
  <2>2. Good' => SearchInv /\ worker' = "started" /\ caller' = "close"
    BY <1>1, <2>1 DEF PathInv, Good
  <2> QED
    BY <2>1, <2>2 DEF PathInv, SearchInv
<1>7. CASE Ninja!CloseWrite
  <2>1. /\ caller = "close" /\ caller' = "read" /\ UNCHANGED <<actions, path, dir, worker, faulted>>
    BY <1>7 DEF Ninja!CloseWrite, Ninja!childVars
  <2>2. Good' => SearchInv
    BY <1>1, <2>1 DEF PathInv
  <2> QED
    BY <2>1, <2>2 DEF PathInv, SearchInv, Waits
<1>8. CASE Ninja!Read
  <2>1. /\ caller = "read" /\ UNCHANGED <<actions, path, dir, worker, faulted>>
        /\ \/ caller' = "answered" /\ ret' = "0"
           \/ caller' = "reap" /\ data # "-"
    BY <1>8 DEF Ninja!Read, Ninja!childVars
  <2>2. Good' => SearchInv
    BY <1>1, <2>1 DEF PathInv
  <2> QED
    BY <2>1, <2>2 DEF PathInv, SearchInv, Waits
<1>9. CASE Ninja!Reap
  <2>1. /\ caller = "reap" /\ caller' = "answered" /\ worker \in {"exited", "killed"}
        /\ UNCHANGED <<actions, path, dir, worker, faulted>>
    BY <1>9 DEF Ninja!Reap, Ninja!childVars, Ninja!Exited
  <2>2. Good' => SearchInv
    BY <1>1, <2>1 DEF PathInv
  <2> QED
    BY <2>1, <2>2 DEF PathInv, SearchInv, Waits
<1> DEFINE ChildMoves == /\ worker # "none" /\ UNCHANGED <<actions, path, caller, dir, ret>>
                         /\ faulted => faulted'
                         /\ caller # "idle"
<1>10. ASSUME ChildMoves, Good' => SearchInv' PROVE PathInv'
  BY <1>10 DEF PathInv
<1>11. ASSUME ChildMoves, Good' PROVE SearchInv
  BY <1>1, <1>11 DEF PathInv
<1>12. CASE Ninja!CloseRead \/ Ninja!Exit \/ Ninja!Report
  <2>1. ChildMoves
    BY <1>12 DEF Ninja!CloseRead, Ninja!Exit, Ninja!Report, Ninja!parentVars, ChildInv
  <2>2. ASSUME Good' PROVE SearchInv'
    BY <1>11, <1>12, <2>1, <2>2
       DEF Ninja!CloseRead, Ninja!Exit, Ninja!Report, SearchInv, ChildInv, SetsUp, Waits
  <2> QED
    BY <1>10, <2>1, <2>2
<1>13. CASE Ninja!SetAttributes
  <2>1. ChildMoves /\ (faulted' \/ worker' = "actions")
    BY <1>13 DEF Ninja!SetAttributes, Ninja!parentVars, ChildInv, Ninja!Fails
  <2>2. ASSUME Good' PROVE SearchInv'
    BY <1>11, <2>1, <2>2 DEF SearchInv, Good
  <2> QED
    BY <1>10, <2>1, <2>2
<1>14. CASE Ninja!ApplyAction
  <2> DEFINE n == Len(actions) - Len(workerLeft)
  <2>1. ChildMoves
    BY <1>14 DEF Ninja!ApplyAction, Ninja!parentVars, ChildInv
  <2>2. /\ actions \in NinjaLists /\ n + 1 \in 1..Len(actions)
        /\ UNCHANGED worker \/ faulted' \/ Made[n + 1] = Posix!Broken
    BY <1>14, NinjaApplies
  <2>3. Len(actions) \in Nat /\ n + 1 \in 0..Len(actions)
    BY <2>2, Numbers
  <2> HIDE DEF n
  <2>4. Made[n + 1] = Posix!Broken => Posix!Requested(NinjaTable, actions) = Posix!Broken
    BY <2>3, BrokenStays DEF Made
  <2>5. ASSUME Good' PROVE SearchInv'
    BY <1>11, <2>1, <2>2, <2>4, <2>5 DEF SearchInv, Good
  <2> QED
    BY <1>10, <2>1, <2>5
<1>15. CASE Ninja!Exec
  <2>1. ChildMoves
    BY <1>15 DEF Ninja!Exec, Ninja!parentVars, ChildInv
  <2>2. /\ caller \in Waits
        /\ \/ worker' = "running" /\ path[dir] = "ok"
           \/ worker' = "failing" /\ path[dir] # "ok"
    BY <1>15 DEF Ninja!Exec, Ninja!Fails, ChildInv, SetsUp
  <2>3. ASSUME Good' PROVE SearchInv'
    BY <1>11, <2>1, <2>2, <2>3 DEF SearchInv, Waits
  <2> QED
    BY <1>10, <2>1, <2>3
<1>16. CASE Ninja!Killed
  <2>1. ChildMoves /\ faulted'
    BY <1>16 DEF Ninja!Killed, Ninja!parentVars, ChildInv
  <2> QED
    BY <1>10, <2>1 DEF Good
<1> QED
  BY <1>2, <1>3, <1>4, <1>5, <1>6, <1>7, <1>8, <1>9, <1>12, <1>13, <1>14, <1>15, <1>16
     DEF Ninja!Next, Ninja!Caller, Ninja!Child

\* Each step of caller or child is one of the promise's, or none.
LEMMA NinjaMoves ==
    ASSUME PipeInv, KidsInv, ChildInv, FdsInv, Ninja!Next
    PROVE  Ninja!Contract!Next \/ UNCHANGED Ninja!Contract!vars
<1> USE DEF Ninja!Contract!vars, Ninja!Contract!Next, Ninja!Goto, Ninja!Ended
<1>0. /\ Ninja!Contract!NoProgram = [st |-> "none", fds |-> Ninja!Broken]
      /\ Ninja!Contract!Lost = [st |-> "dead", fds |-> Ninja!Broken]
      /\ Ninja!Contract!Uncalled = Ninja!Uncalled
  BY DEF Ninja!Contract!NoProgram, Ninja!Contract!Lost, Ninja!Contract!Broken, Ninja!Broken,
         Ninja!Contract!Uncalled, Ninja!Uncalled
<1>1. \A acts \in NinjaLists : acts # Ninja!Contract!Uncalled
  BY <1>0, Numbers
<1>2. caller # "idle" => actions # Ninja!Contract!Uncalled
  BY <1>1 DEF ChildInv
\* What the promise sees as the answer and as the program.
<1> DEFINE Silent == caller # "returned" /\ caller' # "returned" /\ UNCHANGED actions
           None   == worker # "running" /\ ~ (worker = "killed" /\ ret = "0")
<1>3. ASSUME Silent, None, None' PROVE UNCHANGED Ninja!Contract!vars
  BY <1>3
<1>4. CASE Ninja!Call
  <2>1. /\ caller = "idle" /\ actions = Ninja!Contract!Uncalled /\ actions' # Ninja!Contract!Uncalled
        /\ caller' # "returned" /\ worker = "none" /\ worker' = "none"
    BY <1>0, <1>1, <1>4 DEF Ninja!Call, Ninja!childVars, ChildInv
  <2>2. Ninja!Contract!Ask
    BY <2>1 DEF Ninja!Contract!Ask
  <2> QED
    BY <2>2
<1>5. CASE Ninja!NextDirectory
  <2>1. Silent /\ None /\ None'
    BY <1>5 DEF Ninja!NextDirectory, Ninja!childVars, ChildInv, Waits
  <2> QED
    BY <1>3, <2>1
<1>6. CASE Ninja!Return
  <2>1. /\ caller = "answered" /\ caller' = "returned"
        /\ UNCHANGED <<actions, ret, worker, workerFds>>
    BY <1>6 DEF Ninja!Return, Ninja!childVars
  <2>2. CASE ret = "0"
    <3>1. worker \in {"running", "killed"}
      BY <2>2 DEF ChildInv
    <3>2. Ninja!Contract!Succeed
      BY <1>0, <1>2, <2>1, <2>2, <3>1 DEF Ninja!Contract!Succeed
    <3> QED
      BY <3>2
  <2>3. CASE ret # "0"
    <3>1. worker # "running"
      BY <2>1, <2>3 DEF ChildInv, Waits
    <3>2. Ninja!Contract!Refuse
      BY <1>0, <1>2, <2>1, <2>3, <3>1 DEF Ninja!Contract!Refuse
    <3> QED
      BY <3>2
  <2> QED
    BY <2>2, <2>3
<1>7. CASE Ninja!MakePipe \/ Ninja!Fork
  <2>1. Silent /\ None /\ None'
    BY <1>7 DEF Ninja!MakePipe, Ninja!Fork, Ninja!childVars, ChildInv, KidsInv, Waits
  <2> QED
    BY <1>3, <2>1
<1>8. CASE Ninja!CloseWrite \/ Ninja!Reap
  BY <1>8 DEF Ninja!CloseWrite, Ninja!Reap, Ninja!childVars
<1>9. CASE Ninja!Read
  <2>1. /\ caller = "read" /\ Silent /\ ret # "0" /\ UNCHANGED <<worker, workerFds>>
        /\ ret' = IF data = "-" THEN "0" ELSE data
    BY <1>9 DEF Ninja!Read, Ninja!childVars, ChildInv
  <2>2. CASE worker = "killed" /\ data = "-"
    <3>1. Ninja!Contract!Lose
      BY <1>0, <1>2, <2>1, <2>2 DEF Ninja!Contract!Lose
    <3> QED
      BY <3>1
  <2>3. CASE worker = "running"
    BY <2>1, <2>3
  <2>4. CASE worker # "running" /\ ~ (worker = "killed" /\ data = "-")
    <3>1. None /\ None'
      BY <2>1, <2>4 DEF KidsInv
    <3> QED
      BY <1>3, <2>1, <3>1
  <2> QED
    BY <2>2, <2>3, <2>4
<1>10. CASE Ninja!CloseRead \/ Ninja!SetAttributes \/ Ninja!Report \/ Ninja!Exit \/ Ninja!Killed
  <2>1. Silent /\ None /\ None'
    BY <1>10
       DEF Ninja!CloseRead, Ninja!SetAttributes, Ninja!Report, Ninja!Exit, Ninja!Killed, Ninja!Fails,
           Ninja!parentVars, ChildInv, SetsUp, Waits
  <2> QED
    BY <1>3, <2>1
<1>11. CASE Ninja!ApplyAction
  <2>1. Silent /\ None /\ None'
    BY <1>11 DEF Ninja!ApplyAction, Ninja!Fails, Ninja!Apply, Ninja!parentVars, ChildInv, SetsUp, Waits
  <2> QED
    BY <1>3, <2>1
<1>12. CASE Ninja!Exec
  <2>1. Silent /\ None /\ caller \in Waits /\ ret # "0" /\ UNCHANGED ret /\ UNCHANGED caller
    BY <1>12 DEF Ninja!Exec, Ninja!parentVars, ChildInv, SetsUp, Waits
  <2>2. CASE worker' = "failing"
    BY <1>3, <2>1, <2>2
  <2>3. CASE worker' = "running" /\ workerFds' = Ninja!AfterExec(workerFds)
    <3> DEFINE t == Posix!Requested(NinjaTable, actions)
               w == pipe[2]
    <3>1. workerLeft = << >> /\ LeftInv /\ actions \in NinjaLists /\ Taken(w)
      BY <1>12, <2>1 DEF Ninja!Exec, FdsInv, ChildInv, PipeInv, Waits
    <3>2. Len(actions) \in Nat /\ Len(workerLeft) = 0
      BY <3>1, Numbers
    <3>3. Len(actions) - Len(workerLeft) = Len(actions)
      BY <3>2
    <3>4. IsNinjas(t) /\ t[w] = Ninja!Free /\ workerFds = WithWrite(t, w)
      BY <3>1, <3>3 DEF LeftInv, Made, Posix!Requested
    <3>5. t = Ninja!Contract!Requested(NinjaTable, actions)
      BY SameTables
    <3> HIDE DEF t, w
    <3>6. t # Ninja!Contract!Broken
      BY <3>4, NinjaParameters DEF Ninja!Contract!Broken, Ninja!NinjaAssumption, IsNinjas
    <3>7. workerFds' = Ninja!Contract!AfterExec(t)
      <4> DEFINE D == DOMAIN NinjaTable
      <4>1. workerFds = [d \in D |-> IF d = w THEN Ninja!Private("write") ELSE t[d]]
        BY <3>1, <3>4 DEF WithWrite, IsNinjas, Taken
      <4>2. Ninja!AfterExec(workerFds) = [d \in D |-> IF d = w THEN Ninja!Free
                                                      ELSE IF t[d].cloexec THEN Ninja!Free ELSE t[d]]
        BY <4>1 DEF Ninja!AfterExec, Ninja!Private
      <4>3. Ninja!Contract!AfterExec(t) = [d \in D |-> IF t[d].cloexec THEN Ninja!Free ELSE t[d]]
        BY <3>4 DEF Ninja!Contract!AfterExec, Ninja!Contract!Free, Ninja!Free, IsNinjas
      <4>4. \A d \in D : d = w => (IF t[d].cloexec THEN Ninja!Free ELSE t[d]) = Ninja!Free
        BY <3>4
      <4> QED
        BY <2>3, <4>2, <4>3, <4>4
    <3>8. Ninja!Contract!Run
      BY <1>0, <1>2, <2>1, <2>3, <3>5, <3>6, <3>7 DEF Ninja!Contract!Run, Waits
    <3> QED
      BY <3>8
  <2> QED
    BY <1>12, <2>2, <2>3 DEF Ninja!Exec, Ninja!Fails
<1> QED
  BY <1>4, <1>5, <1>6, <1>7, <1>8, <1>9, <1>10, <1>11, <1>12 DEF Ninja!Next, Ninja!Caller, Ninja!Child

NinjaInv == PipeInv /\ KidsInv /\ ChildInv /\ FdsInv /\ PathInv

LEMMA NinjaStart == Starts => NinjaInv
BY DEF Starts, Ninja!Init, NinjaInv, PipeInv, KidsInv, Places, ChildInv, FdsInv, PathInv, SetsUp, Waits

LEMMA NinjaHolds == Parts => []NinjaInv
<1>1. NinjaInv /\ [OnePart]_allVars => NinjaInv'
  <2>1. CASE Ninja!Next
    BY <2>1, PipeStep, KidsStep, ChildStep, FdsStep, PathStep DEF NinjaInv
  <2>2. CASE UNCHANGED ninjaVars
    BY <2>2 DEF NinjaInv, PipeInv, KidsInv, Taken, WithBoth, WithRead, ninjaVars, ChildInv, FdsInv, LeftInv,
                Made, IsNinjas, WithWrite, Ninja!HasWriteEnd, PathInv, SearchInv, Good
  <2>3. [OnePart]_allVars => Ninja!Next \/ UNCHANGED ninjaVars
    BY DEF OnePart, OthersStay, allVars
  <2> QED
    BY <2>1, <2>2, <2>3
<1> QED
  BY <1>1, NinjaStart, PTL DEF Parts

\* FirstInPath, from where the search is.
LEMMA NinjaSearches == NinjaInv => Ninja!FirstInPath
<1> SUFFICES ASSUME NinjaInv, caller = "returned", ~ faulted,
                    Ninja!Requested(NinjaTable, actions) # Ninja!Broken
             PROVE  IF \E i \in DOMAIN path : path[i] = "ok"
                    THEN ret = "0" /\ worker = "running" /\ \A i \in 1..dir : path[i] = "ok" <=> i = dir
                    ELSE ret # "0"
  BY DEF Ninja!FirstInPath, Ninja!Ended
<1>1. Good
  <2>1. Ninja!Broken = Posix!Broken
    BY DEF Ninja!Broken, Posix!Broken
  <2> QED
    BY <2>1, SameTables DEF Good
<1>2. SearchInv /\ dir \in Nat /\ path \in Seq(STRING) /\ Len(path) \in Nat /\ DOMAIN path = 1..Len(path)
  BY <1>1 DEF NinjaInv, PathInv, KidsInv
<1>3. ret = "0" => worker = "running" /\ path[dir] = "ok" /\ dir \in DOMAIN path
  BY <1>2 DEF NinjaInv, ChildInv, KidsInv, SearchInv
<1>4. CASE ret = "0"
  <2>1. \A i \in 1..dir : i \in 1..(dir - 1) \/ i = dir
    BY <1>2
  <2>2. \A i \in 1..dir : path[i] = "ok" <=> i = dir
    <3>1. \A i \in 1..(dir - 1) : i # dir
      BY <1>2
    <3> QED
      BY <1>2, <1>3, <1>4, <2>1, <3>1 DEF SearchInv
  <2> QED
    BY <1>3, <1>4, <2>2
\* The search has failed in the last directory as in those before it.
<1>5. CASE ret # "0"
  <2>1. path # << >> => dir \in 1..Len(path) /\ dir >= Len(path) /\ path[dir] # "ok"
    BY <1>2, <1>5 DEF NinjaInv, PathInv, SearchInv
  <2>2. ASSUME NEW i \in DOMAIN path PROVE path[i] # "ok"
    <3>1. path # << >>
      BY <1>2
    <3>2. i \in 1..(dir - 1) \/ i = dir
      BY <1>2, <2>1, <3>1
    <3> QED
      BY <1>2, <2>1, <3>1, <3>2 DEF SearchInv
  <2> QED
    BY <1>5, <2>2
<1> QED
  BY <1>4, <1>5

\* The CMake build's posix_spawnp implements Spawning, for any table, any of
\* ninja's lists and any PATH: 0 is answered only when the program runs with
\* exactly the descriptors asked for, neither end of the pipe among them, or its
\* process was killed, an error only when nothing runs, and what runs is the
\* program of the first directory that has one.
THEOREM PartsNinjaIsSpawn == Parts => NinjaIsSpawn
<1>1. Starts => Ninja!Contract!Init
  <2> SUFFICES ASSUME Ninja!Init PROVE Ninja!Contract!Init
    BY DEF Starts
  <2>1. Ninja!Contract!NoProgram = [st |-> "none", fds |-> Ninja!Broken]
    BY DEF Ninja!Contract!NoProgram, Ninja!Broken, Ninja!Contract!Broken
  <2>2. Ninja!Contract!Uncalled = Ninja!Uncalled
    BY DEF Ninja!Contract!Uncalled, Ninja!Uncalled
  <2> QED
    BY <2>1, <2>2 DEF Ninja!Init, Ninja!Ended, Ninja!Contract!Init
<1>2. NinjaInv /\ [OnePart]_allVars => [Ninja!Contract!Next]_(Ninja!Contract!vars)
  <2>1. CASE Ninja!Next
    BY <2>1, NinjaMoves DEF NinjaInv
  <2>2. CASE UNCHANGED ninjaVars
    BY <2>2 DEF ninjaVars, Ninja!Contract!vars, Ninja!Ended
  <2>3. [OnePart]_allVars => Ninja!Next \/ UNCHANGED ninjaVars
    BY DEF OnePart, OthersStay, allVars
  <2> QED
    BY <2>1, <2>2, <2>3
<1> QED
  BY <1>1, <1>2, NinjaHolds, NinjaSearches, PTL DEF Parts, NinjaIsSpawn, Ninja!NinjaIsSpawn, Ninja!Contract!Spec

-----------------------------------------------------------------------------
(* What the four parts give back *)

\* Ninja's descriptors and children, the pipes and checkers of faccessat, what
\* usb_open holds and the scan's descriptor: each is given back on every path
\* through the call that took it (posix_spawnp's loop over PATH, the unwinding
\* of usb_open, obsd_get_device_list with its gotos).
THEOREM PartsKeepNothing == Parts => []NothingStays
<1>1. NinjaInv => Ninja!NothingLeft
  BY DEF NinjaInv, PipeInv, KidsInv, Ninja!NothingLeft
<1>2. FastbootInv => Fastboot!TransportOwnsAll
  BY DEF FastbootInv, HeldInv, Claim, Fastboot!TransportOwnsAll
<1>3. UsbInv => Usb!ScanHoldsNothing
  BY DEF UsbInv, UsbTypes, ScanInv, HandleInv, NodeInv, Usb!ScanHoldsNothing
<1>4. AccessProofs!Init => AccessProofs!Inv
  BY AccessParameters, AccessProofs!InitHolds DEF Access!AccessAssumption, AccessProofs!AccessAssumption
<1>5. AccessProofs!Inv /\ [AccessProofs!Next]_(AccessProofs!vars) => AccessProofs!Inv'
  BY AccessParameters, AccessProofs!Inductive DEF Access!AccessAssumption, AccessProofs!AccessAssumption
<1>6. AccessProofs!Inv => Access!CallsLeaveNothing
  BY AccessProofs!InvIsSafe DEF Access!CallsLeaveNothing, AccessProofs!CallsLeaveNothing
<1> QED
  BY <1>1, <1>2, <1>3, <1>4, <1>5, <1>6, NinjaHolds, FastbootHolds, UsbHolds, AccessMoves, PTL
     DEF Parts, NothingStays

-----------------------------------------------------------------------------
(* Texts of license files *)

LEMMA HashesApart ==
    /\ Len(Lic!Hashes) = 4 /\ DOMAIN Lic!Hashes = 1..4
    /\ \A i \in 1..4 : Lic!Hashes[i] # Lic!NL
    /\ \A i, j \in 1..4 : Lic!Hashes[i] = Lic!Hashes[j] => i = j
<1>1. DOMAIN Lic!Hashes = 1..4 /\ Len(Lic!Hashes) = 4
  BY DEF Lic!Hashes
<1>2. Lic!Hashes[1] = "8933bad" /\ Lic!Hashes[2] = "d56f518" /\ Lic!Hashes[3] = "24333f8"
      /\ Lic!Hashes[4] = "84831b9"
  BY DEF Lic!Hashes
<1>3. \A i \in 1..4 : i = 1 \/ i = 2 \/ i = 3 \/ i = 4
  OBVIOUS
<1> QED
  BY <1>1, <1>2, <1>3 DEF Lic!NL

\* g: the texts that the loop over the hashes makes, up to the last one.
Loop(g, text, missing) ==
    /\ g[0] = text /\ Lic!WithHashes(text, missing) = g[4]
    /\ \A i \in 1..4 : g[i] = g[i - 1] \o IF i \in missing THEN <<Lic!Hashes[i], Lic!NL>> ELSE << >>

LEMMA Growth == ASSUME NEW text, NEW missing PROVE \E g : Loop(g, text, missing)
<1> DEFINE Line(i) == IF i \in missing THEN <<Lic!Hashes[i], Lic!NL>> ELSE << >>
           t1 == text \o Line(1)
           t2 == t1 \o Line(2)
           t3 == t2 \o Line(3)
           t4 == t3 \o Line(4)
           g  == [i \in 0..4 |-> IF i = 0 THEN text ELSE IF i = 1 THEN t1 ELSE IF i = 2 THEN t2
                                 ELSE IF i = 3 THEN t3 ELSE t4]
<1>1. Lic!WithHashes(text, missing) = t4
  BY Zenon DEF Lic!WithHashes
<1> HIDE DEF Line
<1>2. t1 = text \o Line(1) /\ t2 = t1 \o Line(2) /\ t3 = t2 \o Line(3) /\ t4 = t3 \o Line(4)
  OBVIOUS
<1> HIDE DEF t1, t2, t3, t4
<1>3. g[0] = text /\ g[1] = t1 /\ g[2] = t2 /\ g[3] = t3 /\ g[4] = t4
  OBVIOUS
<1> HIDE DEF g
<1>4. ASSUME NEW i \in 1..4 PROVE g[i] = g[i - 1] \o Line(i)
  <2>1. \/ i = 1 /\ i - 1 = 0
        \/ i = 2 /\ i - 1 = 1
        \/ i = 3 /\ i - 1 = 2
        \/ i = 4 /\ i - 1 = 3
    OBVIOUS
  <2> QED
    BY <1>2, <1>3, <2>1, Zenon
<1> QED
  BY <1>1, <1>3, <1>4 DEF Loop, Line

\* Where the lines of a text are.
IsEnd(t, i)     == i = 0 \/ i = Len(t) + 1 \/ (i \in 1..Len(t) /\ t[i] = Lic!NL)
LineAt(t, i, j) ==
    /\ i \in Nat /\ j \in Nat /\ i < j /\ IsEnd(t, i) /\ IsEnd(t, j)
    /\ \A k \in Nat : IsEnd(t, k) => k <= i \/ k >= j

LEMMA LinesAre ==
    ASSUME NEW S, NEW t \in Seq(S)
    PROVE  /\ \A x \in Lic!Lines(t) : \E i, j \in Nat : LineAt(t, i, j) /\ x = SubSeq(t, i + 1, j - 1)
           /\ \A i, j \in Nat : LineAt(t, i, j) => SubSeq(t, i + 1, j - 1) \in Lic!Lines(t)
<1> DEFINE ends  == {0, Len(t) + 1} \cup {i \in DOMAIN t : t[i] = Lic!NL}
           pairs == {p \in ends \X ends : p[1] < p[2] /\ \A i \in ends : i <= p[1] \/ i >= p[2]}
<1>1. \A i : i \in ends <=> i \in Nat /\ IsEnd(t, i)
  BY DEF IsEnd
<1> HIDE DEF ends
<1>2. \A p : p \in pairs <=> p = <<p[1], p[2]>> /\ LineAt(t, p[1], p[2])
  BY <1>1 DEF LineAt
<1>3. \A i, j : <<i, j>> \in pairs <=> LineAt(t, i, j)
  BY <1>1 DEF LineAt
<1>4. Lic!Lines(t) = {SubSeq(t, p[1] + 1, p[2] - 1) : p \in pairs}
  BY DEF Lic!Lines, ends
<1> HIDE DEF pairs
<1>5. ASSUME NEW x \in Lic!Lines(t)
      PROVE  \E i, j \in Nat : LineAt(t, i, j) /\ x = SubSeq(t, i + 1, j - 1)
  <2>1. PICK p \in pairs : x = SubSeq(t, p[1] + 1, p[2] - 1)
    BY <1>4, <1>5
  <2> QED
    BY <1>2, <2>1 DEF LineAt
<1>6. ASSUME NEW i \in Nat, NEW j \in Nat, LineAt(t, i, j)
      PROVE  SubSeq(t, i + 1, j - 1) \in Lic!Lines(t)
  <2>1. <<i, j>> \in pairs /\ <<i, j>>[1] = i /\ <<i, j>>[2] = j
    BY <1>3, <1>6
  <2> QED
    BY <1>4, <1>6, <2>1
<1> QED
  BY <1>5, <1>6

\* One more hash behind a text that ends with a newline stands on a line of its
\* own, and leaves the lines before it.
LEMMA OneMore ==
    ASSUME NEW S, NEW t \in Seq(S), Lic!Ended(t), NEW h \in S, Lic!NL \in S, h # Lic!NL,
           NEW u, u = t \o <<h, Lic!NL>>
    PROVE  /\ u \in Seq(S) /\ Lic!Ended(u) /\ Len(u) = Len(t) + 2
           /\ \A k \in 1..Len(t) : u[k] = t[k]
           /\ u[Len(t) + 1] = h /\ u[Len(t) + 2] = Lic!NL
           /\ Lic!Lines(t) \subseteq Lic!Lines(u)
           /\ <<h>> \in Lic!Lines(u)
<1> DEFINE n == Len(t)
<1>1. n \in Nat /\ DOMAIN t = 1..n
  OBVIOUS
<1>2. <<h, Lic!NL>> \in Seq(S) /\ Len(<<h, Lic!NL>>) = 2
  OBVIOUS
<1>3. u \in Seq(S) /\ Len(u) = n + 2
  BY <1>2
<1>4. /\ \A k \in 1..n : u[k] = t[k]
      /\ u[n + 1] = h /\ u[n + 2] = Lic!NL
  BY <1>1, <1>2
<1>5. Lic!Ended(u)
  BY <1>1, <1>3, <1>4 DEF Lic!Ended
<1>6. t = << >> \/ (n \in 1..n /\ t[n] = Lic!NL)
  BY <1>1 DEF Lic!Ended
<1>7. \A k \in Nat : IsEnd(u, k) <=> k = n + 2 \/ k = n + 3 \/ (k <= n /\ IsEnd(t, k))
  <2>1. t = << >> => n = 0
    OBVIOUS
  <2> HIDE DEF n
  <2> QED
    BY <1>1, <1>3, <1>4, <1>6, <2>1 DEF IsEnd, n
<1>8. IsEnd(t, n)
  <2>1. t = << >> => n = 0
    OBVIOUS
  <2> QED
    BY <1>6, <2>1 DEF IsEnd
<1> HIDE DEF n
<1>9. <<h>> \in Lic!Lines(u)
  <2>1. LineAt(u, n, n + 2)
    <3>1. n \in Nat /\ n + 2 \in Nat /\ n < n + 2 /\ n <= n
      BY <1>1
    <3>2. IsEnd(u, n) /\ IsEnd(u, n + 2)
      BY <1>7, <1>8, <3>1
    <3>3. ASSUME NEW k \in Nat, IsEnd(u, k) PROVE k <= n \/ k >= n + 2
      BY <1>1, <1>7, <3>3
    <3> QED
      BY <3>1, <3>2, <3>3 DEF LineAt
  <2>2. <<h>> = SubSeq(u, n + 1, (n + 2) - 1)
    <3> DEFINE v == SubSeq(u, n + 1, n + 1)
    <3>1. \A i \in n + 1..n + 1 : u[i] \in S
      BY <1>1, <1>4
    <3>2. v \in Seq(S) /\ Len(v) = 1 /\ v[1] = u[n + 1]
      BY <1>1, <3>1, SubSeqProperties
    <3> HIDE DEF v
    <3>3. <<h>> \in Seq(S) /\ Len(<<h>>) = 1 /\ <<h>>[1] = h
      OBVIOUS
    <3>4. \A i \in 1..Len(<<h>>) : <<h>>[i] = v[i]
      <4>1. v[1] = h
        BY <1>4, <3>2
      <4>2. \A i \in 1..Len(<<h>>) : i = 1
        BY <3>3
      <4> QED
        BY <3>3, <4>1, <4>2
    <3>5. <<h>> = v
      BY <3>2, <3>3, <3>4, SeqEqual
    <3>6. (n + 2) - 1 = n + 1
      BY <1>1
    <3> QED
      BY <3>5, <3>6 DEF v
  <2>3. n \in Nat /\ n + 2 \in Nat
    BY <1>1
  <2>4. \A k, m \in Nat : LineAt(u, k, m) => SubSeq(u, k + 1, m - 1) \in Lic!Lines(u)
    BY <1>3, LinesAre
  <2>5. SubSeq(u, n + 1, (n + 2) - 1) \in Lic!Lines(u)
    BY <2>1, <2>3, <2>4, Zenon
  <2> QED
    BY <2>2, <2>5, Zenon
<1>10. ASSUME NEW x \in Lic!Lines(t) PROVE x \in Lic!Lines(u)
  <2>0. \A y \in Lic!Lines(t) : \E i, j \in Nat : LineAt(t, i, j) /\ y = SubSeq(t, i + 1, j - 1)
    BY LinesAre
  <2>1. PICK i, j \in Nat : LineAt(t, i, j) /\ x = SubSeq(t, i + 1, j - 1)
    BY <1>10, <2>0
  <2>2. CASE j <= n
    <3>1. LineAt(u, i, j)
      <4>1. i < j /\ IsEnd(t, i) /\ IsEnd(t, j) /\ i <= n
        BY <1>1, <2>1, <2>2 DEF LineAt
      <4>2. IsEnd(u, i) /\ IsEnd(u, j)
        BY <1>7, <2>2, <4>1
      <4>3. ASSUME NEW k \in Nat, IsEnd(u, k) PROVE k <= i \/ k >= j
        <5>1. k = n + 2 \/ k = n + 3 \/ (k <= n /\ IsEnd(t, k))
          BY <1>7, <4>3
        <5>2. CASE IsEnd(t, k)
          BY <2>1, <5>2 DEF LineAt
        <5>3. CASE k = n + 2 \/ k = n + 3
          BY <1>1, <2>2, <5>3
        <5> QED
          BY <5>1, <5>2, <5>3
      <4> QED
        BY <4>1, <4>2, <4>3 DEF LineAt
    <3>2. SubSeq(u, i + 1, j - 1) = SubSeq(t, i + 1, j - 1)
      <4>1. CASE j = i + 1
        BY <4>1, SubSeqEmpty
      <4>2. CASE j # i + 1
        <5>1. i + 1 \in 1..n /\ j - 1 \in 1..n
          BY <1>1, <2>1, <2>2, <4>2 DEF LineAt
        <5> QED
          BY <1>2, <5>1, SubSeqOfConcat1 DEF n
      <4> QED
        BY <4>1, <4>2
    <3> QED
      BY <1>3, <2>1, <3>1, <3>2, LinesAre
  <2>3. CASE j > n
    <3>1. i = n /\ j = n + 1
      <4>1. i < j /\ IsEnd(t, i) /\ IsEnd(t, j) /\ (n <= i \/ n >= j)
        BY <1>1, <1>8, <2>1 DEF LineAt
      <4>2. i >= n /\ j >= n + 1
        BY <1>1, <2>3, <4>1
      <4>3. j = n + 1
        BY <1>1, <4>1, <4>2 DEF IsEnd, n
      <4> QED
        BY <1>1, <4>1, <4>2, <4>3
    <3>2. x = << >>
      BY <1>1, <2>1, <3>1, SubSeqEmpty
    <3>3. LineAt(u, n + 2, n + 3)
      <4>1. n + 2 \in Nat /\ n + 3 \in Nat /\ n + 2 < n + 3
        BY <1>1
      <4>2. IsEnd(u, n + 2) /\ IsEnd(u, n + 3)
        BY <1>7, <4>1
      <4>3. ASSUME NEW k \in Nat, IsEnd(u, k) PROVE k <= n + 2 \/ k >= n + 3
        BY <1>1, <1>7, <4>3
      <4> QED
        BY <4>1, <4>2, <4>3 DEF LineAt
    <3>4. SubSeq(u, (n + 2) + 1, (n + 3) - 1) = << >>
      BY <1>1, SubSeqEmpty
    <3>5. n + 2 \in Nat /\ n + 3 \in Nat
      BY <1>1
    <3>6. \A k, m \in Nat : LineAt(u, k, m) => SubSeq(u, k + 1, m - 1) \in Lic!Lines(u)
      BY <1>3, LinesAre
    <3>7. SubSeq(u, (n + 2) + 1, (n + 3) - 1) \in Lic!Lines(u)
      BY <3>3, <3>5, <3>6, Zenon
    <3> QED
      BY <3>2, <3>4, <3>7, Zenon
  <2> QED
    BY <1>1, <2>1, <2>2, <2>3
<1> QED
  BY <1>3, <1>4, <1>5, <1>9, <1>10 DEF n

\* Where a hash stands behind the earlier text.
LaterAt(text, t, h) == {k \in Len(text) + 1..Len(t) : t[k] = h}

\* What the loop has done after the hash at i.
Merging(S, text, missing, t, i) ==
    /\ t \in Seq(S) /\ Lic!Ended(t) /\ Len(text) <= Len(t)
    /\ \A k \in 1..Len(text) : t[k] = text[k]
    /\ Lic!Lines(text) \subseteq Lic!Lines(t)
    /\ \A j \in 1..4 : j \in missing /\ j <= i =>
         <<Lic!Hashes[j]>> \in Lic!Lines(t) /\ \E k \in 1..Len(t) : LaterAt(text, t, Lic!Hashes[j]) = {k}
    /\ \A j \in 1..4 : ~ (j \in missing /\ j <= i) => LaterAt(text, t, Lic!Hashes[j]) = {}

LEMMA MergeSteps ==
    ASSUME NEW S, NEW text \in Seq(S), NEW missing, Lic!NL \in S,
           \A j \in 1..4 : Lic!Hashes[j] \in S,
           NEW i \in 1..4, NEW t, Merging(S, text, missing, t, i - 1),
           NEW u, u = t \o IF i \in missing THEN <<Lic!Hashes[i], Lic!NL>> ELSE << >>
    PROVE  Merging(S, text, missing, u, i)
<1>1. t \in Seq(S) /\ Lic!Ended(t)
  BY DEF Merging
<1>2. CASE i \notin missing
  <2>1. u = t
    BY <1>1, <1>2
  <2>2. \A j \in 1..4 : (j \in missing /\ j <= i) <=> (j \in missing /\ j <= i - 1)
    BY <1>2
  <2> QED
    BY <2>1, <2>2 DEF Merging
<1>3. CASE i \in missing
  <2> DEFINE h == Lic!Hashes[i]
             n == Len(t)
  <2>1. u = t \o <<h, Lic!NL>> /\ h \in S /\ h # Lic!NL
    BY <1>3, HashesApart
  <2> HIDE DEF h
  <2>2. /\ u \in Seq(S) /\ Lic!Ended(u) /\ Len(u) = n + 2
        /\ \A k \in 1..n : u[k] = t[k]
        /\ u[n + 1] = h /\ u[n + 2] = Lic!NL
        /\ Lic!Lines(t) \subseteq Lic!Lines(u)
        /\ <<h>> \in Lic!Lines(u)
    BY <1>1, <2>1, OneMore
  <2>3. n \in Nat /\ Len(text) \in Nat /\ Len(text) <= n
    BY <1>1 DEF Merging
  <2> HIDE DEF n
  <2>4. Len(text) <= Len(u) /\ \A k \in 1..Len(text) : u[k] = text[k]
    <3>1. \A k \in 1..Len(text) : t[k] = text[k] /\ k \in 1..n
      BY <2>3 DEF Merging
    <3> QED
      <4>1. Len(text) <= Len(u)
        BY <2>2, <2>3
      <4>2. ASSUME NEW k \in 1..Len(text) PROVE u[k] = text[k]
        BY <2>2, <3>1
      <4> QED
        BY <4>1, <4>2
  <2>5. Lic!Lines(text) \subseteq Lic!Lines(u)
    BY <2>2 DEF Merging
  <2>6. ASSUME NEW j \in 1..4, j # i PROVE LaterAt(text, u, Lic!Hashes[j]) = LaterAt(text, t, Lic!Hashes[j])
    <3>1. Lic!Hashes[j] # h /\ Lic!Hashes[j] # Lic!NL
      BY <2>6, HashesApart DEF h
    <3>2. \A k \in Len(text) + 1..Len(u) : u[k] = Lic!Hashes[j] => k \in Len(text) + 1..n /\ t[k] = Lic!Hashes[j]
      <4> SUFFICES ASSUME NEW k \in Len(text) + 1..Len(u), u[k] = Lic!Hashes[j]
                   PROVE  k \in Len(text) + 1..n /\ t[k] = Lic!Hashes[j]
        OBVIOUS
      <4>1. k # n + 1 /\ k # n + 2
        BY <2>2, <3>1
      <4>2. k \in 1..n /\ k \in Len(text) + 1..n
        BY <2>2, <2>3, <4>1
      <4> QED
        BY <2>2, <4>2
    <3>3. \A k \in Len(text) + 1..n : k \in Len(text) + 1..Len(u) /\ u[k] = t[k]
      BY <2>2, <2>3
    <3> QED
      BY <3>2, <3>3 DEF LaterAt, n
  <2>7. LaterAt(text, t, h) = {}
    <3>1. ~ (i <= i - 1)
      OBVIOUS
    <3> QED
      BY <3>1 DEF Merging, h
  <2>8. LaterAt(text, u, h) = {n + 1}
    <3>1. \A k \in Len(text) + 1..n : t[k] # h
      BY <2>7 DEF LaterAt, n
    <3>2. \A k \in Len(text) + 1..Len(u) : u[k] = h <=> k = n + 1
      BY <2>1, <2>2, <2>3, <3>1
    <3>3. n + 1 \in Len(text) + 1..Len(u)
      BY <2>2, <2>3
    <3> QED
      BY <3>2, <3>3 DEF LaterAt
  <2>9. ASSUME NEW j \in 1..4, j \in missing, j <= i
        PROVE  <<Lic!Hashes[j]>> \in Lic!Lines(u) /\ \E k \in 1..Len(u) : LaterAt(text, u, Lic!Hashes[j]) = {k}
    <3>1. CASE j = i
      <4>1. n + 1 \in 1..Len(u)
        BY <2>2, <2>3
      <4> QED
        BY <2>2, <2>8, <3>1, <4>1 DEF h
    <3>2. CASE j # i
      <4>1. j <= i - 1
        BY <2>9, <3>2
      <4>2. <<Lic!Hashes[j]>> \in Lic!Lines(t) /\ \E k \in 1..n : LaterAt(text, t, Lic!Hashes[j]) = {k}
        BY <2>9, <4>1 DEF Merging, n
      <4>3. \A k \in 1..n : k \in 1..Len(u)
        BY <2>2, <2>3
      <4> QED
        BY <2>2, <2>6, <3>2, <4>2, <4>3
    <3> QED
      BY <3>1, <3>2
  <2>10. ASSUME NEW j \in 1..4, ~ (j \in missing /\ j <= i)
         PROVE  LaterAt(text, u, Lic!Hashes[j]) = {}
    <3>1. j # i /\ ~ (j \in missing /\ j <= i - 1)
      BY <1>3, <2>10
    <3>2. LaterAt(text, t, Lic!Hashes[j]) = {}
      BY <3>1 DEF Merging
    <3> QED
      BY <2>6, <3>1, <3>2
  <2> QED
    BY <2>2, <2>4, <2>5, <2>9, <2>10 DEF Merging
<1> QED
  BY <1>2, <1>3

\* What is asked of a merged text, new.
KeepsLinesOf(text, new) ==
    /\ \A j \in 1..4 : Lic!Has(new, Lic!Hashes[j])
    /\ Lic!Lines(text) \subseteq Lic!Lines(new)
    /\ SubSeq(new, 1, Len(text)) = text
    /\ \A j \in 1..4 :
         IF Lic!Has(text, Lic!Hashes[j]) THEN LaterAt(text, new, Lic!Hashes[j]) = {}
         ELSE \E k \in DOMAIN new : LaterAt(text, new, Lic!Hashes[j]) = {k}

\* A hash alone on a line is there.
LEMMA HashAlone == \A h : Lic!Trimmed(<<h>>, h)
<1> SUFFICES ASSUME NEW h PROVE Lic!Trimmed(<<h>>, h)
  OBVIOUS
<1>1. DOMAIN <<h>> = {1} /\ <<h>>[1] = h
  OBVIOUS
<1> QED
  BY <1>1 DEF Lic!Trimmed

\* What the merge makes of an earlier text that ends with a newline.
LEMMA MergeKeepsLines ==
    ASSUME NEW S, NEW text \in Seq(S), Lic!Ended(text), Lic!NL \in S, \A j \in 1..4 : Lic!Hashes[j] \in S
    PROVE  KeepsLinesOf(text, Lic!Merge(text))
<1> DEFINE missing == {i \in DOMAIN Lic!Hashes : ~Lic!Has(text, Lic!Hashes[i])}
           new == Lic!Merge(text)
<1>1. PICK g : Loop(g, text, missing)
  <2> HIDE DEF missing
  <2> QED
    BY Growth, Zenon
<1>2. new = g[4]
  BY <1>1, Zenon DEF Lic!Merge, Loop
<1>3. \A j \in 1..4 : j \in missing <=> ~Lic!Has(text, Lic!Hashes[j])
  BY HashesApart
<1> HIDE DEF missing, new
<1>4. Merging(S, text, missing, g[0], 0)
  <2>1. \A j : LaterAt(text, text, j) = {}
    BY DEF LaterAt
  <2>2. \A j \in 1..4 : ~ (j <= 0)
    OBVIOUS
  <2> QED
    BY <1>1, <2>1, <2>2 DEF Merging, Loop
<1>5. \A i \in 1..4 : Merging(S, text, missing, g[i - 1], i - 1) => Merging(S, text, missing, g[i], i)
  BY <1>1, MergeSteps DEF Loop
<1>6. Merging(S, text, missing, g[4], 4)
  <2>1. 1 - 1 = 0 /\ 2 - 1 = 1 /\ 3 - 1 = 2 /\ 4 - 1 = 3
    OBVIOUS
  <2> QED
    BY <1>4, <1>5, <2>1
<1>7. Merging(S, text, missing, new, 4)
  BY <1>2, <1>6
<1>8. new \in Seq(S) /\ Len(text) <= Len(new) /\ Len(text) \in Nat /\ Len(new) \in Nat
  BY <1>7 DEF Merging
<1>9. SubSeq(new, 1, Len(text)) = text
  <2> DEFINE v == SubSeq(new, 1, Len(text))
  <2>1. \A k \in 1..Len(text) : new[k] \in S /\ new[k] = text[k]
    BY <1>7, <1>8 DEF Merging
  <2>2. v \in Seq(S) /\ Len(v) = Len(text) /\ \A k \in 1..Len(text) : v[k] = new[k]
    BY <1>8, <2>1, SubSeqProperties
  <2> HIDE DEF v
  <2>3. v = text
    BY <2>1, <2>2, SeqEqual
  <2> QED
    BY <2>3 DEF v
<1>10. ASSUME NEW j \in 1..4 PROVE Lic!Has(new, Lic!Hashes[j])
  <2>1. CASE j \in missing
    <3>1. <<Lic!Hashes[j]>> \in Lic!Lines(new)
      BY <1>7, <2>1 DEF Merging
    <3> QED
      BY <3>1, HashAlone, Zenon DEF Lic!Has
  <2>2. CASE j \notin missing
    <3>1. Lic!Has(text, Lic!Hashes[j]) /\ Lic!Lines(text) \subseteq Lic!Lines(new)
      BY <1>3, <1>7, <2>2 DEF Merging
    <3> QED
      BY <3>1 DEF Lic!Has
  <2> QED
    BY <2>1, <2>2
<1>11. ASSUME NEW j \in 1..4, Lic!Has(text, Lic!Hashes[j])
       PROVE  LaterAt(text, new, Lic!Hashes[j]) = {}
  BY <1>3, <1>7, <1>11 DEF Merging
<1>12. ASSUME NEW j \in 1..4, ~Lic!Has(text, Lic!Hashes[j])
       PROVE  \E k \in DOMAIN new : LaterAt(text, new, Lic!Hashes[j]) = {k}
  <2>1. j \in missing /\ j <= 4 /\ DOMAIN new = 1..Len(new)
    BY <1>3, <1>8, <1>12
  <2> QED
    BY <1>7, <2>1 DEF Merging
<1>13. Lic!Lines(text) \subseteq Lic!Lines(new)
  BY <1>7 DEF Merging
<1> QED
  BY <1>9, <1>10, <1>11, <1>12, <1>13 DEF new, KeepsLinesOf

-----------------------------------------------------------------------------
(* apex licenses: one undisturbed acceptance *)

LEMMA NothingBefore == Lic!OneEach = Lic!Merge(<< >>)
<1>1. ASSUME NEW i \in 1..4 PROVE ~Lic!Has(<< >>, Lic!Hashes[i])
  <2> SUFFICES ASSUME NEW line \in Lic!Lines(<< >>), Lic!Trimmed(line, Lic!Hashes[i]) PROVE FALSE
    BY DEF Lic!Has
  <2>1. << >> \in Seq({}) /\ Len(<< >>) = 0
    OBVIOUS
  <2>2. PICK k, m \in Nat : LineAt(<< >>, k, m) /\ line = SubSeq(<< >>, k + 1, m - 1)
    BY <2>1, LinesAre
  <2>3. k = 0 /\ m = 1
    BY <2>1, <2>2 DEF LineAt, IsEnd
  <2>4. line = << >>
    BY <2>2, <2>3, SubSeqEmpty
  <2> QED
    BY <2>4 DEF Lic!Trimmed
<1>2. {i \in DOMAIN Lic!Hashes : ~Lic!Has(<< >>, Lic!Hashes[i])} = DOMAIN Lic!Hashes
  BY <1>1, HashesApart
<1> QED
  BY <1>2 DEF Lic!OneEach, Lic!Merge

\* What the steps of the commands keep: until the apex license is there, the
\* second file is an earlier one; while nothing is disturbed one process is in
\* the command, which finds the file as it was until it has what it will write.
LicenseInv ==
    /\ before \in EarlierFiles
    /\ runner = [r \in Runners |-> runner[r]] /\ merged = [r \in Runners |-> merged[r]]
    /\ ~apex => agp \in EarlierFiles
    /\ \A r \in Runners : runner[r] \in {"written", "merged", "truncated"} => apex
    /\ ~disturbed =>
         /\ \A q, r \in Runners : runner[q] # "out" /\ runner[r] # "out" => q = r
         /\ \A r \in Runners : runner[r] \in {"accepted", "written", "merged"} => agp = before
         /\ \A r \in Runners : runner[r] \in {"merged", "truncated"} => merged[r] = Lic!Merge(before.text)
         /\ Lic!Done => agp = Lic!File(Lic!Merge(before.text))

LEMMA LicenseKeeps == LicenseInv /\ Lic!Next => LicenseInv'
<1> SUFFICES ASSUME LicenseInv, NEW r \in Runners, Lic!Run(r) \/ Lic!Stop(r) PROVE LicenseInv'
  BY DEF Lic!Next
<1> USE DEF LicenseInv, Lic!Done
<1>1. CASE Lic!Accept(r)
  <2>1. runner' = [q \in Runners |-> IF q = r THEN "accepted" ELSE runner[q]]
    BY <1>1 DEF Lic!Accept, Lic!Goto
  <2>2. CASE \A q \in Runners : runner[q] = "out"
    <3>1. before' = agp /\ agp \in EarlierFiles
      BY <1>1, <2>2 DEF Lic!Accept
    <3> QED
      BY <1>1, <2>1, <2>2, <3>1 DEF Lic!Accept
  <2>3. CASE ~ \A q \in Runners : runner[q] = "out"
    <3>1. disturbed' /\ before' = before
      BY <1>1, <2>3 DEF Lic!Accept
    <3> QED
      BY <1>1, <2>1, <3>1 DEF Lic!Accept
  <2> QED
    BY <2>2, <2>3
<1>2. CASE Lic!WriteApex(r)
  <2>1. runner' = [q \in Runners |-> IF q = r THEN "written" ELSE runner[q]] /\ runner[r] = "accepted"
    BY <1>2 DEF Lic!WriteApex, Lic!Goto
  <2> QED
    BY <1>2, <2>1 DEF Lic!WriteApex
<1>3. CASE Lic!ReadHashes(r)
  <2>1. /\ runner' = [q \in Runners |-> IF q = r THEN "merged" ELSE runner[q]] /\ runner[r] = "written"
        /\ merged' = [q \in Runners |-> IF q = r THEN IF agp.there THEN Lic!Merge(agp.text) ELSE Lic!OneEach
                                        ELSE merged[q]]
    BY <1>3 DEF Lic!ReadHashes, Lic!Goto
  <2>2. ASSUME ~disturbed PROVE merged'[r] = Lic!Merge(before.text)
    <3>1. agp = before /\ before \in EarlierFiles
      BY <2>1, <2>2
    <3>2. before = Lic!Absent \/ before = Lic!File(before.text)
      BY <3>1, LicenseParameters DEF Lic!LicensesAssumption
    <3>3. before = Lic!Absent => ~agp.there /\ before.text = << >>
      BY <3>1 DEF Lic!Absent
    <3>4. before = Lic!File(before.text) => agp.there
      BY <3>1 DEF Lic!File
    <3> QED
      BY <2>1, <3>1, <3>2, <3>3, <3>4, NothingBefore
  <2>3. UNCHANGED <<apex, agp, before, disturbed>>
    BY <1>3 DEF Lic!ReadHashes
  <2>4. \A q \in Runners : q # r => runner'[q] = runner[q] /\ merged'[q] = merged[q]
    BY <2>1
  <2>5. runner'[r] = "merged"
    BY <2>1
  <2> QED
    BY <2>1, <2>2, <2>3, <2>4, <2>5
<1>4. CASE Lic!Truncate(r)
  <2>1. runner' = [q \in Runners |-> IF q = r THEN "truncated" ELSE runner[q]] /\ runner[r] = "merged"
    BY <1>4 DEF Lic!Truncate, Lic!Goto
  <2> QED
    BY <1>4, <2>1 DEF Lic!Truncate
<1>5. CASE Lic!Fill(r)
  <2>1. /\ runner' = [q \in Runners |-> IF q = r THEN "out" ELSE runner[q]] /\ runner[r] = "truncated"
        /\ merged' = [q \in Runners |-> IF q = r THEN << >> ELSE merged[q]]
        /\ agp' = Lic!File(merged[r])
    BY <1>5 DEF Lic!Fill, Lic!Goto
  <2>2. UNCHANGED <<apex, before, disturbed>>
    BY <1>5 DEF Lic!Fill
  <2> QED
    BY <2>1, <2>2
<1>6. CASE Lic!Stop(r)
  <2>1. /\ runner' = [q \in Runners |-> IF q = r THEN "out" ELSE runner[q]]
        /\ merged' = [q \in Runners |-> IF q = r THEN << >> ELSE merged[q]]
    BY <1>6 DEF Lic!Stop, Lic!Goto
  <2> QED
    BY <1>6, <2>1 DEF Lic!Stop
<1> QED
  BY <1>1, <1>2, <1>3, <1>4, <1>5, <1>6 DEF Lic!Run

LEMMA MergedLinesKept == LicenseInv => AcceptedMergesLines
<1> SUFFICES ASSUME LicenseInv, Lic!Done, ~disturbed, Lic!Ended(before.text)
             PROVE  /\ Lic!Merged(agp.text)
                    /\ SubSeq(agp.text, 1, Len(before.text)) = before.text
                    /\ \A i \in DOMAIN Lic!Hashes :
                         IF Lic!Has(before.text, Lic!Hashes[i]) THEN Lic!Appended(Lic!Hashes[i]) = {}
                         ELSE \E k \in DOMAIN agp.text : Lic!Appended(Lic!Hashes[i]) = {k}
  BY DEF AcceptedMergesLines, Lic!AcceptedMergesLines
<1> DEFINE S == {before.text[i] : i \in DOMAIN before.text} \cup {Lic!Hashes[i] : i \in 1..4} \cup {Lic!NL}
<1>1. agp.text = Lic!Merge(before.text)
  BY DEF LicenseInv, Lic!File
<1>2. before = Lic!Absent \/ before.text \in Seq({before.text[i] : i \in DOMAIN before.text})
  BY LicenseParameters DEF LicenseInv, Lic!LicensesAssumption
<1>3. before.text \in Seq(S)
  <2>1. CASE before = Lic!Absent
    <3>1. before.text = << >>
      BY <2>1 DEF Lic!Absent
    <3> QED
      BY <3>1
  <2>2. CASE before.text \in Seq({before.text[i] : i \in DOMAIN before.text})
    <3> DEFINE R == {before.text[i] : i \in DOMAIN before.text}
    <3>1. R \subseteq S
      OBVIOUS
    <3> HIDE DEF R, S
    <3>2. \A w \in Seq(R) : w \in Seq(S)
      BY <3>1
    <3> QED
      BY <2>2, <3>2 DEF R
  <2> QED
    BY <1>2, <2>1, <2>2
<1>4. Lic!NL \in S /\ \A j \in 1..4 : Lic!Hashes[j] \in S
  OBVIOUS
<1> HIDE DEF S
<1>5. \A h : Lic!Appended(h) = LaterAt(before.text, agp.text, h)
  BY DEF Lic!Appended, LaterAt
<1>6. KeepsLinesOf(before.text, agp.text)
  BY <1>1, <1>3, <1>4, MergeKeepsLines
<1>7. Lic!Merged(agp.text)
  BY <1>6, HashesApart DEF Lic!Merged, KeepsLinesOf
<1> QED
  BY <1>5, <1>6, <1>7, HashesApart DEF KeepsLinesOf

\* One undisturbed acceptance, among any number of processes and with any
\* earlier file that ends with a newline: its text is kept, and the hashes that
\* were no line of it follow, each once and on its own line.
THEOREM PartsMergeLines == Parts => []AcceptedMergesLines
<1>1. Starts => LicenseInv
  BY DEF Starts, Lic!Init, LicenseInv, Lic!Done
<1>2. LicenseInv /\ [OnePart]_allVars => LicenseInv'
  <2>1. OnePart => Lic!Next \/ UNCHANGED licenseVars
    BY DEF OnePart, OthersStay
  <2>2. UNCHANGED allVars => UNCHANGED licenseVars
    BY DEF allVars
  <2>3. LicenseInv /\ UNCHANGED licenseVars => LicenseInv'
    BY DEF LicenseInv, licenseVars, Lic!Done
  <2> QED
    BY <2>1, <2>2, <2>3, LicenseKeeps
<1> QED
  BY <1>1, <1>2, MergedLinesKept, PTL DEF Parts
=============================================================================
