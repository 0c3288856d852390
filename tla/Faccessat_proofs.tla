-------------------------- MODULE Faccessat_proofs --------------------------
(***************************************************************************)
(* faccessat for any number of threads: a call answers for the right ids   *)
(* and leaves neither a descriptor nor a child, though the threads' pipes  *)
(* are copied into each other's children.                                  *)
(***************************************************************************)
EXTENDS Faccessat, TLAPS

Ends    == Callers \X {"r", "w"}
Answers == {"-", "EBUSY", Verdicts.real, Verdicts.effective}

Types ==
    /\ android \in BOOLEAN
    /\ at \in [Callers -> {"out", "pipe", "clone", "close", "read", "closeRead", "wait"}]
    /\ open \in SUBSET Ends
    /\ checker \in [Callers -> {"none", "started", "ask", "end", "dead"}]
    /\ copy \in [Callers -> SUBSET Ends]
    /\ sent \in [Callers -> Answers]
    /\ answer \in [Callers -> Answers]
    /\ faulted \in [Callers -> BOOLEAN]

\* Which ends of its pipe the process has, by where the call is.
PipeOf(c) ==
    /\ <<c, "r">> \in open => at[c] \in {"clone", "close", "read", "closeRead"}
    /\ <<c, "w">> \in open => at[c] \in {"clone", "close"}
    /\ at[c] = "clone" => <<c, "w">> \in open

\* A child that has not asked yet holds the write end of its own call, so the
\* reader sees no end of file before it; what the other children hold can only
\* make the reader wait.
ChildOf(c) ==
    /\ at[c] \in {"out", "pipe", "clone"} => checker[c] = "none"
    /\ checker[c] \in {"started", "ask"} => <<c, "w">> \in copy[c]
    /\ checker[c] = "end" => sent[c] # "-"
    /\ checker[c] = "dead" => sent[c] # "-" \/ faulted[c]

Right(c) ==
    \/ answer[c] = Verdicts.effective
    \/ android /\ answer[c] = Verdicts.real
    \/ answer[c] = "EBUSY" /\ faulted[c]

AnswerOf(c) ==
    /\ sent[c] \in {"-", AnswerFor(android)}
    /\ answer[c] # "-" => Right(c)
    /\ at[c] \in {"pipe", "clone"} => answer[c] = "-"
    /\ at[c] = "close" /\ answer[c] = "-" => checker[c] # "none"
    /\ at[c] = "read" => checker[c] # "none"

CallInv(c) == PipeOf(c) /\ ChildOf(c) /\ AnswerOf(c)
Inv        == Types /\ \A c \in Callers : CallInv(c)

LEMMA InitHolds == AccessAssumption /\ Init => Inv
BY DEF AccessAssumption, Init, Inv, Types, Ends, Answers, CallInv, PipeOf, ChildOf, AnswerOf, Right

\* What a step of c leaves of the other calls.
Untouched(d) ==
    /\ at'[d] = at[d] /\ checker'[d] = checker[d] /\ copy'[d] = copy[d]
    /\ sent'[d] = sent[d] /\ answer'[d] = answer[d] /\ faulted'[d] = faulted[d]
    /\ \A end \in {"r", "w"} : <<d, end>> \in open' <=> <<d, end>> \in open

LEMMA OthersKeep ==
    ASSUME Inv, UNCHANGED android, NEW d \in Callers, Untouched(d)
    PROVE  CallInv(d)'
BY DEF Inv, Untouched, CallInv, PipeOf, ChildOf, AnswerOf, Right, AnswerFor
\* A step of one call keeps the invariant once it is shown for that call.
LEMMA OneCall ==
    ASSUME Inv, NEW c \in Callers, UNCHANGED android, Types', CallInv(c)',
           \A d \in Callers \ {c} : Untouched(d)
    PROVE  Inv'
BY OthersKeep DEF Inv

LEMMA CallKeeps == ASSUME AccessAssumption, Inv, NEW c \in Callers, Call(c) PROVE Inv'
<1>1. UNCHANGED android
  BY DEF Call
<1>2. Types'
  BY DEF Inv, Types, Ends, Answers, AccessAssumption, Call, Set
<1>3. CallInv(c)'
  <2>1. PipeOf(c)'
    BY DEF Inv, Types, CallInv, PipeOf, Call, Set
  <2>2. ChildOf(c)'
    BY DEF Inv, Types, CallInv, PipeOf, ChildOf, AccessAssumption, Call, Set, AnswerFor
  <2>3. AnswerOf(c)'
    BY DEF Inv, Types, CallInv, PipeOf, ChildOf, AnswerOf, Right, AccessAssumption, Call, Set, AnswerFor
  <2> QED
    BY <2>1, <2>2, <2>3 DEF CallInv
<1>4. ASSUME NEW d \in Callers \ {c} PROVE Untouched(d)
  BY DEF Inv, Types, Untouched, Call, Set
<1> QED
  BY <1>1, <1>2, <1>3, <1>4, OneCall

LEMMA MakePipeKeeps == ASSUME AccessAssumption, Inv, NEW c \in Callers, MakePipe(c) PROVE Inv'
<1>1. UNCHANGED android
  BY DEF MakePipe
<1>2. Types'
  <2>1. open' \in {open, open \cup {<<c, "r">>, <<c, "w">>}}
    BY DEF MakePipe
  <2>2. <<c, "r">> \in Ends /\ <<c, "w">> \in Ends
    BY DEF Ends
  <2>3. open' \in SUBSET Ends
    BY <2>1, <2>2 DEF Inv, Types
  <2> QED
    BY <2>3 DEF Inv, Types, Answers, MakePipe, Set, Faults
<1>3. CallInv(c)'
  <2>1. PipeOf(c)'
    BY DEF Inv, Types, CallInv, PipeOf, MakePipe, Set, Faults
  <2>2. ChildOf(c)'
    BY DEF Inv, Types, CallInv, PipeOf, ChildOf, AccessAssumption, MakePipe, Set, Faults, AnswerFor
  <2>3. AnswerOf(c)'
    BY DEF Inv, Types, CallInv, PipeOf, ChildOf, AnswerOf, Right, AccessAssumption, MakePipe, Set, Faults, AnswerFor
  <2> QED
    BY <2>1, <2>2, <2>3 DEF CallInv
<1>4. ASSUME NEW d \in Callers \ {c} PROVE Untouched(d)
  BY DEF Inv, Types, Untouched, MakePipe, Set, Faults
<1> QED
  BY <1>1, <1>2, <1>3, <1>4, OneCall

LEMMA CloneKeeps == ASSUME AccessAssumption, Inv, NEW c \in Callers, Clone(c) PROVE Inv'
<1>1. UNCHANGED android
  BY DEF Clone
<1>2. Types'
  BY DEF Inv, Types, Ends, Answers, AccessAssumption, Clone, Set, Faults
<1>3. CallInv(c)'
  <2>1. PipeOf(c)'
    BY DEF Inv, Types, CallInv, PipeOf, Clone, Set, Faults
  <2>2. ChildOf(c)'
    BY DEF Inv, Types, CallInv, PipeOf, ChildOf, AccessAssumption, Clone, Set, Faults, AnswerFor
  <2>3. AnswerOf(c)'
    BY DEF Inv, Types, CallInv, PipeOf, ChildOf, AnswerOf, Right, AccessAssumption, Clone, Set, Faults, AnswerFor
  <2> QED
    BY <2>1, <2>2, <2>3 DEF CallInv
<1>4. ASSUME NEW d \in Callers \ {c} PROVE Untouched(d)
  BY DEF Inv, Types, Untouched, Clone, Set, Faults
<1> QED
  BY <1>1, <1>2, <1>3, <1>4, OneCall

LEMMA CloseWriteKeeps == ASSUME AccessAssumption, Inv, NEW c \in Callers, CloseWrite(c) PROVE Inv'
<1>1. UNCHANGED android
  BY DEF CloseWrite
<1>2. Types'
  BY DEF Inv, Types, Ends, Answers, AccessAssumption, CloseWrite, Set, ClosedFirst
<1>3. CallInv(c)'
  <2>1. PipeOf(c)'
    BY DEF Inv, Types, CallInv, PipeOf, CloseWrite, Set, ClosedFirst
  <2>2. ChildOf(c)'
    BY DEF Inv, Types, CallInv, PipeOf, ChildOf, AccessAssumption, CloseWrite, Set, ClosedFirst, AnswerFor
  <2>3. AnswerOf(c)'
    BY DEF Inv, Types, CallInv, PipeOf, ChildOf, AnswerOf, Right, AccessAssumption, CloseWrite, Set, ClosedFirst, AnswerFor
  <2> QED
    BY <2>1, <2>2, <2>3 DEF CallInv
<1>4. ASSUME NEW d \in Callers \ {c} PROVE Untouched(d)
  BY DEF Inv, Types, Untouched, CloseWrite, Set, ClosedFirst
<1> QED
  BY <1>1, <1>2, <1>3, <1>4, OneCall

LEMMA ReadKeeps == ASSUME AccessAssumption, Inv, NEW c \in Callers, Read(c) PROVE Inv'
<1>1. UNCHANGED android
  BY DEF Read
<1>2. Types'
  BY DEF Inv, Types, Ends, Answers, AccessAssumption, Read, Set, AtEnd
<1>3. CallInv(c)'
  <2>1. PipeOf(c)'
    BY DEF Inv, Types, CallInv, PipeOf, Read, Set, AtEnd
  <2>2. ChildOf(c)'
    BY DEF Inv, Types, CallInv, PipeOf, ChildOf, AccessAssumption, Read, Set, AtEnd, AnswerFor
  <2>3. AnswerOf(c)'
    BY DEF Inv, Types, CallInv, PipeOf, ChildOf, AnswerOf, Right, AccessAssumption, Read, Set, AtEnd, AnswerFor
  <2> QED
    BY <2>1, <2>2, <2>3 DEF CallInv
<1>4. ASSUME NEW d \in Callers \ {c} PROVE Untouched(d)
  BY DEF Inv, Types, Untouched, Read, Set, AtEnd
<1> QED
  BY <1>1, <1>2, <1>3, <1>4, OneCall

LEMMA CloseReadKeeps == ASSUME AccessAssumption, Inv, NEW c \in Callers, CloseRead(c) PROVE Inv'
<1>1. UNCHANGED android
  BY DEF CloseRead
<1>2. Types'
  BY DEF Inv, Types, Ends, Answers, AccessAssumption, CloseRead, Set
<1>3. CallInv(c)'
  <2>1. PipeOf(c)'
    BY DEF Inv, Types, CallInv, PipeOf, CloseRead, Set
  <2>2. ChildOf(c)'
    BY DEF Inv, Types, CallInv, PipeOf, ChildOf, AccessAssumption, CloseRead, Set, AnswerFor
  <2>3. AnswerOf(c)'
    BY DEF Inv, Types, CallInv, PipeOf, ChildOf, AnswerOf, Right, AccessAssumption, CloseRead, Set, AnswerFor
  <2> QED
    BY <2>1, <2>2, <2>3 DEF CallInv
<1>4. ASSUME NEW d \in Callers \ {c} PROVE Untouched(d)
  BY DEF Inv, Types, Untouched, CloseRead, Set
<1> QED
  BY <1>1, <1>2, <1>3, <1>4, OneCall

LEMMA WaitKeeps == ASSUME AccessAssumption, Inv, NEW c \in Callers, Wait(c) PROVE Inv'
<1>1. UNCHANGED android
  BY DEF Wait
<1>2. Types'
  BY DEF Inv, Types, Ends, Answers, AccessAssumption, Wait, Waited, Set
<1>3. CallInv(c)'
  <2>1. PipeOf(c)'
    BY DEF Inv, Types, CallInv, PipeOf, Wait, Waited, Set
  <2>2. ChildOf(c)'
    BY DEF Inv, Types, CallInv, PipeOf, ChildOf, AccessAssumption, Wait, Waited, Set, AnswerFor
  <2>3. AnswerOf(c)'
    BY DEF Inv, Types, CallInv, PipeOf, ChildOf, AnswerOf, Right, AccessAssumption, Wait, Waited, Set, AnswerFor
  <2> QED
    BY <2>1, <2>2, <2>3 DEF CallInv
<1>4. ASSUME NEW d \in Callers \ {c} PROVE Untouched(d)
  BY DEF Inv, Types, Untouched, Wait, Waited, Set
<1> QED
  BY <1>1, <1>2, <1>3, <1>4, OneCall

LEMMA SwitchIdsKeeps == ASSUME AccessAssumption, Inv, NEW c \in Callers, SwitchIds(c) PROVE Inv'
<1>1. UNCHANGED android
  BY DEF SwitchIds
<1>2. Types'
  BY DEF Inv, Types, Ends, Answers, AccessAssumption, SwitchIds, Dies, Set, Faults
<1>3. CallInv(c)'
  <2>1. PipeOf(c)'
    BY DEF Inv, Types, CallInv, PipeOf, SwitchIds, Dies, Set, Faults
  <2>2. ChildOf(c)'
    BY DEF Inv, Types, CallInv, PipeOf, ChildOf, AccessAssumption, SwitchIds, Dies, Set, Faults, AnswerFor
  <2>3. AnswerOf(c)'
    BY DEF Inv, Types, CallInv, PipeOf, ChildOf, AnswerOf, Right, AccessAssumption, SwitchIds, Dies, Set, Faults, AnswerFor
  <2> QED
    BY <2>1, <2>2, <2>3 DEF CallInv
<1>4. ASSUME NEW d \in Callers \ {c} PROVE Untouched(d)
  BY DEF Inv, Types, Untouched, SwitchIds, Dies, Set, Faults
<1> QED
  BY <1>1, <1>2, <1>3, <1>4, OneCall

LEMMA AskKernelKeeps == ASSUME AccessAssumption, Inv, NEW c \in Callers, AskKernel(c) PROVE Inv'
<1>1. UNCHANGED android
  BY DEF AskKernel
<1>2. Types'
  BY DEF Inv, Types, Ends, Answers, AccessAssumption, AskKernel, Set, AnswerFor
<1>3. CallInv(c)'
  <2>1. PipeOf(c)'
    BY DEF Inv, Types, CallInv, PipeOf, AskKernel, Set, AnswerFor
  <2>2. ChildOf(c)'
    BY DEF Inv, Types, CallInv, PipeOf, ChildOf, AccessAssumption, AskKernel, Set, AnswerFor
  <2>3. AnswerOf(c)'
    BY DEF Inv, Types, CallInv, PipeOf, ChildOf, AnswerOf, Right, AccessAssumption, AskKernel, Set, AnswerFor
  <2> QED
    BY <2>1, <2>2, <2>3 DEF CallInv
<1>4. ASSUME NEW d \in Callers \ {c} PROVE Untouched(d)
  BY DEF Inv, Types, Untouched, AskKernel, Set, AnswerFor
<1> QED
  BY <1>1, <1>2, <1>3, <1>4, OneCall

LEMMA ExitKeeps == ASSUME AccessAssumption, Inv, NEW c \in Callers, Exit(c) PROVE Inv'
<1>1. UNCHANGED android
  BY DEF Exit
<1>2. Types'
  BY DEF Inv, Types, Ends, Answers, AccessAssumption, Exit, Dies, Set
<1>3. CallInv(c)'
  <2>1. PipeOf(c)'
    BY DEF Inv, Types, CallInv, PipeOf, Exit, Dies, Set
  <2>2. ChildOf(c)'
    BY DEF Inv, Types, CallInv, PipeOf, ChildOf, AccessAssumption, Exit, Dies, Set, AnswerFor
  <2>3. AnswerOf(c)'
    BY DEF Inv, Types, CallInv, PipeOf, ChildOf, AnswerOf, Right, AccessAssumption, Exit, Dies, Set, AnswerFor
  <2> QED
    BY <2>1, <2>2, <2>3 DEF CallInv
<1>4. ASSUME NEW d \in Callers \ {c} PROVE Untouched(d)
  BY DEF Inv, Types, Untouched, Exit, Dies, Set
<1> QED
  BY <1>1, <1>2, <1>3, <1>4, OneCall

LEMMA KilledKeeps == ASSUME AccessAssumption, Inv, NEW c \in Callers, Killed(c) PROVE Inv'
<1>1. UNCHANGED android
  BY DEF Killed
<1>2. Types'
  BY DEF Inv, Types, Ends, Answers, AccessAssumption, Killed, Dies, Set, Faults
<1>3. CallInv(c)'
  <2>1. PipeOf(c)'
    BY DEF Inv, Types, CallInv, PipeOf, Killed, Dies, Set, Faults
  <2>2. ChildOf(c)'
    BY DEF Inv, Types, CallInv, PipeOf, ChildOf, AccessAssumption, Killed, Dies, Set, Faults, AnswerFor
  <2>3. AnswerOf(c)'
    BY DEF Inv, Types, CallInv, PipeOf, ChildOf, AnswerOf, Right, AccessAssumption, Killed, Dies, Set, Faults, AnswerFor
  <2> QED
    BY <2>1, <2>2, <2>3 DEF CallInv
<1>4. ASSUME NEW d \in Callers \ {c} PROVE Untouched(d)
  BY DEF Inv, Types, Untouched, Killed, Dies, Set, Faults
<1> QED
  BY <1>1, <1>2, <1>3, <1>4, OneCall

LEMMA Inductive == AccessAssumption /\ Inv /\ [Next]_vars => Inv'
<1>1. SUFFICES ASSUME AccessAssumption, Inv, Next PROVE Inv'
  <2>1. UNCHANGED vars /\ Inv => Inv'
    BY DEF vars, Inv, Types, CallInv, PipeOf, ChildOf, AnswerOf, Right, AnswerFor
  <2> QED
    BY <2>1
<1>2. PICK c \in Callers : Call(c) \/ InCall(c) \/ Child(c) \/ Killed(c)
  BY <1>1 DEF Next
<1>3. CASE Call(c)
  BY <1>1, <1>3, CallKeeps
<1>4. CASE Killed(c)
  BY <1>1, <1>4, KilledKeeps
<1>5. CASE InCall(c)
  BY <1>1, <1>5, MakePipeKeeps, CloneKeeps, CloseWriteKeeps, ReadKeeps, CloseReadKeeps, WaitKeeps DEF InCall
<1>6. CASE Child(c)
  BY <1>1, <1>6, SwitchIdsKeeps, AskKernelKeeps, ExitKeeps DEF Child
<1> QED
  BY <1>2, <1>3, <1>4, <1>5, <1>6

LEMMA InvIsSafe == Inv => AnswersForEffective /\ CallsLeaveNothing
BY DEF Inv, CallInv, AnswersForEffective, CallsLeaveNothing, PipeOf, ChildOf, AnswerOf, Right

LEMMA InvHolds ==
    ASSUME AccessAssumption
    PROVE  Spec => []Inv
<1>1. Init => Inv
  BY InitHolds
<1>2. Inv /\ [Next]_vars => Inv'
  BY Inductive
<1> QED
  BY <1>1, <1>2, PTL DEF Spec

\* A call answers for the effective ids, off Android, or with EBUSY if a step of
\* its own failed: for any number of threads, no other thread's pipe, child or
\* failure shows (faccessat.c: the write end is closed before the read).
THEOREM AccessAnswers ==
    ASSUME AccessAssumption
    PROVE  Spec => []AnswersForEffective
BY InvHolds, InvIsSafe, PTL

\* A call that has returned has left neither a descriptor nor a child, whatever
\* failed on the way (faccessat.c: the closes and the wait4 after __clone).
THEOREM AccessLeavesNothing ==
    ASSUME AccessAssumption
    PROVE  Spec => []CallsLeaveNothing
BY InvHolds, InvIsSafe, PTL
=============================================================================
