---------------------------- MODULE SemClockwait ----------------------------
(***************************************************************************)
(* sem_clockwait of the bionic shim for API levels below 30: a futex wait  *)
(* over the word of a semaphore that libc's own sem_post and sem_wait use  *)
(* too.  The two are not in this repository: they are modelled as the shim *)
(* claims to transcribe them, with -1 in the word while some waiter of     *)
(* libc sleeps, and a wake by sem_post only when it finds that.            *)
(*                                                                         *)
(* The process-shared bit never changes and is left out of the word.       *)
(*                                                                         *)
(* WokenIsServed, ClampedToZero and AlwaysDown are faulty variants of the  *)
(* definitions below them and are used by nothing here.                    *)
(***************************************************************************)
EXTENDS Integers, FiniteSets

CONSTANTS
    Callers,    \* threads that call sem_clockwait of the shim
    Natives,    \* threads that call sem_wait of libc
    Posters,    \* threads that call sem_post of libc
    Initial,    \* the value sem_init gave the semaphore
    MaxPosts    \* bound on the number of posts

Waiters == Callers \cup Natives
Threads == Waiters \cup Posters

ASSUME SemAssumption ==
    /\ IsFiniteSet(Waiters)
    /\ Callers \cap Natives = {} /\ Waiters \cap Posters = {}
    /\ Initial \in Nat /\ MaxPosts \in Nat

VARIABLES
    value,      \* the value in the semaphore word
    pc,         \* where each thread is
    posts,      \* posts so far
    served      \* waits that returned 0 so far

vars == <<value, pc, posts, served>>

\* Where each kind of thread can be: out of the call, at its decrements, about
\* to enter the futex call, asleep in it, returning 0, about to wake.
CallerLabels == {"out", "first", "again", "futex", "asleep", "done"}
NativeLabels == {"out", "again", "futex", "asleep", "done"}
PosterLabels == {"out", "wake"}

Init ==
    /\ value = Initial
    /\ pc = [t \in Threads |-> "out"]
    /\ posts = 0 /\ served = 0

Goto(t, label) == pc' = [pc EXCEPT ![t] = label]

-----------------------------------------------------------------------------
(* sem_clockwait of the shim                                               *)

Call(c) ==
    /\ pc[c] = "out"
    /\ Goto(c, "first")
    /\ UNCHANGED <<value, posts, served>>

\* ndk_sem_dec: the word after a decrement, which takes place only if it is
\* positive; the compare-and-swap loop makes it one step.
ClampedToZero(v) == IF v > 0 THEN v - 1 ELSE 0
AlwaysDown(v)    == v - 1
Decremented(v)   == IF v > 0 THEN v - 1 ELSE v

\* The decrement before the loop and the one at the head of it.
Try(c) ==
    /\ pc[c] \in {"first", "again"}
    /\ value' = Decremented(value)
    /\ Goto(c, IF value > 0 THEN "done" ELSE IF pc[c] = "first" THEN "again" ELSE "futex")
    /\ UNCHANGED <<posts, served>>

\* The kernel puts the thread to sleep if the word still holds 0; it returns
\* EAGAIN otherwise.
Sleep(c) ==
    /\ pc[c] = "futex"
    /\ Goto(c, IF value = 0 THEN "asleep" ELSE "again")
    /\ UNCHANGED <<value, posts, served>>

\* ETIMEDOUT or EINTR, in the call or at its entry: sem_clockwait returns -1.
GiveUp(c) ==
    /\ pc[c] \in {"futex", "asleep"}
    /\ Goto(c, "out")
    /\ UNCHANGED <<value, posts, served>>

\* What a thread does when the futex call returns 0.
WokenIsServed(t) == "done"
Woken(t)         == "again"

Return(t) ==
    /\ pc[t] = "done"
    /\ Goto(t, "out")
    /\ served' = served + 1
    /\ UNCHANGED <<value, posts>>

-----------------------------------------------------------------------------
(* sem_wait and sem_post of libc                                           *)

NativeCall(n) ==
    /\ pc[n] = "out"
    /\ Goto(n, "again")
    /\ UNCHANGED <<value, posts, served>>

\* The decrement goes down to -1, which announces a waiter.
NativeTry(n) ==
    /\ pc[n] = "again"
    /\ value' = IF value >= 0 THEN value - 1 ELSE value
    /\ Goto(n, IF value > 0 THEN "done" ELSE "futex")
    /\ UNCHANGED <<posts, served>>

NativeSleep(n) ==
    /\ pc[n] = "futex"
    /\ Goto(n, IF value = -1 THEN "asleep" ELSE "again")
    /\ UNCHANGED <<value, posts, served>>

\* A negative value goes straight to one, and then the sleepers are woken.
Post(p) ==
    /\ pc[p] = "out" /\ posts < MaxPosts
    /\ value' = IF value < 0 THEN 1 ELSE value + 1
    /\ IF value < 0 THEN Goto(p, "wake") ELSE UNCHANGED pc
    /\ posts' = posts + 1
    /\ UNCHANGED served

Wake(p) ==
    /\ pc[p] = "wake"
    /\ pc' = [t \in Threads |->
                IF t = p THEN "out" ELSE IF pc[t] = "asleep" THEN Woken(t) ELSE pc[t]]
    /\ UNCHANGED <<value, posts, served>>

-----------------------------------------------------------------------------
Next ==
    \/ \E c \in Callers : Call(c) \/ Try(c) \/ Sleep(c) \/ GiveUp(c) \/ Return(c)
    \/ \E n \in Natives : NativeCall(n) \/ NativeTry(n) \/ NativeSleep(n) \/ Return(n)
    \/ \E p \in Posters : Post(p) \/ Wake(p)

Spec == Init /\ [][Next]_vars

-----------------------------------------------------------------------------
(* Properties *)

\* The word is at least -1 and every thread is somewhere in its own call.
TypeOK ==
    /\ value \in Int /\ value >= -1
    /\ pc \in [Threads -> CallerLabels \cup PosterLabels]
    /\ \A n \in Natives : pc[n] \in NativeLabels
    /\ \A c \in Callers : pc[c] \in CallerLabels
    /\ \A p \in Posters : pc[p] \in PosterLabels
    /\ posts \in 0..MaxPosts /\ served \in Nat

\* Tokens still in the semaphore: -1 counts as none.
Tokens == IF value > 0 THEN value ELSE 0

Returning == {t \in Waiters : pc[t] = "done"}

\* Every wait that returns 0 took exactly one token, whichever of the two
\* functions it called: tokens left, waits that are returning 0 and waits that
\* returned 0 add up to the initial value and the posts (ndk_sem_dec, and the
\* loop of sem_clockwait that tries again after each wake).
TokensConserved == Tokens + Cardinality(Returning) + served = Initial + posts

Sleepers(S) == {t \in S : pc[t] = "asleep"}

\* Somebody sleeping in S while there is a token is about to be woken.
WokenForTokens(S) ==
    Sleepers(S) # {} /\ value > 0 => \E p \in Posters : pc[p] = "wake"

\* Threads in libc's sem_wait lose no wake because others are in the shim.
PostWakes == WokenForTokens(Natives)

\* sem_clockwait.h:9 "true CLOCK_MONOTONIC waits identical to API 30+": the
\* shim's own waiters lose no wake either.
CallersAreWoken == WokenForTokens(Callers)
=============================================================================
