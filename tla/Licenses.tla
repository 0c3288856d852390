------------------------------ MODULE Licenses ------------------------------
(***************************************************************************)
(* apex licenses (license.go, commands.go): accepting writes two files,    *)
(* the apex license, whose being there means accepted, and the hashes that *)
(* AGP reads one per line, merged into the file that sdkmanager may have   *)
(* left.  A write truncates the file and then fills it; the process may be *)
(* killed before every step, and another one may run at the same time.     *)
(*                                                                         *)
(* A text is a sequence of hashes, newlines, blanks and whatever else a    *)
(* line is made of.                                                        *)
(*                                                                         *)
(* AllAgain is a faulty variant of the definition below it and is used by  *)
(* nothing here.                                                           *)
(***************************************************************************)
EXTENDS Naturals, Sequences

CONSTANTS
    Runners,    \* processes of apex licenses
    Earlier     \* what may be there before of the second file

NL         == "\n"
SP         == " "     \* what TrimSpace takes off the ends of a line, a \r too
Hashes     == <<"8933bad", "d56f518", "24333f8", "84831b9">>
Absent     == [there |-> FALSE, text |-> << >>]
File(text) == [there |-> TRUE, text |-> text]

\* Nothing, or a file with any text.
LicensesAssumption ==
    \A e \in Earlier : \/ e = Absent
                       \/ e = File(e.text) /\ e.text \in Seq({e.text[i] : i \in DOMAIN e.text})

\* Files of sdkmanager and of an older apex, which end without and with a newline,
\* with a hash alone, between blanks, beside another line and inside one.
SomeFiles == {Absent} \cup {File(t) : t \in
    { <<"other", NL>>, <<Hashes[1], NL>>, <<Hashes[1], NL, "other", NL, Hashes[1], NL>>,
      <<"other", Hashes[3], NL>>, <<NL, "other">>, <<NL, Hashes[2]>>,
      <<SP, Hashes[4], SP, NL>> }}

VARIABLES
    apex,       \* licenses/apex-sdk-license is there
    agp,        \* licenses/android-sdk-license
    at,         \* where each process is
    merged,     \* the text it is about to write
    before,     \* history: the second file before the command
    disturbed   \* history: a process was killed or two ran at once

vars == <<apex, agp, at, merged, before, disturbed>>

Init ==
    /\ apex = FALSE /\ agp \in Earlier /\ before = agp
    /\ at = [r \in Runners |-> "out"] /\ merged = [r \in Runners |-> << >>]
    /\ disturbed = FALSE

Ended(text) == text = << >> \/ text[Len(text)] = NL

\* The lines of a text, each a sequence of what it consists of.
Lines(text) ==
    LET ends  == {0, Len(text) + 1} \cup {i \in DOMAIN text : text[i] = NL}
        pairs == {p \in ends \X ends : p[1] < p[2] /\ \A i \in ends : i <= p[1] \/ i >= p[2]} IN
    {SubSeq(text, p[1] + 1, p[2] - 1) : p \in pairs}

Goto(r, s) == at' = [at EXCEPT ![r] = s]

\* licensesAccepted, and the answer to the prompt.
Accept(r) ==
    /\ at[r] = "out" /\ ~apex
    /\ Goto(r, "accepted")
    /\ before' = IF \A q \in Runners : at[q] = "out" THEN agp ELSE before
    /\ disturbed' = \E q \in Runners : at[q] # "out"
    /\ UNCHANGED <<apex, agp, merged>>

\* The file is there from its creation on; its text plays no role.
WriteApex(r) ==
    /\ at[r] = "accepted"
    /\ apex' = TRUE /\ Goto(r, "written")
    /\ UNCHANGED <<agp, merged, before, disturbed>>

\* The loop over the hashes, with those at the positions `missing` appended.
WithHashes(text, missing) ==
    LET Line(i) == IF i \in missing THEN <<Hashes[i], NL>> ELSE << >> IN
    text \o Line(1) \o Line(2) \o Line(3) \o Line(4)

\* What TrimSpace leaves of the line is the hash.
Trimmed(line, h) == \E k \in DOMAIN line : line[k] = h /\ \A j \in DOMAIN line \ {k} : line[j] = SP
Has(text, h)     == \E line \in Lines(text) : Trimmed(line, h)

OneEach == WithHashes(<< >>, DOMAIN Hashes)

AllAgain(text) == WithHashes(text, DOMAIN Hashes)
Merge(text)    == WithHashes(text, {i \in DOMAIN Hashes : ~Has(text, Hashes[i])})

ReadHashes(r) ==
    /\ at[r] = "written"
    /\ merged' = [merged EXCEPT ![r] = IF agp.there THEN Merge(agp.text) ELSE OneEach]
    /\ Goto(r, "merged")
    /\ UNCHANGED <<apex, agp, before, disturbed>>

Truncate(r) ==
    /\ at[r] = "merged"
    /\ agp' = File(<< >>) /\ Goto(r, "truncated")
    /\ UNCHANGED <<apex, merged, before, disturbed>>

Fill(r) ==
    /\ at[r] = "truncated"
    /\ agp' = File(merged[r]) /\ Goto(r, "out")
    /\ merged' = [merged EXCEPT ![r] = << >>]
    /\ UNCHANGED <<apex, before, disturbed>>

\* Killed, or a write failed: the command ends where it is.
Stop(r) ==
    /\ at[r] # "out" /\ Goto(r, "out")
    /\ merged' = [merged EXCEPT ![r] = << >>]
    /\ disturbed' = TRUE
    /\ UNCHANGED <<apex, agp, before>>

Run(r) == Accept(r) \/ WriteApex(r) \/ ReadHashes(r) \/ Truncate(r) \/ Fill(r)
Next   == \E r \in Runners : Run(r) \/ Stop(r)
Spec   == Init /\ [][Next]_vars

-----------------------------------------------------------------------------
(* Properties *)

Done         == apex /\ \A r \in Runners : at[r] = "out"
Merged(text) == /\ \A i \in DOMAIN Hashes : Has(text, Hashes[i])
                /\ Lines(before.text) \subseteq Lines(text)

\* Where a hash stands behind the earlier text.
Appended(h) == {k \in Len(before.text) + 1..Len(agp.text) : agp.text[k] = h}

\* An acceptance that nothing disturbs leaves every hash and every line that
\* was there on a line of its own, and the earlier text as it was: a hash that
\* was a line, but for blanks around it, is not written again, the others are
\* once, if the earlier file ended with a newline.
AcceptedMergesLines ==
    Done /\ ~disturbed /\ Ended(before.text) =>
      /\ Merged(agp.text)
      /\ SubSeq(agp.text, 1, Len(before.text)) = before.text
      /\ \A i \in DOMAIN Hashes :
           IF Has(before.text, Hashes[i]) THEN Appended(Hashes[i]) = {}
           ELSE \E k \in DOMAIN agp.text : Appended(Hashes[i]) = {k}

\* The same of every earlier file, as the comment in writeLicenses says.
KeepsLines == Done /\ ~disturbed => Merged(agp.text)
=============================================================================
