----------------------------- MODULE FeedbackRun -----------------------------
(***************************************************************************)
(* What the coverage bridge promises to the fuzzing engine, without its    *)
(* words, threads and processes: inputs are measured one at a time, a      *)
(* measurement is sealed when everyone who took part has left it, and the  *)
(* engine gets the exact tally of a sealed measurement or nothing at all.  *)
(***************************************************************************)
EXTENDS Integers

CONSTANTS nslots, MaxRun, MaxCount, MaxExtra

VARIABLES
    run,        \* the measurement in progress or made last
    phase,      \* "void", "open" or "sealed"
    members,    \* how many connections are in it
    tally,      \* hits per edge
    delivered   \* {} or {feedback the engine holds}

vars == <<run, phase, members, tally, delivered>>

Zeros == [s \in 1..nslots |-> 0]
Saturated(n) == IF n < MaxExtra THEN n ELSE MaxExtra

Init == run = 0 /\ phase = "void" /\ members = 0 /\ tally = Zeros /\ delivered = {}

Open ==
    /\ phase = "void" /\ delivered = {}
    /\ run' \in (run + 1)..MaxRun
    /\ phase' = "open"
    /\ UNCHANGED <<members, tally, delivered>>

Join ==
    /\ phase = "open"
    /\ members' = members + 1
    /\ UNCHANGED <<run, phase, tally, delivered>>

Hit(s) ==
    /\ phase = "open" /\ members > 0
    /\ tally' = [tally EXCEPT ![s] = @ + 1]
    /\ UNCHANGED <<run, phase, members, delivered>>

Leave ==
    /\ phase = "open" /\ members > 0
    /\ members' = members - 1
    /\ phase' = IF members = 1 THEN "sealed" ELSE "open"
    /\ UNCHANGED <<run, tally, delivered>>

\* Only a sealed measurement whose counts fit their words is delivered.
Deliver ==
    /\ phase = "sealed" /\ \A s \in 1..nslots : tally[s] <= MaxCount
    /\ delivered' = {[s \in 1..nslots |-> Saturated(tally[s])]}
    /\ UNCHANGED <<run, phase, members, tally>>

\* The engine has taken the feedback, or died with it.
Retire ==
    /\ delivered' = {}
    /\ UNCHANGED <<run, phase, members, tally>>

\* Cancelled, superseded by a new controller, or done with.  The run number
\* may be skipped over but is not used again.
Void ==
    /\ run' \in run..MaxRun
    /\ phase' = "void" /\ members' = 0 /\ tally' = Zeros /\ delivered' = {}

Next ==
    \/ Open \/ Join \/ Leave \/ Deliver \/ Retire \/ Void
    \/ \E s \in 1..nslots : Hit(s)

Spec == Init /\ [][Next]_vars

-----------------------------------------------------------------------------
(* What follows, for whoever keeps to it.                                  *)

\* What the engine holds is the tally of the sealed measurement, each count as
\* large as a byte can say, and nobody is in a measurement that is not open.
Promised ==
    /\ run \in Nat /\ (phase # "open" => members = 0)
    /\ delivered # {} =>
         /\ phase = "sealed" /\ \A s \in 1..nslots : tally[s] <= MaxCount
         /\ delivered = {[s \in 1..nslots |-> Saturated(tally[s])]}

\* A sealed measurement stays what it is until it is void, and so does the
\* feedback that the engine holds of it.
FinalStep ==
    /\ phase = "sealed" /\ phase' # "void" => UNCHANGED <<run, phase, tally>>
    /\ delivered # {} /\ delivered' # {} => delivered' = delivered
SealedIsFinal == [][FinalStep]_vars

\* No measurement has the number of an earlier one.
AscendingStep == run' >= run /\ (phase # "open" /\ phase' = "open" => run' > run)
RunsAscend == [][AscendingStep]_vars
=============================================================================
