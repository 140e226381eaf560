-------------------------- MODULE CheckBuildProofs --------------------------
(***************************************************************************)
(* Theorems about CheckBuild, for any files, answers of readelf,           *)
(* configurations and report paths: what the exit status says (CheckExit), *)
(* what is written (CheckReportKept), which expectation decides an item    *)
(* (CheckLastMatch) and what the report says of them (CheckReportAddsUp).  *)
(* The last two need what two recursions compute for every input, the      *)
(* updates of effective_modes and the sums of the summary: both by         *)
(* induction over a number, which is a least counterexample here.          *)
(***************************************************************************)
EXTENDS CheckBuild, SequenceTheorems, FiniteSetTheorems, WellFoundedInduction, TLAPS

-----------------------------------------------------------------------------
(* Sequences of whatever elements.                                         *)

IsSeq(s) == s \in Seq({s[i] : i \in DOMAIN s})

\* The empty sequence has no element.
LEMMA EmptyIsSeq == IsSeq(<<>>) /\ DOMAIN <<>> = {} /\ Len(<<>>) = 0
<1>1. <<>> \in Seq({}) /\ Len(<<>>) = 0
  BY EmptySeq
<1>2. DOMAIN <<>> = {}
  BY <1>1
<1>3. {<<>>[i] : i \in DOMAIN <<>>} = {}
  BY <1>2
<1> QED
  BY <1>1, <1>2, <1>3 DEF IsSeq

\* Append adds one element at the end.
LEMMA AppendGrows ==
    ASSUME NEW s, IsSeq(s), NEW e
    PROVE  /\ IsSeq(Append(s, e)) /\ Append(s, e) # <<>>
           /\ DOMAIN s = 1..Len(s) /\ Len(s) \in Nat
           /\ DOMAIN Append(s, e) = 1..Len(s) + 1
           /\ \A i \in DOMAIN s : Append(s, e)[i] = s[i]
           /\ Append(s, e)[Len(s) + 1] = e
<1> DEFINE S == {s[i] : i \in DOMAIN s} \union {e}
           t == Append(s, e)
<1>1. s \in Seq(S)
  BY DEF IsSeq
<1> HIDE DEF S
<1>2. e \in S
  BY DEF S
<1>3. /\ t \in Seq(S) /\ t # <<>> /\ Len(t) = Len(s) + 1
      /\ \A i \in 1..Len(s) : t[i] = s[i]
      /\ t[Len(s) + 1] = e
  BY <1>1, <1>2, AppendProperties
<1>4. DOMAIN s = 1..Len(s) /\ Len(s) \in Nat /\ DOMAIN t = 1..Len(t)
  BY <1>1, <1>3
<1>5. IsSeq(t)
  <2> HIDE DEF t
  <2> QED
    BY <1>3 DEF IsSeq
<1> QED
  BY <1>3, <1>4, <1>5

\* Head and Tail take a sequence apart.
LEMMA HeadTail ==
    ASSUME NEW s, IsSeq(s), s # <<>>
    PROVE  /\ IsSeq(Tail(s))
           /\ 1 \in DOMAIN s /\ Head(s) = s[1]
           /\ \A i \in DOMAIN Tail(s) : i + 1 \in DOMAIN s /\ Tail(s)[i] = s[i + 1]
           /\ \A i \in DOMAIN s : i = 1 \/ (i - 1 \in DOMAIN Tail(s) /\ s[i] = Tail(s)[i - 1])
<1> DEFINE S == {s[i] : i \in DOMAIN s}
           t == Tail(s)
<1>1. s \in Seq(S)
  BY DEF IsSeq
<1> HIDE DEF S
<1>2. /\ t \in Seq(S) /\ Len(t) = Len(s) - 1
      /\ \A i \in 1..Len(t) : t[i] = s[i + 1]
  BY <1>1, HeadTailProperties
<1>3. /\ DOMAIN s = 1..Len(s) /\ Len(s) \in Nat \ {0} /\ DOMAIN t = 1..Len(t)
      /\ Head(s) = s[1]
  BY <1>1, <1>2, EmptySeq
<1>4. IsSeq(t)
  <2> HIDE DEF t
  <2> QED
    BY <1>2 DEF IsSeq
<1> QED
  BY <1>2, <1>3, <1>4

-----------------------------------------------------------------------------
(* Judging.                                                                *)

\* A mismatch of an item is a failure of the expectation: the order in which
\* detect tries sections, references, definitions and weak references does not
\* hide one behind another.
LEMMA DetectMeets ==
    ASSUME NEW mode, NEW elf, NEW c
    PROVE  policy_failed(mode, detect(c, elf)) <=> ~Meets(mode, elf, c)
<1>1. c \in sections(elf) <=> Carries(elf, c)
  BY DEF sections, Carries
<1>2. c \in references(elf) <=> \E s \in elf.symbols : Named(s, c) /\ s.undefined /\ ~s.weak
  BY DEF references, Symbols, Named
<1>3. c \in definitions(elf) <=> \E s \in elf.symbols : Named(s, c) /\ ~s.undefined
  BY DEF definitions, Symbols, Named
<1>4. c \in weak(elf) <=> \E s \in elf.symbols : Named(s, c) /\ s.undefined /\ s.weak
  BY DEF weak, Symbols, Named
<1>5. detect(c, elf) = "FOUND" <=> Instrumented(elf, c)
  BY <1>1, <1>2, <1>3, <1>4 DEF detect, other_symbols, Instrumented
<1>6. detect(c, elf) = "NOT-SEEN" <=> Free(elf, c)
  BY <1>1, <1>2, <1>3, <1>4 DEF detect, other_symbols, Free, symbols_present
<1> QED
  BY <1>5, <1>6 DEF policy_failed, Meets

UnitShape(u) ==
    /\ u.verdict \in {"error", "skipped", "evidence"}
    /\ u.verdict = "skipped" => ~\E s \in u.elf.sections : s.runtime /\ ~s.empty
UnitsShape(us) == IsSeq(us) /\ \A i \in DOMAIN us : UnitShape(us[i])

\* What parse_elf passes over has no section of the runtime in it, and a file
\* that is not one ELF file or is LTO code is an error.
LEMMA ParseShape ==
    ASSUME NEW member, NEW elf
    PROVE  /\ UnitShape(parse_elf(member, elf))
           /\ elf.headers # 1 \/ Carries(elf, ".gnu.lto_") =>
                parse_elf(member, elf).verdict = "error"
<1>1. ".gnu.lto_" \in sections(elf) <=> Carries(elf, ".gnu.lto_")
  BY DEF sections, Carries
<1>2. Metadata(elf) => ~\E s \in elf.sections : s.runtime /\ ~s.empty
  BY DEF Metadata, has_runtime_sections
<1> QED
  BY <1>1, <1>2 DEF parse_elf, Failed, Unit, UnitShape

\* A file has a unit at least, and one that is an error if readelf's answer is
\* anything but ELF files read from end to end.
LEMMA InspectShape ==
    ASSUME NEW kind, NEW r \in Result
    PROVE  /\ UnitsShape(inspect(kind, r)) /\ inspect(kind, r) # <<>>
           /\ Trouble(kind, r) => Erroneous(inspect(kind, r))
<1> DEFINE F == Failed(NoMember)
<1>1. F.verdict = "error" /\ UnitShape(F)
  BY DEF Failed, Unit, UnitShape
<1>2. Len(r.files) \in Nat /\ DOMAIN r.files = 1..Len(r.files)
  BY DEF Result
<1> HIDE DEF F
<1>3. UnitsShape(Headed(r))
  BY <1>2, ParseShape DEF Headed, UnitsShape, IsSeq
<1>4. CASE kind = "archive"
  <2> DEFINE H == Headed(r)
             us == inspect(kind, r)
  <2>1. CASE r.diagnostic \/ H = <<>>
    <3>1. us = Append(H, F)
      BY <1>4, <2>1 DEF inspect, WholeArchive, F
    <3> HIDE DEF us, H
    <3>2. /\ IsSeq(us) /\ us # <<>> /\ DOMAIN us = 1..Len(H) + 1 /\ Len(H) \in Nat
          /\ us[Len(H) + 1] = F /\ DOMAIN H = 1..Len(H) /\ \A i \in DOMAIN H : us[i] = H[i]
      BY <1>3, <3>1, AppendGrows DEF UnitsShape, H
    <3>3. Erroneous(us)
      BY <1>1, <3>2 DEF Erroneous
    <3>4. UnitsShape(us)
      BY <1>1, <1>3, <3>2 DEF UnitsShape, H
    <3> QED
      BY <3>2, <3>3, <3>4 DEF us
  <2>2. CASE ~(r.diagnostic \/ H = <<>>)
    <3>1. us = H
      BY <1>4, <2>2 DEF inspect, WholeArchive
    <3>2. r.listed
      BY <2>2 DEF Headed
    <3>3. /\ DOMAIN H = DOMAIN r.files
          /\ \A i \in DOMAIN H : H[i] = parse_elf(r.files[i].member, r.files[i].elf)
      BY <3>2 DEF Headed
    <3>4. r.files # <<>>
      BY <2>2, <3>2 DEF Headed
    <3>5. ASSUME Trouble(kind, r)
          PROVE  Erroneous(us)
      <4>1. PICK i \in DOMAIN r.files :
              r.files[i].elf.headers # 1 \/ Carries(r.files[i].elf, ".gnu.lto_")
        BY <1>4, <2>2, <3>2, <3>4, <3>5 DEF Trouble
      <4> QED
        BY <3>1, <3>3, <4>1, ParseShape DEF Erroneous
    <3> QED
      BY <1>3, <2>2, <3>1, <3>5
  <2> QED
    BY <2>1, <2>2
<1>5. CASE kind # "archive"
  <2>1. CASE r.diagnostic \/ Len(r.files) # 1
    <3>1. inspect(kind, r) = <<F>>
      BY <1>5, <2>1 DEF inspect, F
    <3> QED
      BY <1>1, <3>1 DEF UnitsShape, IsSeq, Erroneous
  <2>2. CASE ~(r.diagnostic \/ Len(r.files) # 1)
    <3> DEFINE u == parse_elf(NoMember, r.files[1].elf)
    <3>1. inspect(kind, r) = <<u>>
      BY <1>5, <2>2 DEF inspect
    <3>2. UnitShape(u)
      BY ParseShape
    <3>3. Trouble(kind, r) => u.verdict = "error"
      BY <1>2, <1>5, <2>2, ParseShape DEF Trouble
    <3> HIDE DEF u
    <3> QED
      BY <3>1, <3>2, <3>3 DEF UnitsShape, IsSeq, Erroneous
  <2> QED
    BY <2>1, <2>2
<1> QED
  BY <1>4, <1>5

-----------------------------------------------------------------------------
(* The inductive invariant.                                                *)

Reading == at \in {"inspect", "judge", "announce"}

\* The steps of main in their order, and what each of them finds.
StepShape ==
    /\ at \in {"load", "discover", "output", "inspect", "judge", "announce", "done"}
    /\ status \in {Running, 0, 1, 2} /\ (status = Running <=> at # "done")
    /\ IsSeq(log) /\ UnitsShape(units) /\ \A k \in DOMAIN log : UnitShape(log[k].unit)
    /\ Len(artifacts) \in Nat /\ DOMAIN artifacts = 1..Len(artifacts)
    /\ turn \in 1..Len(artifacts) + 1 /\ errors \in Nat /\ failures \in Nat
    /\ file_failed \in BOOLEAN /\ (at # "judge" => file_failed = FALSE)
    /\ at \in {"load", "discover", "output"} => turn = 1
    /\ at \notin {"announce", "done"} => report = "untouched"
    /\ at \in {"load", "discover"} => artifacts = <<>> /\ errors = 0
    /\ at = "judge" => turn <= Len(artifacts)
    /\ at = "announce" => turn = Len(artifacts) + 1 /\ report = "whole"

\* While no error is counted there is something to inspect, and only the file
\* in work may have been read in part: one of its units is still to say so.
ErrorsCounted ==
    errors = 0 =>
        /\ Reading \/ at = "output" => artifacts # <<>>
        /\ \A k \in DOMAIN log : log[k].unit.verdict # "error"
        /\ \A i \in troubled : at = "judge" /\ i = turn /\ Erroneous(units)

\* Of every file that is behind there is a unit in the log.
FilesLogged ==
    /\ \A i \in 1..turn - 1 : \E k \in DOMAIN log : log[k].artifact = i
    /\ at = "judge" => units # <<>> \/ \E k \in DOMAIN log : log[k].artifact = turn

\* A failed item is counted with its file, or will be when the file is done.
FailuresCounted == (failures = 0 /\ ~file_failed) <=> AllMet

\* What has been checked before a report is made.
OutputChecked ==
    /\ at \notin {"load", "done"} => ~Invalid
    /\ Reading => ~Forbidden(output)

IInv ==
    /\ output \in Outputs
    /\ StepShape /\ ErrorsCounted /\ FilesLogged /\ FailuresCounted /\ OutputChecked
    /\ ExitTellsTheTruth /\ ReportKept

\* Before the run.
LEMMA InitInv ==
    ASSUME CheckBuildAssumption, Init
    PROVE  IInv
<1>1. DOMAIN log = {} /\ DOMAIN units = {} /\ IsSeq(log) /\ IsSeq(units)
  BY EmptyIsSeq DEF Init
<1>2. Len(artifacts) = 0 /\ DOMAIN artifacts = 1..Len(artifacts)
  <2>1. 1..0 = {}
    OBVIOUS
  <2> QED
    BY <2>1, EmptyIsSeq DEF Init
<1>3. StepShape
  <2>1. UnitsShape(units) /\ \A k \in DOMAIN log : UnitShape(log[k].unit)
    BY <1>1 DEF UnitsShape
  <2>2. turn \in 1..Len(artifacts) + 1
    BY <1>2 DEF Init
  <2> QED
    BY <1>1, <1>2, <2>1, <2>2 DEF Init, StepShape, Running
<1>4. ErrorsCounted
  BY <1>1 DEF Init, ErrorsCounted, Reading
<1>5. FilesLogged
  BY DEF Init, FilesLogged
<1>6. FailuresCounted
  BY <1>1 DEF Init, FailuresCounted, AllMet, Items
<1>7. OutputChecked
  BY DEF Init, OutputChecked, Reading
<1>8. ExitTellsTheTruth
  BY DEF Init, ExitTellsTheTruth, Running
<1>9. ReportKept
  BY DEF Init, ReportKept
<1> QED
  BY <1>3, <1>4, <1>5, <1>6, <1>7, <1>8, <1>9 DEF Init, IInv

-----------------------------------------------------------------------------
(* The steps before a file is read.                                        *)

\* What the log says does not change with the step of main.
LEMMA LogKept ==
    ASSUME UNCHANGED <<log, troubled, artifacts>>
    PROVE  UNCHANGED <<AllMet, AllInspected>>
BY DEF AllMet, AllInspected, Items, Fails, ModeOf

\* A report path that is not forbidden is free or an earlier report.
LEMMA NotForbidden ==
    ASSUME CheckBuildAssumption, output \in Outputs, ~Forbidden(output)
    PROVE  output.file = "none" \/ (output.file = "previous" /\ output.links = 1)
BY DEF CheckBuildAssumption, Forbidden, Inputs

\* A run that ends with 2, or on a loop with 1, claims nothing.
LEMMA ExitInv ==
    ASSUME CheckBuildAssumption, IInv, at \notin {"judge", "done"}, at' = "done",
           status' = 2 \/ (status' = 1 /\ loop' # "none"),
           UNCHANGED <<input, artifacts, turn, units, file_failed, errors, failures, history>>,
           report' = report \/ (at = "inspect" /\ turn > Len(artifacts))
    PROVE  IInv'
<1>1. StepShape'
  BY DEF IInv, StepShape, UnitsShape, Running, history
<1>2. ErrorsCounted'
  BY DEF IInv, ErrorsCounted, Reading, Erroneous, history
<1>3. FilesLogged' /\ FailuresCounted'
  BY LogKept DEF IInv, FilesLogged, FailuresCounted, history
<1>4. OutputChecked' /\ ExitTellsTheTruth'
  BY DEF OutputChecked, Reading, ExitTellsTheTruth
<1>5. ReportKept'
  BY NotForbidden DEF IInv, ReportKept, OutputChecked, Reading, Invalid, input
<1> QED
  BY <1>1, <1>2, <1>3, <1>4, <1>5 DEF IInv, input

\* From one step of main to the next before the first file.
LEMMA SetUpInv ==
    ASSUME CheckBuildAssumption, IInv,
           Loop \/ Load \/ NoReadelf \/ Discovered \/ CheckOutput
    PROVE  IInv'
<1>1. CASE Loop
  BY <1>1, ExitInv DEF Loop, Exit, input, counts
<1>2. CASE NoReadelf
  BY <1>2, ExitInv DEF NoReadelf, Exit, input, counts
<1>3. CASE Load
  <2>1. CASE Invalid
    BY <1>3, <2>1, ExitInv DEF Load, Exit, input, counts
  <2>2. CASE ~Invalid
    <3>1. /\ at = "load" /\ at' = "discover" /\ Invalid' = Invalid
          /\ UNCHANGED <<input, artifacts, turn, units, counts, report, status, history>>
      BY <1>3, <2>2 DEF Load, Goto, Invalid, input
    <3>2. StepShape'
      BY <3>1 DEF IInv, StepShape, UnitsShape, counts, history
    <3>3. ErrorsCounted' /\ FilesLogged' /\ FailuresCounted'
      BY <3>1, LogKept DEF IInv, ErrorsCounted, FilesLogged, FailuresCounted, Reading, counts,
                           history
    <3>4. OutputChecked' /\ ExitTellsTheTruth' /\ ReportKept'
      BY <2>2, <3>1 DEF IInv, StepShape, OutputChecked, ExitTellsTheTruth, ReportKept, Reading,
                        Running, input
    <3> QED
      BY <3>1, <3>2, <3>3, <3>4 DEF IInv, input
  <2> QED
    BY <2>1, <2>2
<1>4. CASE Discovered
  <2>1. PICK f \in Findings : artifacts' = f.artifacts /\ errors' = f.errors
    BY <1>4 DEF Discovered
  <2>2. /\ f.artifacts \in Seq([name : Names, kind : Kinds]) /\ f.errors \in Nat
        /\ f.artifacts = <<>> => f.errors > 0
    BY DEF CheckBuildAssumption
  <2>3. /\ Len(artifacts') \in Nat /\ DOMAIN artifacts' = 1..Len(artifacts')
        /\ errors' \in Nat /\ (artifacts' = <<>> => errors' > 0)
    BY <2>1, <2>2
  <2>4. /\ at = "discover" /\ at' = "output" /\ UNCHANGED status
        /\ UNCHANGED <<input, turn, units, file_failed, failures, report, log, troubled>>
    BY <1>4 DEF Discovered, Goto, history
  <2>5. UNCHANGED AllMet
    BY <2>4 DEF AllMet, Items, Fails, ModeOf
  <2>6. UNCHANGED Invalid
    BY <2>4 DEF Invalid, input
  <2>7. turn = 1 /\ errors = 0
    BY <2>4 DEF IInv, StepShape
  <2>8. StepShape'
    <3>1. turn' \in 1..Len(artifacts') + 1
      BY <2>3, <2>4, <2>7
    <3> QED
      BY <2>3, <2>4, <2>7, <3>1 DEF IInv, StepShape, UnitsShape, Running
  <2>9. ErrorsCounted'
    BY <2>3, <2>4, <2>7 DEF IInv, ErrorsCounted, Reading
  <2>10. FilesLogged' /\ FailuresCounted'
    BY <2>4, <2>5 DEF IInv, FilesLogged, FailuresCounted
  <2>11. OutputChecked' /\ ExitTellsTheTruth' /\ ReportKept'
    <3>1. report = "untouched"
      BY <2>4, <2>7 DEF IInv, StepShape, ReportKept
    <3> QED
      BY <2>4, <2>6, <3>1 DEF IInv, StepShape, OutputChecked, ExitTellsTheTruth, ReportKept,
                              Reading, Running
  <2> QED
    BY <2>4, <2>8, <2>9, <2>10, <2>11 DEF IInv, input
<1>5. CASE CheckOutput
  <2>1. CASE Forbidden(output)
    BY <1>5, <2>1, ExitInv DEF CheckOutput, Exit, input, counts
  <2>2. CASE ~Forbidden(output)
    <3>1. /\ at = "output" /\ at' = "inspect"
          /\ UNCHANGED <<input, artifacts, turn, units, counts, report, status, history>>
      BY <1>5, <2>2 DEF CheckOutput, Goto
    <3>2. UNCHANGED <<Invalid, Forbidden(output)>>
      BY <3>1 DEF Invalid, Forbidden, Inputs, ArtifactNames, input
    <3>3. StepShape'
      BY <3>1 DEF IInv, StepShape, UnitsShape, counts, history
    <3>4. ErrorsCounted' /\ FilesLogged' /\ FailuresCounted'
      BY <3>1, LogKept DEF IInv, ErrorsCounted, FilesLogged, FailuresCounted, Reading, counts,
                           history
    <3>5. OutputChecked'
      BY <2>2, <3>1, <3>2 DEF IInv, OutputChecked
    <3>6. ExitTellsTheTruth' /\ ReportKept'
      BY <3>1, <3>2 DEF IInv, StepShape, ExitTellsTheTruth, ReportKept, Running, input
    <3> QED
      BY <3>1, <3>3, <3>4, <3>5, <3>6 DEF IInv, input
  <2> QED
    BY <2>1, <2>2
<1> QED
  BY <1>1, <1>2, <1>3, <1>4, <1>5

-----------------------------------------------------------------------------
(* A file is read.                                                         *)

\* Whatever readelf says: the units of the file are to be judged, and one of
\* them is an error if the file was not read from end to end.
LEMMA ReadInv ==
    ASSUME IInv, at = "inspect", turn <= Len(artifacts),
           NEW us, UnitsShape(us), us # <<>>, Begin(us),
           troubled' = troubled \/ (troubled' = troubled \union {turn} /\ Erroneous(us)),
           UNCHANGED <<input, rules, artifacts, turn, errors, failures, failed, used, report, log>>
    PROVE  IInv'
<1>1. at' = "judge" /\ UNCHANGED status /\ units' = us /\ file_failed' = FALSE
  BY DEF Begin, Goto
<1>2. StepShape'
  BY <1>1 DEF IInv, StepShape
<1>3. ErrorsCounted'
  BY <1>1 DEF IInv, ErrorsCounted, Reading
<1>4. FilesLogged'
  BY <1>1 DEF IInv, FilesLogged
<1>5. FailuresCounted'
  BY <1>1 DEF IInv, StepShape, FailuresCounted, AllMet, Items, Fails, ModeOf
<1>6. UNCHANGED <<Invalid, Forbidden(output)>>
  BY DEF Invalid, Forbidden, Inputs, ArtifactNames, input
<1>7. OutputChecked' /\ ExitTellsTheTruth' /\ ReportKept'
  BY <1>1, <1>6 DEF IInv, StepShape, OutputChecked, Reading, ExitTellsTheTruth, ReportKept, Running
<1> QED
  BY <1>2, <1>3, <1>4, <1>5, <1>7 DEF IInv, input

\* A file is read, or readelf fails on it.
LEMMA InspectInv ==
    ASSUME CheckBuildAssumption, IInv, Inspect \/ InspectRaises
    PROVE  IInv'
<1>1. CASE Inspect
  <2>1. PICK r \in Results :
          /\ Begin(inspect(Artifact.kind, r))
          /\ troubled' = IF Trouble(Artifact.kind, r) THEN troubled \union {turn} ELSE troubled
    BY <1>1 DEF Inspect
  <2>2. /\ UnitsShape(inspect(Artifact.kind, r)) /\ inspect(Artifact.kind, r) # <<>>
        /\ Trouble(Artifact.kind, r) => Erroneous(inspect(Artifact.kind, r))
    BY InspectShape DEF CheckBuildAssumption
  <2> DEFINE us == inspect(Artifact.kind, r)
  <2>3. Begin(us) /\ UnitsShape(us) /\ us # <<>>
    BY <2>1, <2>2
  <2>4. troubled' = troubled \/ (troubled' = troubled \union {turn} /\ Erroneous(us))
    BY <2>1, <2>2
  <2> HIDE DEF us
  <2> QED
    BY <1>1, <2>3, <2>4, ReadInv DEF Inspect
<1>2. CASE InspectRaises
  <2> DEFINE us == <<Failed(NoMember)>>
  <2>1. Failed(NoMember).verdict = "error" /\ UnitShape(Failed(NoMember))
    BY DEF Failed, Unit, UnitShape
  <2>2. UnitsShape(us) /\ us # <<>> /\ Erroneous(us)
    BY <2>1 DEF UnitsShape, IsSeq, Erroneous
  <2> QED
    BY <1>2, <2>2, ReadInv DEF InspectRaises
<1> QED
  BY <1>1, <1>2

-----------------------------------------------------------------------------
(* A unit is judged.                                                       *)

\* The item that is added decides whether every item still meets what is
\* expected of it.
LEMMA AppendMet ==
    ASSUME NEW a, NEW u, NEW item_modes, IsSeq(log),
           log' = Append(log, [artifact |-> a, unit |-> u, modes |-> item_modes])
    PROVE  AllMet' <=> /\ AllMet
                       /\ u.verdict = "evidence" =>
                            \A c \in Checks : Meets(ModeOf(item_modes, c), u.elf, c)
<1> DEFINE e == [artifact |-> a, unit |-> u, modes |-> item_modes]
<1>1. e.unit = u /\ e.modes = item_modes
  OBVIOUS
<1> HIDE DEF e
<1>2. PICK n : n = Len(log) + 1
  OBVIOUS
<1>3. /\ DOMAIN log = 1..n - 1 /\ n \in Nat \ {0} /\ DOMAIN log' = 1..n
      /\ log'[n] = e
      /\ \A k \in DOMAIN log : log'[k] = log[k]
  BY <1>2, AppendGrows DEF e
<1>4. \A k \in DOMAIN log, c \in Checks : Fails(k, c)' <=> Fails(k, c)
  BY <1>3 DEF Fails
<1>5. \A c \in Checks : Fails(n, c)' <=> ~Meets(ModeOf(item_modes, c), u.elf, c)
  BY <1>1, <1>3 DEF Fails
<1>6. Items' = Items \union (IF u.verdict = "evidence" THEN {n} ELSE {})
  BY <1>1, <1>3 DEF Items
<1>7. Items \subseteq DOMAIN log
  BY DEF Items
<1>8. AllMet' <=> \A k \in Items', c \in Checks : ~Fails(k, c)'
  BY DEF AllMet
<1> QED
  BY <1>4, <1>5, <1>6, <1>7, <1>8 DEF AllMet

\* A unit leaves the file in work for the log.  It is counted as an error if it
\* is one, and noted with its file if it does not meet what is expected of it.
LEMMA UnitInv ==
    ASSUME IInv, at = "judge", units # <<>>, units' = Tail(units),
           NEW item_modes,
           log' = Append(log, [artifact |-> turn, unit |-> U, modes |-> item_modes]),
           U.verdict = "error" => errors' = errors + 1,
           U.verdict # "error" => errors' = errors,
           file_failed' \in BOOLEAN,
           file_failed' <=> \/ file_failed
                            \/ /\ U.verdict = "evidence"
                               /\ \E c \in Checks : ~Meets(ModeOf(item_modes, c), U.elf, c),
           UNCHANGED <<input, at, artifacts, turn, failures, report, status, troubled>>
    PROVE  IInv'
<1> DEFINE e == [artifact |-> turn, unit |-> U, modes |-> item_modes]
<1>1. e.artifact = turn /\ e.unit = U
  OBVIOUS
<1> HIDE DEF e
<1>2. PICK n : n = Len(log) + 1
  OBVIOUS
<1>3. /\ IsSeq(log') /\ DOMAIN log = 1..n - 1 /\ n \in Nat \ {0} /\ DOMAIN log' = 1..n
      /\ log'[n] = e
      /\ \A k \in DOMAIN log : log'[k] = log[k]
  BY <1>2, AppendGrows DEF IInv, StepShape, e
<1>4. /\ IsSeq(units') /\ 1 \in DOMAIN units /\ U = units[1]
      /\ \A i \in DOMAIN units' : i + 1 \in DOMAIN units /\ units'[i] = units[i + 1]
      /\ \A i \in DOMAIN units :
           i = 1 \/ (i - 1 \in DOMAIN units' /\ units[i] = units'[i - 1])
  BY HeadTail DEF IInv, StepShape, UnitsShape, U
<1>5. UnitShape(U) /\ UnitsShape(units')
  BY <1>4 DEF IInv, StepShape, UnitsShape
<1>6. StepShape'
  <2>1. \A k \in DOMAIN log' : UnitShape(log'[k].unit)
    BY <1>1, <1>3, <1>5 DEF IInv, StepShape
  <2> QED
    BY <1>3, <1>5, <2>1 DEF IInv, StepShape
<1>7. ErrorsCounted'
  <2> SUFFICES ASSUME errors' = 0
               PROVE  /\ artifacts # <<>>
                      /\ \A k \in DOMAIN log' : log'[k].unit.verdict # "error"
                      /\ \A i \in troubled : i = turn /\ Erroneous(units')
    BY DEF ErrorsCounted
  <2>1. errors = 0 /\ U.verdict # "error"
    BY DEF IInv, StepShape
  <2>2. \A k \in DOMAIN log' : log'[k].unit.verdict # "error"
    BY <1>1, <1>3, <2>1 DEF IInv, ErrorsCounted
  <2>3. ASSUME Erroneous(units)
        PROVE  Erroneous(units')
    <3>1. PICK i \in DOMAIN units : units[i].verdict = "error"
      BY <2>3 DEF Erroneous
    <3>2. i - 1 \in DOMAIN units' /\ units'[i - 1].verdict = "error"
      BY <1>4, <2>1, <3>1
    <3> QED
      BY <3>2 DEF Erroneous
  <2> QED
    BY <2>1, <2>2, <2>3 DEF IInv, ErrorsCounted, Reading
<1>8. FilesLogged'
  <2>1. \A i \in 1..turn - 1 : \E k \in DOMAIN log' : log'[k].artifact = i
    BY <1>3 DEF IInv, FilesLogged
  <2>2. n \in DOMAIN log' /\ log'[n].artifact = turn
    BY <1>1, <1>3
  <2> QED
    BY <2>1, <2>2 DEF FilesLogged
<1>9. FailuresCounted'
  BY AppendMet DEF IInv, StepShape, FailuresCounted
<1>10. UNCHANGED <<Invalid, Forbidden(output)>>
  BY DEF Invalid, Forbidden, Inputs, ArtifactNames, input
<1>11. OutputChecked' /\ ExitTellsTheTruth' /\ ReportKept'
  BY <1>10 DEF IInv, StepShape, OutputChecked, Reading, ExitTellsTheTruth, ReportKept, Running
<1> QED
  BY <1>6, <1>7, <1>8, <1>9, <1>11 DEF IInv, input

\* A unit of a file is passed over, is in error, or is judged.
LEMMA JudgeInv ==
    ASSUME IInv, UnitError \/ UnitSkipped \/ UnitJudged
    PROVE  IInv'
<1>1. file_failed \in BOOLEAN
  BY DEF IInv, StepShape
<1>2. CASE UnitError
  BY <1>1, <1>2, UnitInv DEF UnitError, Logged
<1>3. CASE UnitSkipped
  BY <1>1, <1>3, UnitInv DEF UnitSkipped, Logged
<1>4. CASE UnitJudged
  <2> DEFINE item_modes == effective_modes(Artifact.name, U.member, modes, overrides)
  <2>1. /\ at = "judge" /\ units # <<>> /\ U.verdict = "evidence" /\ units' = Tail(units)
        /\ log' = Append(log, [artifact |-> turn, unit |-> U, modes |-> item_modes])
        /\ file_failed' = (file_failed \/ Mismatches(item_modes) # {})
        /\ UNCHANGED <<input, at, artifacts, turn, errors, failures, report, status, troubled>>
    BY <1>4 DEF UnitJudged, Logged
  <2> HIDE DEF item_modes
  <2>2. Mismatches(item_modes) # {}
          <=> \E c \in Checks : ~Meets(ModeOf(item_modes, c), U.elf, c)
    BY DetectMeets DEF Mismatches
  <2>3. file_failed' \in BOOLEAN
    BY <1>1, <2>1
  <2> QED
    BY <2>1, <2>2, <2>3, UnitInv
<1> QED
  BY <1>2, <1>3, <1>4

\* The file is counted if an item of it failed.
LEMMA FileDoneInv ==
    ASSUME IInv, FileDone
    PROVE  IInv'
<1>1. /\ at = "judge" /\ units = <<>> /\ at' = "inspect" /\ turn' = turn + 1
      /\ failures' = (IF file_failed THEN failures + 1 ELSE failures) /\ file_failed' = FALSE
      /\ UNCHANGED <<input, artifacts, units, errors, report, status, log, troubled>>
  BY DEF FileDone, Goto, history
<1>2. StepShape'
  <2>1. turn' \in 1..Len(artifacts') + 1 /\ failures' \in Nat
    BY <1>1 DEF IInv, StepShape
  <2>2. UnitsShape(units')
    BY <1>1 DEF IInv, StepShape
  <2> QED
    BY <1>1, <2>1, <2>2 DEF IInv, StepShape, Running
<1>3. ErrorsCounted'
  <2>1. ~Erroneous(units)
    BY <1>1, EmptyIsSeq DEF Erroneous
  <2> QED
    BY <1>1, <2>1 DEF IInv, ErrorsCounted, Reading
<1>4. FilesLogged'
  BY <1>1 DEF IInv, StepShape, FilesLogged
<1>5. FailuresCounted'
  BY <1>1, LogKept DEF IInv, StepShape, FailuresCounted
<1>6. UNCHANGED <<Invalid, Forbidden(output)>>
  BY <1>1 DEF Invalid, Forbidden, Inputs, ArtifactNames, input
<1>7. OutputChecked' /\ ExitTellsTheTruth' /\ ReportKept'
  BY <1>1, <1>6 DEF IInv, StepShape, OutputChecked, Reading, ExitTellsTheTruth, ReportKept,
                    Running
<1> QED
  BY <1>1, <1>2, <1>3, <1>4, <1>5, <1>7 DEF IInv, input

-----------------------------------------------------------------------------
(* The report.                                                             *)

\* The report is written and announced, or either fails.
LEMMA ReportInv ==
    ASSUME CheckBuildAssumption, IInv, Write \/ WriteFails \/ AnnounceFails
    PROVE  IInv'
<1>1. CASE WriteFails
  BY <1>1, ExitInv DEF WriteFails, Exit, input, counts
<1>2. CASE AnnounceFails
  BY <1>2, ExitInv DEF AnnounceFails, Exit, input, counts
<1>3. CASE Write
  <2>1. /\ at = "inspect" /\ turn > Len(artifacts) /\ at' = "announce" /\ report' = "whole"
        /\ UNCHANGED <<input, artifacts, turn, units, counts, status, history>>
    BY <1>3 DEF Write, Goto
  <2>2. StepShape'
    BY <2>1 DEF IInv, StepShape, UnitsShape, counts, history
  <2>3. ErrorsCounted' /\ FilesLogged' /\ FailuresCounted'
    BY <2>1, LogKept DEF IInv, ErrorsCounted, FilesLogged, FailuresCounted, Reading, counts,
                         history
  <2>4. UNCHANGED <<Invalid, Forbidden(output)>>
    BY <2>1 DEF Invalid, Forbidden, Inputs, ArtifactNames, input
  <2>5. OutputChecked' /\ ExitTellsTheTruth'
    BY <2>1, <2>4 DEF IInv, StepShape, OutputChecked, Reading, ExitTellsTheTruth, Running
  <2>6. ReportKept'
    BY <2>1, <2>4, NotForbidden DEF IInv, OutputChecked, Reading, ReportKept, input
  <2> QED
    BY <2>1, <2>2, <2>3, <2>5, <2>6 DEF IInv, input
<1> QED
  BY <1>1, <1>2, <1>3

\* The exit status is that of the counters, and these are right.
LEMMA AnnounceInv ==
    ASSUME IInv, Announce
    PROVE  IInv'
<1>1. /\ at = "announce" /\ at' = "done" /\ status' = ExitStatus
      /\ UNCHANGED <<input, artifacts, turn, units, counts, report, history>>
  BY DEF Announce, Exit
<1>2. status' \in {0, 1, 2}
  BY <1>1 DEF ExitStatus
<1>3. StepShape'
  BY <1>1, <1>2 DEF IInv, StepShape, UnitsShape, Running, counts, history
<1>4. ErrorsCounted' /\ FilesLogged' /\ FailuresCounted'
  BY <1>1, LogKept DEF IInv, ErrorsCounted, FilesLogged, FailuresCounted, Reading, counts,
                       history
<1>5. ExitTellsTheTruth'
  <2> SUFFICES ASSUME status' # 2
               PROVE  /\ artifacts # <<>> /\ AllInspected /\ report = "whole"
                      /\ status' = 0 <=> AllMet
    BY <1>1, <1>2, LogKept DEF ExitTellsTheTruth, history
  <2>1. errors = 0 /\ (status' = 0 <=> failures = 0)
    BY <1>1 DEF ExitStatus, IInv, StepShape
  <2>2. AllInspected
    <3>1. \A i \in DOMAIN artifacts :
            i \notin troubled /\ \E k \in DOMAIN log : log[k].artifact = i
      BY <1>1, <2>1 DEF IInv, StepShape, ErrorsCounted, FilesLogged
    <3>2. \A k \in DOMAIN log \ Items :
            log[k].unit.verdict = "skipped" /\ UnitShape(log[k].unit)
      BY <2>1 DEF IInv, StepShape, ErrorsCounted, Items, UnitShape
    <3> QED
      BY <3>1, <3>2 DEF AllInspected, UnitShape
  <2> QED
    BY <1>1, <2>1, <2>2 DEF IInv, StepShape, ErrorsCounted, FailuresCounted, Reading
<1>6. UNCHANGED <<Invalid, Forbidden(output)>>
  BY <1>1 DEF Invalid, Forbidden, Inputs, ArtifactNames, input
<1>7. OutputChecked' /\ ReportKept'
  BY <1>1, <1>6 DEF IInv, OutputChecked, Reading, ReportKept, input
<1> QED
  BY <1>1, <1>3, <1>4, <1>5, <1>7 DEF IInv, input

-----------------------------------------------------------------------------

\* Every step keeps the invariant.
LEMMA StepInv ==
    ASSUME CheckBuildAssumption, IInv, [Next]_vars
    PROVE  IInv'
<1>1. CASE UNCHANGED vars
  <2>1. UNCHANGED <<AllMet, AllInspected, Invalid, Forbidden(output)>>
    BY <1>1, LogKept DEF vars, input, history, Invalid, Forbidden, Inputs, ArtifactNames
  <2>2. StepShape' /\ ErrorsCounted' /\ FilesLogged'
    BY <1>1 DEF vars, counts, history, IInv, StepShape, UnitsShape, ErrorsCounted, FilesLogged,
                Reading, Erroneous
  <2>3. FailuresCounted' /\ OutputChecked' /\ ExitTellsTheTruth' /\ ReportKept'
    BY <1>1, <2>1 DEF vars, input, counts, IInv, FailuresCounted, OutputChecked, Reading,
                      ExitTellsTheTruth, ReportKept
  <2> QED
    BY <1>1, <2>2, <2>3 DEF IInv, vars, input
<1> QED
  BY <1>1, SetUpInv, InspectInv, JudgeInv, FileDoneInv, ReportInv, AnnounceInv DEF Next

\* Whatever the files, readelf, the configuration and the disk do: an exit
\* status of 0 is given only when everything was read and meets the
\* expectations, and 1 only when everything was read and something does not.
THEOREM CheckExit == Spec => []ExitTellsTheTruth
<1>1. Init => IInv
  BY InitInv, CheckBuildAssumption
<1>2. IInv /\ [Next]_vars => IInv'
  BY StepInv, CheckBuildAssumption
<1>3. IInv => ExitTellsTheTruth
  BY DEF IInv
<1> QED
  BY <1>1, <1>2, <1>3, PTL DEF Spec

\* No file but an earlier report is ever written over.
THEOREM CheckReportKept == Spec => []ReportKept
<1>1. Init => IInv
  BY InitInv, CheckBuildAssumption
<1>2. IInv /\ [Next]_vars => IInv'
  BY StepInv, CheckBuildAssumption
<1>3. IInv => ReportKept
  BY DEF IInv
<1> QED
  BY <1>1, <1>2, <1>3, PTL DEF Spec

-----------------------------------------------------------------------------
(* Induction over the numbers.                                             *)

\* A set of natural numbers has a least element.
LEMMA LeastElement ==
    ASSUME NEW S \in SUBSET Nat, S # {}
    PROVE  \E m \in S : \A k \in S : m <= k
<1> DEFINE R == OpToRel(<, Nat)
<1>1. IsWellFoundedOn(R, Nat)
  BY NatLessThanWellFounded
<1>2. \A k, m \in Nat : k < m => <<k, m>> \in R
  BY DEF OpToRel
<1> HIDE DEF R
<1>3. PICK m \in S : \A k \in S : <<k, m>> \notin R
  BY <1>1, WFMin
<1>4. ASSUME NEW k \in S PROVE m <= k
  <2>1. ~(k < m)
    BY <1>2, <1>3
  <2> QED
    BY <2>1
<1> QED
  BY <1>4

\* Induction over a set: what holds of 0 and is handed on holds of all.
LEMMA Induct ==
    ASSUME NEW S, 0 \in S, \A n \in Nat : n \in S => n + 1 \in S
    PROVE  \A n \in Nat : n \in S
<1> DEFINE T == Nat \ S
<1> SUFFICES ASSUME T # {} PROVE FALSE
  OBVIOUS
<1>1. PICK m \in T : \A k \in T : m <= k
  BY LeastElement
<1>2. m # 0 /\ m - 1 \in Nat
  BY <1>1
<1>3. m - 1 \notin T
  BY <1>1, <1>2
<1> QED
  BY <1>1, <1>2, <1>3

-----------------------------------------------------------------------------
(* The modes of an item.                                                   *)

\* The recursion of effective_modes.
Updates(f, name, member, ms, os, n) ==
    f = [i \in 0..n |->
           IF i = 0 THEN ms
           ELSE IF Matches(os[i].pattern, name, member)
             THEN update(f[i - 1], os[i].modes) ELSE f[i - 1]]

\* It has a solution.
LEMMA UpdatesExists ==
    ASSUME NEW name, NEW member, NEW ms, NEW os
    PROVE  \A n \in Nat : \E f : Updates(f, name, member, ms, os, n)
<1> DEFINE S == {n \in Nat : \E f : Updates(f, name, member, ms, os, n)}
<1>1. 0 \in S
  <2>1. Updates([i \in 0..0 |-> ms], name, member, ms, os, 0)
    BY DEF Updates
  <2> QED
    BY <2>1
<1>2. ASSUME NEW n \in Nat, n \in S PROVE n + 1 \in S
  <2>1. PICK f : Updates(f, name, member, ms, os, n)
    BY <1>2
  <2> DEFINE new == IF Matches(os[n + 1].pattern, name, member)
                      THEN update(f[n], os[n + 1].modes) ELSE f[n]
             g == [i \in 0..n + 1 |-> IF i <= n THEN f[i] ELSE new]
  <2>2. Updates(g, name, member, ms, os, n + 1)
    <3>1. ASSUME NEW i \in 0..n + 1
          PROVE  g[i] = IF i = 0 THEN ms
                        ELSE IF Matches(os[i].pattern, name, member)
                          THEN update(g[i - 1], os[i].modes) ELSE g[i - 1]
      <4>1. CASE i <= n
        BY <2>1, <4>1 DEF Updates
      <4>2. CASE i = n + 1
        BY <4>2
      <4> QED
        BY <4>1, <4>2
    <3> HIDE DEF new
    <3> QED
      BY <3>1 DEF Updates
  <2> HIDE DEF g
  <2> QED
    BY <2>2
<1> HIDE DEF S
<1>3. \A n \in Nat : n \in S
  BY <1>1, <1>2, Induct
<1> QED
  BY <1>3 DEF S

\* The overrides up to i that match and name the check.
Hits(os, name, member, c, i) ==
    {j \in 1..i : c \in DOMAIN os[j].modes /\ Matches(os[j].pattern, name, member)}

\* What is said of a check by the last of them, or without one by the baseline.
LastSays(ms, os, name, member, c, i, mode) ==
    /\ Hits(os, name, member, c, i) = {} => mode = ModeOf(ms, c)
    /\ \A j \in Hits(os, name, member, c, i) :
         (\A k \in Hits(os, name, member, c, i) : k <= j) => mode = os[j].modes[c]

\* Updating the modes in the order of the file leaves for every check what the
\* last match says of it.
LEMMA LastMatch ==
    ASSUME NEW name, NEW member, NEW ms, NEW os, Len(os) \in Nat, NEW c
    PROVE  LastSays(ms, os, name, member, c, Len(os),
                    ModeOf(effective_modes(name, member, ms, os), c))
<1> PICK n : n = Len(os)
  OBVIOUS
<1>1. PICK f : Updates(f, name, member, ms, os, n) /\ f[n] = effective_modes(name, member, ms, os)
  <2> DEFINE f == CHOOSE f : Updates(f, name, member, ms, os, n)
  <2>1. Updates(f, name, member, ms, os, n)
    <3>1. \E g : Updates(g, name, member, ms, os, n)
      BY UpdatesExists
    <3> QED
      BY <3>1
  <2>2. f[n] = effective_modes(name, member, ms, os)
    BY DEF effective_modes, Updates
  <2> HIDE DEF f
  <2> QED
    BY <2>1, <2>2
<1> DEFINE S == {i \in Nat : i <= n => LastSays(ms, os, name, member, c, i, ModeOf(f[i], c))}
<1>2. 0 \in S
  <2>1. f[0] = ms
    BY <1>1 DEF Updates
  <2>2. Hits(os, name, member, c, 0) = {}
    BY DEF Hits
  <2> QED
    BY <2>1, <2>2 DEF LastSays
<1>3. ASSUME NEW i \in Nat, i \in S PROVE i + 1 \in S
  <2> SUFFICES ASSUME i + 1 <= n
               PROVE  LastSays(ms, os, name, member, c, i + 1, ModeOf(f[i + 1], c))
    OBVIOUS
  <2>1. LastSays(ms, os, name, member, c, i, ModeOf(f[i], c))
    BY <1>3
  <2>2. f[i + 1] = IF Matches(os[i + 1].pattern, name, member)
                     THEN update(f[i], os[i + 1].modes) ELSE f[i]
    BY <1>1 DEF Updates
  <2> DEFINE hits == Hits(os, name, member, c, i)
             more == Hits(os, name, member, c, i + 1)
  <2>3. hits \subseteq 1..i
    BY DEF Hits
  <2>4. CASE i + 1 \in more
    <3>1. c \in DOMAIN os[i + 1].modes /\ Matches(os[i + 1].pattern, name, member)
      BY <2>4 DEF Hits
    <3>2. ModeOf(f[i + 1], c) = os[i + 1].modes[c]
      BY <2>2, <3>1 DEF ModeOf, update
    <3>3. \A j \in more : j <= i + 1 /\ (j # i + 1 => ~(i + 1 <= j))
      BY DEF Hits
    <3> QED
      BY <2>4, <3>2, <3>3 DEF LastSays
  <2>5. CASE i + 1 \notin more
    <3>1. more = hits
      BY <2>5 DEF Hits
    <3>2. ModeOf(f[i + 1], c) = ModeOf(f[i], c)
      <4>1. CASE Matches(os[i + 1].pattern, name, member)
        <5>1. c \notin DOMAIN os[i + 1].modes
          BY <2>5, <4>1 DEF Hits
        <5> QED
          BY <2>2, <4>1, <5>1 DEF ModeOf, update
      <4>2. CASE ~Matches(os[i + 1].pattern, name, member)
        BY <2>2, <4>2
      <4> QED
        BY <4>1, <4>2
    <3> QED
      BY <2>1, <3>1, <3>2 DEF LastSays
  <2> QED
    BY <2>4, <2>5
<1> HIDE DEF S
<1>4. \A i \in Nat : i \in S
  BY <1>2, <1>3, Induct
<1> QED
  BY <1>1, <1>4 DEF S

\* The expectation of the sections of the configuration file for one check of
\* one item.
Decides(conf, name, member, c, mode) ==
    LET hits == {i \in DOMAIN conf.overrides :
                   /\ c \in DOMAIN conf.overrides[i].modes
                   /\ Matches(conf.overrides[i].pattern, name, member)}
        last == CHOOSE i \in hits : \A j \in hits : j <= i
    IN  mode = IF hits # {} THEN Mode(conf.overrides[last].modes[c])
               ELSE Mode(ModeOf(conf.baseline, c))

\* Up to some number at least one of them is the last.
LEMMA GreatestElement ==
    ASSUME NEW n \in Nat, NEW S \in SUBSET (1..n), S # {}
    PROVE  \E m \in S : \A k \in S : k <= m
<1> DEFINE R == {n - k : k \in S}
<1>1. R \in SUBSET Nat /\ R # {}
  <2>1. \A k \in S : n - k \in Nat
    OBVIOUS
  <2>2. R # {}
    OBVIOUS
  <2> QED
    BY <2>1, <2>2
<1>2. PICK r \in R : \A q \in R : r <= q
  BY <1>1, LeastElement
<1>3. PICK m \in S : r = n - m
  BY <1>2
<1>4. ASSUME NEW k \in S PROVE k <= m
  <2>1. r <= n - k
    BY <1>2
  <2> QED
    BY <1>3, <2>1
<1> QED
  BY <1>4

\* What load_config makes of the sections.
Rules(conf, ms, os) ==
    /\ ms = Enforcing(conf.baseline)
    /\ os = [i \in DOMAIN conf.overrides |-> [pattern |-> conf.overrides[i].pattern,
                                              modes |-> OverrideModes(conf.overrides[i].modes)]]

\* effective_modes decides as the sections do: the baseline has lost its
\* "ignore", which is what a check gets that nothing names.
LEMMA EffectiveDecides ==
    ASSUME ConfigsAssumption, NEW conf \in Configs, NEW ms, NEW os, Rules(conf, ms, os),
           NEW name, NEW member, NEW c
    PROVE  Decides(conf, name, member, c, ModeOf(effective_modes(name, member, ms, os), c))
<1> PICK n : n = Len(conf.overrides)
  OBVIOUS
<1>1. n \in Nat /\ DOMAIN conf.overrides = 1..n
  BY DEF ConfigsAssumption
<1>2. /\ Len(os) = n /\ DOMAIN os = 1..n
      /\ \A i \in 1..n : /\ os[i].pattern = conf.overrides[i].pattern
                        /\ os[i].modes = OverrideModes(conf.overrides[i].modes)
  BY <1>1 DEF Rules
<1> DEFINE mode == ModeOf(effective_modes(name, member, ms, os), c)
<1>3. LastSays(ms, os, name, member, c, n, mode)
  BY <1>1, <1>2, LastMatch
<1> HIDE DEF mode
<1> DEFINE hits == {i \in DOMAIN conf.overrides :
                      /\ c \in DOMAIN conf.overrides[i].modes
                      /\ Matches(conf.overrides[i].pattern, name, member)}
<1>4. \A i \in 1..n : /\ DOMAIN os[i].modes = DOMAIN conf.overrides[i].modes
                      /\ \A d \in DOMAIN os[i].modes :
                           os[i].modes[d] = Mode(conf.overrides[i].modes[d])
  BY <1>2 DEF OverrideModes, Normal
<1>5. hits = Hits(os, name, member, c, n) /\ hits \in SUBSET (1..n)
  BY <1>1, <1>2, <1>4 DEF Hits
<1>6. CASE hits = {}
  <2>1. mode = ModeOf(ms, c)
    BY <1>3, <1>5, <1>6 DEF LastSays
  <2>2. ModeOf(ms, c) = Mode(ModeOf(conf.baseline, c))
    BY DEF Rules, Enforcing, Normal, ModeOf, Mode, Legacy
  <2> QED
    BY <1>6, <2>1, <2>2 DEF Decides, mode
<1>7. CASE hits # {}
  <2> DEFINE last == CHOOSE i \in hits : \A j \in hits : j <= i
  <2>1. last \in hits /\ \A j \in hits : j <= last
    <3>1. \E i \in hits : \A j \in hits : j <= i
      BY <1>1, <1>5, <1>7, GreatestElement
    <3> HIDE DEF hits
    <3> QED
      BY <3>1
  <2>2. c \in DOMAIN conf.overrides[last].modes /\ last \in 1..n
    BY <1>1, <2>1
  <2> HIDE DEF last
  <2>3. mode = os[last].modes[c]
    BY <1>3, <1>5, <2>1 DEF LastSays
  <2>4. mode = Mode(conf.overrides[last].modes[c])
    BY <1>4, <2>2, <2>3
  <2> QED
    BY <1>7, <2>4 DEF Decides, mode, last
<1> QED
  BY <1>6, <1>7

-----------------------------------------------------------------------------
(* The invariant for the modes.                                            *)

\* The rules are those of the configuration, and an item was judged by them.
\* Nothing is judged while the files are not settled.
RulesLoaded == at \notin {"load", "done"} => Rules(config, modes, overrides)
NothingYet  == at \in {"load", "discover", "output"} => log = <<>>
ItemDecided(k) ==
    \A c \in Checks : Decides(config, artifacts[log[k].artifact].name, log[k].unit.member, c,
                              ModeOf(log[k].modes, c))

DecidedInv ==
    /\ config \in Configs /\ IInv
    /\ RulesLoaded /\ NothingYet /\ \A k \in Items : ItemDecided(k)

\* Before the run nothing is judged.
LEMMA DecidedInit ==
    ASSUME CheckBuildAssumption, Init
    PROVE  DecidedInv
<1>1. Items = {}
  BY EmptyIsSeq DEF Init, Items
<1> QED
  BY <1>1, InitInv DEF Init, DecidedInv, RulesLoaded, NothingYet

\* Where nothing is logged, no item changes.
LEMMA DecidedKept ==
    ASSUME DecidedInv, UNCHANGED <<log, config>>, artifacts' = artifacts \/ log = <<>>
    PROVE  \A k \in Items' : ItemDecided(k)'
<1>1. CASE artifacts' = artifacts
  BY <1>1 DEF DecidedInv, Items, ItemDecided, ModeOf
<1>2. CASE log = <<>>
  BY <1>2, EmptyIsSeq DEF Items
<1> QED
  BY <1>1, <1>2

\* load_config is what the rules come from, and discover() finds the files before
\* anything is judged.
LEMMA DecidedSetUp ==
    ASSUME CheckBuildAssumption, DecidedInv,
           Loop \/ Load \/ NoReadelf \/ Discovered \/ CheckOutput
    PROVE  DecidedInv'
<1>1. IInv'
  BY SetUpInv DEF DecidedInv
<1>2. /\ UNCHANGED <<log, config>> /\ at \in {"load", "discover", "output"}
      /\ artifacts' = artifacts \/ at = "discover"
  BY DEF Loop, Load, NoReadelf, Discovered, CheckOutput, input, history
<1>3. \A k \in Items' : ItemDecided(k)'
  BY <1>2, DecidedKept DEF DecidedInv, NothingYet
<1>4. NothingYet'
  BY <1>2 DEF DecidedInv, NothingYet
<1>5. RulesLoaded'
  <2>1. CASE Load
    <3>1. at' = "done" \/ Rules(config, modes', overrides')
      BY <2>1 DEF Load, Rules, Exit
    <3> QED
      BY <1>2, <3>1 DEF RulesLoaded
  <2>2. CASE ~Load
    <3>1. UNCHANGED <<modes, overrides>> /\ (at \notin {"load", "done"} \/ at' = "done")
      BY <2>2 DEF Loop, NoReadelf, Discovered, CheckOutput, rules, Exit
    <3> QED
      BY <1>2, <3>1 DEF DecidedInv, RulesLoaded
  <2> QED
    BY <2>1, <2>2
<1> QED
  BY <1>1, <1>2, <1>3, <1>4, <1>5 DEF DecidedInv

\* From then on the rules stay, and the files.
LEMMA DecidedRead ==
    ASSUME CheckBuildAssumption, DecidedInv,
           \/ Inspect \/ InspectRaises \/ FileDone
           \/ Write \/ WriteFails \/ Announce \/ AnnounceFails
    PROVE  DecidedInv'
<1>1. IInv'
  BY InspectInv, FileDoneInv, ReportInv, AnnounceInv DEF DecidedInv
<1>2. /\ UNCHANGED <<log, config, artifacts, modes, overrides>>
      /\ at \in {"inspect", "judge", "announce"}
      /\ at' \in {"inspect", "judge", "announce", "done"}
  BY DEF Inspect, InspectRaises, Begin, FileDone, Write, WriteFails, Announce, AnnounceFails,
         Goto, Exit, input, rules, history
<1> QED
  BY <1>1, <1>2, DecidedKept DEF DecidedInv, RulesLoaded, NothingYet

\* A unit is logged, with the modes the rules give it if it is an item.
LEMMA DecidedJudge ==
    ASSUME ConfigsAssumption, DecidedInv, UnitError \/ UnitSkipped \/ UnitJudged
    PROVE  DecidedInv'
<1>1. IInv'
  BY JudgeInv DEF DecidedInv
<1>2. PICK ms : /\ log' = Append(log, [artifact |-> turn, unit |-> U, modes |-> ms])
                /\ U.verdict = "evidence" =>
                     ms = effective_modes(Artifact.name, U.member, modes, overrides)
  BY DEF UnitError, UnitSkipped, UnitJudged, Logged
<1>3. at = "judge" /\ UNCHANGED <<config, artifacts, modes, overrides, at>>
  BY DEF UnitError, UnitSkipped, UnitJudged, input, rules
<1> DEFINE e == [artifact |-> turn, unit |-> U, modes |-> ms]
<1>4. e.artifact = turn /\ e.unit = U /\ e.modes = ms
  OBVIOUS
<1> HIDE DEF e
<1>5. PICK n : n = Len(log) + 1
  OBVIOUS
<1>6. /\ DOMAIN log = 1..n - 1 /\ n \in Nat \ {0} /\ DOMAIN log' = 1..n /\ log'[n] = e
      /\ \A k \in DOMAIN log : log'[k] = log[k]
  BY <1>2, <1>5, AppendGrows DEF DecidedInv, IInv, StepShape, e
<1>7. ASSUME NEW k \in Items' PROVE ItemDecided(k)'
  <2>1. k \in 1..n /\ log'[k].unit.verdict = "evidence"
    BY <1>6 DEF Items
  <2>2. CASE k # n
    <3>1. k \in DOMAIN log /\ log'[k] = log[k]
      BY <1>6, <2>1, <2>2
    <3>2. ItemDecided(k)
      BY <2>1, <3>1 DEF DecidedInv, Items
    <3> QED
      BY <1>3, <3>1, <3>2 DEF ItemDecided, ModeOf
  <2>3. CASE k = n
    <3>1. ms = effective_modes(Artifact.name, U.member, modes, overrides)
      BY <1>2, <1>4, <1>6, <2>1, <2>3
    <3>2. \A c \in Checks : Decides(config, Artifact.name, U.member, c, ModeOf(ms, c))
      BY <1>3, <3>1, EffectiveDecides DEF DecidedInv, RulesLoaded
    <3> QED
      BY <1>3, <1>4, <1>6, <2>3, <3>2 DEF ItemDecided, Artifact, ModeOf
  <2> QED
    BY <2>2, <2>3
<1> QED
  BY <1>1, <1>3, <1>7 DEF DecidedInv, RulesLoaded, NothingYet

\* Every step keeps to the rules.
LEMMA DecidedStep ==
    ASSUME CheckBuildAssumption, ConfigsAssumption, DecidedInv, [Next]_vars
    PROVE  DecidedInv'
<1>1. CASE UNCHANGED vars
  <2>1. UNCHANGED <<log, config, artifacts, modes, overrides, at>>
    BY <1>1 DEF vars, input, rules, history
  <2>2. IInv'
    BY StepInv DEF DecidedInv
  <2> QED
    BY <2>1, <2>2, DecidedKept DEF DecidedInv, RulesLoaded, NothingYet
<1> QED
  BY <1>1, DecidedSetUp, DecidedRead, DecidedJudge DEF Next

\* Whatever the sections of the configuration file and the order they come in:
\* of those that match an item the last that names a check decides it.
THEOREM CheckLastMatch == Spec => []LastMatchWins
<1>1. Init => DecidedInv
  BY DecidedInit, CheckBuildAssumption
<1>2. DecidedInv /\ [Next]_vars => DecidedInv'
  BY DecidedStep, CheckBuildAssumption, ConfigsAssumption
<1>3. DecidedInv => LastMatchWins
  BY DEF DecidedInv, ItemDecided, Decides, LastMatchWins
<1> QED
  BY <1>1, <1>2, <1>3, PTL DEF Spec

\* The recursion of FoldFunction for a sum.
SumsUp(g, f) ==
    g = [s \in SUBSET DOMAIN f |->
           IF s = {} THEN 0
           ELSE LET x == CHOOSE x \in s : TRUE IN f[x] + g[s \ {x}]]

\* FoldFunction adds by that recursion, if it can be solved.
LEMMA FoldIsSum ==
    ASSUME NEW f
    PROVE  FoldFunction(+, 0, f) = (CHOOSE g : SumsUp(g, f))[DOMAIN f]
BY DEF FoldFunction, FoldFunctionOnSet, MapThenFoldSet, SumsUp

\* The elements of a finite set, counted apart by what they are called, add up.
LEMMA SumOfParts ==
    ASSUME NEW F, IsFiniteSet(F), NEW name, NEW f, IsFiniteSet(DOMAIN f),
           \A x \in DOMAIN f : f[x] = Cardinality({k \in F : name[k] = x}),
           \A k \in F : name[k] \in DOMAIN f
    PROVE  FoldFunction(+, 0, f) = Cardinality(F)
<1> DEFINE D == DOMAIN f
           In(s) == {k \in F : name[k] \in s}
           h == [s \in SUBSET D |-> Cardinality(In(s))]
<1>1. ASSUME NEW s \in SUBSET D, NEW x \in s
      PROVE  Cardinality(In(s)) = f[x] + Cardinality(In(s \ {x}))
  <2> DEFINE A == {k \in F : name[k] = x}
             B == In(s \ {x})
  <2>1. IsFiniteSet(A) /\ IsFiniteSet(B)
    BY FS_Subset
  <2>2. In(s) = A \union B /\ A \intersect B = {}
    OBVIOUS
  <2>3. f[x] = Cardinality(A)
    OBVIOUS
  <2> HIDE DEF A, B, In
  <2>4. Cardinality(A) \in Nat /\ Cardinality(B) \in Nat
    BY <2>1, FS_CardinalityType
  <2>5. Cardinality(In(s)) = Cardinality(A) + Cardinality(B) - Cardinality(A \intersect B)
    BY <2>1, <2>2, FS_Union
  <2>6. Cardinality(A \intersect B) = 0
    BY <2>2, FS_EmptySet
  <2> QED
    BY <2>3, <2>4, <2>5, <2>6 DEF B
<1>2. Cardinality(In({})) = 0
  <2>1. In({}) = {}
    OBVIOUS
  <2> HIDE DEF In
  <2> QED
    BY <2>1, FS_EmptySet
<1>3. In(D) = F
  OBVIOUS
<1> HIDE DEF In
<1>4. SumsUp(h, f)
  <2>1. ASSUME NEW s \in SUBSET D
        PROVE  h[s] = IF s = {} THEN 0
                      ELSE LET x == CHOOSE x \in s : TRUE IN f[x] + h[s \ {x}]
    <3>1. CASE s = {}
      BY <1>2, <3>1
    <3>2. CASE s # {}
      <4>1. PICK x : x = CHOOSE y \in s : TRUE
        OBVIOUS
      <4>2. x \in s
        BY <3>2, <4>1
      <4>3. s \ {x} \in SUBSET D
        OBVIOUS
      <4>4. h[s] = f[x] + h[s \ {x}]
        BY <1>1, <4>2, <4>3
      <4> HIDE DEF h
      <4> QED
        BY <3>2, <4>1, <4>4
    <3> QED
      BY <3>1, <3>2
  <2>2. h = [s \in SUBSET D |-> h[s]]
    OBVIOUS
  <2> HIDE DEF h
  <2> QED
    BY <2>1, <2>2 DEF SumsUp
<1>5. PICK g : SumsUp(g, f) /\ FoldFunction(+, 0, f) = g[D]
  <2>1. \E g : SumsUp(g, f)
    BY <1>4
  <2>2. SumsUp(CHOOSE g : SumsUp(g, f), f)
    BY <2>1
  <2> QED
    BY <2>2, FoldIsSum
<1> DEFINE T == {n \in Nat : \A s \in SUBSET D : Cardinality(s) = n => g[s] = Cardinality(In(s))}
<1>6. 0 \in T
  <2> SUFFICES ASSUME NEW s \in SUBSET D, Cardinality(s) = 0 PROVE g[s] = Cardinality(In(s))
    OBVIOUS
  <2>1. s = {}
    BY FS_Subset, FS_EmptySet
  <2> QED
    BY <1>2, <1>5, <2>1 DEF SumsUp
<1>7. ASSUME NEW n \in Nat, n \in T PROVE n + 1 \in T
  <2> SUFFICES ASSUME NEW s \in SUBSET D, Cardinality(s) = n + 1
               PROVE  g[s] = Cardinality(In(s))
    OBVIOUS
  <2>1. IsFiniteSet(s) /\ s # {}
    BY FS_Subset, FS_EmptySet
  <2>2. PICK x : x = CHOOSE y \in s : TRUE
    OBVIOUS
  <2>3. x \in s
    BY <2>1, <2>2
  <2>4. g[s] = f[x] + g[s \ {x}]
    BY <1>5, <2>1, <2>2 DEF SumsUp
  <2>5. Cardinality(s \ {x}) = n
    <3>1. Cardinality(s \ {x}) = Cardinality(s) - 1
      BY <2>1, <2>3, FS_RemoveElement
    <3> QED
      BY <3>1
  <2>6. g[s \ {x}] = Cardinality(In(s \ {x}))
    <3>1. s \ {x} \in SUBSET D
      OBVIOUS
    <3> QED
      BY <1>7, <2>5, <3>1
  <2> QED
    BY <1>1, <2>3, <2>4, <2>6
<1> HIDE DEF T
<1>8. \A n \in Nat : n \in T
  BY <1>6, <1>7, Induct
<1>9. Cardinality(D) \in Nat
  BY FS_CardinalityType
<1> QED
  BY <1>3, <1>5, <1>8, <1>9 DEF T

-----------------------------------------------------------------------------
(* The invariant for the counters.                                         *)

\* The files that are begun, those without an error so far, and the units and
\* items that the counters are about.
Begun == 1..(IF at = "judge" THEN turn ELSE turn - 1)
Erred(i) == \E k \in ErrorUnits : log[k].artifact = i
Clean(i) == ~Erred(i) /\ ~(at = "judge" /\ i = turn /\ Erroneous(units))
CleanFiles == {i \in Begun : Clean(i)}
CleanOf(kind) == {i \in CleanFiles : artifacts[i].kind = kind}
MembersFailed ==
    {k \in DOMAIN log : log[k].unit.member # NoMember /\ log[k].unit.verdict = "error"}
MembersPassed ==
    {k \in DOMAIN log : log[k].unit.member # NoMember /\ log[k].unit.verdict # "error"}
DetectedIn(c, s) == {k \in Items : detect(c, log[k].unit.elf) = s}
FailedItems == {k \in Items : \E c \in Checks : Fails(k, c)}
FailingItems(c, name) ==
    {k \in Items : artifacts[log[k].artifact].name = name /\ Fails(k, c)}
Bad(i) == \E k \in Items, c \in Checks : log[k].artifact = i /\ Fails(k, c)

Tallies ==
    [checked : Nat, code_items : Nat, failed_items : Nat, skipped : Nat,
     inspected_by_kind : [Kinds -> Nat], members : [inspected : Nat, errors : Nat],
     counts : [Checks -> [States -> Nat]]]

\* The counters have their shapes, and a file is in the log only once begun.
Shape ==
    /\ tally \in Tallies
    /\ \A i \in DOMAIN artifacts : artifacts[i].name \in Names /\ artifacts[i].kind \in Kinds
    /\ \A k \in DOMAIN log : log[k].artifact \in Begun
    /\ at \in {"load", "discover", "output"} => log = <<>>

\* Every counter of the report is that of what has been judged or begun.
UnitsCounted ==
    /\ tally.members.errors = Cardinality(MembersFailed)
    /\ tally.members.inspected = Cardinality(MembersPassed)
    /\ tally.code_items = Cardinality(Items)
    /\ tally.skipped + Cardinality(Items) + Cardinality(ErrorUnits) = Len(log)
    /\ \A c \in Checks, s \in States : tally.counts[c][s] = Cardinality(DetectedIn(c, s))
    /\ tally.failed_items = Cardinality(FailedItems)
FilesCounted ==
    /\ tally.checked = Cardinality(CleanFiles)
    /\ \A kind \in Kinds : tally.inspected_by_kind[kind] = Cardinality(CleanOf(kind))
BadCounted ==
    /\ failures = Cardinality({i \in 1..turn - 1 : Bad(i)})
    /\ file_failed <=> Bad(turn)
ErrorsFound ==
    at \notin {"load", "discover", "done"} =>
        \E f \in Findings : /\ f.artifacts = artifacts
                            /\ errors = f.errors + Cardinality(ErrorUnits)
NamesCounted ==
    \A c \in Checks :
        /\ DOMAIN failed[c] \subseteq Names
        /\ \A name \in Names :
             IF name \in DOMAIN failed[c]
               THEN /\ failed[c][name] = Cardinality(FailingItems(c, name))
                    /\ FailingItems(c, name) # {}
               ELSE FailingItems(c, name) = {}
UsedNoted ==
    \A c \in Checks : /\ IsFiniteSet(used[c])
                      /\ \A k \in Items : ModeOf(log[k].modes, c) \in used[c]

Counted == /\ Shape /\ UnitsCounted /\ FilesCounted /\ BadCounted /\ ErrorsFound
           /\ NamesCounted /\ UsedNoted

\* A set of positions in the log has a size, and one more with the next one.
LEMMA NextPosition ==
    ASSUME NEW n \in Nat \ {0}, NEW S \in SUBSET (1..n - 1)
    PROVE  /\ IsFiniteSet(S) /\ Cardinality(S) \in Nat
           /\ Cardinality(S \union {n}) = Cardinality(S) + 1
<1>1. IsFiniteSet(1..n - 1)
  BY FS_Interval
<1>2. IsFiniteSet(S)
  BY <1>1, FS_Subset
<1>3. n \notin S
  OBVIOUS
<1> QED
  BY <1>2, <1>3, FS_CardinalityType, FS_AddElement

\* With an empty log there is nothing to count.
LEMMA NoneLogged ==
    ASSUME log = <<>>
    PROVE  /\ Items = {} /\ ErrorUnits = {} /\ FailedItems = {} /\ Len(log) = 0
           /\ MembersFailed = {} /\ MembersPassed = {}
           /\ \A c, s : DetectedIn(c, s) = {} /\ FailingItems(c, s) = {}
           /\ \A i : ~Bad(i) /\ ~Erred(i)
<1>1. DOMAIN log = {} /\ Len(log) = 0
  BY EmptyIsSeq
<1>2. Items = {} /\ ErrorUnits = {} /\ MembersFailed = {} /\ MembersPassed = {}
  BY <1>1 DEF Items, ErrorUnits, MembersFailed, MembersPassed
<1> QED
  BY <1>1, <1>2 DEF FailedItems, DetectedIn, FailingItems, Bad, Erred

\* Before the run every counter is 0.
LEMMA CountedInit ==
    ASSUME Init
    PROVE  Counted
<1>1. log = <<>> /\ artifacts = <<>> /\ turn = 1 /\ at = "load" /\ failures = 0
      /\ file_failed = FALSE /\ failed = [c \in Checks |-> <<>>] /\ used = [c \in Checks |-> {}]
      /\ tally = [checked |-> 0, code_items |-> 0, failed_items |-> 0, skipped |-> 0,
                  inspected_by_kind |-> [k \in Kinds |-> 0],
                  members |-> [inspected |-> 0, errors |-> 0],
                  counts |-> [c \in Checks |-> [s \in States |-> 0]]]
  BY DEF Init
<1>2. /\ Items = {} /\ ErrorUnits = {} /\ FailedItems = {} /\ Len(log) = 0
      /\ MembersFailed = {} /\ MembersPassed = {}
      /\ \A c, s : DetectedIn(c, s) = {} /\ FailingItems(c, s) = {}
      /\ \A i : ~Bad(i) /\ ~Erred(i)
  BY <1>1, NoneLogged
<1>3. Begun = {} /\ 1..turn - 1 = {} /\ CleanFiles = {} /\ \A k : CleanOf(k) = {}
  BY <1>1 DEF Begun, CleanFiles, CleanOf
<1>4. DOMAIN log = {} /\ DOMAIN artifacts = {} /\ Cardinality({}) = 0
  BY <1>1, EmptyIsSeq, FS_EmptySet
<1>5. tally \in Tallies
  BY <1>1 DEF Tallies
<1>6. Shape
  BY <1>1, <1>4, <1>5 DEF Shape
<1>7. UnitsCounted
  <2>1. /\ tally.members.errors = 0 /\ tally.members.inspected = 0 /\ tally.code_items = 0
        /\ tally.skipped = 0 /\ tally.failed_items = 0
        /\ \A c \in Checks, s \in States : tally.counts[c][s] = 0
    BY <1>1
  <2>2. /\ Cardinality(Items) = 0 /\ Cardinality(ErrorUnits) = 0 /\ Cardinality(FailedItems) = 0
        /\ Cardinality(MembersFailed) = 0 /\ Cardinality(MembersPassed) = 0
        /\ \A c, s : Cardinality(DetectedIn(c, s)) = 0
    BY <1>2, <1>4
  <2>3. tally.skipped + Cardinality(Items) + Cardinality(ErrorUnits) = Len(log)
    BY <1>2, <2>1, <2>2
  <2>4. /\ tally.members.errors = Cardinality(MembersFailed)
        /\ tally.members.inspected = Cardinality(MembersPassed)
    BY <2>1, <2>2
  <2>5. \A c \in Checks, s \in States : tally.counts[c][s] = Cardinality(DetectedIn(c, s))
    BY <2>1, <2>2
  <2> QED
    BY <2>1, <2>2, <2>3, <2>4, <2>5 DEF UnitsCounted
<1>8. FilesCounted
  BY <1>1, <1>3, <1>4 DEF FilesCounted
<1>9. BadCounted
  <2>1. {i \in 1..turn - 1 : Bad(i)} = {}
    BY <1>2
  <2> QED
    BY <1>1, <1>2, <1>4, <2>1 DEF BadCounted
<1>10. ErrorsFound
  BY <1>1 DEF ErrorsFound
<1>11. NamesCounted
  <2>1. \A c \in Checks : DOMAIN failed[c] = {}
    BY <1>1, EmptyIsSeq
  <2> QED
    BY <1>2, <2>1 DEF NamesCounted
<1>12. UsedNoted
  BY <1>1, <1>2, FS_EmptySet DEF UsedNoted
<1> QED
  BY <1>6, <1>7, <1>8, <1>9, <1>10, <1>11, <1>12 DEF Counted

\* Nothing that is counted changes between two units, but the files that are
\* begun, and the files as a whole before the first of them.
LEMMA LogSets ==
    ASSUME log' = log, artifacts' = artifacts \/ log = <<>>
    PROVE  /\ UNCHANGED <<Items, ErrorUnits, FailedItems>>
           /\ UNCHANGED <<MembersFailed, MembersPassed>>
           /\ \A c, s : UNCHANGED DetectedIn(c, s) /\ UNCHANGED FailingItems(c, s)
           /\ \A i : (Bad(i)' <=> Bad(i)) /\ (Erred(i)' <=> Erred(i))
           /\ \A k, c : ModeOf(log[k].modes, c)' = ModeOf(log[k].modes, c)
<1>1. UNCHANGED <<Items, ErrorUnits>> /\ UNCHANGED <<MembersFailed, MembersPassed>>
  BY DEF Items, ErrorUnits, MembersFailed, MembersPassed
<1>2. \A k, c : Fails(k, c)' <=> Fails(k, c)
  BY DEF Fails, ModeOf
<1>3. log = <<>> => Items = {}
  BY NoneLogged
<1>4. \A c, s : UNCHANGED FailingItems(c, s)
  BY <1>1, <1>2, <1>3 DEF FailingItems
<1> QED
  BY <1>1, <1>2, <1>4 DEF FailedItems, DetectedIn, Bad, Erred, ModeOf

\* So the invariant is kept by a step that logs nothing and begins or ends no
\* file.
LEMMA CountedKept ==
    ASSUME Counted, UNCHANGED <<log, turn, file_failed, failures, tally, failed, used>>,
           \/ artifacts' = artifacts /\ errors' = errors
           \/ log = <<>> /\ turn = 1 /\ at # "judge",
           \A i \in DOMAIN artifacts' :
             artifacts'[i].name \in Names /\ artifacts'[i].kind \in Kinds,
           (at # "judge" /\ at' # "judge") \/ (at' = at /\ units' = units),
           at' \in {"load", "discover", "output"} => log = <<>>,
           ErrorsFound'
    PROVE  Counted'
<1>1. artifacts' = artifacts \/ log = <<>>
  OBVIOUS
<1>2. /\ UNCHANGED <<Items, ErrorUnits, FailedItems>>
      /\ UNCHANGED <<MembersFailed, MembersPassed>>
      /\ \A c, s : UNCHANGED DetectedIn(c, s) /\ UNCHANGED FailingItems(c, s)
      /\ \A i : (Bad(i)' <=> Bad(i)) /\ (Erred(i)' <=> Erred(i))
      /\ \A k, c : ModeOf(log[k].modes, c)' = ModeOf(log[k].modes, c)
  BY <1>1, LogSets
<1>3. UNCHANGED Begun
  BY DEF Begun
<1>4. Shape'
  BY <1>3 DEF Counted, Shape
<1>5. UnitsCounted'
  BY <1>2 DEF Counted, UnitsCounted
<1>6. UNCHANGED CleanFiles /\ \A k : UNCHANGED CleanOf(k)
  <2>1. \A i : Clean(i)' <=> Clean(i)
    BY <1>2 DEF Clean, Erroneous
  <2>2. UNCHANGED CleanFiles
    BY <1>3, <2>1 DEF CleanFiles
  <2>3. CASE artifacts' = artifacts
    BY <2>2, <2>3 DEF CleanOf
  <2>4. CASE log = <<>> /\ turn = 1 /\ at # "judge"
    <3>1. Begun = {}
      BY <2>4 DEF Begun
    <3> QED
      BY <2>2, <3>1 DEF CleanOf, CleanFiles
  <2> QED
    BY <2>3, <2>4
<1>7. FilesCounted'
  BY <1>6 DEF Counted, FilesCounted
<1>8. BadCounted'
  <2>1. UNCHANGED {i \in 1..turn - 1 : Bad(i)}
    BY <1>2
  <2> QED
    BY <1>2, <2>1 DEF Counted, BadCounted
<1>9. NamesCounted'
  BY <1>2 DEF Counted, NamesCounted
<1>10. UsedNoted'
  BY <1>2 DEF Counted, UsedNoted
<1> QED
  BY <1>4, <1>5, <1>7, <1>8, <1>9, <1>10 DEF Counted

-----------------------------------------------------------------------------
(* Steps between the units.                                                *)

\* Before the first file, what is found is counted with its errors.
LEMMA CountedSetUp ==
    ASSUME CheckBuildAssumption, IInv, Counted,
           Loop \/ Load \/ NoReadelf \/ Discovered \/ CheckOutput
    PROVE  Counted'
<1>1. /\ UNCHANGED <<log, turn, units, file_failed, failures, tally, failed, used>>
      /\ at \in {"load", "discover", "output"} /\ at' \in {"discover", "output", "inspect", "done"}
  BY DEF Loop, Load, NoReadelf, Discovered, CheckOutput, input, history, counts, Goto, Exit
<1>2. log = <<>> /\ turn = 1
  BY <1>1 DEF Counted, Shape, IInv, StepShape
<1>3. CASE Discovered
  <2>1. PICK f \in Findings : artifacts' = f.artifacts /\ errors' = f.errors
    BY <1>3 DEF Discovered
  <2>2. f.artifacts \in Seq([name : Names, kind : Kinds]) /\ f.errors \in Nat
    BY DEF CheckBuildAssumption
  <2>3. \A i \in DOMAIN artifacts' : artifacts'[i].name \in Names /\ artifacts'[i].kind \in Kinds
    <3> DEFINE R == [name : Names, kind : Kinds]
    <3>1. \A r \in R : r.name \in Names /\ r.kind \in Kinds
      OBVIOUS
    <3>2. f.artifacts \in Seq(R)
      BY <2>2
    <3> HIDE DEF R
    <3>3. \A i \in DOMAIN f.artifacts : f.artifacts[i] \in R
      BY <3>2
    <3> QED
      BY <2>1, <3>1, <3>3
  <2>4. Cardinality(ErrorUnits) = 0 /\ UNCHANGED ErrorUnits
    BY <1>1, <1>2, NoneLogged, LogSets, FS_EmptySet
  <2>5. ErrorsFound'
    <3>1. errors' = f.errors + Cardinality(ErrorUnits')
      BY <2>1, <2>2, <2>4
    <3> QED
      BY <2>1, <3>1 DEF ErrorsFound
  <2> QED
    BY <1>1, <1>2, <2>3, <2>5, CountedKept
<1>4. CASE ~Discovered
  <2>1. UNCHANGED <<artifacts, errors>> /\ (at' \in {"discover", "done"} \/ at = "output")
    BY <1>4 DEF Loop, Load, NoReadelf, CheckOutput, Exit, Goto, counts
  <2>2. UNCHANGED ErrorUnits
    BY <1>1, <2>1, LogSets
  <2>3. ErrorsFound'
    BY <1>1, <2>1, <2>2 DEF Counted, ErrorsFound
  <2>4. \A i \in DOMAIN artifacts' : artifacts'[i].name \in Names /\ artifacts'[i].kind \in Kinds
    BY <2>1 DEF Counted, Shape
  <2> QED
    BY <1>1, <1>2, <2>1, <2>3, <2>4, CountedKept
<1> QED
  BY <1>3, <1>4

\* The report is made of the counters.
LEMMA CountedReport ==
    ASSUME Counted, Write \/ WriteFails \/ Announce \/ AnnounceFails
    PROVE  Counted'
<1>1. /\ UNCHANGED <<log, artifacts, turn, units, counts>>
      /\ at \in {"inspect", "announce"} /\ at' \in {"announce", "done"}
  BY DEF Write, WriteFails, Announce, AnnounceFails, history, Goto, Exit
<1>2. UNCHANGED <<file_failed, errors, failures, tally, failed, used>>
  BY <1>1 DEF counts
<1>3. ErrorsFound'
  BY <1>1, <1>2, LogSets DEF Counted, ErrorsFound
<1>4. \A i \in DOMAIN artifacts' : artifacts'[i].name \in Names /\ artifacts'[i].kind \in Kinds
  BY <1>1 DEF Counted, Shape
<1> QED
  BY <1>1, <1>2, <1>3, <1>4, CountedKept

\* The counters when a file has been read without an error.
ReadTally(t, kind) == [t EXCEPT !.checked = @ + 1, !.inspected_by_kind[kind] = @ + 1]
LEMMA BeginTally ==
    ASSUME NEW t \in Tallies, NEW kind \in Kinds, NEW r, r = ReadTally(t, kind)
    PROVE  /\ r \in Tallies
           /\ r.members = t.members /\ r.code_items = t.code_items /\ r.skipped = t.skipped
           /\ r.counts = t.counts /\ r.failed_items = t.failed_items
           /\ r.checked = t.checked + 1
           /\ \A k \in Kinds : r.inspected_by_kind[k] =
                t.inspected_by_kind[k] + (IF k = kind THEN 1 ELSE 0)
<1> DEFINE kinds == [t.inspected_by_kind EXCEPT ![kind] = @ + 1]
           total == t.checked + 1
<1>1. t.checked \in Nat /\ t.inspected_by_kind \in [Kinds -> Nat]
  BY DEF Tallies
<1>2. kinds \in [Kinds -> Nat] /\ total \in Nat
  BY <1>1
<1>3. \A k \in Kinds : kinds[k] = t.inspected_by_kind[k] + (IF k = kind THEN 1 ELSE 0)
  BY <1>1
<1>4. r = [t EXCEPT !.checked = total, !.inspected_by_kind = kinds]
  BY DEF Tallies, ReadTally
<1> HIDE DEF kinds
<1>5. /\ r \in Tallies /\ r.inspected_by_kind = kinds /\ r.checked = total
      /\ r.members = t.members /\ r.code_items = t.code_items /\ r.skipped = t.skipped
      /\ r.counts = t.counts /\ r.failed_items = t.failed_items
  BY <1>2, <1>4 DEF Tallies
<1> QED
  BY <1>3, <1>5

\* A file that is begun counts as read unless there is an error in it.
LEMMA CountedBegin ==
    ASSUME IInv, Counted, at = "inspect", turn <= Len(artifacts), NEW us, Begin(us),
           UNCHANGED <<artifacts, turn, errors, failures, failed, used, log>>
    PROVE  Counted'
<1>1. /\ at' = "judge" /\ units' = us /\ file_failed' = FALSE
      /\ tally' = IF Erroneous(us) THEN tally
                  ELSE [tally EXCEPT !.checked = @ + 1,
                                     !.inspected_by_kind[Artifact.kind] = @ + 1]
  BY DEF Begin, Goto
<1>2. /\ UNCHANGED <<Items, ErrorUnits, FailedItems>>
      /\ UNCHANGED <<MembersFailed, MembersPassed>>
      /\ \A c, s : UNCHANGED DetectedIn(c, s) /\ UNCHANGED FailingItems(c, s)
      /\ \A i : (Bad(i)' <=> Bad(i)) /\ (Erred(i)' <=> Erred(i))
      /\ \A k, c : ModeOf(log[k].modes, c)' = ModeOf(log[k].modes, c)
  BY LogSets
<1>3. turn \in Nat \ {0} /\ turn \in DOMAIN artifacts /\ Begun = 1..turn - 1 /\ Begun' = 1..turn
  BY <1>1 DEF IInv, StepShape, Begun
<1>4. tally \in Tallies /\ Artifact.kind \in Kinds
  BY <1>3 DEF Counted, Shape, Artifact
<1>5. /\ tally' \in Tallies
      /\ tally'.members = tally.members /\ tally'.code_items = tally.code_items
      /\ tally'.skipped = tally.skipped /\ tally'.counts = tally.counts
      /\ tally'.failed_items = tally.failed_items
      /\ tally'.checked = tally.checked + (IF Erroneous(us) THEN 0 ELSE 1)
      /\ \A k \in Kinds : tally'.inspected_by_kind[k] =
           tally.inspected_by_kind[k] + (IF ~Erroneous(us) /\ k = Artifact.kind THEN 1 ELSE 0)
  <2>1. CASE Erroneous(us)
    <3>1. tally' = tally
      BY <1>1, <2>1
    <3>2. tally.checked \in Nat /\ \A k \in Kinds : tally.inspected_by_kind[k] \in Nat
      BY <1>4 DEF Tallies
    <3> QED
      BY <1>4, <2>1, <3>1, <3>2
  <2>2. CASE ~Erroneous(us)
    <3> DEFINE kind == Artifact.kind
    <3>1. kind \in Kinds
      BY <1>4
    <3>2. tally' = [tally EXCEPT !.checked = @ + 1, !.inspected_by_kind[kind] = @ + 1]
      BY <1>1, <2>2
    <3> HIDE DEF kind
    <3>3. PICK t, r : t = tally /\ r = tally'
      OBVIOUS
    <3>4. t \in Tallies /\ r = ReadTally(t, kind)
      BY <1>4, <3>2, <3>3 DEF ReadTally
    <3>5. /\ r \in Tallies
          /\ r.members = t.members /\ r.code_items = t.code_items /\ r.skipped = t.skipped
          /\ r.counts = t.counts /\ r.failed_items = t.failed_items
          /\ r.checked = t.checked + 1
          /\ \A k \in Kinds : r.inspected_by_kind[k] =
               t.inspected_by_kind[k] + (IF k = kind THEN 1 ELSE 0)
      BY <3>1, <3>4, BeginTally
    <3> QED
      BY <2>2, <3>3, <3>5 DEF kind
  <2> QED
    BY <2>1, <2>2
<1>6. Shape'
  <2>1. \A k \in DOMAIN log : log[k].artifact \in 1..turn
    BY <1>3 DEF Counted, Shape
  <2> QED
    BY <1>1, <1>3, <1>5, <2>1 DEF Counted, Shape
<1>7. UnitsCounted'
  BY <1>2, <1>5 DEF Counted, UnitsCounted
<1>8. ~Erred(turn) /\ ~Bad(turn)
  BY <1>3 DEF Counted, Shape, Erred, Bad, Items, ErrorUnits
<1>9. CleanFiles' = IF Erroneous(us) THEN CleanFiles ELSE CleanFiles \union {turn}
  <2>1. \A i \in 1..turn - 1 : i # turn /\ (Clean(i)' <=> Clean(i))
    BY <1>2, <1>3 DEF Clean
  <2>2. Clean(turn)' <=> ~Erroneous(us)
    BY <1>1, <1>2, <1>8 DEF Clean
  <2>3. 1..turn = (1..turn - 1) \union {turn}
    BY <1>3
  <2> QED
    BY <1>3, <2>1, <2>2, <2>3 DEF CleanFiles
<1>10. CleanFiles \in SUBSET (1..turn - 1)
  BY <1>3 DEF CleanFiles
<1>11. FilesCounted'
  <2>1. tally'.checked = Cardinality(CleanFiles')
    <3>1. /\ Cardinality(CleanFiles) \in Nat
          /\ Cardinality(CleanFiles \union {turn}) = Cardinality(CleanFiles) + 1
      BY <1>3, <1>10, NextPosition
    <3>2. tally.checked = Cardinality(CleanFiles)
      BY DEF Counted, FilesCounted
    <3> QED
      BY <1>5, <1>9, <3>1, <3>2
  <2>2. ASSUME NEW k \in Kinds
        PROVE  tally'.inspected_by_kind[k] = Cardinality(CleanOf(k)')
    <3>1. CleanOf(k) \in SUBSET (1..turn - 1)
      BY <1>10 DEF CleanOf
    <3>2. /\ Cardinality(CleanOf(k)) \in Nat
          /\ Cardinality(CleanOf(k) \union {turn}) = Cardinality(CleanOf(k)) + 1
      BY <1>3, <3>1, NextPosition
    <3>3. CleanOf(k)' = IF ~Erroneous(us) /\ k = Artifact.kind THEN CleanOf(k) \union {turn}
                        ELSE CleanOf(k)
      BY <1>9 DEF CleanOf, Artifact
    <3>4. tally.inspected_by_kind[k] = Cardinality(CleanOf(k))
      BY DEF Counted, FilesCounted
    <3> QED
      BY <1>5, <3>2, <3>3, <3>4
  <2> QED
    BY <2>1, <2>2 DEF FilesCounted
<1>12. BadCounted'
  <2>1. UNCHANGED {i \in 1..turn - 1 : Bad(i)}
    BY <1>2
  <2> QED
    BY <1>1, <1>2, <1>8, <2>1 DEF Counted, BadCounted
<1>13. ErrorsFound'
  BY <1>1, <1>2 DEF Counted, ErrorsFound
<1>14. NamesCounted' /\ UsedNoted'
  BY <1>2 DEF Counted, NamesCounted, UsedNoted
<1> QED
  BY <1>6, <1>7, <1>11, <1>12, <1>13, <1>14 DEF Counted

\* A file that is done counts as failed if an item of it is.
LEMMA CountedDone ==
    ASSUME IInv, Counted, FileDone
    PROVE  Counted'
<1>1. /\ at = "judge" /\ units = <<>> /\ at' = "inspect" /\ turn' = turn + 1
      /\ failures' = (IF file_failed THEN failures + 1 ELSE failures) /\ file_failed' = FALSE
      /\ UNCHANGED <<artifacts, errors, tally, failed, used, log>>
  BY DEF FileDone, Goto, history
<1>2. /\ UNCHANGED <<Items, ErrorUnits, FailedItems>>
      /\ UNCHANGED <<MembersFailed, MembersPassed>>
      /\ \A c, s : UNCHANGED DetectedIn(c, s) /\ UNCHANGED FailingItems(c, s)
      /\ \A i : (Bad(i)' <=> Bad(i)) /\ (Erred(i)' <=> Erred(i))
      /\ \A k, c : ModeOf(log[k].modes, c)' = ModeOf(log[k].modes, c)
  BY <1>1, LogSets
<1>3. turn \in Nat \ {0} /\ Begun = 1..turn /\ Begun' = 1..turn
  BY <1>1 DEF IInv, StepShape, Begun
<1>4. Shape'
  BY <1>1, <1>3 DEF Counted, Shape
<1>5. UnitsCounted'
  BY <1>1, <1>2 DEF Counted, UnitsCounted
<1>6. FilesCounted'
  <2>1. ~Erroneous(units)
    BY <1>1, EmptyIsSeq DEF Erroneous
  <2>2. \A i : Clean(i)' <=> Clean(i)
    BY <1>1, <1>2, <2>1 DEF Clean
  <2>3. UNCHANGED CleanFiles /\ \A k : UNCHANGED CleanOf(k)
    BY <1>1, <1>3, <2>2 DEF CleanFiles, CleanOf
  <2> QED
    BY <1>1, <2>3 DEF Counted, FilesCounted
<1>7. BadCounted'
  <2> DEFINE B == {i \in 1..turn - 1 : Bad(i)}
             C == {i \in 1..turn : Bad(i)}
  <2>1. C = IF file_failed THEN B \union {turn} ELSE B
    <3>1. 1..turn = (1..turn - 1) \union {turn}
      BY <1>3
    <3>2. file_failed <=> Bad(turn)
      BY DEF Counted, BadCounted
    <3> QED
      BY <3>1, <3>2
  <2>2. failures = Cardinality(B)
    BY DEF Counted, BadCounted
  <2>3. B \in SUBSET (1..turn - 1)
    OBVIOUS
  <2>4. {i \in 1..turn - 1 : Bad(i)}' = C
    <3>1. turn' - 1 = turn
      BY <1>1, <1>3
    <3> QED
      BY <1>2, <3>1
  <2> HIDE DEF B, C
  <2>5. Cardinality(B) \in Nat /\ Cardinality(B \union {turn}) = Cardinality(B) + 1
    BY <1>3, <2>3, NextPosition
  <2>6. failures' = Cardinality(C)
    BY <1>1, <2>1, <2>2, <2>5
  <2>7. ~Bad(turn')
    <3>1. \A k \in DOMAIN log : log[k].artifact # turn'
      BY <1>1, <1>3 DEF Counted, Shape
    <3> QED
      BY <3>1 DEF Bad, Items
  <2>8. ~Bad(turn)'
    BY <1>1, <2>7 DEF Bad, Items, Fails, ModeOf
  <2> QED
    BY <1>1, <2>4, <2>6, <2>8 DEF BadCounted
<1>8. ErrorsFound'
  BY <1>1, <1>2 DEF Counted, ErrorsFound
<1>9. NamesCounted' /\ UsedNoted'
  BY <1>1, <1>2 DEF Counted, NamesCounted, UsedNoted
<1> QED
  BY <1>4, <1>5, <1>6, <1>7, <1>8, <1>9 DEF Counted

-----------------------------------------------------------------------------
(* A unit is logged.                                                       *)

\* What the next position of the log adds to the sets that are counted.
LEMMA LogAppend ==
    ASSUME IsSeq(log), NEW a, NEW u, NEW ms, NEW n, n = Len(log) + 1,
           log' = Append(log, [artifact |-> a, unit |-> u, modes |-> ms]),
           artifacts' = artifacts
    PROVE  /\ n \in Nat \ {0} /\ DOMAIN log = 1..n - 1 /\ DOMAIN log' = 1..n /\ Len(log') = n
           /\ log'[n].artifact = a /\ log'[n].unit = u /\ log'[n].modes = ms
           /\ \A k \in DOMAIN log : log'[k] = log[k]
           /\ Items' = IF u.verdict = "evidence" THEN Items \union {n} ELSE Items
           /\ ErrorUnits' = IF u.verdict = "error" THEN ErrorUnits \union {n} ELSE ErrorUnits
           /\ \A k \in Items, c \in Checks : Fails(k, c)' <=> Fails(k, c)
           /\ \A c \in Checks : Fails(n, c)' <=> ~Meets(ModeOf(ms, c), u.elf, c)
<1> DEFINE e == [artifact |-> a, unit |-> u, modes |-> ms]
<1>1. e.artifact = a /\ e.unit = u /\ e.modes = ms
  OBVIOUS
<1> HIDE DEF e
<1>2. /\ n \in Nat \ {0} /\ DOMAIN log = 1..n - 1 /\ DOMAIN log' = 1..n /\ log'[n] = e
      /\ \A k \in DOMAIN log : log'[k] = log[k]
      /\ IsSeq(log')
  BY AppendGrows DEF e
<1>3. Len(log') = n
  BY <1>2 DEF IsSeq
<1>4. Items \subseteq DOMAIN log
  BY DEF Items
<1>5. Items' = IF u.verdict = "evidence" THEN Items \union {n} ELSE Items
  BY <1>1, <1>2 DEF Items
<1>6. ErrorUnits' = IF u.verdict = "error" THEN ErrorUnits \union {n} ELSE ErrorUnits
  BY <1>1, <1>2 DEF ErrorUnits
<1>7. \A k \in Items, c \in Checks : Fails(k, c)' <=> Fails(k, c)
  BY <1>2, <1>4 DEF Fails, ModeOf
<1>8. \A c \in Checks : Fails(n, c)' <=> ~Meets(ModeOf(ms, c), u.elf, c)
  BY <1>1, <1>2 DEF Fails, ModeOf
<1> QED
  BY <1>1, <1>2, <1>3, <1>5, <1>6, <1>7, <1>8

\* A member of an archive is counted with its errors or without.
MemberTally(t, member, field) ==
    IF member = NoMember THEN t ELSE [t EXCEPT !.members[field] = @ + 1]
LEMMA MemberTallyIs ==
    ASSUME NEW t \in Tallies, NEW member
    PROVE  LET e == MemberTally(t, member, "errors")
               i == MemberTally(t, member, "inspected")
               d == IF member = NoMember THEN 0 ELSE 1
           IN  /\ e \in Tallies /\ i \in Tallies
               /\ e.members.errors = t.members.errors + d
               /\ e.members.inspected = t.members.inspected
               /\ i.members.errors = t.members.errors
               /\ i.members.inspected = t.members.inspected + d
               /\ e.checked = t.checked /\ e.inspected_by_kind = t.inspected_by_kind
               /\ e.code_items = t.code_items /\ e.skipped = t.skipped
               /\ e.failed_items = t.failed_items /\ e.counts = t.counts
               /\ i.checked = t.checked /\ i.inspected_by_kind = t.inspected_by_kind
               /\ i.code_items = t.code_items /\ i.skipped = t.skipped
               /\ i.failed_items = t.failed_items /\ i.counts = t.counts
<1>1. /\ t.members \in [inspected : Nat, errors : Nat]
      /\ t.members.errors \in Nat /\ t.members.inspected \in Nat
  BY DEF Tallies
<1>2. CASE member = NoMember
  BY <1>1, <1>2 DEF MemberTally
<1>3. CASE member # NoMember
  <2> DEFINE me == [t.members EXCEPT !["errors"] = @ + 1]
             mi == [t.members EXCEPT !["inspected"] = @ + 1]
  <2>1. /\ me \in [inspected : Nat, errors : Nat]
        /\ me.errors = t.members.errors + 1 /\ me.inspected = t.members.inspected
    BY <1>1
  <2>2. /\ mi \in [inspected : Nat, errors : Nat]
        /\ mi.errors = t.members.errors /\ mi.inspected = t.members.inspected + 1
    BY <1>1
  <2>3. /\ MemberTally(t, member, "errors") = [t EXCEPT !.members = me]
        /\ MemberTally(t, member, "inspected") = [t EXCEPT !.members = mi]
    BY <1>3 DEF MemberTally, Tallies
  <2> HIDE DEF me, mi
  <2> QED
    BY <1>3, <2>1, <2>2, <2>3 DEF Tallies
<1> QED
  BY <1>2, <1>3

\* An item is counted by what is detected in it.
JudgedTally(t, elf, d) ==
    [t EXCEPT !.code_items = @ + 1, !.failed_items = @ + d,
              !.counts = Detected(@, elf)]
LEMMA JudgedTallyIs ==
    ASSUME NEW t \in Tallies, NEW elf, NEW d \in Nat
    PROVE  LET r == JudgedTally(t, elf, d)
           IN  /\ r \in Tallies
               /\ r.members = t.members /\ r.checked = t.checked
               /\ r.inspected_by_kind = t.inspected_by_kind /\ r.skipped = t.skipped
               /\ r.code_items = t.code_items + 1 /\ r.failed_items = t.failed_items + d
               /\ \A c \in Checks, s \in States :
                    r.counts[c][s] = t.counts[c][s] + (IF detect(c, elf) = s THEN 1 ELSE 0)
<1> DEFINE cs == Detected(t.counts, elf)
<1>1. /\ t.counts \in [Checks -> [States -> Nat]]
      /\ t.code_items \in Nat /\ t.failed_items \in Nat
  BY DEF Tallies
<1>2. \A c : detect(c, elf) \in States
  BY DEF detect, States
<1>3. ASSUME NEW c \in Checks
      PROVE  /\ cs[c] \in [States -> Nat]
             /\ \A s \in States :
                  cs[c][s] = t.counts[c][s] + (IF detect(c, elf) = s THEN 1 ELSE 0)
  <2> PICK s : s = detect(c, elf)
    OBVIOUS
  <2> PICK f : f = t.counts[c]
    OBVIOUS
  <2>1. f \in [States -> Nat] /\ s \in States /\ cs[c] = [f EXCEPT ![s] = @ + 1]
    BY <1>1, <1>2 DEF Detected
  <2> HIDE DEF cs
  <2> QED
    BY <2>1
<1>4. cs \in [Checks -> [States -> Nat]]
  BY <1>3 DEF Detected
<1> PICK m : m = t.code_items + 1
  OBVIOUS
<1> PICK f : f = t.failed_items + d
  OBVIOUS
<1> PICK r : r = JudgedTally(t, elf, d)
  OBVIOUS
<1>5. r = [t EXCEPT !.code_items = m, !.failed_items = f, !.counts = cs]
  BY DEF JudgedTally, Tallies
<1> HIDE DEF cs
<1>6. m \in Nat /\ f \in Nat
  BY <1>1
<1>7. /\ r \in Tallies
      /\ r.members = t.members /\ r.checked = t.checked
      /\ r.inspected_by_kind = t.inspected_by_kind /\ r.skipped = t.skipped
      /\ r.code_items = m /\ r.failed_items = f /\ r.counts = cs
  BY <1>4, <1>5, <1>6 DEF Tallies
<1> QED
  BY <1>3, <1>7

\* Metadata is counted as passed over.
SkippedTally(t) == [t EXCEPT !.skipped = @ + 1]
LEMMA SkippedTallyIs ==
    ASSUME NEW t \in Tallies
    PROVE  LET r == SkippedTally(t)
           IN  /\ r \in Tallies
               /\ r.members = t.members /\ r.checked = t.checked
               /\ r.inspected_by_kind = t.inspected_by_kind /\ r.skipped = t.skipped + 1
               /\ r.code_items = t.code_items /\ r.failed_items = t.failed_items
               /\ r.counts = t.counts
BY DEF SkippedTally, Tallies

\* What a unit of whatever kind leaves of the counts of files.
LEMMA UnitFiles ==
    ASSUME CheckBuildAssumption, IInv, Counted,
           at = "judge", units # <<>>, units' = Tail(units), NEW ms,
           log' = Append(log, [artifact |-> turn, unit |-> U, modes |-> ms]),
           UNCHANGED <<at, artifacts, turn, failures>>,
           tally' \in Tallies, tally'.checked = tally.checked,
           tally'.inspected_by_kind = tally.inspected_by_kind,
           file_failed' <=> \/ file_failed
                            \/ /\ U.verdict = "evidence"
                               /\ \E c \in Checks : ~Meets(ModeOf(ms, c), U.elf, c),
           U.verdict = "error" => errors' = errors + 1,
           U.verdict # "error" => errors' = errors
    PROVE  Shape' /\ FilesCounted' /\ BadCounted' /\ ErrorsFound'
<1> PICK n : n = Len(log) + 1
  OBVIOUS
<1> PICK u : u = U
  OBVIOUS
<1>1. /\ n \in Nat \ {0} /\ DOMAIN log = 1..n - 1 /\ DOMAIN log' = 1..n
      /\ log'[n].artifact = turn /\ log'[n].unit = u
      /\ \A k \in DOMAIN log : log'[k] = log[k]
      /\ Items' = IF u.verdict = "evidence" THEN Items \union {n} ELSE Items
      /\ ErrorUnits' = IF u.verdict = "error" THEN ErrorUnits \union {n} ELSE ErrorUnits
      /\ \A k \in Items, c \in Checks : Fails(k, c)' <=> Fails(k, c)
      /\ \A c \in Checks : Fails(n, c)' <=> ~Meets(ModeOf(ms, c), u.elf, c)
  BY LogAppend DEF IInv, StepShape
<1>2. Items \subseteq DOMAIN log /\ ErrorUnits \subseteq DOMAIN log
  BY DEF Items, ErrorUnits
<1>3. turn \in Nat \ {0} /\ Begun = 1..turn /\ Begun' = 1..turn
  BY DEF IInv, StepShape, Begun
<1>4. Shape'
  BY <1>1, <1>3 DEF Counted, Shape
<1>5. \A i : Erred(i)' <=> Erred(i) \/ (u.verdict = "error" /\ i = turn)
  BY <1>1, <1>2 DEF Erred
<1>6. \A i : Bad(i)' <=> \/ Bad(i)
                        \/ /\ i = turn /\ u.verdict = "evidence"
                           /\ \E c \in Checks : ~Meets(ModeOf(ms, c), u.elf, c)
  BY <1>1, <1>2 DEF Bad
<1>7. FilesCounted'
  <2>1. Erroneous(units) <=> u.verdict = "error" \/ Erroneous(units')
    <3>1. /\ 1 \in DOMAIN units /\ u = units[1]
          /\ \A i \in DOMAIN units' : i + 1 \in DOMAIN units /\ units'[i] = units[i + 1]
          /\ \A i \in DOMAIN units :
               i = 1 \/ (i - 1 \in DOMAIN units' /\ units[i] = units'[i - 1])
      BY HeadTail DEF IInv, StepShape, UnitsShape, U
    <3>2. ASSUME u.verdict = "error"
          PROVE  Erroneous(units)
      BY <3>1, <3>2 DEF Erroneous
    <3>3. ASSUME Erroneous(units')
          PROVE  Erroneous(units)
      <4>1. PICK i \in DOMAIN units' : units'[i].verdict = "error"
        BY <3>3 DEF Erroneous
      <4>2. i + 1 \in DOMAIN units /\ units[i + 1].verdict = "error"
        BY <3>1, <4>1
      <4> QED
        BY <4>2 DEF Erroneous
    <3>4. ASSUME Erroneous(units), u.verdict # "error"
          PROVE  Erroneous(units')
      <4>1. PICK i \in DOMAIN units : units[i].verdict = "error"
        BY <3>4 DEF Erroneous
      <4>2. i - 1 \in DOMAIN units' /\ units'[i - 1].verdict = "error"
        BY <3>1, <3>4, <4>1
      <4> QED
        BY <4>2 DEF Erroneous
    <3> QED
      BY <3>2, <3>3, <3>4
  <2>2. \A i : Clean(i)' <=> Clean(i)
    BY <1>5, <2>1 DEF Clean
  <2>3. UNCHANGED CleanFiles /\ \A k : UNCHANGED CleanOf(k)
    BY <1>3, <2>2 DEF CleanFiles, CleanOf
  <2> QED
    BY <2>3 DEF Counted, FilesCounted
<1>8. BadCounted'
  <2>1. UNCHANGED {i \in 1..turn - 1 : Bad(i)}
    BY <1>3, <1>6
  <2> QED
    BY <1>6, <2>1 DEF Counted, BadCounted
<1>9. ErrorsFound'
  <2>1. PICK f \in Findings : f.artifacts = artifacts
                              /\ errors = f.errors + Cardinality(ErrorUnits)
    BY DEF Counted, ErrorsFound
  <2> PICK e : e = f.errors
    OBVIOUS
  <2>4. e \in Nat
    BY DEF CheckBuildAssumption
  <2>2. CASE u.verdict # "error"
    BY <1>1, <2>1, <2>2 DEF ErrorsFound
  <2>3. CASE u.verdict = "error"
    <3>1. /\ Cardinality(ErrorUnits) \in Nat
          /\ Cardinality(ErrorUnits \union {n}) = Cardinality(ErrorUnits) + 1
      BY <1>1, <1>2, NextPosition
    <3>2. errors' = errors + 1
      BY <2>3
    <3> QED
      BY <1>1, <2>1, <2>3, <2>4, <3>1, <3>2 DEF ErrorsFound
  <2> QED
    BY <2>2, <2>3
<1> QED
  BY <1>4, <1>7, <1>8, <1>9

\* The sets behind the counters of units, when a unit is logged.
LEMMA UnitSets ==
    ASSUME IsSeq(log), NEW a, NEW u, NEW ms, NEW n, n = Len(log) + 1,
           log' = Append(log, [artifact |-> a, unit |-> u, modes |-> ms]),
           artifacts' = artifacts
    PROVE  /\ MembersFailed' = IF u.member # NoMember /\ u.verdict = "error"
                                   THEN MembersFailed \union {n} ELSE MembersFailed
           /\ MembersPassed' = IF u.member # NoMember /\ u.verdict # "error"
                                    THEN MembersPassed \union {n} ELSE MembersPassed
           /\ \A c, s : DetectedIn(c, s)' =
                IF u.verdict = "evidence" /\ detect(c, u.elf) = s
                  THEN DetectedIn(c, s) \union {n} ELSE DetectedIn(c, s)
           /\ FailedItems' =
                IF u.verdict = "evidence" /\ \E c \in Checks : ~Meets(ModeOf(ms, c), u.elf, c)
                  THEN FailedItems \union {n} ELSE FailedItems
           /\ \A c \in Checks : \A name : FailingItems(c, name)' =
                IF /\ u.verdict = "evidence" /\ artifacts[a].name = name
                   /\ ~Meets(ModeOf(ms, c), u.elf, c)
                  THEN FailingItems(c, name) \union {n} ELSE FailingItems(c, name)
           /\ \A k \in Items : \A c : ModeOf(log[k].modes, c)' = ModeOf(log[k].modes, c)
           /\ \A c : ModeOf(log[n].modes, c)' = ModeOf(ms, c)
<1>1. /\ n \in Nat \ {0} /\ DOMAIN log = 1..n - 1 /\ DOMAIN log' = 1..n
      /\ log'[n].artifact = a /\ log'[n].unit = u /\ log'[n].modes = ms
      /\ \A k \in DOMAIN log : log'[k] = log[k]
      /\ Items' = IF u.verdict = "evidence" THEN Items \union {n} ELSE Items
      /\ \A k \in Items, c \in Checks : Fails(k, c)' <=> Fails(k, c)
      /\ \A c \in Checks : Fails(n, c)' <=> ~Meets(ModeOf(ms, c), u.elf, c)
  BY LogAppend
<1>2. /\ Items \subseteq DOMAIN log /\ n \notin DOMAIN log /\ n \in DOMAIN log'
      /\ \A k \in DOMAIN log' : k \in DOMAIN log \/ k = n
      /\ \A k \in DOMAIN log : k \in DOMAIN log'
  <2>1. \A k \in 1..n : k \in 1..n - 1 \/ k = n
    BY <1>1
  <2>2. n \notin 1..n - 1 /\ n \in 1..n /\ \A k \in 1..n - 1 : k \in 1..n
    BY <1>1
  <2> QED
    BY <1>1, <2>1, <2>2 DEF Items
<1>3. MembersFailed' = IF u.member # NoMember /\ u.verdict = "error"
                           THEN MembersFailed \union {n} ELSE MembersFailed
  BY <1>1, <1>2 DEF MembersFailed, MembersPassed
<1>4. MembersPassed' = IF u.member # NoMember /\ u.verdict # "error"
                            THEN MembersPassed \union {n} ELSE MembersPassed
  BY <1>1, <1>2 DEF MembersFailed, MembersPassed
<1>5. \A c, s : DetectedIn(c, s)' = IF u.verdict = "evidence" /\ detect(c, u.elf) = s
                                    THEN DetectedIn(c, s) \union {n} ELSE DetectedIn(c, s)
  BY <1>1, <1>2 DEF DetectedIn
<1>6. FailedItems' =
        IF u.verdict = "evidence" /\ \E c \in Checks : ~Meets(ModeOf(ms, c), u.elf, c)
          THEN FailedItems \union {n} ELSE FailedItems
  BY <1>1, <1>2 DEF FailedItems
<1>7. \A c \in Checks : \A name : FailingItems(c, name)' =
        IF u.verdict = "evidence" /\ artifacts[a].name = name /\ ~Meets(ModeOf(ms, c), u.elf, c)
          THEN FailingItems(c, name) \union {n} ELSE FailingItems(c, name)
  BY <1>1, <1>2 DEF FailingItems
<1>8. /\ \A k \in Items : \A c : ModeOf(log[k].modes, c)' = ModeOf(log[k].modes, c)
      /\ \A c : ModeOf(log[n].modes, c)' = ModeOf(ms, c)
  BY <1>1, <1>2 DEF ModeOf
<1> QED
  BY <1>3, <1>4, <1>5, <1>6, <1>7, <1>8

\* They are sets of positions in the log.
LEMMA UnitSetsInside ==
    ASSUME NEW n, DOMAIN log = 1..n - 1
    PROVE  /\ Items \in SUBSET (1..n - 1) /\ ErrorUnits \in SUBSET (1..n - 1)
           /\ MembersFailed \in SUBSET (1..n - 1) /\ MembersPassed \in SUBSET (1..n - 1)
           /\ FailedItems \in SUBSET (1..n - 1)
           /\ \A c, s : /\ DetectedIn(c, s) \in SUBSET (1..n - 1)
                        /\ FailingItems(c, s) \in SUBSET (1..n - 1)
BY DEF Items, ErrorUnits, MembersFailed, MembersPassed, FailedItems, DetectedIn, FailingItems

\* The counters of units after a unit, one by one.
LEMMA UnitCounts ==
    ASSUME IInv, Counted, NEW u, NEW ms,
           log' = Append(log, [artifact |-> turn, unit |-> u, modes |-> ms]),
           artifacts' = artifacts, UnitShape(u),
           NEW t, t = tally, NEW r, r = tally',
           r.members.errors = t.members.errors
             + (IF u.member # NoMember /\ u.verdict = "error" THEN 1 ELSE 0),
           r.members.inspected = t.members.inspected
             + (IF u.member # NoMember /\ u.verdict # "error" THEN 1 ELSE 0),
           r.code_items = t.code_items + (IF u.verdict = "evidence" THEN 1 ELSE 0),
           r.skipped = t.skipped + (IF u.verdict = "skipped" THEN 1 ELSE 0),
           \A c \in Checks, s \in States : r.counts[c][s] = t.counts[c][s]
             + (IF u.verdict = "evidence" /\ detect(c, u.elf) = s THEN 1 ELSE 0),
           r.failed_items = t.failed_items
             + (IF u.verdict = "evidence" /\ \E c \in Checks : ~Meets(ModeOf(ms, c), u.elf, c)
                  THEN 1 ELSE 0)
    PROVE  UnitsCounted'
<1> PICK n : n = Len(log) + 1
  OBVIOUS
<1>1. IsSeq(log)
  BY DEF IInv, StepShape
<1>2. /\ n \in Nat \ {0} /\ DOMAIN log = 1..n - 1 /\ Len(log') = n /\ Len(log) = n - 1
      /\ Items' = IF u.verdict = "evidence" THEN Items \union {n} ELSE Items
      /\ ErrorUnits' = IF u.verdict = "error" THEN ErrorUnits \union {n} ELSE ErrorUnits
  BY <1>1, LogAppend DEF IsSeq
<1>3. /\ MembersFailed' = IF u.member # NoMember /\ u.verdict = "error"
                              THEN MembersFailed \union {n} ELSE MembersFailed
      /\ MembersPassed' = IF u.member # NoMember /\ u.verdict # "error"
                               THEN MembersPassed \union {n} ELSE MembersPassed
      /\ \A c, s : DetectedIn(c, s)' =
           IF u.verdict = "evidence" /\ detect(c, u.elf) = s
             THEN DetectedIn(c, s) \union {n} ELSE DetectedIn(c, s)
      /\ FailedItems' =
           IF u.verdict = "evidence" /\ \E c \in Checks : ~Meets(ModeOf(ms, c), u.elf, c)
             THEN FailedItems \union {n} ELSE FailedItems
  BY <1>1, UnitSets
<1>4. /\ Items \in SUBSET (1..n - 1) /\ ErrorUnits \in SUBSET (1..n - 1)
      /\ MembersFailed \in SUBSET (1..n - 1) /\ MembersPassed \in SUBSET (1..n - 1)
      /\ FailedItems \in SUBSET (1..n - 1)
      /\ \A c, s : DetectedIn(c, s) \in SUBSET (1..n - 1)
  BY <1>2, UnitSetsInside
<1>5. /\ t.members.errors = Cardinality(MembersFailed)
      /\ t.members.inspected = Cardinality(MembersPassed)
      /\ t.code_items = Cardinality(Items)
      /\ t.skipped + Cardinality(Items) + Cardinality(ErrorUnits) = n - 1
      /\ \A c \in Checks, s \in States : t.counts[c][s] = Cardinality(DetectedIn(c, s))
      /\ t.failed_items = Cardinality(FailedItems)
      /\ t.skipped \in Nat
  BY <1>2 DEF Counted, UnitsCounted, Shape, Tallies
<1>6. /\ r.members.errors = Cardinality(MembersFailed')
      /\ r.members.inspected = Cardinality(MembersPassed')
  <2>1. /\ Cardinality(MembersFailed) \in Nat
        /\ Cardinality(MembersFailed \union {n}) = Cardinality(MembersFailed) + 1
    BY <1>2, <1>4, NextPosition
  <2>2. /\ Cardinality(MembersPassed) \in Nat
        /\ Cardinality(MembersPassed \union {n}) = Cardinality(MembersPassed) + 1
    BY <1>2, <1>4, NextPosition
  <2>3. r.members.errors = Cardinality(MembersFailed')
    BY <1>3, <1>5, <2>1
  <2>4. r.members.inspected = Cardinality(MembersPassed')
    BY <1>3, <1>5, <2>2
  <2> QED
    BY <2>3, <2>4
<1>7. /\ r.code_items = Cardinality(Items')
      /\ r.skipped + Cardinality(Items') + Cardinality(ErrorUnits') = n
  <2>1. /\ Cardinality(Items) \in Nat
        /\ Cardinality(Items \union {n}) = Cardinality(Items) + 1
    BY <1>2, <1>4, NextPosition
  <2>2. /\ Cardinality(ErrorUnits) \in Nat
        /\ Cardinality(ErrorUnits \union {n}) = Cardinality(ErrorUnits) + 1
    BY <1>2, <1>4, NextPosition
  <2>3. /\ Cardinality(Items') = Cardinality(Items) + (IF u.verdict = "evidence" THEN 1 ELSE 0)
        /\ Cardinality(ErrorUnits') = Cardinality(ErrorUnits)
                                        + (IF u.verdict = "error" THEN 1 ELSE 0)
    BY <1>2, <2>1, <2>2
  <2>4. r.code_items = Cardinality(Items')
    BY <1>5, <2>3
  <2>5. u.verdict \in {"error", "skipped", "evidence"}
    BY DEF UnitShape
  <2>6. r.skipped + Cardinality(Items') + Cardinality(ErrorUnits') = n
    <3> PICK x : x = Cardinality(Items)
      OBVIOUS
    <3> PICK y : y = Cardinality(ErrorUnits)
      OBVIOUS
    <3> PICK z : z = t.skipped
      OBVIOUS
    <3>1. x \in Nat /\ y \in Nat /\ z \in Nat /\ z + x + y = n - 1
      BY <1>5, <2>1, <2>2
    <3>2. CASE u.verdict = "error"
      BY <1>2, <2>3, <3>1, <3>2
    <3>3. CASE u.verdict = "skipped"
      BY <1>2, <2>3, <3>1, <3>3
    <3>4. CASE u.verdict = "evidence"
      BY <1>2, <2>3, <3>1, <3>4
    <3> QED
      BY <2>5, <3>2, <3>3, <3>4
  <2> QED
    BY <2>4, <2>6
<1>8. ASSUME NEW c \in Checks, NEW s \in States
      PROVE  r.counts[c][s] = Cardinality(DetectedIn(c, s)')
  <2>1. DetectedIn(c, s) \in SUBSET (1..n - 1)
    BY <1>4
  <2>2. /\ Cardinality(DetectedIn(c, s)) \in Nat
        /\ Cardinality(DetectedIn(c, s) \union {n}) = Cardinality(DetectedIn(c, s)) + 1
    BY <1>2, <2>1, NextPosition
  <2>3. t.counts[c][s] = Cardinality(DetectedIn(c, s))
    BY <1>5
  <2>4. CASE u.verdict = "evidence" /\ detect(c, u.elf) = s
    <3>1. DetectedIn(c, s)' = DetectedIn(c, s) \union {n}
      BY <1>3, <2>4
    <3>2. r.counts[c][s] = t.counts[c][s] + 1
      BY <2>4
    <3> QED
      BY <2>2, <2>3, <3>1, <3>2
  <2>5. CASE ~(u.verdict = "evidence" /\ detect(c, u.elf) = s)
    <3>1. DetectedIn(c, s)' = DetectedIn(c, s)
      BY <1>3, <2>5
    <3>2. r.counts[c][s] = t.counts[c][s] + 0
      BY <2>5
    <3> QED
      BY <2>2, <2>3, <3>1, <3>2
  <2> QED
    BY <2>4, <2>5
<1>9. r.failed_items = Cardinality(FailedItems')
  <2>1. /\ Cardinality(FailedItems) \in Nat
        /\ Cardinality(FailedItems \union {n}) = Cardinality(FailedItems) + 1
    BY <1>2, <1>4, NextPosition
  <2> QED
    BY <1>3, <1>5, <2>1
<1> QED
  BY <1>2, <1>6, <1>7, <1>8, <1>9 DEF UnitsCounted

\* A unit that is no item is no failure and had no mode.
LEMMA NoItem ==
    ASSUME IInv, Counted, NEW u, NEW ms,
           log' = Append(log, [artifact |-> turn, unit |-> u, modes |-> ms]),
           u.verdict # "evidence", UNCHANGED <<artifacts, failed, used>>
    PROVE  NamesCounted' /\ UsedNoted'
<1> PICK n : n = Len(log) + 1
  OBVIOUS
<1>1. IsSeq(log)
  BY DEF IInv, StepShape
<1>2. Items' = Items
  BY <1>1, LogAppend
<1>3. \A c \in Checks : \A name : FailingItems(c, name)' = FailingItems(c, name)
  BY <1>1, UnitSets
<1>4. \A k \in Items : \A c : ModeOf(log[k].modes, c)' = ModeOf(log[k].modes, c)
  BY <1>1, UnitSets
<1> QED
  BY <1>2, <1>3, <1>4 DEF Counted, NamesCounted, UsedNoted

\* Every file with a failing item has its count of them, and every mode that an
\* item had is noted.
LEMMA ItemNoted ==
    ASSUME IInv, Counted, at = "judge", NEW u, NEW ms, NEW name,
           log' = Append(log, [artifact |-> turn, unit |-> u, modes |-> ms]),
           u.verdict = "evidence", UNCHANGED artifacts, name = artifacts[turn].name,
           used' = [c \in Checks |-> Used(c, ModeOf(ms, c))],
           failed' = [c \in Checks |-> IF ~Meets(ModeOf(ms, c), u.elf, c)
                                         THEN Count(failed[c], name) ELSE failed[c]]
    PROVE  NamesCounted' /\ UsedNoted'
<1> PICK n : n = Len(log) + 1
  OBVIOUS
<1>1. IsSeq(log)
  BY DEF IInv, StepShape
<1>2. n \in Nat \ {0} /\ DOMAIN log = 1..n - 1 /\ Items' = Items \union {n}
  BY <1>1, LogAppend
<1>3. \A c \in Checks : \A nm : FailingItems(c, nm)' =
        IF name = nm /\ ~Meets(ModeOf(ms, c), u.elf, c)
          THEN FailingItems(c, nm) \union {n} ELSE FailingItems(c, nm)
  BY <1>1, UnitSets
<1>4. \A k \in Items : \A c : ModeOf(log[k].modes, c)' = ModeOf(log[k].modes, c)
  BY <1>1, UnitSets
<1>5. \A c : ModeOf(log[n].modes, c)' = ModeOf(ms, c)
  BY <1>1, UnitSets
<1>6. name \in Names
  BY DEF IInv, StepShape, Counted, Shape
<1>7. UsedNoted'
  <2> SUFFICES ASSUME NEW c \in Checks
               PROVE  /\ IsFiniteSet(used'[c])
                      /\ \A k \in Items' : ModeOf(log[k].modes, c)' \in used'[c]
    BY DEF UsedNoted
  <2>1. used'[c] = used[c] \union {ModeOf(ms, c)}
    BY DEF Used
  <2>2. IsFiniteSet(used[c]) /\ \A k \in Items : ModeOf(log[k].modes, c) \in used[c]
    BY DEF Counted, UsedNoted
  <2>3. IsFiniteSet(used'[c])
    BY <2>1, <2>2, FS_AddElement
  <2> QED
    BY <1>2, <1>4, <1>5, <2>1, <2>2, <2>3
<1>8. NamesCounted'
  <2> SUFFICES ASSUME NEW c \in Checks
               PROVE  /\ DOMAIN failed'[c] \subseteq Names
                      /\ \A nm \in Names :
                           IF nm \in DOMAIN failed'[c]
                             THEN /\ failed'[c][nm] = Cardinality(FailingItems(c, nm)')
                                  /\ FailingItems(c, nm)' # {}
                             ELSE FailingItems(c, nm)' = {}
    BY DEF NamesCounted
  <2>1. /\ DOMAIN failed[c] \subseteq Names
        /\ \A nm \in Names :
             IF nm \in DOMAIN failed[c]
               THEN /\ failed[c][nm] = Cardinality(FailingItems(c, nm))
                    /\ FailingItems(c, nm) # {}
               ELSE FailingItems(c, nm) = {}
    BY DEF Counted, NamesCounted
  <2>2. CASE Meets(ModeOf(ms, c), u.elf, c)
    <3>1. failed'[c] = failed[c] /\ \A nm : FailingItems(c, nm)' = FailingItems(c, nm)
      BY <1>3, <2>2
    <3> QED
      BY <2>1, <3>1
  <2>3. CASE ~Meets(ModeOf(ms, c), u.elf, c)
    <3> PICK g : g = failed[c]
      OBVIOUS
    <3> PICK h : h = failed'[c]
      OBVIOUS
    <3>1. h = Count(g, name)
      BY <2>3
    <3>2. /\ DOMAIN h = DOMAIN g \union {name}
          /\ \A nm \in DOMAIN g : nm # name => h[nm] = g[nm]
          /\ h[name] = IF name \in DOMAIN g THEN g[name] + 1 ELSE 1
      BY <3>1 DEF Count, update
    <3>3. \A nm : FailingItems(c, nm)' = IF name = nm THEN FailingItems(c, nm) \union {n}
                                         ELSE FailingItems(c, nm)
      BY <1>3, <2>3
    <3>4. h[name] = Cardinality(FailingItems(c, name) \union {n})
      <4>1. FailingItems(c, name) \in SUBSET (1..n - 1)
        BY <1>2, UnitSetsInside
      <4>2. /\ Cardinality(FailingItems(c, name)) \in Nat
            /\ Cardinality(FailingItems(c, name) \union {n})
                 = Cardinality(FailingItems(c, name)) + 1
        BY <1>2, <4>1, NextPosition
      <4>3. CASE name \in DOMAIN g
        BY <1>6, <2>1, <3>2, <4>2, <4>3
      <4>4. CASE name \notin DOMAIN g
        <5>1. FailingItems(c, name) = {}
          BY <1>6, <2>1, <4>4
        <5>2. Cardinality(FailingItems(c, name)) = 0
          BY <5>1, FS_EmptySet
        <5> QED
          BY <3>2, <4>2, <4>4, <5>2
      <4> QED
        BY <4>3, <4>4
    <3>5. DOMAIN h \subseteq Names
      BY <1>6, <2>1, <3>2
    <3>6. n \in FailingItems(c, name)'
      BY <3>3
    <3>7. ASSUME NEW nm \in Names, nm # name
          PROVE  IF nm \in DOMAIN h
                   THEN h[nm] = Cardinality(FailingItems(c, nm)') /\ FailingItems(c, nm)' # {}
                   ELSE FailingItems(c, nm)' = {}
      <4>1. FailingItems(c, nm)' = FailingItems(c, nm)
        BY <3>3, <3>7
      <4>2. nm \in DOMAIN h <=> nm \in DOMAIN g
        BY <3>2, <3>7
      <4>3. nm \in DOMAIN g => h[nm] = g[nm]
        BY <3>2, <3>7
      <4> QED
        BY <2>1, <4>1, <4>2, <4>3
    <3>8. /\ name \in DOMAIN h
          /\ h[name] = Cardinality(FailingItems(c, name)') /\ FailingItems(c, name)' # {}
      BY <3>2, <3>3, <3>4, <3>6
    <3> QED
      BY <3>5, <3>7, <3>8
  <2> QED
    BY <2>2, <2>3
<1> QED
  BY <1>7, <1>8

\* A unit that could not be read.
LEMMA CountedError ==
    ASSUME CheckBuildAssumption, IInv, Counted, UnitError
    PROVE  Counted'
<1>1. /\ at = "judge" /\ units # <<>> /\ U.verdict = "error" /\ units' = Tail(units)
      /\ log' = Append(log, [artifact |-> turn, unit |-> U, modes |-> <<>>])
      /\ errors' = errors + 1 /\ tally' = MemberTally(tally, U.member, "errors")
      /\ UNCHANGED <<at, artifacts, turn, file_failed, failures, failed, used>>
  BY DEF UnitError, Logged, MemberSeen, MemberTally
<1> PICK t : t = tally
  OBVIOUS
<1> PICK u : u = U
  OBVIOUS
<1> PICK r : r = MemberTally(t, u.member, "errors")
  OBVIOUS
<1>2. t \in Tallies
  BY DEF Counted, Shape
<1>3. /\ r \in Tallies
      /\ r.members.errors = t.members.errors + (IF u.member = NoMember THEN 0 ELSE 1)
      /\ r.members.inspected = t.members.inspected
      /\ r.checked = t.checked /\ r.inspected_by_kind = t.inspected_by_kind
      /\ r.code_items = t.code_items /\ r.skipped = t.skipped
      /\ r.failed_items = t.failed_items /\ r.counts = t.counts
  BY <1>2, MemberTallyIs
<1>4. UnitShape(u)
  BY <1>1, HeadTail DEF IInv, StepShape, UnitsShape, U
<1>5. Shape' /\ FilesCounted' /\ BadCounted' /\ ErrorsFound'
  <2>1. file_failed' <=> \/ file_failed
                         \/ /\ U.verdict = "evidence"
                            /\ \E c \in Checks : ~Meets(ModeOf(<<>>, c), U.elf, c)
    BY <1>1
  <2>2. tally' \in Tallies /\ tally'.checked = tally.checked
        /\ tally'.inspected_by_kind = tally.inspected_by_kind
    BY <1>1, <1>3
  <2> QED
    BY <1>1, <2>1, <2>2, UnitFiles
<1>6. UnitsCounted'
  <2>1. /\ t.members.inspected \in Nat /\ t.code_items \in Nat /\ t.skipped \in Nat
        /\ t.failed_items \in Nat /\ \A c \in Checks, s \in States : t.counts[c][s] \in Nat
    BY <1>2 DEF Tallies
  <2>2. u.verdict = "error" /\ r = tally'
    BY <1>1
  <2>3. /\ r.members.errors = t.members.errors
             + (IF u.member # NoMember /\ u.verdict = "error" THEN 1 ELSE 0)
        /\ r.members.inspected = t.members.inspected
             + (IF u.member # NoMember /\ u.verdict # "error" THEN 1 ELSE 0)
        /\ r.code_items = t.code_items + (IF u.verdict = "evidence" THEN 1 ELSE 0)
        /\ r.skipped = t.skipped + (IF u.verdict = "skipped" THEN 1 ELSE 0)
    BY <1>3, <2>1, <2>2
  <2>4. \A c \in Checks, s \in States : r.counts[c][s] = t.counts[c][s]
             + (IF u.verdict = "evidence" /\ detect(c, u.elf) = s THEN 1 ELSE 0)
    BY <1>3, <2>1, <2>2
  <2>5. r.failed_items = t.failed_items
          + (IF u.verdict = "evidence" /\ \E c \in Checks : ~Meets(ModeOf(<<>>, c), u.elf, c)
               THEN 1 ELSE 0)
    BY <1>3, <2>1, <2>2
  <2>6. log' = Append(log, [artifact |-> turn, unit |-> u, modes |-> <<>>])
    BY <1>1
  <2>7. artifacts' = artifacts
    BY <1>1
  <2> QED
    BY <1>4, <2>2, <2>3, <2>4, <2>5, <2>6, <2>7, UnitCounts
<1>7. NamesCounted' /\ UsedNoted'
  <2>1. UNCHANGED <<artifacts, failed, used>> /\ u.verdict # "evidence"
    BY <1>1
  <2>2. log' = Append(log, [artifact |-> turn, unit |-> u, modes |-> <<>>])
    BY <1>1
  <2> QED
    BY <2>1, <2>2, NoItem
<1> QED
  BY <1>5, <1>6, <1>7 DEF Counted

\* A unit that is metadata.
LEMMA CountedSkipped ==
    ASSUME CheckBuildAssumption, IInv, Counted, UnitSkipped
    PROVE  Counted'
<1> PICK t : t = tally
  OBVIOUS
<1> PICK u : u = U
  OBVIOUS
<1> PICK i : i = MemberTally(t, u.member, "inspected")
  OBVIOUS
<1> PICK r : r = SkippedTally(i)
  OBVIOUS
<1>1. /\ at = "judge" /\ units # <<>> /\ U.verdict = "skipped" /\ units' = Tail(units)
      /\ log' = Append(log, [artifact |-> turn, unit |-> U, modes |-> <<>>])
      /\ tally' = r
      /\ UNCHANGED <<at, artifacts, turn, file_failed, errors, failures, failed, used>>
  BY DEF UnitSkipped, Logged, MemberSeen, MemberTally, SkippedTally
<1>2. t \in Tallies
  BY DEF Counted, Shape
<1>3. /\ i \in Tallies
      /\ i.members.errors = t.members.errors
      /\ i.members.inspected = t.members.inspected + (IF u.member = NoMember THEN 0 ELSE 1)
      /\ i.checked = t.checked /\ i.inspected_by_kind = t.inspected_by_kind
      /\ i.code_items = t.code_items /\ i.skipped = t.skipped
      /\ i.failed_items = t.failed_items /\ i.counts = t.counts
  BY <1>2, MemberTallyIs
<1>4. /\ r \in Tallies
      /\ r.members = i.members /\ r.checked = i.checked
      /\ r.inspected_by_kind = i.inspected_by_kind /\ r.skipped = i.skipped + 1
      /\ r.code_items = i.code_items /\ r.failed_items = i.failed_items
      /\ r.counts = i.counts
  BY <1>3, SkippedTallyIs
<1>5. UnitShape(u)
  BY <1>1, HeadTail DEF IInv, StepShape, UnitsShape, U
<1>6. Shape' /\ FilesCounted' /\ BadCounted' /\ ErrorsFound'
  <2>1. file_failed' <=> \/ file_failed
                         \/ /\ U.verdict = "evidence"
                            /\ \E c \in Checks : ~Meets(ModeOf(<<>>, c), U.elf, c)
    BY <1>1
  <2>2. tally' \in Tallies /\ tally'.checked = tally.checked
        /\ tally'.inspected_by_kind = tally.inspected_by_kind
    BY <1>1, <1>3, <1>4
  <2> QED
    BY <1>1, <2>1, <2>2, UnitFiles
<1>7. UnitsCounted'
  <2>1. /\ t.members.errors \in Nat /\ t.members.inspected \in Nat /\ t.code_items \in Nat
        /\ t.skipped \in Nat /\ t.failed_items \in Nat
        /\ \A c \in Checks, s \in States : t.counts[c][s] \in Nat
    BY <1>2 DEF Tallies
  <2>2. u.verdict = "skipped" /\ r = tally'
    BY <1>1
  <2>3. /\ r.members.errors = t.members.errors
             + (IF u.member # NoMember /\ u.verdict = "error" THEN 1 ELSE 0)
        /\ r.members.inspected = t.members.inspected
             + (IF u.member # NoMember /\ u.verdict # "error" THEN 1 ELSE 0)
        /\ r.code_items = t.code_items + (IF u.verdict = "evidence" THEN 1 ELSE 0)
        /\ r.skipped = t.skipped + (IF u.verdict = "skipped" THEN 1 ELSE 0)
    BY <1>3, <1>4, <2>1, <2>2
  <2>4. \A c \in Checks, s \in States : r.counts[c][s] = t.counts[c][s]
             + (IF u.verdict = "evidence" /\ detect(c, u.elf) = s THEN 1 ELSE 0)
    BY <1>3, <1>4, <2>1, <2>2
  <2>5. r.failed_items = t.failed_items
          + (IF u.verdict = "evidence" /\ \E c \in Checks : ~Meets(ModeOf(<<>>, c), u.elf, c)
               THEN 1 ELSE 0)
    BY <1>3, <1>4, <2>1, <2>2
  <2>6. log' = Append(log, [artifact |-> turn, unit |-> u, modes |-> <<>>])
    BY <1>1
  <2>7. artifacts' = artifacts
    BY <1>1
  <2> QED
    BY <1>5, <2>2, <2>3, <2>4, <2>5, <2>6, <2>7, UnitCounts
<1>8. NamesCounted' /\ UsedNoted'
  <2>1. UNCHANGED <<artifacts, failed, used>> /\ u.verdict # "evidence"
    BY <1>1
  <2>2. log' = Append(log, [artifact |-> turn, unit |-> u, modes |-> <<>>])
    BY <1>1
  <2> QED
    BY <2>1, <2>2, NoItem
<1> QED
  BY <1>6, <1>7, <1>8 DEF Counted

\* An item.
LEMMA CountedItem ==
    ASSUME CheckBuildAssumption, IInv, Counted, UnitJudged
    PROVE  Counted'
<1> PICK t : t = tally
  OBVIOUS
<1> PICK u : u = U
  OBVIOUS
<1> PICK name : name = Artifact.name
  OBVIOUS
<1> PICK ms : ms = effective_modes(Artifact.name, U.member, modes, overrides)
  OBVIOUS
<1> PICK d : d = IF Mismatches(ms) = {} THEN 0 ELSE 1
  OBVIOUS
<1> PICK i : i = MemberTally(t, u.member, "inspected")
  OBVIOUS
<1> PICK r : r = JudgedTally(i, u.elf, d)
  OBVIOUS
<1>1. /\ at = "judge" /\ units # <<>> /\ U.verdict = "evidence" /\ units' = Tail(units)
      /\ log' = Append(log, [artifact |-> turn, unit |-> U, modes |-> ms])
      /\ tally' = r
      /\ file_failed' = (file_failed \/ Mismatches(ms) # {})
      /\ used' = [c \in Checks |-> Used(c, ModeOf(ms, c))]
      /\ failed' = [c \in Checks |-> IF c \in Mismatches(ms) THEN Count(failed[c], name)
                                                             ELSE failed[c]]
      /\ UNCHANGED <<at, artifacts, turn, errors, failures>>
  BY DEF UnitJudged, Logged, MemberSeen, MemberTally, JudgedTally
<1>2. Mismatches(ms) = {c \in Checks : ~Meets(ModeOf(ms, c), u.elf, c)}
  BY DetectMeets DEF Mismatches
<1>3. t \in Tallies /\ d \in Nat
  BY DEF Counted, Shape
<1>4. /\ i \in Tallies
      /\ i.members.errors = t.members.errors
      /\ i.members.inspected = t.members.inspected + (IF u.member = NoMember THEN 0 ELSE 1)
      /\ i.checked = t.checked /\ i.inspected_by_kind = t.inspected_by_kind
      /\ i.code_items = t.code_items /\ i.skipped = t.skipped
      /\ i.failed_items = t.failed_items /\ i.counts = t.counts
  BY <1>3, MemberTallyIs
<1>5. /\ r \in Tallies
      /\ r.members = i.members /\ r.checked = i.checked
      /\ r.inspected_by_kind = i.inspected_by_kind /\ r.skipped = i.skipped
      /\ r.code_items = i.code_items + 1 /\ r.failed_items = i.failed_items + d
      /\ \A c \in Checks, s \in States :
           r.counts[c][s] = i.counts[c][s] + (IF detect(c, u.elf) = s THEN 1 ELSE 0)
  BY <1>3, <1>4, JudgedTallyIs
<1>6. UnitShape(u)
  BY <1>1, HeadTail DEF IInv, StepShape, UnitsShape, U
<1>7. Shape' /\ FilesCounted' /\ BadCounted' /\ ErrorsFound'
  <2>1. file_failed' <=> \/ file_failed
                         \/ /\ U.verdict = "evidence"
                            /\ \E c \in Checks : ~Meets(ModeOf(ms, c), U.elf, c)
    BY <1>1, <1>2
  <2>2. tally' \in Tallies /\ tally'.checked = tally.checked
        /\ tally'.inspected_by_kind = tally.inspected_by_kind
    BY <1>1, <1>4, <1>5
  <2> QED
    BY <1>1, <2>1, <2>2, UnitFiles
<1>8. UnitsCounted'
  <2>1. /\ t.members.errors \in Nat /\ t.members.inspected \in Nat /\ t.code_items \in Nat
        /\ t.skipped \in Nat /\ t.failed_items \in Nat
        /\ \A c \in Checks, s \in States : t.counts[c][s] \in Nat
    BY <1>3 DEF Tallies
  <2>2. u.verdict = "evidence" /\ r = tally'
    BY <1>1
  <2>3. /\ r.members.errors = t.members.errors
             + (IF u.member # NoMember /\ u.verdict = "error" THEN 1 ELSE 0)
        /\ r.members.inspected = t.members.inspected
             + (IF u.member # NoMember /\ u.verdict # "error" THEN 1 ELSE 0)
        /\ r.code_items = t.code_items + (IF u.verdict = "evidence" THEN 1 ELSE 0)
        /\ r.skipped = t.skipped + (IF u.verdict = "skipped" THEN 1 ELSE 0)
    BY <1>4, <1>5, <2>1, <2>2
  <2>4. \A c \in Checks, s \in States : r.counts[c][s] = t.counts[c][s]
             + (IF u.verdict = "evidence" /\ detect(c, u.elf) = s THEN 1 ELSE 0)
    BY <1>4, <1>5, <2>2
  <2>5. r.failed_items = t.failed_items
          + (IF u.verdict = "evidence" /\ \E c \in Checks : ~Meets(ModeOf(ms, c), u.elf, c)
               THEN 1 ELSE 0)
    BY <1>2, <1>4, <1>5, <2>2
  <2>6. log' = Append(log, [artifact |-> turn, unit |-> u, modes |-> ms])
    BY <1>1
  <2>7. artifacts' = artifacts
    BY <1>1
  <2> QED
    BY <1>6, <2>2, <2>3, <2>4, <2>5, <2>6, <2>7, UnitCounts
<1>9. NamesCounted' /\ UsedNoted'
  <2>1. /\ log' = Append(log, [artifact |-> turn, unit |-> u, modes |-> ms])
        /\ u.verdict = "evidence" /\ UNCHANGED artifacts /\ name = artifacts[turn].name
        /\ used' = [c \in Checks |-> Used(c, ModeOf(ms, c))]
    BY <1>1 DEF Artifact
  <2>2. failed' = [c \in Checks |-> IF ~Meets(ModeOf(ms, c), u.elf, c)
                                      THEN Count(failed[c], name) ELSE failed[c]]
    BY <1>1, <1>2
  <2> QED
    BY <1>1, <2>1, <2>2, ItemNoted
<1> QED
  BY <1>7, <1>8, <1>9 DEF Counted

\* Every step keeps the counters those of the log.
LEMMA CountedStep ==
    ASSUME CheckBuildAssumption, IInv, Counted, [Next]_vars
    PROVE  Counted'
<1>1. CASE UNCHANGED vars
  <2>1. UNCHANGED <<log, artifacts, turn, units, at, file_failed, errors, failures, tally, failed,
                    used>>
    BY <1>1 DEF vars, counts, history
  <2>2. ErrorsFound'
    BY <2>1, LogSets DEF Counted, ErrorsFound
  <2>3. \A i \in DOMAIN artifacts' : artifacts'[i].name \in Names /\ artifacts'[i].kind \in Kinds
    BY <2>1 DEF Counted, Shape
  <2>4. at' \in {"load", "discover", "output"} => log = <<>>
    BY <2>1 DEF Counted, Shape
  <2> QED
    BY <2>1, <2>2, <2>3, <2>4, CountedKept
<1>2. CASE Inspect
  <2>1. PICK us : Begin(us)
    BY <1>2 DEF Inspect
  <2>2. /\ at = "inspect" /\ turn <= Len(artifacts)
        /\ UNCHANGED <<artifacts, turn, errors, failures, failed, used, log>>
    BY <1>2 DEF Inspect
  <2> QED
    BY <2>1, <2>2, CountedBegin
<1>3. CASE InspectRaises
  <2>1. PICK us : Begin(us)
    BY <1>3 DEF InspectRaises
  <2>2. /\ at = "inspect" /\ turn <= Len(artifacts)
        /\ UNCHANGED <<artifacts, turn, errors, failures, failed, used, log>>
    BY <1>3 DEF InspectRaises
  <2> QED
    BY <2>1, <2>2, CountedBegin
<1> QED
  BY <1>1, <1>2, <1>3, CountedSetUp, CountedError, CountedSkipped, CountedItem, CountedDone,
     CountedReport DEF Next

-----------------------------------------------------------------------------
(* What the invariant says of the report.                                  *)

\* The counters.
LEMMA CountersRight ==
    ASSUME IInv, Counted
    PROVE  CountersAddUp
<1> SUFFICES ASSUME at \in {"inspect", "announce"}
             PROVE  CountersAddUp
  BY DEF CountersAddUp
<1> PICK n : n = Len(log) + 1
  OBVIOUS
<1>1. DOMAIN log = 1..n - 1 /\ Len(log) \in Nat /\ n \in Nat \ {0}
  BY DEF IInv, StepShape, IsSeq
<1>2. Begun = 1..turn - 1
  BY DEF Begun
<1>3. /\ \E f \in Findings : /\ f.artifacts = artifacts
                             /\ errors = f.errors + Cardinality(ErrorUnits)
  BY DEF Counted, ErrorsFound
<1>4. CleanFiles = {i \in 1..turn - 1 : ~Erred(i)}
  BY <1>2 DEF CleanFiles, Clean
<1>5. \A kind : CleanOf(kind) = {i \in 1..turn - 1 : ~Erred(i) /\ artifacts[i].kind = kind}
  BY <1>4 DEF CleanOf
<1>6. tally.skipped = Len(log) - Cardinality(Items) - Cardinality(ErrorUnits)
  <2>1. Items \in SUBSET (1..n - 1) /\ ErrorUnits \in SUBSET (1..n - 1)
    BY <1>1, UnitSetsInside
  <2>2. Cardinality(Items) \in Nat /\ Cardinality(ErrorUnits) \in Nat
    BY <1>1, <2>1, NextPosition
  <2>3. tally.skipped + Cardinality(Items) + Cardinality(ErrorUnits) = Len(log)
        /\ tally.skipped \in Nat
    BY DEF Counted, UnitsCounted, Shape, Tallies
  <2> QED
    BY <1>1, <2>2, <2>3
<1>7. \A c \in Checks, name \in Names :
        IF name \in DOMAIN failed[c]
          THEN failed[c][name] = Cardinality(FailingItems(c, name))
          ELSE FailingItems(c, name) = {}
  BY DEF Counted, NamesCounted
<1>8. failures = Cardinality({i \in 1..turn - 1 : \E k \in Items, c \in Checks :
                                log[k].artifact = i /\ Fails(k, c)})
  BY DEF Counted, BadCounted, Bad
<1>9. /\ MembersFailed = {k \in DOMAIN log : /\ log[k].unit.member # NoMember
                                            /\ (log[k].unit.verdict = "error") = TRUE}
      /\ MembersPassed = {k \in DOMAIN log : /\ log[k].unit.member # NoMember
                                            /\ (log[k].unit.verdict = "error") = FALSE}
  BY DEF MembersFailed, MembersPassed
<1>10. /\ tally.members.errors = Cardinality(MembersFailed)
       /\ tally.members.inspected = Cardinality(MembersPassed)
       /\ tally.code_items = Cardinality(Items)
       /\ tally.checked = Cardinality(CleanFiles)
       /\ \A kind \in Kinds : tally.inspected_by_kind[kind] = Cardinality(CleanOf(kind))
  BY DEF Counted, UnitsCounted, FilesCounted
<1>11. /\ \A c \in Checks, s \in States :
            tally.counts[c][s] = Cardinality({k \in Items : detect(c, log[k].unit.elf) = s})
       /\ tally.failed_items = Cardinality({k \in Items : \E c \in Checks : Fails(k, c)})
  BY DEF Counted, UnitsCounted, DetectedIn, FailedItems
<1>12. tally.checked = Cardinality({i \in 1..turn - 1 : ~Erred(i)})
  BY <1>4, <1>10
<1>13. \A kind \in Kinds : tally.inspected_by_kind[kind] =
         Cardinality({i \in 1..turn - 1 : ~Erred(i) /\ artifacts[i].kind = kind})
  BY <1>5, <1>10
<1> QED
  BY <1>3, <1>6, <1>7, <1>8, <1>9, <1>10, <1>11, <1>12, <1>13
     DEF CountersAddUp, Erred, FailingItems

\* The summary.
LEMMA SummaryRight ==
    ASSUME IInv, Counted
    PROVE  FailuresShown
<1> SUFFICES ASSUME at = "announce"
             PROVE  FailuresShown
  BY DEF FailuresShown
<1> PICK n : n = Len(log) + 1
  OBVIOUS
<1>1. DOMAIN log = 1..n - 1 /\ n \in Nat \ {0}
  BY DEF IInv, StepShape, IsSeq
<1>2. ASSUME NEW c \in Checks, NEW k \in Items
      PROVE  ModeOf(log[k].modes, c) \in Values(c)
  BY DEF Counted, UsedNoted, Values
<1>3. ASSUME NEW c \in Checks, NEW k \in Items, Expectation(c) # "varies"
      PROVE  ModeOf(log[k].modes, c) = Expectation(c)
  <2>1. IsFiniteSet(Values(c))
    BY FS_Singleton DEF Counted, UsedNoted, Values
  <2>2. Cardinality(Values(c)) = 1
    BY <1>3 DEF Expectation
  <2>3. PICK m : Values(c) = {m}
    BY <2>1, <2>2, FS_Singleton
  <2> QED
    BY <1>2, <2>2, <2>3 DEF Expectation
<1>4. ASSUME NEW c \in Checks
      PROVE  /\ ItemsShown(c) = Cardinality({k \in Items : Fails(k, c)})
             /\ FilesShown(c) = Cardinality({artifacts[log[k].artifact].name :
                                               k \in {j \in Items : Fails(j, c)}})
  <2> DEFINE F == {k \in Items : Fails(k, c)}
             name == [k \in F |-> artifacts[log[k].artifact].name]
             D == {artifacts[log[k].artifact].name : k \in F}
  <2>1. CASE c \notin Enforced
    <3>1. \A k \in Items : ModeOf(log[k].modes, c) = "ignore"
      BY <1>2, <2>1 DEF Enforced
    <3>2. F = {}
      BY <3>1 DEF Fails, Meets
    <3>3. D = {}
      BY <3>2
    <3> HIDE DEF F, D
    <3>4. Cardinality(F) = 0 /\ Cardinality(D) = 0
      BY <3>2, <3>3, FS_EmptySet
    <3> QED
      BY <2>1, <3>4 DEF ItemsShown, FilesShown, F, D
  <2>2. CASE c \in Enforced
    <3>1. \A k \in F : log[k].artifact \in DOMAIN artifacts /\ name[k] \in Names
      <4>1. ASSUME NEW k \in F PROVE log[k].artifact \in DOMAIN artifacts
        BY DEF Items, Counted, Shape, Begun, IInv, StepShape
      <4> QED
        BY <4>1 DEF Counted, Shape
    <3>2. /\ DOMAIN failed[c] \subseteq Names
          /\ \A nm \in Names :
               IF nm \in DOMAIN failed[c]
                 THEN /\ failed[c][nm] = Cardinality(FailingItems(c, nm))
                      /\ FailingItems(c, nm) # {}
                 ELSE FailingItems(c, nm) = {}
      BY DEF Counted, NamesCounted
    <3>3. \A nm : FailingItems(c, nm) = {k \in F : name[k] = nm}
      BY DEF FailingItems
    <3>4. DOMAIN failed[c] = D
      <4>1. ASSUME NEW nm \in DOMAIN failed[c] PROVE nm \in D
        <5>1. FailingItems(c, nm) # {}
          BY <3>2
        <5> QED
          BY <3>3, <5>1
      <4>2. ASSUME NEW nm \in D PROVE nm \in DOMAIN failed[c]
        <5>1. PICK k \in F : nm = name[k]
          OBVIOUS
        <5>2. nm \in Names /\ k \in FailingItems(c, nm)
          BY <3>1, <3>3, <5>1
        <5> QED
          BY <3>2, <5>2
      <4> HIDE DEF D
      <4> QED
        BY <4>1, <4>2
    <3>5. IsFiniteSet(F)
      <4>1. F \in SUBSET (1..n - 1)
        BY <1>1 DEF Items
      <4> QED
        BY <1>1, <4>1, NextPosition
    <3>6. IsFiniteSet(D)
      <4>1. name \in Surjection(F, D)
        BY DEF Surjection
      <4> HIDE DEF F, D, name
      <4> QED
        BY <3>5, <4>1, FS_Surjection
    <3>7. FoldFunction(+, 0, failed[c]) = Cardinality(F)
      <4> PICK f : f = failed[c]
        OBVIOUS
      <4>1. \A nm \in DOMAIN f : f[nm] = Cardinality({k \in F : name[k] = nm})
        BY <3>2, <3>3
      <4>2. \A k \in F : name[k] \in DOMAIN f
        BY <3>4
      <4>3. IsFiniteSet(DOMAIN f)
        BY <3>4, <3>6
      <4> HIDE DEF F, name, D
      <4>4. FoldFunction(+, 0, f) = Cardinality(F)
        BY <3>5, <4>1, <4>2, <4>3, SumOfParts
      <4> QED
        BY <4>4
    <3> HIDE DEF F, D
    <3> QED
      BY <2>2, <3>4, <3>7 DEF ItemsShown, FilesShown, F, D
  <2> QED
    BY <2>1, <2>2
<1> QED
  BY <1>3, <1>4 DEF FailuresShown

\* Whatever is found in whatever files: every counter of the report and of its
\* summary is what a recount of the items gives.
THEOREM CheckReportAddsUp == Spec => []ReportAddsUp
<1>1. Init => IInv /\ Counted
  BY InitInv, CountedInit, CheckBuildAssumption
<1>2. IInv /\ Counted /\ [Next]_vars => (IInv /\ Counted)'
  BY StepInv, CountedStep, CheckBuildAssumption
<1>3. IInv /\ Counted => ReportAddsUp
  BY CountersRight, SummaryRight DEF ReportAddsUp
<1> QED
  BY <1>1, <1>2, <1>3, PTL DEF Spec
=============================================================================
