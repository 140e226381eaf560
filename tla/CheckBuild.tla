----------------------------- MODULE CheckBuild -----------------------------
(***************************************************************************)
(* One run of build-check/check_build.py: main, load_config and            *)
(* make_report.  Which files it inspects is Discover's subject; here they  *)
(* are any list, with errors if there is nothing in it.  readelf answers   *)
(* anything: a file may have been rebuilt or removed since it was found.   *)
(***************************************************************************)
EXTENDS Evidence, FiniteSets, Functions

CONSTANTS
    Names,         \* files that may be found, as the report names them
    Configs,       \* configuration files
    Findings,      \* what discover() may return
    Results,       \* what readelf may answer
    Outputs,       \* what may be at the configured report path
    Loops          \* which path may be a loop of symbolic links

RawModes == Modes \union {"require", "forbid", "report", "typo"}
Legacy   == [require |-> "present", forbid |-> "absent", report |-> "ignore"]
Kinds    == {"object", "binary", "archive"}
Partial(S, T) == UNION {[R -> T] : R \in SUBSET S}

ASSUME ConfigsAssumption ==
    Configs \subseteq [flaw : {"none", "unreadable", "DEFAULT", "section", "option",
                               "empty_glob", "no_roots", "no_report"},
                       baseline : Partial(Checks, RawModes),
                       overrides : Seq([pattern : SUBSET (Names \X (Members \union {NoMember})),
                                        modes : Partial(Checks, RawModes)])]

ASSUME CheckBuildAssumption ==
    /\ Findings \subseteq [artifacts : Seq([name : Names, kind : Kinds]), errors : Nat]
    /\ \A f \in Findings : f.artifacts = <<>> => f.errors > 0
    /\ Results \subseteq Result
    /\ Outputs \subseteq [artifact_name : BOOLEAN, regular : BOOLEAN, links : Nat \ {0},
                          file : Names \union {"none", "previous", "unlisted", "binary_path",
                                               "config", "checker"}]
    /\ Loops \subseteq {"config", "report", "binary_path"}

VARIABLES
    config,       \* the configuration file
    loop,         \* the path that is a loop, or "none"
    output,       \* what is at the report path
    modes,        \* modes, overrides: what load_config returns
    overrides,
    at,           \* the step of main
    artifacts,
    turn,         \* the artifact in work
    units,        \* its units that are not yet judged
    file_failed,
    errors,       \* len(errors)
    failures,     \* artifacts that fail expectations
    tally,        \* the other counters of make_report
    failed,       \* failures_by_check: per check and name, how many items
    used,         \* used_modes
    report,       \* the file at the report path: "untouched", "part" or "whole"
    status,       \* exit status, or Running
    log,          \* history: the units that were read, with the modes they got
    troubled      \* history: artifacts that readelf did not read from end to end

Running == -1
input  == <<config, loop, output>>
rules  == <<modes, overrides>>
counts == <<file_failed, errors, failures, tally, failed, used>>
history == <<log, troubled>>
vars   == <<input, rules, at, artifacts, turn, units, counts, report, status, history>>

Init ==
    /\ config \in Configs /\ loop \in Loops \union {"none"} /\ output \in Outputs
    /\ modes = <<>> /\ overrides = <<>>
    /\ at = "load" /\ artifacts = <<>> /\ turn = 1 /\ units = <<>>
    /\ file_failed = FALSE /\ errors = 0 /\ failures = 0
    /\ tally = [checked |-> 0, code_items |-> 0, failed_items |-> 0, skipped |-> 0,
                inspected_by_kind |-> [k \in Kinds |-> 0],
                members |-> [inspected |-> 0, errors |-> 0],
                counts |-> [c \in Checks |-> [s \in States |-> 0]]]
    /\ failed = [c \in Checks |-> <<>>] /\ used = [c \in Checks |-> {}]
    /\ report = "untouched" /\ status = Running /\ log = <<>> /\ troubled = {}

-----------------------------------------------------------------------------
(* main, up to the inspection.                                             *)

Exit(code) == at' = "done" /\ status' = code
Goto(step) == at' = step /\ UNCHANGED status

\* Path.resolve of Python before 3.13 raises RuntimeError on a loop, which main
\* does not catch: the interpreter exits with 1.
Loop ==
    /\ \/ loop = "config" /\ at = "load"
       \/ loop \in {"report", "binary_path"} /\ at = "output"
    /\ Exit(1)
    /\ UNCHANGED <<input, rules, artifacts, turn, units, counts, report, history>>

Mode(raw) == IF raw \in DOMAIN Legacy THEN Legacy[raw] ELSE raw
Normal(section) == [c \in DOMAIN section |-> Mode(section[c])]

Invalid ==
    \/ config.flaw # "none"
    \/ \E c \in DOMAIN config.baseline : Mode(config.baseline[c]) \notin Modes
    \/ \E i \in DOMAIN config.overrides : \E c \in DOMAIN config.overrides[i].modes :
         Mode(config.overrides[i].modes[c]) \notin Modes

\* The baseline need not say ignore, an override has to.
\* Mutant of OverrideModes: it is left out there too.
Enforcing(section) ==
    LET all == Normal(section) IN [c \in {d \in DOMAIN all : all[d] # "ignore"} |-> all[c]]
OverrideModesEnforcing(section) == Enforcing(section)
OverrideModes(section) == Normal(section)

Load ==
    /\ at = "load" /\ loop # "config"
    /\ IF Invalid THEN Exit(2) /\ UNCHANGED rules
       ELSE /\ Goto("discover")
            /\ modes' = Enforcing(config.baseline)
            /\ overrides' = [i \in DOMAIN config.overrides |->
                               [pattern |-> config.overrides[i].pattern,
                                modes |-> OverrideModes(config.overrides[i].modes)]]
    /\ UNCHANGED <<input, artifacts, turn, units, counts, report, history>>

NoReadelf ==
    /\ at = "discover" /\ Exit(2)
    /\ UNCHANGED <<input, rules, artifacts, turn, units, counts, report, history>>

Discovered ==
    /\ at = "discover" /\ Goto("output")
    /\ \E f \in Findings : artifacts' = f.artifacts /\ errors' = f.errors
    /\ UNCHANGED <<input, rules, turn, units, file_failed, failures, tally, failed, used,
                   report, history>>

ArtifactNames == {artifacts[i].name : i \in DOMAIN artifacts}
Inputs == ArtifactNames \union {"binary_path", "config", "checker"}

\* By name, by identity, and by what is in it.
\* Mutant of Forbidden: a file that is no input may be an artifact.
ForbiddenInputs(o) == o.artifact_name \/ o.file \in Inputs \/ ~o.regular \/ o.links > 1
Forbidden(o) ==
    \/ o.artifact_name \/ o.file \in Inputs
    \/ o.file # "none" /\ (~o.regular \/ o.links > 1 \/ o.file \in Names \union {"unlisted"})

CheckOutput ==
    /\ at = "output" /\ loop \notin {"report", "binary_path"}
    /\ IF Forbidden(output) THEN Exit(2) ELSE Goto("inspect")
    /\ UNCHANGED <<input, rules, artifacts, turn, units, counts, report, history>>

-----------------------------------------------------------------------------
(* make_report.                                                            *)

Artifact == artifacts[turn]

Erroneous(us) == \E i \in DOMAIN us : us[i].verdict = "error"

\* A file is read.  Only one without an error in it counts as inspected.
Begin(us) ==
    /\ Goto("judge") /\ units' = us /\ file_failed' = FALSE
    /\ tally' = IF Erroneous(us) THEN tally
                ELSE [tally EXCEPT !.checked = @ + 1,
                                   !.inspected_by_kind[Artifact.kind] = @ + 1]

Carries(elf, section) == \E s \in elf.sections : s.name = section /\ ~s.empty

\* readelf complained, or there is something other than ELF files with code of
\* their own, or nothing.
Trouble(kind, r) ==
    \/ r.diagnostic \/ (IF kind = "archive" THEN r.files = <<>> \/ ~r.listed ELSE Len(r.files) # 1)
    \/ \E i \in DOMAIN r.files :
         r.files[i].elf.headers # 1 \/ Carries(r.files[i].elf, ".gnu.lto_")

Inspect ==
    /\ at = "inspect" /\ turn <= Len(artifacts)
    /\ \E r \in Results :
         /\ Begin(inspect(Artifact.kind, r))
         /\ troubled' = IF Trouble(Artifact.kind, r) THEN troubled \union {turn} ELSE troubled
    /\ UNCHANGED <<input, rules, artifacts, turn, errors, failures, failed, used, report, log>>

\* readelf cannot be run, or takes longer than a minute.
InspectRaises ==
    /\ at = "inspect" /\ turn <= Len(artifacts)
    /\ Begin(<<Failed(NoMember)>>) /\ troubled' = troubled \union {turn}
    /\ UNCHANGED <<input, rules, artifacts, turn, errors, failures, failed, used, report, log>>

-----------------------------------------------------------------------------
(* One unit: an error, skipped metadata, or an item for every check.       *)

U == Head(units)

MemberSeen(t, field) ==
    IF U.member = NoMember THEN t ELSE [t EXCEPT !.members[field] = @ + 1]

Logged(item_modes) ==
    /\ log' = Append(log, [artifact |-> turn, unit |-> U, modes |-> item_modes])
    /\ UNCHANGED troubled

UnitError ==
    /\ at = "judge" /\ units # <<>> /\ U.verdict = "error"
    /\ units' = Tail(units) /\ Logged(<<>>)
    /\ errors' = errors + 1 /\ tally' = MemberSeen(tally, "errors")
    /\ UNCHANGED <<input, rules, at, artifacts, turn, file_failed, failures, failed, used,
                   report, status>>

UnitSkipped ==
    /\ at = "judge" /\ units # <<>> /\ U.verdict = "skipped"
    /\ units' = Tail(units) /\ Logged(<<>>)
    /\ tally' = [MemberSeen(tally, "inspected") EXCEPT !.skipped = @ + 1]
    /\ UNCHANGED <<input, rules, at, artifacts, turn, file_failed, errors, failures, failed,
                   used, report, status>>

ModeOf(item_modes, c) == IF c \in DOMAIN item_modes THEN item_modes[c] ELSE "ignore"
Mismatches(item_modes) ==
    {c \in Checks : policy_failed(ModeOf(item_modes, c), detect(c, U.elf))}

\* Mutant of Count: one failure per file.
CountOnce(entries, name) == update(entries, [n \in {name} |-> 1])
Count(entries, name) ==
    update(entries, [n \in {name} |-> IF n \in DOMAIN entries THEN entries[n] + 1 ELSE 1])

\* Mutant of Used: an override is not noted.
UsedBaseline(c, mode) == used[c] \union {ModeOf(modes, c)}
Used(c, mode) == used[c] \union {mode}

Detected(numbers, elf) ==
    [c \in Checks |-> [numbers[c] EXCEPT ![detect(c, elf)] = @ + 1]]

UnitJudged ==
    /\ at = "judge" /\ units # <<>> /\ U.verdict = "evidence"
    /\ units' = Tail(units)
    /\ LET item_modes == effective_modes(Artifact.name, U.member, modes, overrides)
           mismatches == Mismatches(item_modes)
       IN  /\ Logged(item_modes)
           /\ used' = [c \in Checks |-> Used(c, ModeOf(item_modes, c))]
           /\ failed' = [c \in Checks |-> IF c \in mismatches
                                            THEN Count(failed[c], Artifact.name) ELSE failed[c]]
           /\ file_failed' = (file_failed \/ mismatches # {})
           /\ tally' = [MemberSeen(tally, "inspected") EXCEPT
                          !.code_items = @ + 1,
                          !.failed_items = @ + (IF mismatches = {} THEN 0 ELSE 1),
                          !.counts = Detected(@, U.elf)]
    /\ UNCHANGED <<input, rules, at, artifacts, turn, errors, failures, report, status>>

FileDone ==
    /\ at = "judge" /\ units = <<>>
    /\ Goto("inspect") /\ turn' = turn + 1
    /\ failures' = IF file_failed THEN failures + 1 ELSE failures
    /\ file_failed' = FALSE
    /\ UNCHANGED <<input, rules, artifacts, units, errors, tally, failed, used, report, history>>

\* What the summary says is expected, and of which checks it lists failures.
Values(c) == IF used[c] # {} THEN used[c] ELSE {ModeOf(modes, c)}
Expectation(c) == IF Cardinality(Values(c)) = 1 THEN CHOOSE m \in Values(c) : TRUE ELSE "varies"
Enforced == {c \in Checks : Values(c) # {"ignore"}}
FilesShown(c) == IF c \in Enforced THEN Cardinality(DOMAIN failed[c]) ELSE 0
ItemsShown(c) == IF c \in Enforced THEN FoldFunction(+, 0, failed[c]) ELSE 0

-----------------------------------------------------------------------------
(* main, from the report on.                                               *)

ExitStatus == IF errors > 0 THEN 2 ELSE IF failures > 0 THEN 1 ELSE 0

Write ==
    /\ at = "inspect" /\ turn > Len(artifacts)
    /\ Goto("announce") /\ report' = "whole"
    /\ UNCHANGED <<input, rules, artifacts, turn, units, counts, history>>

\* The directory cannot be made or the file not opened; or the text cannot be
\* encoded, or the disk is full, after it was truncated.
WriteFails ==
    /\ at = "inspect" /\ turn > Len(artifacts)
    /\ Exit(2) /\ report' \in {"untouched", "part"}
    /\ UNCHANGED <<input, rules, artifacts, turn, units, counts, history>>

Announce ==
    /\ at = "announce" /\ Exit(ExitStatus)
    /\ UNCHANGED <<input, rules, artifacts, turn, units, counts, report, history>>

AnnounceFails ==
    /\ at = "announce" /\ Exit(2)
    /\ UNCHANGED <<input, rules, artifacts, turn, units, counts, report, history>>

Next ==
    \/ Loop \/ Load \/ NoReadelf \/ Discovered \/ CheckOutput
    \/ Inspect \/ InspectRaises \/ UnitError \/ UnitSkipped \/ UnitJudged \/ FileDone
    \/ Write \/ WriteFails \/ Announce \/ AnnounceFails

Spec == Init /\ [][Next]_vars

-----------------------------------------------------------------------------
(* Correctness.                                                            *)

Items == {k \in DOMAIN log : log[k].unit.verdict = "evidence"}
ErrorUnits == {k \in DOMAIN log : log[k].unit.verdict = "error"}

\* What the expectations mean, said of the tables of a file: it is instrumented
\* if its code refers to the runtime or carries a section of it; it is free of
\* it if nothing of it is mentioned and the symbols are there to tell.
Named(s, c) == s.name = c /\ s.type # "FILE"
Instrumented(elf, c) ==
    \/ Carries(elf, c)
    \/ \E s \in elf.symbols : Named(s, c) /\ s.undefined /\ ~s.weak
    \/ c = Driver /\ \E s \in elf.symbols : Named(s, c) /\ ~s.undefined
Free(elf, c) ==
    /\ ~Carries(elf, c) /\ ~\E s \in elf.symbols : Named(s, c)
    /\ \E s \in elf.sections : s.name = ".symtab"
Meets(mode, elf, c) ==
    (mode = "present" => Instrumented(elf, c)) /\ (mode = "absent" => Free(elf, c))
Fails(k, c) == ~Meets(ModeOf(log[k].modes, c), log[k].unit.elf, c)

AllInspected ==
    /\ \A i \in DOMAIN artifacts : i \notin troubled /\ \E k \in DOMAIN log : log[k].artifact = i
    /\ \A k \in DOMAIN log \ Items : /\ log[k].unit.verdict = "skipped"
                                    /\ ~\E s \in log[k].unit.elf.sections : s.runtime /\ ~s.empty
AllMet == \A k \in Items, c \in Checks : ~Fails(k, c)

\* The exit status can be believed: 0 only if there was something to inspect,
\* all of it was read from end to end, nothing with code in it was passed over,
\* and every item meets every expectation; 1 only if all was read and some item
\* does not (or a path is a loop).  Either way there is a whole report.
ExitTellsTheTruth ==
    /\ status = 0 => artifacts # <<>> /\ AllInspected /\ AllMet /\ report = "whole"
    /\ status = 1 /\ loop = "none" => AllInspected /\ ~AllMet /\ report = "whole"

\* For every item and every check, the last matching section that names the
\* check decides, "ignore" included, and else the baseline.
LastMatchWins ==
    \A k \in Items, c \in Checks :
        LET name == artifacts[log[k].artifact].name
            hits == {i \in DOMAIN config.overrides :
                       /\ c \in DOMAIN config.overrides[i].modes
                       /\ Matches(config.overrides[i].pattern, name, log[k].unit.member)}
            last == CHOOSE i \in hits : \A j \in hits : j <= i
        IN  ModeOf(log[k].modes, c) =
              IF hits # {} THEN Mode(config.overrides[last].modes[c])
              ELSE Mode(ModeOf(config.baseline, c))

\* Between two files the counters of the report are what a recount gives.
CountersAddUp ==
    at \in {"inspect", "announce"} =>
        LET Erred(i) == \E k \in ErrorUnits : log[k].artifact = i
            MembersRead(erred) ==
                {k \in DOMAIN log : /\ log[k].unit.member # NoMember
                                    /\ (log[k].unit.verdict = "error") = erred}
            Done == 1..turn - 1
            Failing(c, name) == {k \in Items : /\ artifacts[log[k].artifact].name = name
                                              /\ Fails(k, c)}
        IN  /\ \E f \in Findings : /\ f.artifacts = artifacts
                                  /\ errors = f.errors + Cardinality(ErrorUnits)
            /\ tally.checked = Cardinality({i \in Done : ~Erred(i)})
            /\ \A kind \in Kinds : tally.inspected_by_kind[kind] =
                 Cardinality({i \in Done : ~Erred(i) /\ artifacts[i].kind = kind})
            /\ tally.members.errors = Cardinality(MembersRead(TRUE))
            /\ tally.members.inspected = Cardinality(MembersRead(FALSE))
            /\ tally.code_items = Cardinality(Items)
            /\ tally.skipped = Len(log) - Cardinality(Items) - Cardinality(ErrorUnits)
            /\ \A c \in Checks, s \in States :
                 tally.counts[c][s] = Cardinality({k \in Items : detect(c, log[k].unit.elf) = s})
            /\ tally.failed_items = Cardinality({k \in Items : \E c \in Checks : Fails(k, c)})
            /\ failures = Cardinality({i \in Done : \E k \in Items, c \in Checks :
                                         log[k].artifact = i /\ Fails(k, c)})
            /\ \A c \in Checks, name \in Names :
                 IF name \in DOMAIN failed[c]
                   THEN failed[c][name] = Cardinality(Failing(c, name))
                   ELSE Failing(c, name) = {}

\* A reader of the summary finds every failure: its counts are those of the
\* items and files that fail, a check without a count has none, and a check that
\* is shown with one expectation had it for every item.
FailuresShown ==
    at = "announce" =>
        /\ \A c \in Checks :
             /\ ItemsShown(c) = Cardinality({k \in Items : Fails(k, c)})
             /\ FilesShown(c) = Cardinality({artifacts[log[k].artifact].name :
                                               k \in {j \in Items : Fails(j, c)}})
        /\ \A c \in Checks, k \in Items :
             Expectation(c) # "varies" => ModeOf(log[k].modes, c) = Expectation(c)

\* The report can be added up: its counters and its summary are those of the
\* items it was made from.
ReportAddsUp == CountersAddUp /\ FailuresShown

\* Nothing is overwritten but an earlier report, and that only when the
\* configuration was valid and every file has been read.
ReportKept ==
    report # "untouched" =>
        /\ output.file = "none" \/ (output.file = "previous" /\ output.links = 1)
        /\ ~Invalid /\ turn > Len(artifacts)
=============================================================================
