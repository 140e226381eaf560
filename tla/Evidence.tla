------------------------------ MODULE Evidence ------------------------------
(***************************************************************************)
(* What build-check/check_build.py makes of the output of readelf for one  *)
(* file, and what it expects of it: parse_elf, inspect, detect,            *)
(* policy_failed and effective_modes.                                      *)
(*                                                                         *)
(* A symbol or a section is named by the check whose pattern its whole     *)
(* name matches; no name matches two.  Names that match none are left out, *)
(* but for the sections that say what kind of file it is.                  *)
(***************************************************************************)
EXTENDS Integers, Sequences

CONSTANTS
    SymbolChecks,   \* checks with a symbol pattern
    SectionChecks,  \* checks with a section pattern
    Driver,         \* "libfuzzer"
    Members,        \* names of archive members
    NoMember        \* ""

Checks == SymbolChecks \union SectionChecks
Modes  == {"present", "absent", "ignore"}
States == {"FOUND", "SYMBOL-ONLY", "NOT-SEEN", "UNKNOWN"}

ASSUME EvidenceAssumption ==
    /\ Driver \in SymbolChecks \ SectionChecks
    /\ NoMember \notin Members
    /\ Checks \intersect {".symtab", ".gnu.lto_", ".rmeta"} = {}

\* The tables of one ELF file.
Symbol  == [name : SymbolChecks, type : {"FUNC", "FILE"}, undefined : BOOLEAN, weak : BOOLEAN]
Section == [name : SectionChecks \union {".symtab", ".gnu.lto_", ".rmeta", ".text"},
            empty : BOOLEAN, runtime : BOOLEAN]
Elf     == [headers : Nat, relocatable : BOOLEAN,
            symbols : SUBSET Symbol, sections : SUBSET Section]

\* readelf's answer: listed says that every ELF file has a heading with the
\* name of its archive member.
Result == [diagnostic : BOOLEAN, listed : BOOLEAN, files : Seq([member : Members, elf : Elf])]

-----------------------------------------------------------------------------
(* parse_elf.                                                              *)

Symbols(elf)     == {s \in elf.symbols : s.type # "FILE"}
references(elf)  == {s.name : s \in {t \in Symbols(elf) : t.undefined /\ ~t.weak}}
definitions(elf) == {s.name : s \in {t \in Symbols(elf) : ~t.undefined}}
weak(elf)        == {s.name : s \in {t \in Symbols(elf) : t.undefined /\ t.weak}}
sections(elf)    == {s.name : s \in {t \in elf.sections : ~t.empty}}
has_runtime_sections(elf) == \E s \in elf.sections : s.runtime /\ ~s.empty
symbols_present(elf)      == \E s \in elf.sections : s.name = ".symtab"

\* A definition replaces a weak reference, whichever comes first.
other_symbols(elf, check) ==
    IF check \in definitions(elf) THEN "definition"
    ELSE IF check \in weak(elf) THEN "weak_reference" ELSE "none"

Unit(member, verdict, elf) == [member |-> member, verdict |-> verdict, elf |-> elf]
NoElf == [headers |-> 0, relocatable |-> FALSE, symbols |-> {}, sections |-> {}]
Failed(member) == Unit(member, "error", NoElf)

Metadata(elf) ==
    elf.relocatable /\ ~has_runtime_sections(elf) /\ ".rmeta" \in sections(elf)

parse_elf(member, elf) ==
    IF elf.headers # 1 \/ ".gnu.lto_" \in sections(elf) THEN Failed(member)
    ELSE Unit(member, IF Metadata(elf) THEN "skipped" ELSE "evidence", elf)

-----------------------------------------------------------------------------
(* inspect: the units of a file.  What readelf complains about belongs to   *)
(* no member in particular, and may mean that it stopped.                   *)

Headed(result) ==
    IF result.listed
      THEN [i \in DOMAIN result.files |-> parse_elf(result.files[i].member, result.files[i].elf)]
      ELSE <<>>

\* Mutant of WholeArchive: the diagnostic counts only if no member was read.
WholeArchiveIfAny(result) ==
    IF Headed(result) = <<>> THEN <<Failed(NoMember)>> ELSE Headed(result)
WholeArchive(result) ==
    IF result.diagnostic \/ Headed(result) = <<>>
      THEN Append(Headed(result), Failed(NoMember)) ELSE Headed(result)

inspect(kind, result) ==
    IF kind = "archive" THEN WholeArchive(result)
    ELSE IF result.diagnostic \/ Len(result.files) # 1 THEN <<Failed(NoMember)>>
    ELSE <<parse_elf(NoMember, result.files[1].elf)>>

-----------------------------------------------------------------------------
(* Judging a unit.                                                         *)

detect(check, elf) ==
    IF check \in sections(elf) \union references(elf) THEN "FOUND"
    ELSE IF other_symbols(elf, check) # "none"
      THEN IF check = Driver /\ other_symbols(elf, check) = "definition"
             THEN "FOUND" ELSE "SYMBOL-ONLY"
    ELSE IF ~symbols_present(elf) THEN "UNKNOWN" ELSE "NOT-SEEN"

policy_failed(mode, state) ==
    \/ mode = "present" /\ state # "FOUND"
    \/ mode = "absent" /\ state # "NOT-SEEN"

\* A pattern is the set of files, as <<name, NoMember>>, and of members of
\* files that it matches.
Matches(pattern, name, member) ==
    \/ <<name, NoMember>> \in pattern
    \/ member # NoMember /\ <<name, member>> \in pattern

\* dict.update.
update(entries, changes) ==
    [k \in DOMAIN entries \union DOMAIN changes |->
       IF k \in DOMAIN changes THEN changes[k] ELSE entries[k]]

\* Every override that matches updates the modes, in the order of the file.
effective_modes(name, member, modes, overrides) ==
    LET effective[i \in 0..Len(overrides)] ==
          IF i = 0 THEN modes
          ELSE IF Matches(overrides[i].pattern, name, member)
            THEN update(effective[i - 1], overrides[i].modes) ELSE effective[i - 1]
    IN  effective[Len(overrides)]
=============================================================================
