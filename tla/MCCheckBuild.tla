---------------------------- MODULE MCCheckBuild ----------------------------
(* An archive, a binary and an object for CheckBuild.                       *)
EXTENDS CheckBuild

Code(syms, secs) == [headers |-> 1, relocatable |-> TRUE, symbols |-> syms, sections |-> secs]
Sym(name, undefined, isWeak) ==
    [name |-> name, type |-> "FUNC", undefined |-> undefined, weak |-> isWeak]
Sec(name)  == [name |-> name, empty |-> FALSE, runtime |-> name = ".text"]
Text       == {Sec(".text"), Sec(".symtab")}

\* An instrumented object, one with metadata as well; a runtime that defines
\* what it refers to weakly; the driver; a plain object, a stripped one; one
\* with nothing but metadata, an LTO object, and two files in one.
MCElfs ==
    {Code({Sym("asan", TRUE, FALSE)}, Text \union {Sec(".rmeta")}),
     Code({Sym("asan", TRUE, TRUE), Sym("asan", FALSE, FALSE)}, Text),
     Code({Sym("libfuzzer", FALSE, TRUE), Sym("libfuzzer", TRUE, TRUE)}, Text \union {Sec("asan")}),
     Code({[name |-> "asan", type |-> "FILE", undefined |-> FALSE, weak |-> FALSE]}, Text),
     Code({}, {Sec(".text"), [name |-> "asan", empty |-> TRUE, runtime |-> TRUE]}),
     Code({}, {Sec(".rmeta")}),
     Code({}, Text \union {Sec(".gnu.lto_")})}
MCArchiveElfs ==
    {Code({Sym("asan", TRUE, FALSE)}, Text \union {Sec(".rmeta"), Sec("source_coverage")}),
     Code({}, Text), Code({}, {Sec(".rmeta")}), [Code({}, {}) EXCEPT !.headers = 0]}

Answer(diagnostic, listed, files) ==
    [diagnostic |-> diagnostic, listed |-> listed, files |-> files]
M(member, elf) == [member |-> member, elf |-> elf]
MCResults ==
    {Answer(FALSE, FALSE, <<M("m", e)>>) : e \in MCElfs}
      \union {Answer(d, TRUE, <<M("m", e), M(n, f)>>) :
                d \in BOOLEAN, n \in Members, e \in MCArchiveElfs, f \in MCArchiveElfs}
      \union {Answer(FALSE, TRUE, <<M("n", e)>>) : e \in MCArchiveElfs}
      \union {Answer(FALSE, TRUE, <<>>), Answer(TRUE, FALSE, <<>>)}

MCFindings ==
    {[artifacts |-> <<>>, errors |-> 1],
     [artifacts |-> <<[name |-> "lib.a", kind |-> "archive"]>>, errors |-> 1],
     [artifacts |-> <<[name |-> "lib.a", kind |-> "archive"], [name |-> "httpd", kind |-> "binary"],
                      [name |-> "x.o", kind |-> "object"]>>, errors |-> 0]}

Conf(flaw, baseline, over) == [flaw |-> flaw, baseline |-> baseline, overrides |-> over]
Over(pattern, changes) == [pattern |-> pattern, modes |-> changes]
MCConfigs ==
    {Conf("DEFAULT", <<>>, <<>>),
     Conf("none", [asan |-> "typo"], <<>>),
     Conf("none", [asan |-> "require", libfuzzer |-> "report"], <<Over({}, [asan |-> "typo"])>>),
     Conf("none", [asan |-> "require", libfuzzer |-> "report"],
          <<Over({<<"lib.a", "m">>}, [asan |-> "absent"]),
            Over({<<"lib.a", "">>, <<"httpd", "">>}, [libfuzzer |-> "forbid"])>>),
     Conf("none", [asan |-> "ignore", source_coverage |-> "present"], <<>>),
     Conf("none", [asan |-> "present"],
          <<Over({<<"httpd", "">>}, [libfuzzer |-> "present", asan |-> "absent"]),
            Over({<<"httpd", "">>}, [asan |-> "ignore"])>>)}

Out(file, regular, links, artifact_name) ==
    [file |-> file, regular |-> regular, links |-> links, artifact_name |-> artifact_name]
MCOutputs ==
    {Out("none", TRUE, 1, FALSE), Out("none", TRUE, 1, TRUE), Out("previous", TRUE, 1, FALSE),
     Out("previous", TRUE, 2, FALSE), Out("unlisted", TRUE, 1, FALSE), Out("httpd", TRUE, 1, FALSE),
     Out("config", TRUE, 1, FALSE), Out("previous", FALSE, 1, FALSE)}
=============================================================================
