CONSTANTS
    SymbolChecks = {"asan", "libfuzzer"}
    SectionChecks = {"asan", "source_coverage"}
    Driver = "libfuzzer"
    Members = {"m", "n"}
    NoMember = ""
    Names = {"lib.a", "httpd", "x.o"}
    Configs <- MCConfigs
    Findings <- MCFindings
    Results <- MCResults
    Outputs <- MCOutputs
    Loops = {"config", "report", "binary_path"}
SPECIFICATION Spec
CHECK_DEADLOCK FALSE
INVARIANTS
    ExitTellsTheTruth
    LastMatchWins
    ReportAddsUp
    ReportKept
