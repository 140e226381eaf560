------------------------------ MODULE Campaign ------------------------------
(***************************************************************************)
(* run.sh: launchers that start one httpd per configuration, watch them    *)
(* and stop them; the lock and the pid files that keep campaigns apart;    *)
(* and the profile sessions that genreport.sh reads.  A session and the    *)
(* httpds a launcher started carry the name of the launcher.               *)
(***************************************************************************)
EXTENDS Integers, FiniteSets

CONSTANTS
    Launchers,       \* invocations of run.sh
    MaxConfig,       \* MAX_CONFIG
    NoOne, Stale,    \* no holder, no pid file; a pid of some other program
    StopUnrecorded,  \* a stop signal may come in the second before a new httpd
                     \* is recorded
    PromptPidFile    \* configurations whose httpd has written its pid file after
                     \* one second

Configs == 1..MaxConfig

ASSUME CampaignAssumption ==
    /\ MaxConfig \in Nat \ {0} /\ IsFiniteSet(Launchers)
    /\ NoOne \notin Launchers /\ Stale \notin Launchers /\ NoOne # Stale
    /\ StopUnrecorded \in BOOLEAN /\ PromptPidFile \subseteq Configs

VARIABLES
    built,      \* configurations with a binary and a config file
    lock,       \* holder of run/run.lock
    at,         \* where each launcher is
    wanted,     \* the configurations it was asked for
    next,       \* the configuration its loop is at
    recorded,   \* fuzzerpids: httpds it waits for when it stops
    selected,   \* selected_configs
    failure,    \* runtime_failure
    intact,     \* complete, in _term
    result,     \* what _term was called with
    proc,       \* httpd of each launcher and configuration
    pidfile,    \* run_N/logs/httpd.pid: whose httpd it names
    profile,    \* run_N of each session: absent, or what profiles it holds
    completed   \* sessions with a .complete marker

choice   == <<built, wanted>>
memory   == <<next, recorded, selected, failure, intact, result>>
launcher == <<at, memory>>
httpd    == <<proc, pidfile>>
vars     == <<choice, lock, launcher, httpd, profile, completed>>

Init ==
    /\ built \in SUBSET Configs
    /\ wanted \in [Launchers -> {Configs} \union {{n} : n \in Configs}]
    /\ lock = NoOne
    /\ at = [l \in Launchers |-> "idle"] /\ next = [l \in Launchers |-> 1]
    /\ recorded = [l \in Launchers |-> {}] /\ selected = [l \in Launchers |-> {}]
    /\ failure = [l \in Launchers |-> FALSE] /\ intact = [l \in Launchers |-> TRUE]
    /\ result = [l \in Launchers |-> 0]
    /\ proc = [l \in Launchers |-> [n \in Configs |-> "none"]]
    /\ pidfile \in [Configs -> {NoOne, Stale}]
    /\ profile = [l \in Launchers |-> [n \in Configs |-> "absent"]]
    /\ completed = {}

Alive(l, n) == proc[l][n] \in {"new", "up", "dying"}

-----------------------------------------------------------------------------
(* httpd (external).                                                       *)

Proc(l, n, state) == proc' = [proc EXCEPT ![l][n] = state]
HttpdOnly == UNCHANGED <<choice, lock, launcher, completed>>

\* It writes its pid file.
HttpdStarts(l, n) ==
    /\ proc[l][n] = "new" /\ Proc(l, n, "up")
    /\ pidfile' = [pidfile EXCEPT ![n] = l]
    /\ UNCHANGED profile /\ HttpdOnly

\* A child of it ends and writes its profile.
ChildStops(l, n) ==
    /\ proc[l][n] \in {"up", "dying"} /\ profile[l][n] = "none"
    /\ profile' = [profile EXCEPT ![l][n] = "good"]
    /\ UNCHANGED httpd /\ HttpdOnly

\* It ends by itself.
HttpdCrashes(l, n) ==
    /\ Alive(l, n) /\ Proc(l, n, "gone")
    /\ UNCHANGED <<pidfile, profile>> /\ HttpdOnly

\* It stops in an orderly way, with its pid file and a profile, which is
\* empty when it could not be written.
HttpdStops(l, n) ==
    /\ proc[l][n] = "dying" /\ Proc(l, n, "gone")
    /\ pidfile' = [pidfile EXCEPT ![n] = IF @ = l THEN NoOne ELSE @]
    /\ \E p \in {"good", "empty"} : profile' = [profile EXCEPT ![l][n] = p]
    /\ HttpdOnly

-----------------------------------------------------------------------------
(* Starting a campaign.                                                    *)

Goto(l, step) == at' = [at EXCEPT ![l] = step]

\* The shell ends, and its variables with it.
Exit(l) ==
    /\ Goto(l, "done")
    /\ next' = [next EXCEPT ![l] = 1] /\ recorded' = [recorded EXCEPT ![l] = {}]
    /\ selected' = [selected EXCEPT ![l] = {}] /\ failure' = [failure EXCEPT ![l] = FALSE]
    /\ intact' = [intact EXCEPT ![l] = TRUE] /\ result' = [result EXCEPT ![l] = 0]

\* flock -o: the lock goes with the launcher, not with its httpds.
Released(l) == IF lock = l THEN NoOne ELSE lock

LauncherOnly == UNCHANGED <<choice, httpd, profile, completed>>

\* Mutant of LockFree: no lock.
LockIgnored == TRUE
LockFree == lock = NoOne

TakeLock(l) ==
    /\ at[l] = "idle"
    /\ IF LockFree THEN lock' = l /\ Goto(l, "check") /\ UNCHANGED memory
                   ELSE Exit(l) /\ UNCHANGED lock
    /\ LauncherOnly

\* Mutant of Running: the check is left to the lock.
RunningUnknown(n) == FALSE
Running(n) == \E m \in Launchers : pidfile[n] = m /\ Alive(m, n)

\* One pid file after the other.
CheckConfig(l) ==
    /\ at[l] = "check"
    /\ IF Running(next[l])
         THEN Exit(l) /\ lock' = Released(l)
         ELSE /\ UNCHANGED <<lock, recorded, selected, failure, intact, result>>
              /\ IF next[l] < MaxConfig
                   THEN next' = [next EXCEPT ![l] = @ + 1] /\ UNCHANGED at
                   ELSE next' = [next EXCEPT ![l] = 1] /\ Goto(l, "rotate")
    /\ LauncherOnly

\* logrotate --force, and the trap.
Rotate(l) ==
    /\ at[l] = "rotate" /\ Goto(l, "start")
    /\ UNCHANGED <<lock, next, recorded, selected, failure, intact, result>>
    /\ LauncherOnly

\* run_fuzzer is done with a configuration.
Continue(l, ok) ==
    /\ failure' = [failure EXCEPT ![l] = @ \/ ~ok]
    /\ IF ~ok /\ Cardinality(wanted[l]) = 1
         THEN /\ Goto(l, "term") /\ result' = [result EXCEPT ![l] = 1]
              /\ UNCHANGED next
         ELSE Goto(l, "start") /\ next' = [next EXCEPT ![l] = @ + 1]
              /\ UNCHANGED result

Spawn(l) ==
    /\ Proc(l, next[l], "new") /\ Goto(l, "settle")
    /\ profile' = [profile EXCEPT ![l][next[l]] = "none"]
    /\ UNCHANGED <<next, failure, result>>

StartConfig(l) ==
    /\ at[l] = "start" /\ next[l] <= MaxConfig
    /\ LET n == next[l] IN
       \/ /\ n \notin wanted[l]
          /\ next' = [next EXCEPT ![l] = @ + 1]
          /\ UNCHANGED <<at, failure, result, httpd, profile>>
       \/ /\ n \in wanted[l] /\ n \notin built
          /\ Continue(l, FALSE) /\ UNCHANGED <<httpd, profile>>
       \/ /\ n \in wanted[l] /\ n \in built /\ ~Running(n)
          /\ pidfile' = [pidfile EXCEPT ![n] = NoOne]
          /\ Spawn(l)
       \/ /\ n \in wanted[l] /\ n \in built /\ Running(n)
          /\ Proc(pidfile[n], n, "dying") /\ Goto(l, "stop_old")
          /\ UNCHANGED <<next, failure, result, pidfile, profile>>
    /\ UNCHANGED <<choice, lock, recorded, selected, intact, completed>>

\* stop_pid_file waits for five seconds.
OldStopped(l) ==
    /\ at[l] = "stop_old" /\ \A m \in Launchers : proc[m][next[l]] # "dying"
    /\ pidfile' = [pidfile EXCEPT ![next[l]] = NoOne]
    /\ Spawn(l)
    /\ UNCHANGED <<choice, lock, recorded, selected, intact, completed>>

OldRemains(l) ==
    /\ at[l] = "stop_old" /\ \E m \in Launchers : proc[m][next[l]] = "dying"
    /\ Continue(l, FALSE)
    /\ UNCHANGED <<lock, recorded, selected, intact>> /\ LauncherOnly

\* After a second the new httpd is there and recorded, or not.
Settle(l) ==
    /\ at[l] = "settle"
    /\ next[l] \in PromptPidFile => proc[l][next[l]] # "new"
    /\ IF Alive(l, next[l])
         THEN /\ recorded' = [recorded EXCEPT ![l] = @ \union {next[l]}]
              /\ selected' = [selected EXCEPT ![l] = @ \union {next[l]}]
              /\ Continue(l, TRUE)
         ELSE Continue(l, FALSE) /\ UNCHANGED <<recorded, selected>>
    /\ UNCHANGED <<lock, intact>> /\ LauncherOnly

Started(l) ==
    /\ at[l] = "start" /\ next[l] > MaxConfig
    /\ IF recorded[l] = {}
         THEN Goto(l, "term") /\ result' = [result EXCEPT ![l] = 1]
         ELSE Goto(l, "monitor") /\ UNCHANGED result
    /\ UNCHANGED <<lock, next, recorded, selected, failure, intact>> /\ LauncherOnly

\* Every minute: the loop notices httpds that are gone; the others continue.
Monitor(l) ==
    /\ at[l] = "monitor" /\ Goto(l, "tidy")
    /\ recorded' = [recorded EXCEPT ![l] = {n \in @ : Alive(l, n)}]
    /\ failure' = [failure EXCEPT ![l] = @ \/ \E n \in recorded[l] : ~Alive(l, n)]
    /\ UNCHANGED <<next, selected, intact, result, lock>> /\ LauncherOnly

\* The sanitizer logs are filtered and the logs rotated by size.
Tidy(l) ==
    /\ at[l] = "tidy" /\ Goto(l, "monitor")
    /\ UNCHANGED <<lock, next, recorded, selected, failure, intact, result>>
    /\ LauncherOnly

-----------------------------------------------------------------------------
(* Stopping.  The command that runs when a signal comes is finished first. *)

\* Ctrl-C also ends the flock process, and with it the lock.
StopSignal(l) ==
    /\ \/ at[l] \in {"start", "stop_old", "monitor", "tidy"}
       \/ StopUnrecorded /\ at[l] = "settle"
    /\ Goto(l, "term")
    /\ lock' \in {lock, Released(l)}
    /\ UNCHANGED <<next, recorded, selected, failure, intact, result>> /\ LauncherOnly

\* Before the trap is set, and again in _term, a signal kills the launcher.
KillSignal(l) ==
    /\ at[l] \in {"check", "rotate", "term", "wait", "mark"}
    /\ Exit(l) /\ lock' = Released(l)
    /\ LauncherOnly

TermAll(l) ==
    /\ at[l] = "term" /\ Goto(l, "wait")
    /\ proc' = [proc EXCEPT ![l] =
          [n \in Configs |-> IF n \in recorded[l] /\ Alive(l, n) THEN "dying" ELSE @[n]]]
    /\ UNCHANGED <<choice, lock, next, recorded, selected, failure, intact, result,
                   pidfile, profile, completed>>

WaitGone(l) ==
    /\ at[l] = "wait"
    /\ \E n \in recorded[l] :
         ~Alive(l, n) /\ recorded' = [recorded EXCEPT ![l] = @ \ {n}]
    /\ UNCHANGED <<at, lock, next, selected, failure, intact, result>> /\ LauncherOnly

\* Mutants of WaitTimesOut: the session counts as intact; wait without limit.
WaitForgets(l) ==
    /\ at[l] = "wait"
    /\ \E n \in recorded[l] :
         Alive(l, n) /\ recorded' = [recorded EXCEPT ![l] = @ \ {n}]
    /\ UNCHANGED <<at, lock, next, selected, failure, intact, result>> /\ LauncherOnly
WaitForever(l) == FALSE /\ UNCHANGED vars

\* Fifty attempts, a tenth of a second apart.
WaitTimesOut(l) ==
    /\ at[l] = "wait"
    /\ \E n \in recorded[l] :
         Alive(l, n) /\ recorded' = [recorded EXCEPT ![l] = @ \ {n}]
    /\ intact' = [intact EXCEPT ![l] = FALSE]
    /\ UNCHANGED <<at, lock, next, selected, failure, result>> /\ LauncherOnly

Waited(l) ==
    /\ at[l] = "wait" /\ recorded[l] = {}
    /\ intact' = [intact EXCEPT ![l] = @ /\ ~failure[l]]
    /\ Goto(l, "mark")
    /\ UNCHANGED <<lock, next, recorded, selected, failure, result>> /\ LauncherOnly

\* Mutant of Profiled: any file will do.
ProfiledSomehow(l, n) == profile[l][n] \in {"good", "empty"}
Profiled(l, n) == profile[l][n] = "good"

Mark(l) ==
    /\ at[l] = "mark"
    /\ completed' = IF /\ result[l] = 0 /\ intact[l] /\ selected[l] # {}
                       /\ \A n \in selected[l] : Profiled(l, n)
                    THEN completed \union {l} ELSE completed
    /\ Exit(l) /\ lock' = Released(l)
    /\ UNCHANGED <<choice, httpd, profile>>

Stopping(l) == TermAll(l) \/ WaitGone(l) \/ WaitTimesOut(l) \/ Waited(l) \/ Mark(l)

Next ==
    \E l \in Launchers :
        \/ TakeLock(l) \/ CheckConfig(l) \/ Rotate(l) \/ StartConfig(l)
        \/ OldStopped(l) \/ OldRemains(l) \/ Settle(l) \/ Started(l)
        \/ Monitor(l) \/ Tidy(l)
        \/ StopSignal(l) \/ KillSignal(l) \/ Stopping(l)
        \/ \E n \in Configs :
             HttpdStarts(l, n) \/ ChildStops(l, n) \/ HttpdCrashes(l, n) \/ HttpdStops(l, n)

\* report_all_configs succeeds on a session: it has run_N directories, and each
\* has profiles, none of them empty.
Reportable(l) ==
    /\ \E n \in Configs : profile[l][n] # "absent"
    /\ \A n \in Configs : profile[l][n] \in {"absent", "good"}

Spec == Init /\ [][Next]_vars

\* The shell goes on with _term; of httpd nothing is assumed.
FairSpec == Spec /\ \A l \in Launchers : WF_vars(Stopping(l))

-----------------------------------------------------------------------------
(* Correctness.                                                            *)

\* Variables keep their types; the lock is held by a launcher at work.
TypeOK ==
    /\ lock = NoOne \/ (lock \in Launchers /\ at[lock] \notin {"idle", "done"})
    /\ next \in [Launchers -> 1..MaxConfig + 1]
    /\ recorded \in [Launchers -> SUBSET Configs]
    /\ \A l \in Launchers : recorded[l] \subseteq selected[l] /\ selected[l] \subseteq wanted[l]
    /\ pidfile \in [Configs -> Launchers \union {NoOne, Stale}]
    /\ completed \subseteq Launchers

\* No configuration whose httpd writes its pid file in time is served by two
\* httpds, which would share its port, its logs and its controller lock: neither of
\* two launchers nor of one campaign and the remains of another.
OneServer ==
    \A n \in PromptPidFile : \A l, m \in Launchers : Alive(l, n) /\ Alive(m, n) => l = m

\* No launcher rotates the logs of httpds that another one started: the forced
\* rotation at the start meets no httpd at all, and that of the monitor loop, which
\* runs under the live campaign, only httpds of its own; where the httpds write
\* their pid files in time.
RotatesOwnLogs ==
    [][\A l, m \in Launchers, n \in PromptPidFile :
         /\ at[l] = "rotate" /\ at'[l] = "start" => ~Alive(m, n)
         /\ at[l] = "tidy" /\ at'[l] = "monitor" => (Alive(m, n) => m = l)]_vars

\* A session that is marked complete can be reported by genreport.sh.
CompleteReportable == \A l \in completed : Reportable(l)

\* A launcher that stopped its campaign and has marked the session complete
\* leaves no httpd behind.
CompleteLeavesNone == \A l \in completed, n \in Configs : ~Alive(l, n)

\* A stop ends, whatever the httpds do.
StopEnds == \A l \in Launchers : at[l] = "term" ~> at[l] = "done"
=============================================================================
