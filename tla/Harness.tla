------------------------------- MODULE Harness -------------------------------
(***************************************************************************)
(* The harness of fuzzer.c around the bridge: httpd children that come,    *)
(* stop and die; the controller thread of the one that holds               *)
(* logs/fuzzer.lock; the file in which it keeps the current input; and the *)
(* connections on their way from the controller through the listener's     *)
(* queue to a worker.  The bridge itself is one measurement at a time, as  *)
(* in FeedbackRun, which Covbridge implements.                             *)
(***************************************************************************)
EXTENDS Integers, FiniteSets

CONSTANTS
    Kids,        \* slots of the scoreboard: children that run at a time
    Pids,        \* process identifiers
    Checks,      \* health-check connections that can be outstanding
    MaxInputs,   \* bound on the inputs of a campaign
    NoKid, NoPid, NoConn,
    Stops,       \* httpd stops children in an orderly way
    PromptAccept,\* a worker takes a queued connection before the next input
    PidReuse     \* a child may get the pid under which an input is preserved

Inputs == 1..MaxInputs
Conns  == Inputs \union Checks

ASSUME HarnessAssumption ==
    /\ MaxInputs \in Nat
    /\ NoKid \notin Kids /\ NoPid \notin Pids /\ NoConn \notin Conns
    /\ Checks \intersect Inputs = {}
    /\ {Stops, PromptAccept, PidReuse} \subseteq BOOLEAN
    /\ IsFiniteSet(Kids) /\ IsFiniteSet(Checks)

VARIABLES
    pid,       \* pid of the child in each slot
    life,      \* what the main thread of each child does
    guarded,   \* exitGuardRegistered
    waiting,   \* children whose launchFuzzerThread waits for the lock
    lock,      \* holder of logs/fuzzer.lock
    at,        \* where the controller is
    input,     \* the input libFuzzer tried last
    check,     \* the health-check connection in progress
    file,      \* logs/currentInputN-PID of each pid
    queue,     \* connections not yet accepted
    served,    \* connections each child serves, their cleanup included
    phase, members, lost, run,   \* the measurement
    measured,  \* history: connections that joined it
    unfinished,\* history: inputs lost to their measurement, or to their controller
    late       \* history: inputs whose worker died cleaning up, after they had left

children    == <<pid, life, guarded>>
controller  == <<waiting, lock, at, input, check>>
connections == <<queue, served>>
measurement == <<phase, members, lost, run, measured>>
history     == <<unfinished, late>>
vars == <<children, controller, file, connections, measurement, history>>

Nothing == 0    \* no file
Partial == -1   \* created, not yet written

Init ==
    /\ pid = [k \in Kids |-> NoPid] /\ life = [k \in Kids |-> "gone"]
    /\ guarded = [k \in Kids |-> FALSE]
    /\ waiting = {} /\ lock = NoKid /\ at = "none" /\ input = 0 /\ check = NoConn
    /\ file = [p \in Pids |-> Nothing]
    /\ queue = {} /\ served = [k \in Kids |-> {}]
    /\ phase = "void" /\ members = {} /\ lost = 0 /\ run = 0 /\ measured = {}
    /\ unfinished = {} /\ late = {}

Alive == {k \in Kids : life[k] # "gone"}
Goto(step) == at' = step /\ UNCHANGED <<waiting, lock, input, check>>
\* Mutant of Unlink: one path for all processes.
UnlinkEvery(p) == file' = [q \in Pids |-> Nothing]
Unlink(p)  == file' = [file EXCEPT ![p] = Nothing]

-----------------------------------------------------------------------------
(* Children.                                                               *)

\* httpd's parent forks; fuzzerChildInit starts the controller thread.
Spawn(k, p) ==
    /\ life[k] = "gone" /\ \A j \in Kids : pid[j] # p
    /\ PidReuse \/ file[p] = Nothing
    /\ life' = [life EXCEPT ![k] = "up"] /\ pid' = [pid EXCEPT ![k] = p]
    /\ waiting' = waiting \union {k}
    /\ UNCHANGED <<guarded, lock, at, input, check, file, connections, measurement, history>>

\* The input of a controller that ends between connecting and removing its file.
Unresolved(k) == IF lock = k /\ at \in {"wait", "import", "imported"} /\ life[k] = "up"
                 THEN {input} ELSE {}

\* The process ends: its connections close without their hooks, and the
\* kernel releases its lock.
Gone(k) ==
    /\ life' = [life EXCEPT ![k] = "gone"] /\ pid' = [pid EXCEPT ![k] = NoPid]
    /\ guarded' = [guarded EXCEPT ![k] = FALSE]
    /\ waiting' = waiting \ {k}
    /\ IF lock = k THEN lock' = NoKid /\ at' = "none" /\ check' = NoConn
                   ELSE UNCHANGED <<lock, at, check>>
    /\ served' = [served EXCEPT ![k] = {}]
    /\ members' = members \ served[k]
    /\ lost' = lost + Cardinality(members \intersect served[k])
    /\ UNCHANGED <<input, queue, phase, run, measured>>

\* A worker dies of the connection it serves: in its measurement, or in the
\* lingering close and the cleanup that follow the pre_close hook.
WorkerCrash(k, c) ==
    /\ c \in served[k]
    /\ unfinished' = unfinished \union ({c} \intersect Inputs \intersect members)
                                \union Unresolved(k)
    /\ late' = late \union ((({c} \intersect Inputs) \ members) \ unfinished')
    /\ Gone(k) /\ UNCHANGED file

\* Any other sudden end, at any step of the controller.
Killed(k) ==
    /\ life[k] # "gone"
    /\ unfinished' = unfinished \union Unresolved(k)
    /\ Gone(k) /\ UNCHANGED <<file, late>>

\* Mutant of Fatal: the controller thread returns and its child lives on.
FatalReturns ==
    /\ at = "fatal"
    /\ lock' = NoKid /\ at' = "none"
    /\ UNCHANGED <<children, waiting, input, check, file, connections, measurement, history>>

\* fuzzServer gives up: _exit(2) runs no handler.
Fatal == at = "fatal" /\ Gone(lock) /\ UNCHANGED <<file, history>>

\* fuzzerChildStopping: the flag, then the file.
Stop(k) ==
    /\ Stops /\ life[k] = "up"
    /\ life' = [life EXCEPT ![k] = "stopping"]
    /\ UNCHANGED <<pid, guarded, controller, file, connections, measurement, history>>

StopUnlink(k) ==
    /\ life[k] = "stopping"
    /\ life' = [life EXCEPT ![k] = "stopped"]
    /\ Unlink(pid[k])
    /\ UNCHANGED <<pid, guarded, controller, connections, measurement, history>>

\* exit(): fuzzerExitAfterApacheCleanup runs first where it is registered.
Exit(k) ==
    /\ life[k] = "stopped"
    /\ life' = [life EXCEPT ![k] = "exiting"]
    /\ IF guarded[k] THEN Unlink(pid[k]) ELSE UNCHANGED file
    /\ UNCHANGED <<pid, guarded, controller, connections, measurement, history>>

ExitDone(k) == life[k] = "exiting" /\ Gone(k) /\ UNCHANGED <<file, history>>

-----------------------------------------------------------------------------
(* The controller.                                                         *)

ControllerOnly == UNCHANGED <<pid, life, history>>
NoFile    == UNCHANGED file
NoTraffic == UNCHANGED <<connections, measurement>>

\* lockControllerFile and cb_claim_controller.
Claim(k) ==
    /\ lock = NoKid /\ k \in waiting
    /\ lock' = k /\ waiting' = waiting \ {k} /\ at' = "health"
    /\ phase' = "void" /\ members' = {} /\ lost' = 0 /\ measured' = {}
    /\ UNCHANGED <<guarded, input, check, run, connections>>
    /\ ControllerOnly /\ NoFile

\* checkServerUp: connect, and give up after RESPONSE_TIMEOUT_MS.
HealthConnect ==
    /\ at = "health"
    /\ \E c \in Checks :
         /\ c \notin queue /\ \A k \in Kids : c \notin served[k]
         /\ queue' = queue \union {c} /\ check' = c
    /\ at' = "health_wait"
    /\ UNCHANGED <<guarded, waiting, lock, input, served, measurement>>
    /\ ControllerOnly /\ NoFile

HealthAnswered ==
    /\ at = "health_wait"
    /\ check \notin queue
    /\ at' = "ready" /\ check' = NoConn
    /\ UNCHANGED <<guarded, waiting, lock, input>>
    /\ ControllerOnly /\ NoFile /\ NoTraffic

HealthTimeout ==
    /\ at = "health_wait"
    /\ at' = "health" /\ check' = NoConn
    /\ UNCHANGED <<guarded, waiting, lock, input>>
    /\ ControllerOnly /\ NoFile /\ NoTraffic

\* fuzzServer: the exit guard is registered and the input decoded.
NextInput ==
    /\ at = "ready" /\ input < MaxInputs
    /\ guarded' = [guarded EXCEPT ![lock] = TRUE]
    /\ \/ at' = "create" /\ input' = input + 1
       \/ UNCHANGED <<at, input>>
    /\ UNCHANGED <<waiting, lock, check>> /\ ControllerOnly /\ NoFile /\ NoTraffic

\* Mutant of MayCreate: O_TRUNC instead of O_EXCL.
MayTruncate(p) == TRUE
MayCreate(p) == file[p] = Nothing

\* writeCurrentInput, up to the open.
CreateFile ==
    /\ at = "create"
    /\ IF MayCreate(pid[lock])
         THEN Goto("fill") /\ file' = [file EXCEPT ![pid[lock]] = Partial]
         ELSE Goto("fatal") /\ NoFile
    /\ UNCHANGED guarded /\ ControllerOnly /\ NoTraffic

FillFile ==
    /\ at = "fill"
    /\ file' = [file EXCEPT ![pid[lock]] = input]
    /\ Goto("begin")
    /\ UNCHANGED guarded /\ ControllerOnly /\ NoTraffic

\* Mutant of FillFails: the caller goes on without the file.
FillIgnored ==
    /\ at = "fill" /\ Unlink(pid[lock]) /\ Goto("begin")
    /\ UNCHANGED guarded /\ ControllerOnly /\ NoTraffic

\* write or close fails: the file is unlinked.
FillFails ==
    /\ at = "fill" /\ Unlink(pid[lock]) /\ Goto("fatal")
    /\ UNCHANGED guarded /\ ControllerOnly /\ NoTraffic

\* cb_begin: the last measurement is withdrawn and a new one opened.
BeginVoid ==
    /\ at = "begin" /\ (PromptAccept => queue = {})
    /\ phase' = "void" /\ members' = {} /\ lost' = 0 /\ measured' = {}
    /\ Goto("open")
    /\ UNCHANGED <<guarded, run, connections>> /\ ControllerOnly /\ NoFile

BeginOpen ==
    /\ at = "open"
    /\ phase' = "open" /\ run' = input
    /\ Goto("connect")
    /\ UNCHANGED <<guarded, members, lost, measured, connections>>
    /\ ControllerOnly /\ NoFile

Connect ==
    /\ at = "connect"
    /\ queue' = queue \union {input}
    /\ Goto("wait")
    /\ UNCHANGED <<guarded, served, measurement>> /\ ControllerOnly /\ NoFile

ConnectFails ==
    /\ at = "connect" /\ Goto("cancel")
    /\ UNCHANGED guarded /\ ControllerOnly /\ NoFile /\ NoTraffic

\* cb_cancel, EBUSY with a connection in the measurement; the file of the
\* unsent input is removed in either case.
Cancel ==
    /\ at = "cancel"
    /\ Goto(IF members = {} /\ lost = 0 THEN "unsent" ELSE "unsent_busy")
    /\ phase' = "void" /\ members' = {} /\ lost' = 0 /\ measured' = {}
    /\ UNCHANGED <<guarded, run, connections>> /\ ControllerOnly /\ NoFile

RemoveUnsent ==
    /\ at \in {"unsent", "unsent_busy"}
    /\ Unlink(pid[lock])
    /\ Goto(IF at = "unsent" THEN "ready" ELSE "fatal")
    /\ UNCHANGED guarded /\ ControllerOnly /\ NoTraffic

\* Mutant of Completed: an idle measurement is taken for a complete one.
Idle == members = {}
Completed == phase = "sealed"

\* cb_wait_snapshot.
WaitDone ==
    /\ at = "wait" /\ Completed /\ Goto("import")
    /\ UNCHANGED guarded /\ ControllerOnly /\ NoFile /\ NoTraffic

WaitTimeout ==
    /\ at = "wait" /\ ~Completed /\ Goto("fatal")
    /\ unfinished' = unfinished \union Unresolved(lock)
    /\ UNCHANGED <<children, late>> /\ NoFile /\ NoTraffic

\* cb_libfuzzer_import.
Import ==
    /\ at = "import" /\ Goto("imported")
    /\ UNCHANGED guarded /\ ControllerOnly /\ NoFile /\ NoTraffic

\* removeCurrentInput at the end of fuzzServer.
RemoveFile ==
    /\ at = "imported"
    /\ Unlink(pid[lock]) /\ Goto("ready")
    /\ UNCHANGED guarded /\ ControllerOnly /\ NoTraffic

\* LLVMFuzzerRunDriver returns; the child stays, without a controller.
DriverReturns ==
    /\ at = "ready"
    /\ lock' = NoKid /\ at' = "none"
    /\ UNCHANGED <<guarded, waiting, input, check>>
    /\ ControllerOnly /\ NoFile /\ NoTraffic

Controller ==
    \/ HealthConnect \/ HealthAnswered \/ HealthTimeout
    \/ NextInput \/ CreateFile \/ FillFile \/ FillFails
    \/ BeginVoid \/ BeginOpen \/ Connect \/ ConnectFails \/ Cancel \/ RemoveUnsent
    \/ WaitDone \/ WaitTimeout \/ Import \/ RemoveFile \/ DriverReturns

-----------------------------------------------------------------------------
(* Workers.                                                                *)

\* fuzzerPreConnection: the connection joins an open measurement, whoever
\* its client is.
Accept(k, c) ==
    /\ life[k] = "up" /\ c \in queue
    /\ queue' = queue \ {c} /\ served' = [served EXCEPT ![k] = @ \union {c}]
    /\ IF phase = "open"
         THEN members' = members \union {c} /\ measured' = measured \union {c}
         ELSE UNCHANGED <<members, measured>>
    /\ UNCHANGED <<children, controller, file, phase, lost, run, history>>

\* Mutant of IsLast: members that died are forgotten.
IsLastAlive(c) == members = {c}
IsLast(c) == members = {c} /\ lost = 0

\* finishFuzzerConnection, which does nothing the second time.
Leave(c) ==
    /\ members' = members \ {c}
    /\ phase' = IF phase = "open" /\ IsLast(c) THEN "sealed" ELSE phase
    /\ UNCHANGED <<children, controller, file, queue, lost, run, measured, history>>

\* fuzzerPreCloseConnection: the connection leaves, the worker goes on with it.
Finish(k, c) == c \in served[k] \intersect members /\ Leave(c) /\ UNCHANGED served

\* The connection's pool is cleaned up, and the worker is done with it.
Close(k, c) ==
    /\ c \in served[k] /\ Leave(c)
    /\ served' = [served EXCEPT ![k] = @ \ {c}]

Next ==
    \/ Controller \/ Fatal
    \/ \E k \in Kids :
         \/ \E p \in Pids : Spawn(k, p)
         \/ Killed(k) \/ Stop(k) \/ StopUnlink(k) \/ Exit(k) \/ ExitDone(k)
         \/ Claim(k)
         \/ \E c \in Conns : WorkerCrash(k, c) \/ Accept(k, c) \/ Finish(k, c) \/ Close(k, c)

Spec == Init /\ [][Next]_vars

-----------------------------------------------------------------------------
(* Correctness.                                                            *)

Steps == {"none", "health", "health_wait", "ready", "create", "fill", "begin",
          "open", "connect", "cancel", "unsent", "unsent_busy", "wait",
          "import", "imported", "fatal"}

\* Slots, files, connections and the measurement keep their types.
TypeOK ==
    /\ pid \in [Kids -> Pids \union {NoPid}]
    /\ life \in [Kids -> {"gone", "up", "stopping", "stopped", "exiting"}]
    /\ guarded \in [Kids -> BOOLEAN]
    /\ waiting \subseteq Alive /\ lock \in Alive \union {NoKid}
    /\ at \in Steps /\ (at = "none" <=> lock = NoKid)
    /\ input \in 0..MaxInputs /\ check \in Checks \union {NoConn}
    /\ file \in [Pids -> {Partial} \union 0..MaxInputs]
    /\ queue \subseteq Conns /\ served \in [Kids -> SUBSET Conns]
    /\ phase \in {"void", "open", "sealed"} /\ members \subseteq Conns
    /\ lost \in Nat /\ run \in 0..MaxInputs
    /\ measured \subseteq Conns /\ unfinished \subseteq Inputs /\ late \subseteq Inputs

\* An input that killed a worker before it had left its measurement, whose
\* coverage timed out, or whose controller died before its end, is on file,
\* complete, from then on (writeCurrentInput, removeCurrentInput, the exits of
\* fuzzServer).
UnfinishedInputsKept == \A i \in unfinished : \E p \in Pids : file[p] = i

\* Every input that killed a worker or a controller, whenever it did.
owed == unfinished \union late

\* The file of such an input is left alone (README.md:157-159).
OwedInputsLeft == [][\A p \in Pids : file[p] \in owed => file'[p] = file[p]]_vars

\* While an input is on its way its exact contents are on file under the pid
\* of the controller, unless that child is being stopped.
SentInputOnFile ==
    at \in {"begin", "open", "connect", "wait", "import", "imported"} =>
        (life[lock] = "up" => file[pid[lock]] = input)

\* The feedback that is imported for an input is that of its own connection
\* and of no other.
MatchingConnection == at = "import" => measured = {input}

\* The files status.sh counts: those whose pid is not a child of this httpd.
Counted == {p \in Pids : file[p] # Nothing /\ \A k \in Kids : pid[k] # p}

\* No removal touches the input of an earlier controller: neither an orderly
\* stop, nor the exit guard, nor a cancellation, nor the end of an input.
OnlyCurrentRemoved ==
    [][\A p \in Pids : file[p] \in Inputs /\ file'[p] # file[p] => file[p] = input]_vars

\* With no controller at work, every preserved input on file is counted by
\* status.sh: the child that left it does not linger (fuzzServer's _exit).
PreservedCounted ==
    at = "none" => \A p \in Pids : file[p] \in owed => p \in Counted

Bridge == INSTANCE FeedbackRun WITH
    nslots <- 1, MaxRun <- MaxInputs, MaxCount <- 0, MaxExtra <- 1,
    members   <- IF phase = "open" THEN Cardinality(members) + lost ELSE 0,
    tally     <- [s \in 1..1 |-> 0],
    delivered <- IF at = "imported" THEN {[s \in 1..1 |-> 0]} ELSE {}

\* The harness asks nothing of the bridge that FeedbackRun does not promise:
\* with Covbridge, which implements it, in its place the rest stays true.
UsesFeedbackRun == Bridge!Spec
=============================================================================
