------------------------------ MODULE Covbridge ------------------------------
(***************************************************************************)
(* The shared-memory coverage bridge of covbridge.c, with the calls that   *)
(* fuzzer.c makes on it.  Every process forked by httpd maps one           *)
(* shared_map.  The controller (the process that holds logs/fuzzer.lock)   *)
(* opens one run per input; threads that serve a connection of the fuzz    *)
(* listener join the run, count edges into it and leave it; the last one   *)
(* to leave closes admission and publishes completion; the controller      *)
(* copies the counters.  There is no lock between the two sides: every     *)
(* load, store and compare-and-swap of shared_map is one step here, except *)
(* where a load can only read what the same thread wrote last.             *)
(***************************************************************************)
EXTENDS Integers, FiniteSets

CONSTANTS
    Procs,            \* httpd children, each with one controller thread
    Threads,          \* threads that run connection hooks
    Conns,            \* conn_rec slots of the fuzz listener
    ProcOf,           \* the child a thread or a conn_rec lives in
    NoProc, NoConn,
    nslots,           \* instrumented edges
    MaxRun,           \* CB_GATE_RUN_MASK
    MaxActive,        \* CB_GATE_ACTIVE_MASK
    MaxCount,         \* UINT64_MAX of a counter
    MaxExtra,         \* 255: a libFuzzer extra counter is one byte
    MaxHits,          \* bound on the hits of one edge in one run
    Crashable,        \* children that may die at any point
    PromptCallbacks   \* no surviving thread stays inside one bridge callback
                      \* for the whole of a takeover

ASSUME ConstAssumption ==
    /\ NoProc \notin Procs
    /\ NoConn \notin Conns
    /\ ProcOf \in [Threads \union Conns -> Procs]
    /\ nslots \in Nat \ {0}
    /\ MaxRun \in Nat \ {0}
    /\ MaxActive \in Nat \ {0}
    /\ MaxCount \in Nat \ {0}
    /\ MaxExtra \in Nat \ {0}
    /\ MaxHits \in Nat
    /\ Crashable \subseteq Procs
    /\ PromptCallbacks \in BOOLEAN
    /\ IsFiniteSet(Threads)
    /\ IsFiniteSet(Conns)

VARIABLES
    run_id, completed_run, controller_pid, gate, overflow, counts, \* shared_map
    lock,         \* holder of logs/fuzzer.lock
    waiting,      \* children whose controller thread is blocked on that lock
    cpc,          \* where the controller is
    index, snapshot,   \* the controller's loop index and cb_snapshot
    extra,        \* __libfuzzer_extra_counters of the controller
    pc,           \* where each thread is
    thread_run,   \* the thread-local run tag
    conn,         \* the connection a thread serves
    seen,         \* the gate word a thread loaded last
    slot,         \* the edge of the hit in flight
    joined,       \* fuzzerConnectionState.run of a connection, 0 if untracked
    tally,        \* history: hits by threads that carry the tag of the run
    lost          \* history: members of gate.run that ended without leaving

shared     == <<run_id, completed_run, controller_pid, gate, overflow, counts>>
controller == <<lock, waiting, cpc, index, snapshot, extra>>
workers    == <<pc, thread_run, conn, seen, slot, joined>>
history    == <<tally, lost>>
vars       == <<shared, controller, workers, history>>

Slots == 1..nslots
Zeros == [s \in Slots |-> 0]
Least(a, b) == IF a < b THEN a ELSE b

-----------------------------------------------------------------------------
(* The gate word: run (42 bits), active connections (20 bits), two flags.  *)

Gates == [run : 0..MaxRun, active : 0..MaxActive,
          enabled : BOOLEAN, finalizing : BOOLEAN]

GateForRun(r) == [run |-> r, active |-> 0, enabled |-> FALSE, finalizing |-> FALSE]
OpenGate(r)   == [GateForRun(r) EXCEPT !.enabled = TRUE]

\* Mutants of FinalGate: admission stays open, or the gate is idle at once.
FinalGateOpen(r) == [OpenGate(r) EXCEPT !.finalizing = TRUE]
FinalGateIdle(r) == GateForRun(r)
FinalGate(r)  == [GateForRun(r) EXCEPT !.finalizing = TRUE]

\* Mutant of Shut: admission is not closed.
ShutNothing(g) == g
Shut(g)       == [g EXCEPT !.enabled = FALSE]

\* Mutant of GateAllowsRun: the run of the tag is not compared.
GateAllowsAnyRun(g, r) == g.enabled
GateAllowsRun(g, r) == g.enabled /\ g.run = r

\* The close that takes the count of an open gate to zero.
\* Mutant of IsLastClose: any close of an open gate.
IsAnyClose(g) == g.enabled
IsLastClose(g) == g.active = 1 /\ g.enabled
Desired(g) == IF IsLastClose(g) THEN FinalGate(g.run)
                                ELSE [g EXCEPT !.active = @ - 1]

ControllerSteps ==
    {"none", "claim", "drain", "claim_run", "claim_gate", "claim_completed",
     "claim_pid", "ready", "zero", "begin_completed",
     "begin_run", "begin_gate", "open", "cancel", "cancel_ok", "cancel_busy",
     "wait", "wait_gate", "check", "copy", "import", "imported", "failed"}

ThreadSteps == {"idle", "check", "join", "serve", "add", "wrap", "close",
                "gate", "leave", "seal", "publish", "settle"}

Finishing == {"seal", "publish", "settle"}

Init ==
    /\ run_id = 0 /\ completed_run = 0 /\ controller_pid = NoProc
    /\ gate = GateForRun(0) /\ overflow = FALSE /\ counts = Zeros
    /\ lock = NoProc /\ waiting = Procs /\ cpc = "none"
    /\ index = 1 /\ snapshot = Zeros /\ extra = Zeros
    /\ pc = [t \in Threads |-> "idle"]
    /\ thread_run = [t \in Threads |-> 0]
    /\ conn = [t \in Threads |-> NoConn]
    /\ seen = [t \in Threads |-> GateForRun(0)]
    /\ slot = [t \in Threads |-> 1]
    /\ joined = [c \in Conns |-> 0]
    /\ tally = Zeros /\ lost = 0

-----------------------------------------------------------------------------
(* A child dies: its threads, connections and file lock go, the shared map *)
(* stays as it is.  httpd's parent starts a child in its place, whose      *)
(* controller thread queues for the lock again.                            *)

ThreadsOf(p) == {t \in Threads : ProcOf[t] = p}
ConnsOf(p)   == {c \in Conns : ProcOf[c] = p}
Members(r)   == {c \in Conns : joined[c] = r /\ r # 0}

Die(p) ==
    /\ waiting' = waiting \union {p}
    /\ IF lock = p
         THEN /\ lock' = NoProc /\ cpc' = "none" /\ index' = 1
              /\ snapshot' = Zeros /\ extra' = Zeros
         ELSE UNCHANGED <<lock, cpc, index, snapshot, extra>>
    /\ pc' = [t \in Threads |-> IF t \in ThreadsOf(p) THEN "idle" ELSE pc[t]]
    /\ thread_run' = [t \in Threads |-> IF t \in ThreadsOf(p) THEN 0 ELSE thread_run[t]]
    /\ conn' = [t \in Threads |-> IF t \in ThreadsOf(p) THEN NoConn ELSE conn[t]]
    /\ seen' = [t \in Threads |-> IF t \in ThreadsOf(p) THEN GateForRun(0) ELSE seen[t]]
    /\ slot' = [t \in Threads |-> IF t \in ThreadsOf(p) THEN 1 ELSE slot[t]]
    /\ joined' = [c \in Conns |-> IF c \in ConnsOf(p) THEN 0 ELSE joined[c]]
    /\ lost' = lost + Cardinality(Members(gate.run) \intersect ConnsOf(p))
    /\ UNCHANGED <<shared, tally>>

Crash(p) == p \in Crashable /\ Die(p)


-----------------------------------------------------------------------------
(* The controller thread.                                                  *)

\* A thread that has entered a bridge callback and can still write the map
\* on the strength of a gate word it loaded before the takeover.
MidCallback(t) == pc[t] \in {"add", "wrap"} \union Finishing

ControllerOnly == UNCHANGED <<workers, history>>
Goto(step) == cpc' = step /\ UNCHANGED <<lock, waiting>>
Quiet == UNCHANGED <<index, snapshot, extra>> /\ ControllerOnly
Move(step) == Goto(step) /\ UNCHANGED shared /\ Quiet

\* A bridge call returned -1 to fuzzServer, which calls _exit(2): the
\* controller takes its child down with it.
Fail == Move("failed")

FatalExit == cpc = "failed" /\ Die(lock)

\* lockControllerFile
LockFile(p) ==
    /\ lock = NoProc /\ p \in waiting
    /\ lock' = p /\ waiting' = waiting \ {p} /\ cpc' = "claim"
    /\ UNCHANGED <<shared, index, snapshot, extra>> /\ ControllerOnly

\* close(lockfd); return NULL: the child stays, without a controller thread.
LeaveController ==
    /\ lock' = NoProc /\ cpc' = "none"
    /\ extra' = Zeros /\ UNCHANGED <<shared, waiting, index, snapshot>> /\ ControllerOnly

\* cb_claim_controller up to the loop that clears CB_GATE_ENABLED.
ClaimExhausted == run_id >= MaxRun \/ (run_id # 0 /\ run_id >= MaxRun - 1)

ClaimRefused == cpc = "claim" /\ ClaimExhausted /\ LeaveController

ClaimCloseAdmission ==
    /\ cpc = "claim" /\ ~ClaimExhausted
    /\ gate' = Shut(gate)
    /\ Goto("drain") /\ Quiet
    /\ UNCHANGED <<run_id, completed_run, controller_pid, overflow, counts>>

\* Mutant of ClaimDrain: the drain loop has no deadline.
ClaimDrainForever ==
    /\ cpc = "drain" /\ gate.active = 0
    /\ Move("claim_run")

\* The drain loop ends with no active connection or at its deadline.
ClaimDrain ==
    /\ cpc = "drain"
    /\ PromptCallbacks => \A t \in Threads : ~MidCallback(t)
    /\ Move("claim_run")

ClaimStoreRun ==
    /\ cpc = "claim_run"
    /\ run_id' = IF run_id = 0 THEN 0 ELSE run_id + 1
    /\ Goto("claim_gate") /\ Quiet
    /\ UNCHANGED <<completed_run, controller_pid, gate, overflow, counts>>

ClaimStoreGate ==
    /\ cpc = "claim_gate"
    /\ gate' = GateForRun(run_id) /\ lost' = 0
    /\ Goto("claim_completed")
    /\ UNCHANGED <<run_id, completed_run, controller_pid, overflow, counts,
                   index, snapshot, extra, workers, tally>>

ClaimClearCompleted ==
    /\ cpc = "claim_completed"
    /\ completed_run' = 0
    /\ Goto("claim_pid") /\ Quiet
    /\ UNCHANGED <<run_id, controller_pid, gate, overflow, counts>>

ClaimStorePid ==
    /\ cpc = "claim_pid"
    /\ controller_pid' = lock
    /\ Goto("ready") /\ Quiet
    /\ UNCHANGED <<run_id, completed_run, gate, overflow, counts>>

\* fuzzServer: cb_libfuzzer_clear, then the three refusals of cb_begin.
BeginRefused == \/ controller_pid # lock
                \/ gate # GateForRun(run_id)
                \/ run_id >= MaxRun

BeginFails == cpc \in {"ready", "imported"} /\ BeginRefused /\ Fail

BeginCheck ==
    /\ cpc \in {"ready", "imported"} /\ ~BeginRefused
    /\ extra' = Zeros /\ index' = 1
    /\ Goto("zero")
    /\ UNCHANGED <<shared, snapshot>> /\ ControllerOnly

BeginZero ==
    /\ cpc = "zero" /\ index <= nslots
    /\ counts' = [counts EXCEPT ![index] = 0]
    /\ index' = index + 1
    /\ UNCHANGED <<run_id, completed_run, controller_pid, gate, overflow,
                   lock, waiting, cpc, snapshot, extra>> /\ ControllerOnly

BeginClearOverflow ==
    /\ cpc = "zero" /\ index > nslots
    /\ overflow' = FALSE /\ index' = 1
    /\ Goto("begin_completed")
    /\ UNCHANGED <<run_id, completed_run, controller_pid, gate, counts,
                   snapshot, extra>> /\ ControllerOnly

BeginClearCompleted ==
    /\ cpc = "begin_completed"
    /\ completed_run' = 0
    /\ Goto("begin_run") /\ Quiet
    /\ UNCHANGED <<run_id, controller_pid, gate, overflow, counts>>

\* Mutant of NextRun: the epoch of the last run or takeover is used again.
NextRunReused == IF run_id = 0 THEN 1 ELSE run_id
NextRun == run_id + 1

BeginStoreRun ==
    /\ cpc = "begin_run"
    /\ run_id' = NextRun
    /\ Goto("begin_gate") /\ Quiet
    /\ UNCHANGED <<completed_run, controller_pid, gate, overflow, counts>>

BeginOpen ==
    /\ cpc = "begin_gate"
    /\ gate' = OpenGate(run_id)
    /\ tally' = Zeros /\ lost' = 0
    /\ Goto("open")
    /\ UNCHANGED <<run_id, completed_run, controller_pid, overflow, counts,
                   index, snapshot, extra, workers>>

\* connectTarget fails, or the input is sent and the socket closed.
ConnectFails == cpc = "open" /\ Move("cancel")
InputSent    == cpc = "open" /\ Move("wait")

\* Mutants of CancelMayClose: a finalizer is not waited for, or the open
\* connections are waited for as well.
CancelAnyTime == TRUE
CancelWhenDrained == ~gate.finalizing /\ gate.active = 0
CancelMayClose == ~gate.finalizing

\* cb_cancel spins while a close is being finalized and has no deadline.
CancelCloseAdmission ==
    /\ cpc = "cancel"
    /\ IF gate.run # run_id THEN Goto("failed") /\ UNCHANGED gate
       ELSE /\ CancelMayClose
            /\ gate' = Shut(gate)
            /\ Goto(IF gate.active = 0 THEN "cancel_ok" ELSE "cancel_busy")
    /\ Quiet
    /\ UNCHANGED <<run_id, completed_run, controller_pid, overflow, counts>>

CancelDone ==
    /\ cpc = "cancel_ok"
    /\ completed_run' = 0
    /\ Goto("ready") /\ Quiet
    /\ UNCHANGED <<run_id, controller_pid, gate, overflow, counts>>

\* EBUSY: a connection joined the run although the input was never sent.
CancelBusy ==
    /\ cpc = "cancel_busy"
    /\ completed_run' = 0
    /\ Goto("failed") /\ Quiet
    /\ UNCHANGED <<run_id, controller_pid, gate, overflow, counts>>

\* cb_wait_snapshot: both words are polled in turn; the deadline is looked
\* at only after one of them had the wrong value.
WaitCompleted == cpc = "wait" /\ completed_run = run_id /\ Move("wait_gate")

WaitGate ==
    /\ cpc = "wait_gate"
    /\ Move(IF gate = GateForRun(run_id) THEN "check" ELSE "wait")

\* Mutant of WaitTimeout: the deadline is looked at for the gate only.
WaitTimeoutForGate == cpc = "wait_gate" /\ gate # GateForRun(run_id) /\ Fail
WaitTimeout ==
    /\ \/ cpc = "wait" /\ completed_run # run_id
       \/ cpc = "wait_gate" /\ gate # GateForRun(run_id)
    /\ Fail

CheckFails == cpc = "check" /\ overflow /\ Fail

CheckRun ==
    /\ cpc = "check" /\ ~overflow
    /\ index' = 1 /\ Goto("copy")
    /\ UNCHANGED <<shared, snapshot, extra>> /\ ControllerOnly

CopyCount ==
    /\ cpc = "copy" /\ index <= nslots
    /\ snapshot' = [snapshot EXCEPT ![index] = counts[index]]
    /\ index' = index + 1
    /\ UNCHANGED <<shared, lock, waiting, cpc, extra>> /\ ControllerOnly

CopyDone ==
    /\ cpc = "copy" /\ index > nslots
    /\ index' = 1 /\ Goto("import")
    /\ UNCHANGED <<shared, snapshot, extra>> /\ ControllerOnly

\* Mutant of Saturate: the byte wraps.
WrapByte(old, count) == (old + count) % (MaxExtra + 1)
\* cb_libfuzzer_import: a saturating add into one byte per edge.
Saturate(old, count) == IF count >= MaxExtra - old THEN MaxExtra ELSE old + count

Import ==
    /\ cpc = "import"
    /\ extra' = [s \in Slots |-> Saturate(extra[s], snapshot[s])]
    /\ Goto("imported")
    /\ UNCHANGED <<shared, index, snapshot>> /\ ControllerOnly

\* LLVMFuzzerRunDriver returns: the lock is released, the child lives on.
DriverReturns == cpc = "imported" /\ LeaveController

cb_claim_controller ==
    \/ ClaimRefused \/ ClaimCloseAdmission \/ ClaimDrain \/ ClaimStoreRun
    \/ ClaimStoreGate \/ ClaimClearCompleted \/ ClaimStorePid

cb_begin ==
    \/ BeginFails \/ BeginCheck \/ BeginZero \/ BeginClearOverflow
    \/ BeginClearCompleted \/ BeginStoreRun \/ BeginOpen

cb_cancel == CancelCloseAdmission \/ CancelDone \/ CancelBusy

cb_wait_snapshot ==
    \/ WaitCompleted \/ WaitGate \/ WaitTimeout \/ CheckFails \/ CheckRun
    \/ CopyCount \/ CopyDone

fuzzServer == ConnectFails \/ InputSent \/ Import \/ DriverReturns

Controller ==
    \/ cb_claim_controller \/ cb_begin \/ cb_cancel \/ cb_wait_snapshot
    \/ fuzzServer \/ FatalExit

-----------------------------------------------------------------------------
(* Threads that run the connection hooks.  A connection that is refused,   *)
(* and a hit of a thread without a tag, change nothing and are no steps.   *)

ThreadsOnly == UNCHANGED <<run_id, controller_pid, controller>>
Local == UNCHANGED <<shared, controller, history, joined>>
At(t, step) == pc' = [pc EXCEPT ![t] = step]

\* Mutant of Swapped: a store in place of the compare-and-swap.
SwappedAlways(t) == TRUE
Swapped(t) == gate = seen[t]

Untag(t) == thread_run' = [thread_run EXCEPT ![t] = 0]

\* The thread is done with its connection and forgets its locals.
Done(t) ==
    /\ At(t, "idle")
    /\ conn' = [conn EXCEPT ![t] = NoConn]
    /\ seen' = [seen EXCEPT ![t] = GateForRun(0)]

Free(c)   == joined[c] = 0 /\ \A t \in Threads : conn[t] # c
Parked(c) == joined[c] # 0 /\ \A t \in Threads : conn[t] # c

\* Mutant of Admits: the active field may run into the run field.
AdmitsUnbounded(g) == g.enabled /\ g.run # 0
Admits(g) == g.enabled /\ g.active < MaxActive /\ g.run # 0

\* cb_connection_begin, first load of the gate.
JoinLoad(t, c) ==
    /\ pc[t] = "idle" /\ Free(c) /\ ProcOf[c] = ProcOf[t]
    /\ Admits(gate)
    /\ seen' = [seen EXCEPT ![t] = gate]
    /\ conn' = [conn EXCEPT ![t] = c]
    /\ At(t, "check")
    /\ Local /\ UNCHANGED <<thread_run, slot>>

JoinCheckRun(t) ==
    /\ pc[t] = "check"
    /\ IF run_id = seen[t].run THEN At(t, "join") /\ UNCHANGED <<conn, seen>>
                               ELSE Done(t)
    /\ Local /\ UNCHANGED <<thread_run, slot>>

Join(t) ==
    /\ pc[t] = "join" /\ Swapped(t)
    /\ gate' = [seen[t] EXCEPT !.active = @ + 1]
    /\ joined' = [joined EXCEPT ![conn[t]] = seen[t].run]
    /\ thread_run' = [thread_run EXCEPT ![t] = seen[t].run]
    /\ seen' = [seen EXCEPT ![t] = GateForRun(0)]
    /\ At(t, "serve")
    /\ UNCHANGED <<completed_run, overflow, counts, conn, slot, history>>
    /\ ThreadsOnly

\* The compare-and-swap failed and left the current gate in `gate`.
JoinRetry(t) ==
    /\ pc[t] = "join" /\ ~Swapped(t)
    /\ IF Admits(gate)
         THEN At(t, "check") /\ seen' = [seen EXCEPT ![t] = gate] /\ UNCHANGED conn
         ELSE Done(t)
    /\ Local /\ UNCHANGED <<thread_run, slot>>

\* trace_pc_guard: the gate is loaded and tested, the counter added to later.
HitLoad(t, s) ==
    /\ pc[t] = "serve" /\ thread_run[t] # 0
    /\ GateAllowsRun(gate, thread_run[t])
    /\ tally[s] + Cardinality({u \in Threads : pc[u] = "add" /\ slot[u] = s}) < MaxHits
    /\ slot' = [slot EXCEPT ![t] = s]
    /\ At(t, "add")
    /\ Local /\ UNCHANGED <<thread_run, conn, seen>>

HitAdd(t) ==
    /\ pc[t] = "add"
    /\ counts' = [counts EXCEPT ![slot[t]] = (@ + 1) % (MaxCount + 1)]
    /\ At(t, IF counts[slot[t]] = MaxCount THEN "wrap" ELSE "serve")
    /\ slot' = [slot EXCEPT ![t] = 1]
    /\ tally' = IF thread_run[t] = run_id
                  THEN [tally EXCEPT ![slot[t]] = @ + 1] ELSE tally
    /\ UNCHANGED <<completed_run, gate, overflow, thread_run, conn, seen, joined, lost>>
    /\ ThreadsOnly

HitOverflow(t) ==
    /\ pc[t] = "wrap"
    /\ overflow' = TRUE
    /\ At(t, "serve")
    /\ UNCHANGED <<completed_run, gate, counts, thread_run, conn, seen, slot, joined, history>>
    /\ ThreadsOnly

\* suspend_connection and resume_connection of the event MPM.
Suspend(t) ==
    /\ pc[t] = "serve"
    /\ Untag(t) /\ Done(t)
    /\ Local /\ UNCHANGED slot

Resume(t, c) ==
    /\ pc[t] = "idle" /\ Parked(c) /\ ProcOf[c] = ProcOf[t]
    /\ thread_run' = [thread_run EXCEPT ![t] =
                        IF GateAllowsRun(gate, joined[c]) THEN joined[c] ELSE @]
    /\ conn' = [conn EXCEPT ![t] = c]
    /\ At(t, "serve")
    /\ Local /\ UNCHANGED <<seen, slot>>

\* finishFuzzerConnection from pre_close_connection or the pool cleanup, on
\* the serving thread or on another one; `ended` makes it happen once.
CloseStart(t) ==
    /\ pc[t] = "serve"
    /\ Untag(t) /\ At(t, "close")
    /\ Local /\ UNCHANGED <<conn, seen, slot>>

CloseParked(t, c) ==
    /\ pc[t] = "idle" /\ Parked(c) /\ ProcOf[c] = ProcOf[t]
    /\ Untag(t)
    /\ conn' = [conn EXCEPT ![t] = c]
    /\ At(t, "close")
    /\ Local /\ UNCHANGED <<seen, slot>>

\* ESTALE or EINVAL: the connection is over but the gate still counts it.
TurnedAway(t) ==
    /\ joined' = [joined EXCEPT ![conn[t]] = 0]
    /\ lost' = IF joined[conn[t]] = gate.run THEN lost + 1 ELSE lost
    /\ Done(t)

\* cb_connection_end, top of the loop.
CloseCheckRun(t) ==
    /\ pc[t] = "close"
    /\ IF run_id = joined[conn[t]]
         THEN At(t, "gate") /\ UNCHANGED <<conn, seen, joined, lost>>
         ELSE TurnedAway(t)
    /\ UNCHANGED <<completed_run, gate, overflow, counts, thread_run, slot, tally>>
    /\ ThreadsOnly

\* The gate is loaded and its run and count are checked.
CloseLoad(t) ==
    /\ pc[t] = "gate"
    /\ IF gate.run = joined[conn[t]] /\ gate.active # 0
         THEN /\ seen' = [seen EXCEPT ![t] = gate]
              /\ At(t, "leave") /\ UNCHANGED <<conn, joined, lost>>
         ELSE TurnedAway(t)
    /\ UNCHANGED <<completed_run, gate, overflow, counts, thread_run, slot, tally>>
    /\ ThreadsOnly

\* The decrement.  The last close of an open run closes admission in the
\* same compare-and-swap and goes on to publish completion.
Leave(t) ==
    /\ pc[t] = "leave" /\ Swapped(t)
    /\ gate' = Desired(seen[t])
    /\ joined' = [joined EXCEPT ![conn[t]] = 0]
    /\ IF IsLastClose(seen[t])
         THEN /\ At(t, "seal")
              /\ conn' = [conn EXCEPT ![t] = NoConn]
              /\ UNCHANGED seen
         ELSE Done(t)
    /\ UNCHANGED <<completed_run, overflow, counts, thread_run, slot, history>>
    /\ ThreadsOnly

LeaveRetry(t) ==
    /\ pc[t] = "leave" /\ ~Swapped(t)
    /\ seen' = [seen EXCEPT ![t] = GateForRun(0)]
    /\ At(t, "close")
    /\ Local /\ UNCHANGED <<thread_run, conn, slot>>

\* The last closer publishes: run check, completed_run, gate back to idle.
SealCheckRun(t) ==
    /\ pc[t] = "seal"
    /\ IF run_id = seen[t].run THEN At(t, "publish") /\ UNCHANGED <<conn, seen>>
                               ELSE Done(t)
    /\ Local /\ UNCHANGED <<thread_run, slot>>

Publish(t) ==
    /\ pc[t] = "publish"
    /\ completed_run' = seen[t].run
    /\ At(t, "settle")
    /\ UNCHANGED <<gate, overflow, counts, thread_run, conn, seen, slot, joined, history>>
    /\ ThreadsOnly

Settle(t) ==
    /\ pc[t] = "settle"
    /\ gate' = IF gate = FinalGate(seen[t].run) THEN GateForRun(seen[t].run) ELSE gate
    /\ Done(t)
    /\ UNCHANGED <<completed_run, overflow, counts, thread_run, slot, joined, history>>
    /\ ThreadsOnly

\* The steps of a thread inside a callback; the others start one.
Continue(t) ==
    \/ JoinCheckRun(t) \/ Join(t) \/ JoinRetry(t)
    \/ HitAdd(t) \/ HitOverflow(t)
    \/ CloseCheckRun(t) \/ CloseLoad(t) \/ Leave(t) \/ LeaveRetry(t)
    \/ SealCheckRun(t) \/ Publish(t) \/ Settle(t)

Thread(t) ==
    \/ Continue(t)
    \/ \E c \in Conns : JoinLoad(t, c) \/ Resume(t, c) \/ CloseParked(t, c)
    \/ \E s \in Slots : HitLoad(t, s)
    \/ Suspend(t) \/ CloseStart(t)

Next ==
    \/ Controller
    \/ \E p \in Procs : LockFile(p) \/ Crash(p)
    \/ \E t \in Threads : Thread(t)

Spec == Init /\ [][Next]_vars

\* The controller thread and a thread inside a callback are scheduled, and a
\* poll that keeps failing meets its deadline in the end.  No fairness is
\* asked of the arrival of connections, of hits, parking and closing, of the
\* choice between a failed connect and a sent input, or of crashes.
Fairness ==
    /\ WF_vars(Controller)
    /\ SF_vars(WaitTimeout)
    /\ \A p \in Procs : WF_vars(LockFile(p))
    /\ \A t \in Threads : WF_vars(Continue(t))

FairSpec == Spec /\ Fairness

-----------------------------------------------------------------------------
(* Correctness.                                                            *)

MapType ==
    /\ run_id \in 0..MaxRun /\ completed_run \in 0..MaxRun
    /\ controller_pid \in Procs \union {NoProc}
    /\ gate \in Gates
    /\ overflow \in BOOLEAN
    /\ counts \in [Slots -> 0..MaxCount]

ControllerType ==
    /\ lock \in Procs \union {NoProc} /\ waiting \subseteq Procs
    /\ cpc \in ControllerSteps
    /\ index \in 1..(nslots + 1)
    /\ snapshot \in [Slots -> 0..MaxCount]
    /\ extra \in [Slots -> 0..MaxExtra]

WorkerType ==
    /\ pc \in [Threads -> ThreadSteps]
    /\ thread_run \in [Threads -> 0..MaxRun]
    /\ conn \in [Threads -> Conns \union {NoConn}]
    /\ seen \in [Threads -> Gates]
    /\ slot \in [Threads -> Slots]
    /\ joined \in [Conns -> 0..MaxRun]

HistoryType == tally \in [Slots -> Nat] /\ lost \in Nat

\* Every word, local and history variable of the bridge keeps its type: the
\* 42-bit run and the 20-bit active count never leave their fields.
TypeOK == MapType /\ ControllerType /\ WorkerType /\ HistoryType

\* The active field of the gate is exactly the number of connections that
\* are in the run, plus those that died or were turned away in it: no
\* interleaving of joins, closes, takeovers and deaths loses or doubles a
\* count (cb_connection_begin, cb_connection_end, cb_claim_controller).
GateCountsMembers ==
    gate.active = Cardinality(Members(gate.run)) + lost

\* When completion of the current run is visible to cb_wait_snapshot, every
\* connection that ever joined it has left it in order: none is alive, none
\* died on the way, and admission is closed for good.
CompletionIsTotal ==
    (run_id # 0 /\ completed_run = run_id /\ gate.run = run_id) =>
        /\ ~gate.enabled /\ gate.active = 0 /\ lost = 0
        /\ Members(run_id) = {}

\* At most one thread finalizes a run, and until it is done the gate says so
\* unless a takeover has moved the gate to a later run (cb_connection_end).
OneFinalizer ==
    \A t \in Threads : pc[t] \in Finishing =>
        /\ seen[t].run = gate.run => gate.finalizing
        /\ \A u \in Threads \ {t} :
               pc[u] \in Finishing => seen[u].run # seen[t].run

\* Between inputs the controller owns an idle gate of the current run, and
\* while an input is on its way the gate stays the gate of its run: neither
\* EPERM nor EBUSY of cb_begin nor ESTALE of cb_cancel ends a campaign,
\* whatever connections of earlier runs still do.
ControllerOwnsGate ==
    /\ cpc \in {"ready", "imported"} =>
           controller_pid = lock /\ gate = GateForRun(run_id)
    /\ cpc \in {"open", "cancel", "wait", "wait_gate", "check", "copy"} =>
           controller_pid = lock /\ gate.run = run_id

\* A successful claim leaves a run for cb_begin: the epoch that the takeover
\* consumes is never the last one.
ClaimLeavesARun ==
    cpc \in {"claim_completed", "claim_pid"} => run_id < MaxRun

\* A thread carries a tag only while it serves a connection that is in the
\* run of the tag, although suspension, resumption, takeover and closing by
\* other threads all move connections around (thread_run).
TagFollowsConnection ==
    \A t \in Threads : thread_run[t] # 0 =>
        /\ conn[t] # NoConn
        /\ joined[conn[t]] = thread_run[t]
        /\ pc[t] \in {"serve", "add", "wrap"}

\* An idle gate of an input in progress carries the completion of that input,
\* so the controller cannot time out on a run that has finished.
IdleMeansCompleted ==
    (cpc \in {"open", "wait", "wait_gate"} /\ gate = GateForRun(run_id)) =>
        completed_run = run_id

\* What libFuzzer reads after an input is, for each edge, the number of hits
\* of threads that carried the tag of this input's run, saturated to a byte:
\* no hit of another run is added, none is lost, and no count has wrapped.
FeedbackExact ==
    cpc = "imported" =>
        \A s \in Slots : /\ extra[s] = Least(tally[s], MaxExtra)
                         /\ tally[s] <= MaxCount

\* The measurement that the gate word and completed_run stand for.
Phase == IF gate.enabled THEN "open"
         ELSE IF gate.finalizing \/ (gate.run # 0 /\ completed_run = gate.run)
         THEN "sealed" ELSE "void"

Measured == INSTANCE FeedbackRun WITH
    run       <- gate.run,
    phase     <- Phase,
    members   <- IF Phase = "open" THEN gate.active ELSE 0,
    tally     <- IF Phase = "void" THEN Zeros ELSE tally,
    delivered <- IF cpc = "imported" THEN {extra} ELSE {}

\* The lock-free bridge implements FeedbackRun: each atomic step of a thread
\* or of the controller is one step of the measurement or none.
ImplementsFeedbackRun == Measured!Spec

\* A run is opened with an identifier that no earlier gate, connection, tag,
\* finalizer or completion has, across controller replacement.
FreshRun ==
    /\ gate'.run > gate.run
    /\ gate'.run > completed_run
    /\ \A c \in Conns : joined[c] < gate'.run
    /\ \A t \in Threads : thread_run[t] < gate'.run /\ seen[t].run < gate'.run
OpensFreshRun == [][~gate.enabled /\ gate'.enabled => FreshRun]_vars

\* A connection is admitted to the current run or not at all, although
\* cb_connection_begin reads run_id before its compare-and-swap.
AdmitsToCurrentRun ==
    \A c \in Conns : joined[c] = 0 /\ joined'[c] # 0 => joined'[c] = run_id

\* Once admission to a run is closed (by a takeover, a cancellation or the
\* last close) nobody joins that run any more.
ClosedStaysClosed ==
    ~gate.enabled /\ gate'.run = gate.run => ~gate'.enabled /\ gate'.active <= gate.active

\* Both hold of every step, of whatever thread or controller.
AdmissionSound == [][AdmitsToCurrentRun /\ ClosedStaysClosed]_vars

\* From some point on no child dies but of its own controller's exit.
ChildrenStay == <>[][\A p \in Procs : ~Crash(p)]_vars

\* When no more children are killed, the controller that exits is replaced: a
\* waiting child gets through the takeover, whatever the dead ones left in the
\* gate (lockControllerFile, cb_claim_controller).
TakeoverHappens == ChildrenStay =>
    ((lock = NoProc /\ waiting # {}) ~> (cpc = "ready" \/ waiting = {}))

\* The thread that set the finalizing bit of the gate is gone.
Orphaned == gate.finalizing /\
    \A t \in Threads : pc[t] \in Finishing => seen[t].run # gate.run

\* A cancellation ends, unless the finalizer it waits for has died.
CancelReturns == cpc = "cancel" ~> (cpc # "cancel" \/ Orphaned)

\* An input that was sent is resolved whichever child dies at whichever
\* point: it is imported, or its controller times out and exits.
SentInputResolved == cpc = "wait" ~> cpc \in {"imported", "none"}
=============================================================================
