---------------------------- MODULE CovbridgeInv ----------------------------
(***************************************************************************)
(* The inductive invariants of Covbridge.  IInv says what TypeOK and the   *)
(* safety properties leave open: which gate word each step of the          *)
(* controller may find, what a thread's last loaded gate is worth, and how *)
(* runs in different places are ordered.  FInv is for prompt callbacks.    *)
(***************************************************************************)
EXTENDS Covbridge

Claiming == {"none", "claim", "drain", "claim_run", "claim_gate",
             "claim_completed", "claim_pid"}

\* Steps at which the gate is idle, and so cannot be moved by any thread:
\* joining needs an enabled gate, leaving a member, settling a finalizer.
GateIdle == {"claim_completed", "claim_pid", "ready", "zero", "begin_completed",
             "begin_run", "cancel_ok", "check", "copy", "import", "imported"}

GateOfRun == {"open", "cancel", "wait", "wait_gate", "cancel_busy"}

GateShut == {"drain", "claim_run", "claim_gate", "cancel_busy"}

ControllerShape ==
    /\ (cpc = "none") <=> (lock = NoProc)
    /\ cpc \notin Claiming => controller_pid = lock
    /\ cpc \in {"drain", "claim_run"} => ~ClaimExhausted
    /\ cpc \in {"claim_gate", "claim_completed", "claim_pid", "zero",
                "begin_completed", "begin_run"} => run_id < MaxRun

GateShape ==
    /\ gate.run <= run_id
    /\ gate.enabled => gate.run = run_id /\ run_id # 0
    /\ cpc \in GateIdle => gate = GateForRun(run_id)
    /\ cpc \in GateOfRun => gate.run = run_id
    /\ cpc \in GateShut => ~gate.enabled
    /\ cpc = "claim_gate" => run_id = 0 \/ gate.run < run_id
    /\ cpc = "begin_gate" => run_id # 0 /\ gate = GateForRun(run_id - 1)

\* No run is ahead of the gate's.
RunOrder ==
    /\ completed_run <= gate.run
    /\ \A c \in Conns : joined[c] <= gate.run
    /\ \A t \in Threads : seen[t].run <= gate.run

\* What a thread knows of its connection at each step of a callback.
ThreadOk(t) ==
    /\ pc[t] \in {"idle"} \union Finishing <=> conn[t] = NoConn
    /\ conn[t] # NoConn => ProcOf[conn[t]] = ProcOf[t]
    /\ pc[t] \in {"check", "join"} => joined[conn[t]] = 0 /\ Admits(seen[t])
    /\ pc[t] \in {"serve", "add", "wrap", "close", "gate", "leave"} =>
           joined[conn[t]] # 0
    /\ pc[t] = "leave" => seen[t].active # 0 /\ seen[t].run = joined[conn[t]]
    /\ pc[t] \in Finishing => seen[t].run # 0

OneThreadEach ==
    \A t, u \in Threads : t # u /\ conn[t] = conn[u] => conn[t] = NoConn

ThreadShape == OneThreadEach /\ \A t \in Threads : ThreadOk(t)

\* A run that is sealed, or that nobody has joined yet, has no member left.
SealedShape ==
    gate.run # 0 /\ (gate.finalizing \/ completed_run = gate.run) =>
        ~gate.enabled /\ gate.active = 0

IInv ==
    /\ TypeOK /\ ControllerShape /\ GateShape /\ RunOrder /\ ThreadShape
    /\ TagFollowsConnection /\ GateCountsMembers /\ OneFinalizer /\ SealedShape

-----------------------------------------------------------------------------
(* What PromptCallbacks adds: the counters, the copy and completion stay   *)
(* in step with the history of the run.                                    *)

\* Whoever is in a bridge callback that may still write the map is in the run
\* of the gate: a takeover waits for the others.
MidOfRun ==
    /\ cpc \in {"claim_run", "claim_gate"} => \A t \in Threads : ~MidCallback(t)
    /\ \A t \in Threads :
         /\ pc[t] \in {"add", "wrap"} => thread_run[t] = gate.run /\ thread_run[t] # 0
         /\ pc[t] \in Finishing => seen[t].run = gate.run

\* An input on its way is open, about to be completed, or completed.
Resolution ==
    /\ cpc \in {"open", "wait", "wait_gate"} =>
         gate.enabled \/ gate.finalizing \/ (gate = GateForRun(run_id) /\ completed_run = run_id)
    /\ cpc = "cancel_busy" => ~gate.finalizing
    /\ \A t \in Threads : pc[t] = "settle" => completed_run = gate.run

\* cb_begin leaves nothing of earlier inputs.
Reset ==
    /\ cpc = "zero" => \A s \in Slots : s < index => counts[s] = 0
    /\ cpc \in {"begin_completed", "begin_run", "begin_gate"} =>
         ~overflow /\ \A s \in Slots : counts[s] = 0
    /\ cpc \in {"zero", "begin_completed", "begin_run", "begin_gate", "open", "wait",
                "wait_gate", "check", "copy", "import"} => extra = Zeros

\* While the run of the input is the gate's, a count is the tally until it wraps;
\* and that has been noted, is about to be, or the run never completes.
Counting == {"open", "wait", "wait_gate", "check", "copy", "import", "imported"}
Noted == overflow \/ lost > 0 \/ \E t \in Threads : pc[t] = "wrap"
Counted ==
    cpc \in Counting =>
        \A s \in Slots : IF tally[s] <= MaxCount THEN counts[s] = tally[s] ELSE Noted

\* What has been copied of a completed run stays what it was.
Copied ==
    /\ cpc \in {"copy", "import", "imported"} => \A s \in Slots : tally[s] <= MaxCount
    /\ cpc = "copy" => \A s \in Slots : s < index => snapshot[s] = counts[s]
    /\ cpc = "import" => \A s \in Slots : snapshot[s] = counts[s]
    /\ FeedbackExact

\* A run that is being copied is complete, and the word that says so is cleared
\* before the next run has a number.
Completion ==
    /\ cpc \in {"begin_run", "begin_gate"} => completed_run = 0
    /\ cpc \in {"open", "wait", "wait_gate", "check", "copy", "import"} => run_id # 0
    /\ cpc \in {"check", "copy", "import"} => completed_run = run_id

FInv == IInv /\ MidOfRun /\ Resolution /\ Reset /\ Counted /\ Copied /\ Completion
=============================================================================
