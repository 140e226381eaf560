------------------------- MODULE CovbridgeFeedback -------------------------
(***************************************************************************)
(* TLAPS proofs of what Covbridge promises under PromptCallbacks: exact    *)
(* feedback, completion that is visible as soon as the gate is idle, and   *)
(* the refinement of FeedbackRun, all from the invariant FInv.             *)
(***************************************************************************)
EXTENDS CovbridgeProofs

-----------------------------------------------------------------------------
(* What a step of a thread does to the words of the map.                   *)

\* An idle gate stays, an open one is closed by the last to leave alone, and a
\* final one by its finalizer alone.
LEMMA ThreadGate ==
  ASSUME IInv, NEW t \in Threads, Thread(t)
  PROVE  /\ gate'.run = gate.run
         /\ gate.active = 0 /\ ~gate.enabled /\ ~gate.finalizing => gate' = gate
         /\ gate.enabled => gate'.enabled \/ gate'.finalizing
         /\ ~gate.enabled => ~gate'.enabled /\ (gate'.finalizing => gate.finalizing)
         /\ gate.finalizing =>
              gate' = gate \/ (pc[t] = "settle" /\ gate' = GateForRun(gate.run))
<1>1. /\ TypeOK /\ ThreadOk(t) /\ gate \in Gates /\ seen[t] \in Gates /\ SealedShape
  BY DEF IInv, ThreadShape, TypeOK, MapType, WorkerType
<1>2. CASE Join(t)
  BY <1>1, <1>2 DEF Join, Swapped, ThreadOk, Admits, Gates, SealedShape
<1>3. CASE Leave(t)
  <2>1. gate.active # 0 /\ gate.run # 0 /\ gate = seen[t] /\ gate' = Desired(gate)
    BY <1>1, <1>3 DEF Leave, Swapped, ThreadOk
  <2>2. ~gate.finalizing
    BY <1>1, <2>1 DEF SealedShape
  <2> QED
    BY <1>1, <2>1, <2>2 DEF Desired, IsLastClose, FinalGate, GateForRun, Gates
<1>4. CASE Settle(t)
  BY <1>1, <1>4 DEF Settle, FinalGate, GateForRun, Gates
<1> QED
  BY <1>2, <1>3, <1>4, GateThreadWriters

\* What brings a thread to the steps that matter here.
LEMMA ThreadPlaces ==
  ASSUME IInv, NEW t \in Threads, Thread(t)
  PROVE  /\ pc'[t] = "add" => gate.enabled /\ thread_run'[t] = gate.run /\ thread_run'[t] # 0
         /\ pc'[t] = "wrap" => pc[t] = "add" /\ thread_run'[t] = thread_run[t]
         /\ pc'[t] = "settle" => Publish(t)
<1> USE DEF IInv, TypeOK, WorkerType, At, Done, TurnedAway
<1>1. CASE HitLoad(t, slot'[t])
  BY <1>1 DEF HitLoad, GateAllowsRun
<1>2. CASE HitAdd(t)
  BY <1>2 DEF HitAdd
<1>3. CASE Publish(t)
  BY <1>3 DEF Publish
<1>4. CASE ~(HitLoad(t, slot'[t]) \/ HitAdd(t) \/ Publish(t))
  <2>1. ASSUME NEW s \in Slots, HitLoad(t, s)
        PROVE  s = slot'[t]
    BY <2>1 DEF HitLoad
  <2> QED
    BY <1>4, <2>1 DEF Thread, Continue, JoinLoad, JoinCheckRun, Join, JoinRetry,
       HitOverflow, Suspend, Resume, CloseStart, CloseParked, CloseCheckRun, CloseLoad,
       Leave, LeaveRetry, SealCheckRun, Settle
<1> QED
  BY <1>1, <1>2, <1>3, <1>4

\* Who writes the counters and the history.
LEMMA CountWriters ==
  ASSUME IInv, NEW t \in Threads, Thread(t)
  PROVE  /\ UNCHANGED <<counts, tally>> \/ HitAdd(t)
         /\ UNCHANGED overflow \/ (HitOverflow(t) /\ overflow')
         /\ lost' = lost \/ lost' = lost + 1
         /\ pc[t] = "wrap" => pc'[t] = "wrap" \/ HitOverflow(t)
<1> USE DEF Thread, Continue, Local, history, shared, TurnedAway, At, Done, IInv, TypeOK,
            WorkerType, JoinLoad, JoinCheckRun, Join, JoinRetry,
            HitLoad, HitOverflow, Suspend, Resume, CloseStart, CloseParked, CloseCheckRun,
            CloseLoad, Leave, LeaveRetry, SealCheckRun, Publish, Settle
<1>1. UNCHANGED <<counts, tally>> \/ HitAdd(t)
  OBVIOUS
<1>2. UNCHANGED overflow \/ (HitOverflow(t) /\ overflow')
  BY DEF HitAdd
<1>3. lost' = lost \/ lost' = lost + 1
  BY DEF HitAdd
<1>4. pc[t] = "wrap" => pc'[t] = "wrap" \/ HitOverflow(t)
  BY DEF HitAdd
<1> QED
  BY <1>1, <1>2, <1>3, <1>4

\* In a run without connections nobody counts, and nobody was lost.
LEMMA NoHits ==
  ASSUME IInv, MidOfRun, gate.active = 0
  PROVE  lost = 0 /\ \A t \in Threads : pc[t] \notin {"add", "wrap"}
<1>1. lost \in Nat /\ gate.active = Cardinality(Members(gate.run)) + lost
  BY DEF IInv, GateCountsMembers, TypeOK, HistoryType
<1>2. Cardinality(Members(gate.run)) = 0 /\ lost = 0
  BY <1>1, MembersFinite, SMT
<1>3. Members(gate.run) = {}
  BY <1>2, MembersFinite, FS_EmptySet
<1>4. ASSUME NEW t \in Threads, pc[t] \in {"add", "wrap"}
      PROVE  FALSE
  <2>1. thread_run[t] = gate.run /\ gate.run # 0
    BY <1>4 DEF MidOfRun
  <2>2. conn[t] \in Conns /\ joined[conn[t]] = gate.run
    BY <2>1 DEF IInv, TagFollowsConnection, TypeOK, WorkerType
  <2> QED
    BY <1>3, <2>1, <2>2 DEF Members
<1> QED
  BY <1>2, <1>4

\* A thread that finalizes the run of the gate has said so in the gate.
LEMMA NoFinalizer ==
  ASSUME IInv, MidOfRun, ~gate.finalizing, NEW t \in Threads
  PROVE  pc[t] \notin Finishing
BY DEF IInv, OneFinalizer, MidOfRun

\* An idle gate is that of no input in progress.
LEMMA IdleGate ==
  ASSUME IInv, cpc \in GateIdle \union {"begin_gate"}
  PROVE  gate.active = 0 /\ ~gate.enabled /\ ~gate.finalizing
BY DEF IInv, GateShape, GateForRun

\* The gate changes its run only at the two stores of the controller.
LEMMA RunWriters ==
  ASSUME IInv, Controller, ~FatalExit
  PROVE  gate'.run = gate.run \/ ClaimStoreGate \/ BeginOpen
<1>1. gate \in Gates
  BY DEF IInv, TypeOK, MapType
<1> QED
  BY <1>1, GateWriters DEF ClaimCloseAdmission, CancelCloseAdmission, Shut, Gates

\* A takeover waits for callbacks, so nobody writes for a run that the gate has left.
LEMMA MidOfRunStep ==
  ASSUME IInv, MidOfRun, PromptCallbacks, [Next]_vars
  PROVE  MidOfRun'
<1>1. CASE Controller /\ ~FatalExit
  <2>1. UNCHANGED <<pc, thread_run, seen>>
    BY <1>1, ControllerFrame DEF workers
  <2>2. CASE ClaimStoreGate
    <3>1. cpc' = "claim_completed" /\ \A t \in Threads : ~MidCallback(t)
      BY <2>2 DEF ClaimStoreGate, Goto, MidOfRun
    <3> QED
      BY <2>1, <3>1 DEF MidOfRun, MidCallback
  <2>3. CASE BeginOpen
    <3>1. cpc' = "open" /\ \A t \in Threads : pc[t] \notin {"add", "wrap"} \union Finishing
      BY <2>3, IdleGate, NoHits, NoFinalizer DEF BeginOpen, Goto
    <3> QED
      BY <2>1, <3>1 DEF MidOfRun
  <2>4. CASE gate'.run = gate.run
    <3>1. cpc' \in {"claim_run", "claim_gate"} => ClaimDrain \/ ClaimStoreRun \/ cpc' = cpc
      BY <1>1 DEF Controller, Quiet, Move, Goto, cb_claim_controller, cb_begin, cb_cancel,
         cb_wait_snapshot, fuzzServer, ClaimRefused, ClaimCloseAdmission, ClaimStoreGate,
         ClaimClearCompleted, ClaimStorePid, BeginFails, BeginCheck, BeginZero,
         BeginClearOverflow, BeginClearCompleted, BeginStoreRun, BeginOpen, ConnectFails,
         InputSent, CancelCloseAdmission, CancelDone, CancelBusy, WaitCompleted, WaitGate,
         WaitTimeout, CheckFails, CheckRun, CopyCount, CopyDone, Import, DriverReturns,
         Fail, LeaveController
    <3>2. cpc' \in {"claim_run", "claim_gate"} => \A t \in Threads : ~MidCallback(t)
      BY <3>1 DEF ClaimDrain, ClaimStoreRun, MidOfRun
    <3> QED
      BY <2>1, <2>4, <3>2 DEF MidOfRun, MidCallback
  <2> QED
    BY <1>1, <2>2, <2>3, <2>4, RunWriters
<1>2. ASSUME NEW p \in Procs, LockFile(p) PROVE MidOfRun'
  BY <1>2 DEF LockFile, ControllerOnly, workers, shared, MidOfRun, MidCallback
<1>3. ASSUME NEW p \in Procs, Die(p) PROVE MidOfRun'
  <2>1. gate' = gate /\ (cpc' = cpc \/ cpc' = "none")
    BY <1>3 DEF Die, shared
  <2>2. ASSUME NEW t \in Threads
        PROVE  pc'[t] = "idle" \/ UNCHANGED <<pc[t], thread_run[t], seen[t]>>
    BY <1>3 DEF Die
  <2> QED
    BY <2>1, <2>2 DEF MidOfRun, MidCallback, Finishing
<1>4. ASSUME NEW t \in Threads, Thread(t) PROVE MidOfRun'
  <2>1. cpc' = cpc /\ gate'.run = gate.run
    BY <1>4, ThreadFrame, ThreadGate DEF controller
  <2>2. ASSUME NEW u \in Threads, u # t
        PROVE  UNCHANGED <<pc[u], thread_run[u], seen[u]>>
    BY <1>4, <2>2, OtherThreads DEF IInv
  <2>3. /\ pc'[t] \in {"add", "wrap"} => thread_run'[t] = gate.run /\ thread_run'[t] # 0
        /\ pc'[t] \in {"add", "wrap"} => gate.enabled \/ pc[t] = "add"
    BY <1>4, ThreadPlaces DEF MidOfRun
  <2>4. pc'[t] \in Finishing =>
          seen'[t].run = gate.run /\ (gate.enabled \/ pc[t] \in Finishing)
    BY <1>4, FinalizerMoves DEF IInv, MidOfRun, Leave, Swapped, IsLastClose
  <2>5. cpc \in {"claim_run", "claim_gate"} => ~gate.enabled
    BY DEF IInv, GateShape, GateShut
  <2>6. cpc \in {"claim_run", "claim_gate"} => ~(MidCallback(t)')
    BY <2>3, <2>4, <2>5 DEF MidOfRun, MidCallback
  <2> QED
    BY <2>1, <2>2, <2>3, <2>4, <2>6 DEF MidOfRun, MidCallback
<1>5. CASE UNCHANGED vars
  BY <1>5 DEF vars, shared, controller, workers, MidOfRun, MidCallback
<1> QED
  BY <1>1, <1>2, <1>3, <1>4, <1>5, Steps DEF IInv

-----------------------------------------------------------------------------
(* An input that is open is resolved.                                      *)

\* Where a controller comes from.
LEMMA ControllerMoves ==
  ASSUME IInv, Controller, ~FatalExit
  PROVE  /\ cpc' = "open" => BeginOpen
         /\ cpc' \in {"wait", "wait_gate"} =>
              cpc \in {"open", "wait", "wait_gate"} /\ UNCHANGED <<gate, completed_run, run_id>>
         /\ cpc' = "cancel_busy" => CancelCloseAdmission
<1> USE DEF Controller, Quiet, Move, Goto, cb_claim_controller, cb_begin, cb_cancel,
         cb_wait_snapshot, fuzzServer, ClaimRefused, ClaimCloseAdmission, ClaimDrain,
         ClaimStoreRun, ClaimStoreGate, ClaimClearCompleted, ClaimStorePid, BeginFails,
         BeginCheck, BeginZero, BeginClearOverflow, BeginClearCompleted, BeginStoreRun,
         ConnectFails, InputSent, CancelDone, CancelBusy, WaitCompleted, WaitGate,
         WaitTimeout, CheckFails, CheckRun, CopyCount, CopyDone, Import, DriverReturns,
         Fail, LeaveController
<1>1. cpc' = "open" => BeginOpen
  BY DEF CancelCloseAdmission
<1>2. cpc' \in {"wait", "wait_gate"} =>
        cpc \in {"open", "wait", "wait_gate"} /\ UNCHANGED <<gate, completed_run, run_id>>
  BY DEF CancelCloseAdmission, BeginOpen, shared
<1>3. cpc' = "cancel_busy" => CancelCloseAdmission
  BY DEF BeginOpen
<1> QED
  BY <1>1, <1>2, <1>3

\* The steps at which the controller clears completed_run.
LEMMA Clearing ==
  ASSUME IInv, Controller, ~FatalExit
  PROVE  UNCHANGED completed_run \/ cpc \in {"cancel_busy"} \union GateIdle
BY DEF Controller, Quiet, Move, Goto, cb_claim_controller, cb_begin, cb_cancel,
   cb_wait_snapshot, fuzzServer, shared, ClaimRefused, ClaimCloseAdmission, ClaimDrain,
   ClaimStoreRun, ClaimStoreGate, ClaimClearCompleted, ClaimStorePid, BeginFails,
   BeginCheck, BeginZero, BeginClearOverflow, BeginClearCompleted, BeginStoreRun, BeginOpen,
   ConnectFails, InputSent, CancelCloseAdmission, CancelDone, CancelBusy, WaitCompleted,
   WaitGate, WaitTimeout, CheckFails, CheckRun, CopyCount, CopyDone, Import, DriverReturns,
   Fail, LeaveController, GateIdle

\* The controller opens a run or shuts its gate, and undoes no completion that an
\* input waits for.
LEMMA ResolutionController ==
  ASSUME IInv, MidOfRun, Resolution, Controller, ~FatalExit
  PROVE  Resolution'
<1>1. pc' = pc
  BY ControllerFrame DEF workers
<1>2. cpc' \in {"open", "wait", "wait_gate"} =>
        (gate.enabled \/ gate.finalizing \/ (gate = GateForRun(run_id) /\ completed_run = run_id))'
  <2>1. CASE cpc' = "open"
    BY <2>1, ControllerMoves DEF BeginOpen, OpenGate, GateForRun
  <2>2. CASE cpc' \in {"wait", "wait_gate"}
    BY <2>2, ControllerMoves DEF Resolution
  <2> QED
    BY <2>1, <2>2
<1>3. cpc' = "cancel_busy" => ~gate'.finalizing
  <2>1. ASSUME CancelCloseAdmission, cpc' = "cancel_busy"
        PROVE  ~gate.finalizing /\ gate' = Shut(gate) /\ gate \in Gates
    BY <2>1 DEF CancelCloseAdmission, Goto, CancelMayClose, IInv, TypeOK, MapType
  <2> QED
    BY <2>1, ControllerMoves DEF Shut, Gates
<1>4. ASSUME NEW t \in Threads, pc[t] = "settle"
      PROVE  completed_run' = gate'.run
  <2>1. gate.finalizing
    BY <1>4, NoFinalizer DEF Finishing
  <2>2. cpc \notin {"cancel_busy", "begin_gate"} \union GateIdle
    BY <2>1, IdleGate DEF Resolution
  <2>3. ~ClaimStoreGate
    BY <1>4 DEF ClaimStoreGate, MidOfRun, MidCallback, Finishing
  <2>4. ~BeginOpen
    BY <2>2 DEF BeginOpen
  <2> QED
    BY <1>4, <2>2, <2>3, <2>4, Clearing, RunWriters DEF Resolution
<1> QED
  BY <1>1, <1>2, <1>3, <1>4 DEF Resolution

\* The gate of an input on its way leaves the open state for the final one, and that
\* for the idle one, after completed_run is stored.
LEMMA ResolutionThread ==
  ASSUME IInv, MidOfRun, Resolution, NEW t \in Threads, Thread(t)
  PROVE  Resolution'
<1>1. /\ cpc' = cpc /\ run_id' = run_id /\ gate'.run = gate.run
  BY ThreadFrame, ThreadGate DEF controller
<1>2. /\ gate.run \in 0..MaxRun /\ run_id \in 0..MaxRun /\ gate.run \in Nat
      /\ gate.enabled \in BOOLEAN /\ gate.finalizing \in BOOLEAN
  BY ConstAssumption DEF IInv, TypeOK, MapType, Gates
<1>3. completed_run' = completed_run \/ (Publish(t) /\ completed_run' = gate.run)
  BY CompletedThreadWriters DEF Publish, MidOfRun, Finishing
<1>4. ~gate.finalizing => completed_run' = completed_run
  BY <1>3, NoFinalizer DEF Publish, Finishing
<1>5. ASSUME cpc \in {"open", "wait", "wait_gate"}
      PROVE  gate'.enabled \/ gate'.finalizing \/ (gate' = GateForRun(run_id) /\ completed_run' = run_id)
  <2>1. gate.run = run_id
    BY <1>5 DEF IInv, GateShape, GateOfRun
  <2>2. CASE gate.enabled
    BY <2>2, ThreadGate
  <2>3. CASE gate.finalizing
    <3>1. CASE gate' = gate
      BY <2>3, <3>1
    <3>2. CASE pc[t] = "settle" /\ gate' = GateForRun(gate.run)
      BY <1>3, <2>1, <3>2 DEF Resolution, Publish
    <3> QED
      BY <2>3, <3>1, <3>2, ThreadGate
  <2>4. CASE ~gate.enabled /\ ~gate.finalizing
    <3>1. gate = GateForRun(run_id) /\ completed_run = run_id /\ gate.active = 0
      BY <1>5, <2>4 DEF Resolution, GateForRun
    <3> QED
      BY <1>4, <2>4, <3>1, ThreadGate
  <2> QED
    BY <2>2, <2>3, <2>4
<1>6. cpc = "cancel_busy" => ~gate'.finalizing
  BY ThreadGate DEF Resolution, IInv, GateShape, GateShut
<1>7. ASSUME NEW u \in Threads, pc'[u] = "settle"
      PROVE  completed_run' = gate.run
  <2>1. CASE Publish(t)
    BY <1>3, <2>1 DEF Publish, MidOfRun, Finishing
  <2>2. CASE ~Publish(t)
    <3>1. u # t /\ pc[u] = "settle"
      BY <1>7, <2>2, ThreadPlaces, OtherThreads DEF IInv
    <3> QED
      BY <1>3, <2>2, <3>1 DEF Resolution
  <2> QED
    BY <2>1, <2>2
<1> QED
  BY <1>1, <1>5, <1>6, <1>7 DEF Resolution

\* An input on its way stays resolvable.
LEMMA ResolutionStep ==
  ASSUME IInv, MidOfRun, Resolution, [Next]_vars
  PROVE  Resolution'
<1>1. ASSUME NEW p \in Procs, LockFile(p) PROVE Resolution'
  BY <1>1 DEF LockFile, ControllerOnly, workers, shared, Resolution
<1>2. ASSUME NEW p \in Procs, Die(p) PROVE Resolution'
  <2>1. UNCHANGED <<gate, completed_run, run_id>> /\ (cpc' = cpc \/ cpc' = "none")
    BY <1>2 DEF Die, shared
  <2>2. \A t \in Threads : pc'[t] = "settle" => pc[t] = "settle"
    BY <1>2 DEF Die
  <2> QED
    BY <2>1, <2>2 DEF Resolution
<1>3. CASE UNCHANGED vars
  BY <1>3 DEF vars, shared, controller, workers, Resolution
<1> QED
  BY <1>1, <1>2, <1>3, Steps, ResolutionController, ResolutionThread DEF IInv

-----------------------------------------------------------------------------
(* Counters.                                                               *)

\* Nobody counts at an idle gate.
LEMMA IdleCounts ==
  ASSUME IInv, MidOfRun, gate.active = 0, NEW t \in Threads, Thread(t)
  PROVE  UNCHANGED <<counts, tally, overflow>>
<1>1. pc[t] \notin {"add", "wrap"}
  BY NoHits
<1> QED
  BY <1>1, CountWriters DEF HitAdd, HitOverflow

\* Where the controller comes from, before the run opens and after completion.
LEMMA ControllerStages ==
  ASSUME IInv, Controller, ~FatalExit
  PROVE  /\ cpc' = "zero" => BeginCheck \/ BeginZero
         /\ cpc' = "begin_completed" => BeginClearOverflow
         /\ cpc' = "begin_run" => BeginClearCompleted
         /\ cpc' = "begin_gate" => BeginStoreRun
         /\ cpc' = "check" => WaitGate
         /\ cpc' = "copy" => CheckRun \/ CopyCount
         /\ cpc' = "import" => CopyDone
         /\ cpc' = "imported" => Import
<1> USE DEF Controller, Quiet, Move, Goto, cb_claim_controller, cb_begin, cb_cancel,
         cb_wait_snapshot, fuzzServer, ClaimRefused, ClaimCloseAdmission, ClaimDrain,
         ClaimStoreRun, ClaimStoreGate, ClaimClearCompleted, ClaimStorePid, BeginFails,
         BeginOpen, ConnectFails, InputSent, CancelCloseAdmission, CancelDone, CancelBusy,
         WaitCompleted, WaitTimeout, CheckFails, DriverReturns, Fail, LeaveController
<1>1. cpc' = "zero" => BeginCheck \/ BeginZero
  BY DEF BeginClearOverflow, BeginClearCompleted, BeginStoreRun, WaitGate, CheckRun,
         CopyCount, CopyDone, Import
<1>2. cpc' = "begin_completed" => BeginClearOverflow
  BY DEF BeginCheck, BeginZero, BeginClearCompleted, BeginStoreRun, WaitGate, CheckRun,
         CopyCount, CopyDone, Import
<1>3. cpc' = "begin_run" => BeginClearCompleted
  BY DEF BeginCheck, BeginZero, BeginClearOverflow, BeginStoreRun, WaitGate, CheckRun,
         CopyCount, CopyDone, Import
<1>4. cpc' = "begin_gate" => BeginStoreRun
  BY DEF BeginCheck, BeginZero, BeginClearOverflow, BeginClearCompleted, WaitGate, CheckRun,
         CopyCount, CopyDone, Import
<1>5. cpc' = "check" => WaitGate
  BY DEF BeginCheck, BeginZero, BeginClearOverflow, BeginClearCompleted, BeginStoreRun,
         CheckRun, CopyCount, CopyDone, Import
<1>6. cpc' = "copy" => CheckRun \/ CopyCount
  BY DEF BeginCheck, BeginZero, BeginClearOverflow, BeginClearCompleted, BeginStoreRun,
         WaitGate, CopyDone, Import
<1>7. cpc' = "import" => CopyDone
  BY DEF BeginCheck, BeginZero, BeginClearOverflow, BeginClearCompleted, BeginStoreRun,
         WaitGate, CheckRun, CopyCount, Import
<1>8. cpc' = "imported" => Import
  BY DEF BeginCheck, BeginZero, BeginClearOverflow, BeginClearCompleted, BeginStoreRun,
         WaitGate, CheckRun, CopyCount, CopyDone
<1> QED
  BY <1>1, <1>2, <1>3, <1>4, <1>5, <1>6, <1>7, <1>8

\* The zeroing loop of cb_begin has reached every counter when it ends.
LEMMA ResetController ==
  ASSUME IInv, Reset, Controller, ~FatalExit
  PROVE  Reset'
<1>1. /\ counts \in [Slots -> 0..MaxCount] /\ index \in 1..nslots + 1 /\ nslots \in Nat \ {0}
      /\ \A s \in Slots : s \in Nat /\ 1 <= s /\ s <= nslots
  BY ConstAssumption DEF IInv, TypeOK, MapType, ControllerType, Slots
<1>2. ASSUME cpc' = "zero", NEW s \in Slots, s < index'
      PROVE  counts'[s] = 0
  <2>1. CASE BeginCheck
    BY <1>1, <1>2, <2>1, SMT DEF BeginCheck
  <2>2. CASE BeginZero
    <3>1. /\ cpc = "zero" /\ counts' = [counts EXCEPT ![index] = 0] /\ index' = index + 1
      BY <2>2 DEF BeginZero
    <3>2. s < index \/ s = index
      BY <1>1, <1>2, <3>1, SMT
    <3> QED
      BY <1>1, <3>1, <3>2 DEF Reset
  <2> QED
    BY <1>2, <2>1, <2>2, ControllerStages
<1>3. ASSUME cpc' \in {"begin_completed", "begin_run", "begin_gate"}, NEW s \in Slots
      PROVE  ~overflow' /\ counts'[s] = 0
  <2>1. CASE BeginClearOverflow
    <3>1. cpc = "zero" /\ index > nslots /\ ~overflow' /\ counts' = counts
      BY <2>1 DEF BeginClearOverflow
    <3>2. s < index
      BY <1>1, <3>1, SMT
    <3> QED
      BY <3>1, <3>2 DEF Reset
  <2>2. CASE BeginClearCompleted \/ BeginStoreRun
    BY <2>2 DEF BeginClearCompleted, BeginStoreRun, Reset
  <2> QED
    BY <1>3, <2>1, <2>2, ControllerStages
<1>4. ASSUME cpc' \in {"begin_completed", "begin_run", "begin_gate"}
      PROVE  ~overflow'
  <2>1. 1 \in Slots
    BY <1>1 DEF Slots
  <2> QED
    BY <1>3, <1>4, <2>1
<1>5. ASSUME cpc' \in {"zero", "begin_completed", "begin_run", "begin_gate", "open", "wait",
                       "wait_gate", "check", "copy", "import"}
      PROVE  extra' = Zeros
  <2>1. CASE cpc' \in {"zero", "begin_completed", "begin_run", "begin_gate"}
    BY <2>1, ControllerStages
       DEF BeginCheck, BeginZero, BeginClearOverflow, BeginClearCompleted, BeginStoreRun,
           Quiet, Reset
  <2>2. CASE cpc' \in {"check", "copy", "import"}
    BY <2>2, ControllerStages
       DEF WaitGate, CheckRun, CopyCount, CopyDone, Move, Quiet, Reset
  <2>3. CASE cpc' = "open"
    BY <2>3, ControllerMoves DEF BeginOpen, Reset
  <2>4. CASE cpc' \in {"wait", "wait_gate"}
    <3>1. cpc \in {"open", "wait", "wait_gate"}
      BY <2>4, ControllerMoves
    <3>2. InputSent \/ WaitCompleted \/ WaitGate
      BY <2>4, <3>1, <1>5 DEF Controller, Quiet, Move, Goto, cb_claim_controller, cb_begin,
         cb_cancel, cb_wait_snapshot, fuzzServer, ClaimRefused, ClaimCloseAdmission,
         ClaimDrain, ClaimStoreRun, ClaimStoreGate, ClaimClearCompleted, ClaimStorePid,
         BeginFails, BeginCheck, BeginZero, BeginClearOverflow, BeginClearCompleted,
         BeginStoreRun, BeginOpen, ConnectFails, CancelCloseAdmission, CancelDone,
         CancelBusy, WaitTimeout, CheckFails, CheckRun, CopyCount, CopyDone, Import,
         DriverReturns, Fail
    <3> QED
      BY <3>1, <3>2 DEF InputSent, WaitCompleted, WaitGate, Move, Quiet, Reset
  <2> QED
    BY <1>5, <2>1, <2>2, <2>3, <2>4
<1> QED
  BY <1>2, <1>3, <1>4, <1>5 DEF Reset

\* What cb_begin has reset stays so until the run opens.
LEMMA ResetStep ==
  ASSUME IInv, MidOfRun, Reset, [Next]_vars
  PROVE  Reset'
<1>1. ASSUME NEW p \in Procs, LockFile(p) PROVE Reset'
  BY <1>1 DEF LockFile, shared, Reset
<1>2. ASSUME NEW p \in Procs, Die(p) PROVE Reset'
  BY <1>2 DEF Die, shared, Reset
<1>3. ASSUME NEW t \in Threads, Thread(t) PROVE Reset'
  <2>1. UNCHANGED <<cpc, index, extra>>
    BY <1>3, ThreadFrame DEF controller
  <2>2. cpc \in {"zero", "begin_completed", "begin_run", "begin_gate"} =>
          UNCHANGED <<counts, overflow>>
    BY <1>3, IdleGate, IdleCounts DEF GateIdle
  <2> QED
    BY <2>1, <2>2 DEF Reset
<1>4. CASE UNCHANGED vars
  BY <1>4 DEF vars, shared, controller, Reset
<1> QED
  BY <1>1, <1>2, <1>3, <1>4, Steps, ResetController DEF IInv

\* While it counts, the controller writes no counter and no history.
LEMMA CountedController ==
  ASSUME IInv, MidOfRun, Reset, Counted, Controller, ~FatalExit
  PROVE  Counted'
<1>1. pc' = pc
  BY ControllerFrame DEF workers
<1>2. CASE BeginOpen
  <2>1. /\ tally' = Zeros /\ counts' = counts /\ \A s \in Slots : counts[s] = 0
        /\ 0 <= MaxCount
    BY <1>2, ConstAssumption DEF BeginOpen, Reset
  <2> QED
    BY <2>1 DEF Counted, Zeros
<1>3. CASE cpc' \in Counting /\ ~BeginOpen
  <2>1. cpc \in Counting /\ UNCHANGED <<counts, overflow, tally, lost>>
    <3>1. CASE cpc' \in {"wait", "wait_gate"}
      <4>1. cpc \in {"open", "wait", "wait_gate"}
        BY <3>1, ControllerMoves
      <4>2. ~ClaimStoreGate /\ ~BeginOpen
        BY <1>3, <4>1 DEF ClaimStoreGate
      <4>3. UNCHANGED <<tally, lost>>
        BY <4>2, ControllerHistory DEF history
      <4>4. UNCHANGED <<counts, overflow>>
        BY <4>1, <4>2 DEF Controller, Quiet, Move, Goto, cb_claim_controller, cb_begin,
         cb_cancel, cb_wait_snapshot, fuzzServer, shared, ClaimRefused, ClaimCloseAdmission,
         ClaimDrain, ClaimStoreRun, ClaimClearCompleted, ClaimStorePid,
         BeginFails, BeginCheck, BeginZero, BeginClearOverflow, BeginClearCompleted,
         BeginStoreRun, ConnectFails, InputSent, CancelCloseAdmission, CancelDone,
         CancelBusy, WaitCompleted, WaitGate, WaitTimeout, CheckFails, CheckRun, CopyCount,
         CopyDone, Import, DriverReturns, Fail, LeaveController
      <4> QED
        BY <4>1, <4>3, <4>4 DEF Counting
    <3>2. CASE cpc' \in {"check", "copy", "import", "imported"}
      BY <3>2, ControllerStages
         DEF WaitGate, CheckRun, CopyCount, CopyDone, Import, Move, Quiet, ControllerOnly,
             history, shared, Counting
    <3> QED
      BY <1>3, <3>1, <3>2, ControllerMoves DEF Counting
  <2> QED
    BY <1>1, <2>1 DEF Counted, Noted
<1> QED
  BY <1>2, <1>3 DEF Counted

\* A wrapped count that has been noted stays so.
LEMMA NotedStays ==
  ASSUME IInv, Noted, NEW t \in Threads, Thread(t)
  PROVE  Noted'
<1>1. lost \in Nat
  BY DEF IInv, TypeOK, HistoryType
<1>2. CASE overflow
  BY <1>2, CountWriters DEF Noted
<1>3. CASE lost > 0
  BY <1>1, <1>3, CountWriters DEF Noted
<1>4. ASSUME NEW u \in Threads, pc[u] = "wrap"
      PROVE  Noted'
  <2>1. CASE u = t
    <3>1. pc'[t] = "wrap" \/ overflow'
      BY <1>4, <2>1, CountWriters DEF HitOverflow
    <3> QED
      BY <3>1 DEF Noted
  <2>2. CASE u # t
    <3>1. pc'[u] = "wrap"
      BY <1>4, <2>2, OtherThreads DEF IInv
    <3> QED
      BY <3>1 DEF Noted
  <2> QED
    BY <2>1, <2>2
<1> QED
  BY <1>2, <1>3, <1>4 DEF Noted

\* A counter below its limit does not wrap.
LEMMA SmallMod ==
  ASSUME NEW n \in Nat, NEW m \in Nat, n < m
  PROVE  (n + 1) % (m + 1) = n + 1
BY SMTT(30)

\* A hit in the open run adds one to the counter and to the tally, or is noted.
LEMMA CountedThread ==
  ASSUME IInv, MidOfRun, Counted, NEW t \in Threads, Thread(t)
  PROVE  Counted'
<1>1. cpc' = cpc /\ run_id' = run_id
  BY ThreadFrame DEF controller
<1>2. /\ counts \in [Slots -> 0..MaxCount] /\ tally \in [Slots -> Nat] /\ MaxCount \in Nat \ {0}
      /\ slot[t] \in Slots /\ pc \in [Threads -> ThreadSteps]
  BY ConstAssumption DEF IInv, TypeOK, MapType, HistoryType, WorkerType
<1>3. CASE UNCHANGED <<counts, tally>>
  BY <1>1, <1>3, NotedStays DEF Counted
<1>4. CASE HitAdd(t) /\ cpc \in Counting
  <2>1. pc[t] = "add"
    BY <1>4 DEF HitAdd
  <2>2. gate.run = run_id /\ thread_run[t] = run_id
    <3>1. cpc \notin GateIdle
      BY <2>1, IdleGate, NoHits
    <3> QED
      BY <1>4, <2>1, <3>1 DEF Counting, GateIdle, GateOfRun, IInv, GateShape, MidOfRun
  <2>3. /\ counts' = [counts EXCEPT ![slot[t]] = (counts[slot[t]] + 1) % (MaxCount + 1)]
        /\ tally' = [tally EXCEPT ![slot[t]] = tally[slot[t]] + 1]
        /\ counts[slot[t]] = MaxCount => pc'[t] = "wrap"
    BY <1>2, <1>4, <2>2 DEF HitAdd, At
  <2>4. ASSUME NEW s \in Slots, s # slot[t]
        PROVE  IF tally'[s] <= MaxCount THEN counts'[s] = tally'[s] ELSE Noted'
    BY <1>2, <1>4, <2>3, <2>4, NotedStays DEF Counted
  <2>5. ASSUME NEW s \in Slots, s = slot[t]
        PROVE  IF tally'[s] <= MaxCount THEN counts'[s] = tally'[s] ELSE Noted'
    <3>1. /\ tally'[s] = tally[s] + 1 /\ counts'[s] = (counts[s] + 1) % (MaxCount + 1)
          /\ tally[s] \in Nat
          /\ IF tally[s] <= MaxCount THEN counts[s] = tally[s] ELSE Noted
      BY <1>2, <1>4, <2>3, <2>5 DEF Counted
    <3>2. CASE tally[s] < MaxCount
      <4>1. counts[s] = tally[s] /\ tally'[s] <= MaxCount
        BY <1>2, <3>1, <3>2
      <4>2. (tally[s] + 1) % (MaxCount + 1) = tally[s] + 1
        BY <1>2, <3>1, <3>2, SmallMod
      <4> QED
        BY <3>1, <4>1, <4>2
    <3>3. CASE tally[s] = MaxCount
      <4>1. pc'[t] = "wrap" /\ ~(tally'[s] <= MaxCount)
        BY <1>2, <2>3, <2>5, <3>1, <3>3
      <4> QED
        BY <4>1 DEF Noted
    <3>4. CASE tally[s] > MaxCount
      <4>1. Noted /\ ~(tally'[s] <= MaxCount)
        BY <1>2, <3>1, <3>4
      <4> QED
        BY <4>1, NotedStays
    <3> QED
      BY <1>2, <3>1, <3>2, <3>3, <3>4
  <2> QED
    BY <1>1, <2>4, <2>5 DEF Counted
<1> QED
  BY <1>1, <1>3, <1>4, CountWriters DEF Counted

\* A child that dies between the wrap of a counter and the store of overflow
\* leaves its connection in the gate.
LEMMA DeathNoted ==
  ASSUME IInv, MidOfRun, NEW p \in Procs, Die(p), Noted
  PROVE  Noted'
<1> DEFINE Lost == Members(gate.run) \intersect ConnsOf(p)
<1>1. /\ lost \in Nat /\ lost' = lost + Cardinality(Lost) /\ overflow' = overflow
      /\ IsFiniteSet(Lost) /\ Cardinality(Lost) \in Nat
  <2>1. IsFiniteSet(Lost)
    BY MembersFinite, FS_Subset
  <2> QED
    BY <2>1, FS_CardinalityType DEF Die, shared, IInv, TypeOK, HistoryType
<1>2. CASE overflow
  BY <1>1, <1>2 DEF Noted
<1>3. CASE lost > 0
  BY <1>1, <1>3 DEF Noted
<1>4. ASSUME NEW t \in Threads, pc[t] = "wrap", t \notin ThreadsOf(p)
      PROVE  Noted'
  BY <1>4 DEF Die, Noted
<1>5. ASSUME NEW t \in Threads, pc[t] = "wrap", t \in ThreadsOf(p)
      PROVE  Noted'
  <2>1. thread_run[t] = gate.run /\ gate.run # 0
    BY <1>5 DEF MidOfRun
  <2>2. /\ conn[t] \in Conns /\ joined[conn[t]] = gate.run /\ ProcOf[conn[t]] = ProcOf[t]
    BY <2>1 DEF IInv, TagFollowsConnection, TypeOK, WorkerType, ThreadShape, ThreadOk
  <2>3. conn[t] \in Lost
    BY <1>5, <2>1, <2>2 DEF Members, ConnsOf, ThreadsOf
  <2>4. Cardinality(Lost) # 0
    BY <1>1, <2>3, FS_EmptySet
  <2> QED
    BY <1>1, <2>4 DEF Noted
<1> QED
  BY <1>2, <1>3, <1>4, <1>5 DEF Noted

\* Counters follow the tally for as long as the input is measured.
LEMMA CountedStep ==
  ASSUME IInv, MidOfRun, Reset, Counted, [Next]_vars
  PROVE  Counted'
<1>1. ASSUME NEW p \in Procs, LockFile(p) PROVE Counted'
  BY <1>1 DEF LockFile, Counted, Counting
<1>2. ASSUME NEW p \in Procs, Die(p) PROVE Counted'
  <2>1. UNCHANGED <<counts, tally>> /\ (cpc' = cpc \/ cpc' = "none")
    BY <1>2 DEF Die, shared
  <2> QED
    BY <1>2, <2>1, DeathNoted DEF Counted, Counting
<1>3. CASE UNCHANGED vars
  BY <1>3 DEF vars, shared, controller, workers, history, Counted, Noted
<1> QED
  BY <1>1, <1>2, <1>3, Steps, CountedController, CountedThread DEF IInv

-----------------------------------------------------------------------------
(* The copy.                                                               *)

\* In a completed run nobody was lost, so that with no overflow noted no count
\* has wrapped, and the counters are the tally.
LEMMA CountsAreTally ==
  ASSUME IInv, MidOfRun, Counted, cpc = "check", ~overflow
  PROVE  \A s \in Slots : tally[s] <= MaxCount /\ counts[s] = tally[s]
<1>1. ~Noted
  BY IdleGate, NoHits DEF Noted, GateIdle
<1> QED
  BY <1>1 DEF Counted, Counting

\* The copy of a completed run is exact, slot by slot, and so is the import.
LEMMA CopiedController ==
  ASSUME IInv, MidOfRun, Reset, Counted, Copied, Controller, ~FatalExit
  PROVE  Copied'
<1>1. /\ counts \in [Slots -> 0..MaxCount] /\ snapshot \in [Slots -> 0..MaxCount]
      /\ index \in 1..nslots + 1 /\ nslots \in Nat \ {0}
      /\ MaxCount \in Nat \ {0} /\ MaxExtra \in Nat \ {0} /\ tally \in [Slots -> Nat]
      /\ \A s \in Slots : s \in Nat /\ 1 <= s /\ s <= nslots
  BY ConstAssumption DEF IInv, TypeOK, MapType, HistoryType, ControllerType, Slots
<1>2. CASE CheckRun
  <2>1. /\ cpc' = "copy" /\ index' = 1 /\ UNCHANGED <<counts, tally>>
        /\ \A s \in Slots : tally[s] <= MaxCount
    BY <1>2, CountsAreTally DEF CheckRun, Goto, shared, ControllerOnly, history
  <2> QED
    BY <1>1, <2>1 DEF Copied, FeedbackExact
<1>3. CASE CopyCount
  <2>1. /\ cpc = "copy" /\ cpc' = "copy" /\ index' = index + 1 /\ UNCHANGED <<counts, tally>>
        /\ snapshot' = [snapshot EXCEPT ![index] = counts[index]]
    BY <1>3 DEF CopyCount, shared, ControllerOnly, history
  <2>2. ASSUME NEW s \in Slots, s < index'
        PROVE  snapshot'[s] = counts[s]
    <3>1. s < index \/ s = index
      BY <1>1, <2>1, <2>2, SMT
    <3> QED
      BY <1>1, <2>1, <3>1 DEF Copied
  <2> QED
    BY <2>1, <2>2 DEF Copied, FeedbackExact
<1>4. CASE CopyDone
  <2>1. /\ cpc = "copy" /\ index > nslots /\ cpc' = "import"
        /\ UNCHANGED <<counts, snapshot, tally>>
    BY <1>4 DEF CopyDone, Goto, shared, ControllerOnly, history
  <2>2. \A s \in Slots : s < index
    BY <1>1, <2>1, SMT
  <2> QED
    BY <2>1, <2>2 DEF Copied, FeedbackExact
<1>5. CASE Import
  <2>1. /\ cpc = "import" /\ cpc' = "imported" /\ tally' = tally
        /\ extra' = [s \in Slots |-> Saturate(extra[s], snapshot[s])]
    BY <1>5 DEF Import, Goto, ControllerOnly, history
  <2>2. ASSUME NEW s \in Slots
        PROVE  extra'[s] = Least(tally[s], MaxExtra) /\ tally[s] <= MaxCount
    <3>1. extra[s] = 0 /\ snapshot[s] = tally[s] /\ tally[s] <= MaxCount
      BY <2>1 DEF Reset, Copied, Counted, Counting, Zeros
    <3>2. extra'[s] = Saturate(0, tally[s])
      BY <2>1, <3>1
    <3> QED
      BY <1>1, <3>1, <3>2 DEF Saturate, Least
  <2> QED
    BY <2>1, <2>2 DEF Copied, FeedbackExact
<1>6. CASE cpc' \notin {"copy", "import", "imported"}
  BY <1>6 DEF Copied, FeedbackExact
<1> QED
  BY <1>2, <1>3, <1>4, <1>5, <1>6, ControllerStages

\* Nobody changes the counters while they are copied.
LEMMA CopiedStep ==
  ASSUME IInv, MidOfRun, Reset, Counted, Copied, [Next]_vars
  PROVE  Copied'
<1>1. ASSUME NEW p \in Procs, LockFile(p) PROVE Copied'
  BY <1>1 DEF LockFile, Copied, FeedbackExact
<1>2. ASSUME NEW p \in Procs, Die(p) PROVE Copied'
  <2>1. CASE lock = p
    BY <1>2, <2>1 DEF Die, Copied, FeedbackExact
  <2>2. CASE lock # p
    BY <1>2, <2>2 DEF Die, shared, Copied, FeedbackExact
  <2> QED
    BY <2>1, <2>2
<1>3. ASSUME NEW t \in Threads, Thread(t) PROVE Copied'
  <2>1. UNCHANGED <<cpc, index, snapshot, extra>>
    BY <1>3, ThreadFrame DEF controller
  <2>2. cpc \in {"copy", "import", "imported"} => UNCHANGED <<counts, tally>>
    BY <1>3, IdleGate, IdleCounts DEF GateIdle
  <2> QED
    BY <2>1, <2>2 DEF Copied, FeedbackExact
<1>4. CASE UNCHANGED vars
  BY <1>4 DEF vars, shared, controller, history, Copied, FeedbackExact
<1> QED
  BY <1>1, <1>2, <1>3, <1>4, Steps, CopiedController DEF IInv

\* Completion of the run that is copied stands until the next run is begun.
LEMMA CompletionStep ==
  ASSUME IInv, MidOfRun, Resolution, Completion, [Next]_vars
  PROVE  Completion'
<1>1. CASE Controller /\ ~FatalExit
  <2>1. CASE cpc' \in {"begin_run", "begin_gate"}
    BY <1>1, <2>1, ControllerStages DEF BeginClearCompleted, BeginStoreRun, Completion
  <2>2. CASE cpc' \in {"open", "wait", "wait_gate"}
    BY <1>1, <2>2, ControllerMoves DEF BeginOpen, Completion, IInv, GateShape
  <2>3. CASE cpc' \in {"check", "copy", "import"}
    <3>1. CASE WaitGate
      BY <2>3, <3>1 DEF WaitGate, Move, Goto, shared, Completion, Resolution, GateForRun
    <3>2. CASE CheckRun \/ CopyCount \/ CopyDone
      BY <2>3, <3>2 DEF CheckRun, CopyCount, CopyDone, shared, Completion
    <3> QED
      BY <1>1, <2>3, <3>1, <3>2, ControllerStages
  <2>4. CASE cpc' \notin {"begin_run", "begin_gate", "open", "wait", "wait_gate", "check",
                         "copy", "import"}
    BY <2>4 DEF Completion
  <2> QED
    BY <2>1, <2>2, <2>3, <2>4
<1>2. ASSUME NEW p \in Procs, LockFile(p) PROVE Completion'
  BY <1>2 DEF LockFile, Completion
<1>3. ASSUME NEW p \in Procs, Die(p) PROVE Completion'
  BY <1>3 DEF Die, shared, Completion
<1>4. ASSUME NEW t \in Threads, Thread(t) PROVE Completion'
  <2>1. cpc' = cpc /\ run_id' = run_id
    BY <1>4, ThreadFrame DEF controller
  <2>2. cpc \in GateIdle \union {"begin_gate"} => completed_run' = completed_run
    BY <1>4, IdleGate, NoFinalizer, CompletedThreadWriters DEF Publish, Finishing
  <2> QED
    BY <2>1, <2>2 DEF Completion, GateIdle
<1>5. CASE UNCHANGED vars
  BY <1>5 DEF vars, shared, controller, Completion
<1> QED
  BY <1>1, <1>2, <1>3, <1>4, <1>5, Steps DEF IInv

-----------------------------------------------------------------------------
(* The theorems.                                                           *)

\* Where the bridge starts nothing counts and no input is on its way.
LEMMA FInit ==
  ASSUME Init
  PROVE  FInv
BY InitIInv DEF Init, FInv, MidOfRun, Resolution, Reset, Counted, Counting, Copied,
   Completion, FeedbackExact, Finishing

\* FInv is inductive when callbacks are prompt.
LEMMA FInvStep ==
  ASSUME FInv, PromptCallbacks, [Next]_vars
  PROVE  FInv'
BY NextIInv, MidOfRunStep, ResolutionStep, ResetStep, CountedStep, CopiedStep,
   CompletionStep DEF FInv

\* When a takeover finds no surviving thread in the middle of a callback, the
\* counters, the copy and completion stay in step with the history of the run.
THEOREM FeedbackInvariant ==
  ASSUME PromptCallbacks
  PROVE  Spec => []FInv
<1>1. Init => FInv
  BY FInit
<1>2. FInv /\ [Next]_vars => FInv'
  BY FInvStep
<1> QED
  BY <1>1, <1>2, PTL DEF Spec

\* What cb_libfuzzer_import hands to libFuzzer is, for every number of threads,
\* connections, edges and children, the saturated tally of the input's own run.
THEOREM BridgeFeedbackExact ==
  ASSUME PromptCallbacks
  PROVE  Spec => []FeedbackExact
<1>1. FInv => FeedbackExact
  BY DEF FInv, Copied
<1> QED
  BY <1>1, FeedbackInvariant, PTL

\* An idle gate of an input in progress carries its completion: cb_wait_snapshot
\* does not time out on a run that has finished.
THEOREM BridgeIdleMeansCompleted ==
  ASSUME PromptCallbacks
  PROVE  Spec => []IdleMeansCompleted
<1>1. FInv => IdleMeansCompleted
  BY DEF FInv, Resolution, IdleMeansCompleted, GateForRun
<1> QED
  BY <1>1, FeedbackInvariant, PTL

-----------------------------------------------------------------------------
(* The bridge implements FeedbackRun.                                      *)

\* A step that leaves the gate, completion, the tally and what the engine holds
\* alone is no step of the measurement.
LEMMA NoMeasuredStep ==
  ASSUME UNCHANGED <<gate, completed_run, tally>>,
         cpc' = "imported" <=> cpc = "imported", cpc = "imported" => extra' = extra
  PROVE  UNCHANGED Measured!vars
BY DEF Measured!vars, Phase

\* A step that leaves the measurement alone, on which the engine loses what it
\* holds, if it holds anything.
LEMMA RetiredStep ==
  ASSUME UNCHANGED <<gate, completed_run, tally>>, cpc' # "imported"
  PROVE  Measured!Retire
BY DEF Measured!Retire, Phase

\* What the gate word says when a run is open.
LEMMA OpenPhase ==
  ASSUME IInv, gate.enabled
  PROVE  /\ gate.run # 0 /\ ~gate.finalizing /\ completed_run # gate.run
         /\ gate.active \in Nat /\ gate.run \in 0..MaxRun /\ cpc # "imported"
BY ConstAssumption DEF IInv, TypeOK, MapType, Gates, SealedShape, GateShape, GateIdle,
   GateForRun

\* A thread joins, hits or leaves the measurement, or it takes no part in it.
LEMMA ThreadMeasured ==
  ASSUME FInv, NEW t \in Threads, Thread(t)
  PROVE  Measured!Next \/ UNCHANGED Measured!vars
<1>1. /\ IInv /\ MidOfRun /\ Resolution /\ TypeOK /\ ThreadOk(t)
      /\ gate \in Gates /\ seen[t] \in Gates /\ gate.active \in Nat
      /\ cpc' = cpc /\ extra' = extra /\ run_id' = run_id
  BY ThreadFrame, ConstAssumption
     DEF FInv, IInv, TypeOK, MapType, WorkerType, Gates, ThreadShape, controller
<1>2. CASE Join(t)
  <2>1. /\ gate.enabled /\ gate' = [gate EXCEPT !.active = gate.active + 1]
        /\ UNCHANGED <<completed_run, tally>>
    BY <1>1, <1>2 DEF Join, Swapped, ThreadOk, Admits, history
  <2>2. gate'.enabled /\ gate'.run = gate.run /\ gate'.active = gate.active + 1
    BY <1>1, <2>1 DEF Gates
  <2>3. Measured!Join
    BY <1>1, <2>1, <2>2 DEF Measured!Join, Phase
  <2> QED
    BY <2>3 DEF Measured!Next
<1>3. CASE HitAdd(t)
  <2>1. /\ UNCHANGED <<gate, completed_run>> /\ thread_run[t] = gate.run /\ gate.run # 0
        /\ tally' = IF gate.run = run_id
                      THEN [tally EXCEPT ![slot[t]] = tally[slot[t]] + 1] ELSE tally
        /\ slot[t] \in Slots /\ pc[t] = "add"
    BY <1>1, <1>3 DEF HitAdd, MidOfRun, TypeOK, WorkerType
  <2>2. gate.active # 0
    BY <1>1, <2>1, NoHits
  <2>3. ~gate.finalizing /\ completed_run # gate.run
    BY <1>1, <2>1, <2>2 DEF IInv, SealedShape
  <2>4. CASE gate.enabled
    <3>1. gate.run = run_id
      BY <1>1, <2>4 DEF IInv, GateShape
    <3>2. Measured!Hit(slot[t])
      BY <1>1, <2>1, <2>2, <2>4, <3>1 DEF Measured!Hit, Phase
    <3> QED
      BY <2>1, <3>2 DEF Measured!Next, Slots
  <2>5. CASE ~gate.enabled
    BY <1>1, <2>1, <2>3, <2>5 DEF Measured!vars, Phase
  <2> QED
    BY <2>4, <2>5
<1>4. CASE Leave(t)
  <2>1. /\ gate = seen[t] /\ gate' = Desired(gate) /\ UNCHANGED <<completed_run, tally>>
        /\ gate.active # 0 /\ gate.run # 0
    BY <1>1, <1>4 DEF Leave, Swapped, ThreadOk, history
  <2>2. ~gate.finalizing /\ completed_run # gate.run
    BY <1>1, <2>1 DEF IInv, SealedShape
  <2>3. CASE IsLastClose(gate)
    <3>1. gate.enabled /\ gate.active = 1 /\ gate' = FinalGate(gate.run)
      BY <2>1, <2>3 DEF Desired, IsLastClose
    <3>2. gate'.run = gate.run /\ ~gate'.enabled /\ gate'.finalizing
      BY <3>1 DEF FinalGate, GateForRun
    <3>3. Measured!Leave
      BY <1>1, <2>1, <3>1, <3>2 DEF Measured!Leave, Phase
    <3> QED
      BY <3>3 DEF Measured!Next
  <2>4. CASE ~IsLastClose(gate)
    <3>1. gate' = [gate EXCEPT !.active = gate.active - 1]
      BY <2>1, <2>4 DEF Desired
    <3>2. /\ gate'.run = gate.run /\ gate'.enabled = gate.enabled
          /\ gate'.finalizing = gate.finalizing /\ gate'.active = gate.active - 1
      BY <1>1, <3>1 DEF Gates
    <3>3. CASE gate.enabled
      <4>1. gate.active > 0 /\ gate.active # 1
        BY <1>1, <2>1, <2>4, <3>3 DEF IsLastClose
      <4>2. Measured!Leave
        BY <1>1, <2>1, <3>2, <3>3, <4>1 DEF Measured!Leave, Phase
      <4> QED
        BY <4>2 DEF Measured!Next
    <3>4. CASE ~gate.enabled
      BY <1>1, <2>1, <2>2, <3>2, <3>4 DEF Measured!vars, Phase
    <3> QED
      BY <3>3, <3>4
  <2> QED
    BY <2>3, <2>4
<1>5. CASE Publish(t)
  <2>1. /\ completed_run' = gate.run /\ UNCHANGED <<gate, tally>>
        /\ gate.finalizing /\ gate.run # 0
    BY <1>1, <1>5, NoFinalizer DEF Publish, MidOfRun, Finishing, ThreadOk, history
  <2>2. ~gate.enabled
    BY <1>1, <2>1 DEF IInv, SealedShape
  <2> QED
    BY <1>1, <2>1, <2>2 DEF Measured!vars, Phase
<1>6. CASE Settle(t)
  <2>1. /\ gate' = (IF gate = FinalGate(gate.run) THEN GateForRun(gate.run) ELSE gate)
        /\ UNCHANGED <<completed_run, tally>> /\ completed_run = gate.run
        /\ gate.finalizing /\ gate.run # 0
    BY <1>1, <1>6, NoFinalizer
       DEF Settle, MidOfRun, Resolution, Finishing, ThreadOk, history
  <2>2. ~gate.enabled
    BY <1>1, <2>1 DEF IInv, SealedShape
  <2>3. gate'.run = gate.run /\ ~gate'.enabled
    BY <2>1, <2>2 DEF GateForRun
  <2> QED
    BY <1>1, <2>1, <2>2, <2>3 DEF Measured!vars, Phase
<1>7. CASE UNCHANGED <<gate, completed_run, tally>>
  BY <1>1, <1>7, NoMeasuredStep
<1> QED
  BY <1>1, <1>2, <1>3, <1>4, <1>5, <1>6, <1>7, GateThreadWriters, CompletedThreadWriters,
     CountWriters DEF Join, Leave, Settle, Publish, HitAdd, history

\* The controller's writers of the words that the measurement is made of.
LEMMA MeasuredWriters ==
  ASSUME Controller, ~FatalExit
  PROVE  \/ UNCHANGED <<gate, completed_run, tally>>
         \/ ClaimCloseAdmission \/ ClaimStoreGate \/ BeginOpen \/ CancelCloseAdmission
         \/ ClaimClearCompleted \/ BeginClearCompleted \/ CancelDone \/ CancelBusy
BY DEF Controller, Quiet, Move, Goto, cb_claim_controller, cb_begin, cb_cancel,
   cb_wait_snapshot, fuzzServer, shared, ControllerOnly, history, ClaimRefused, ClaimDrain,
   ClaimStoreRun, ClaimStorePid, BeginFails, BeginCheck, BeginZero, BeginClearOverflow,
   BeginStoreRun, ConnectFails, InputSent, WaitCompleted, WaitGate, WaitTimeout,
   CheckFails, CheckRun, CopyCount, CopyDone, Import, DriverReturns, Fail, LeaveController

\* A measurement is void when its gate is not open, not final and not complete.
LEMMA VoidStep ==
  ASSUME ~gate'.enabled, ~gate'.finalizing, gate'.run = 0 \/ completed_run' # gate'.run,
         gate'.run \in gate.run..MaxRun, cpc' # "imported"
  PROVE  Measured!Void
BY DEF Measured!Void, Measured!Zeros, Zeros, Slots, Phase

\* The controller opens, voids or delivers the measurement, or the engine loses what
\* it held.
LEMMA ControllerMeasured ==
  ASSUME FInv, FInv', Controller, ~FatalExit
  PROVE  Measured!Next
<1>1. /\ IInv /\ Resolution /\ Completion /\ Copied /\ FeedbackExact'
      /\ gate \in Gates /\ gate.run \in Nat /\ MaxRun \in Nat /\ run_id \in 0..MaxRun
      /\ gate.run \in 0..MaxRun /\ completed_run \in Nat
      /\ gate.run <= run_id /\ completed_run <= gate.run
  BY ConstAssumption DEF FInv, Copied, IInv, TypeOK, MapType, Gates, GateShape, RunOrder
<1>2. CASE ClaimCloseAdmission \/ CancelCloseAdmission
  <2>1. /\ gate' = gate \/ gate' = Shut(gate)
        /\ UNCHANGED <<completed_run, tally>> /\ cpc' # "imported"
    BY <1>2 DEF ClaimCloseAdmission, CancelCloseAdmission, Goto, Quiet, ControllerOnly, history
  <2>2. CASE gate' = gate
    BY <2>1, <2>2, RetiredStep DEF Measured!Next
  <2>3. CASE gate' # gate
    <3>1. gate' = Shut(gate) /\ gate.enabled
      BY <1>1, <2>1, <2>3 DEF Shut, Gates
    <3>2. /\ gate'.run = gate.run /\ ~gate'.enabled
          /\ gate'.finalizing = gate.finalizing
      BY <1>1, <3>1 DEF Shut, Gates
    <3>3. ~gate.finalizing /\ completed_run # gate.run
      BY <1>1, <3>1, OpenPhase
    <3> QED
      BY <1>1, <2>1, <3>2, <3>3, VoidStep DEF Measured!Next
  <2> QED
    BY <2>2, <2>3
<1>3. CASE ClaimStoreGate
  <2>1. /\ gate' = GateForRun(run_id) /\ completed_run' = completed_run
        /\ cpc' # "imported" /\ (run_id = 0 \/ gate.run < run_id)
    BY <1>1, <1>3 DEF ClaimStoreGate, Goto, IInv, GateShape
  <2>2. gate'.run = run_id /\ ~gate'.enabled /\ ~gate'.finalizing
    BY <2>1 DEF GateForRun
  <2>3. gate'.run = 0 \/ completed_run' # gate'.run
    BY <1>1, <2>1, <2>2
  <2> QED
    BY <1>1, <2>1, <2>2, <2>3, VoidStep DEF Measured!Next
<1>4. CASE ClaimClearCompleted \/ BeginClearCompleted \/ CancelDone \/ CancelBusy
  <2>1. /\ completed_run' = 0 /\ gate' = gate /\ cpc' # "imported"
        /\ cpc \in GateIdle \union {"cancel_busy"}
    BY <1>4 DEF ClaimClearCompleted, BeginClearCompleted, CancelDone, CancelBusy, Goto, GateIdle
  <2>2. ~gate.enabled /\ ~gate.finalizing
    BY <1>1, <2>1, IdleGate DEF Resolution, IInv, GateShape, GateShut
  <2> QED
    BY <1>1, <2>1, <2>2, VoidStep DEF Measured!Next
<1>5. CASE BeginOpen
  <2>1. /\ gate = GateForRun(run_id - 1) /\ gate' = OpenGate(run_id) /\ run_id # 0
        /\ completed_run' = completed_run /\ completed_run = 0
        /\ tally' = Zeros /\ cpc # "imported" /\ cpc' # "imported"
    BY <1>1, <1>5 DEF BeginOpen, Goto, IInv, GateShape, Completion
  <2>2. /\ gate.run = run_id - 1 /\ ~gate.enabled /\ ~gate.finalizing
        /\ gate'.run = run_id /\ gate'.enabled /\ gate'.active = 0
    BY <2>1 DEF GateForRun, OpenGate
  <2>3. gate'.run \in (gate.run + 1)..MaxRun
    BY <1>1, <2>2
  <2>4. Measured!Open
    BY <2>1, <2>2, <2>3 DEF Measured!Open, Phase
  <2> QED
    BY <2>4 DEF Measured!Next
<1>6. CASE UNCHANGED <<gate, completed_run, tally>> /\ cpc' # "imported"
  BY <1>6, RetiredStep DEF Measured!Next
<1>7. CASE Import
  <2>1. /\ cpc = "import" /\ cpc' = "imported" /\ UNCHANGED <<gate, completed_run, tally>>
        /\ extra' = [s \in Slots |-> Saturate(extra[s], snapshot[s])]
    BY <1>7 DEF Import, Goto, shared, ControllerOnly, history
  <2>2. gate = GateForRun(run_id) /\ completed_run = run_id /\ run_id # 0
    BY <1>1, <2>1 DEF IInv, GateShape, GateIdle, Completion
  <2>3. Phase = "sealed"
    BY <2>2 DEF GateForRun, Phase
  <2>4. extra' = [s \in 1..nslots |-> Measured!Saturated(tally[s])]
    BY <1>1, <2>1 DEF FeedbackExact, Measured!Saturated, Least, Slots
  <2>5. \A s \in 1..nslots : tally[s] <= MaxCount
    BY <1>1, <2>1 DEF Copied, Slots
  <2>6. Measured!Deliver
    BY <2>1, <2>3, <2>4, <2>5 DEF Measured!Deliver, Phase
  <2> QED
    BY <2>6 DEF Measured!Next
<1> QED
  BY <1>1, <1>2, <1>3, <1>4, <1>5, <1>6, <1>7, MeasuredWriters, ControllerStages

\* Every step of the bridge is a step of the measurement, or none.
LEMMA MeasuredStep ==
  ASSUME FInv, FInv', [Next]_vars
  PROVE  [Measured!Next]_(Measured!vars)
<1>1. ASSUME NEW p \in Procs, LockFile(p) PROVE UNCHANGED Measured!vars
  <2>1. /\ UNCHANGED <<gate, completed_run, tally>> /\ cpc = "none" /\ cpc' = "claim"
    BY <1>1 DEF LockFile, shared, ControllerOnly, history, FInv, IInv, ControllerShape
  <2> QED
    BY <2>1, NoMeasuredStep
<1>2. ASSUME NEW p \in Procs, Die(p) PROVE Measured!Next \/ UNCHANGED Measured!vars
  <2>1. /\ UNCHANGED <<gate, completed_run, tally>>
        /\ cpc' = "none" \/ UNCHANGED <<cpc, extra>>
    BY <1>2 DEF Die, shared
  <2> QED
    BY <2>1, NoMeasuredStep, RetiredStep DEF Measured!Next
<1>3. CASE UNCHANGED vars
  BY <1>3, NoMeasuredStep DEF vars, shared, controller, history
<1> QED
  BY <1>1, <1>2, <1>3, Steps, ControllerMeasured, ThreadMeasured DEF FInv, IInv

\* The bridge, with its words, threads and processes, implements FeedbackRun:
\* inputs are measured one at a time, a measurement is sealed when its last member
\* leaves, and the engine gets the tally of a sealed measurement or nothing.
THEOREM BridgeImplementsFeedbackRun ==
  ASSUME PromptCallbacks
  PROVE  Spec => ImplementsFeedbackRun
<1>1. Init => Measured!Init
  BY DEF Init, Measured!Init, Measured!Zeros, Phase, GateForRun, Zeros, Slots
<1>2. FInv /\ FInv' /\ [Next]_vars => [Measured!Next]_(Measured!vars)
  BY MeasuredStep
<1> QED
  BY <1>1, <1>2, FeedbackInvariant, PTL DEF Spec, Measured!Spec, ImplementsFeedbackRun

-----------------------------------------------------------------------------
(* What whoever implements FeedbackRun keeps, for the bridge. *)

\* A step of the measurement keeps what was promised, seals for good and opens
\* under a number of its own.
LEMMA PromiseStep ==
  ASSUME Measured!Promised, [Measured!Next]_(Measured!vars)
  PROVE  /\ Measured!Promised'
         /\ Measured!FinalStep /\ Measured!AscendingStep
<1> USE DEF Measured!Promised, Measured!FinalStep, Measured!AscendingStep
<1>1. CASE UNCHANGED Measured!vars
  <2>1. /\ gate'.run = gate.run /\ Phase' = Phase
        /\ UNCHANGED (IF Phase = "open" THEN gate.active ELSE 0)
        /\ UNCHANGED (IF Phase = "void" THEN Zeros ELSE tally)
        /\ UNCHANGED (IF cpc = "imported" THEN {extra} ELSE {})
    BY <1>1 DEF Measured!vars
  <2>2. Measured!Promised'
    BY <2>1 DEF Measured!Saturated
  <2>3. Measured!FinalStep
    BY <2>1
  <2>4. Measured!AscendingStep
    BY <2>1
  <2> QED
    BY <2>2, <2>3, <2>4
<1>2. CASE Measured!Open
  BY <1>2 DEF Measured!Open
<1>3. CASE Measured!Join
  BY <1>3 DEF Measured!Join
<1>4. ASSUME NEW s \in 1..nslots, Measured!Hit(s)
      PROVE  /\ Measured!Promised'
             /\ Measured!FinalStep /\ Measured!AscendingStep
  BY <1>4 DEF Measured!Hit
<1>5. CASE Measured!Leave
  <2>1. /\ Phase = "open" /\ gate.active > 0 /\ gate'.run = gate.run
        /\ Phase' = IF gate.active = 1 THEN "sealed" ELSE "open"
        /\ (IF Phase' = "open" THEN gate'.active ELSE 0) = gate.active - 1
        /\ (IF cpc = "imported" THEN {extra} ELSE {}) = {}
        /\ (IF cpc' = "imported" THEN {extra'} ELSE {}) = {}
    BY <1>5 DEF Measured!Leave
  <2>2. Measured!Promised'
    BY <2>1
  <2>3. Measured!FinalStep
    BY <2>1
  <2>4. Measured!AscendingStep
    BY <2>1
  <2> QED
    BY <2>2, <2>3, <2>4
<1>6. CASE Measured!Deliver
  BY <1>6 DEF Measured!Deliver, Measured!Saturated
<1>7. CASE Measured!Retire
  BY <1>7 DEF Measured!Retire
<1>8. CASE Measured!Void
  BY <1>8 DEF Measured!Void
<1> QED
  BY <1>1, <1>2, <1>3, <1>4, <1>5, <1>6, <1>7, <1>8 DEF Measured!Next

\* What libFuzzer holds after an import is the tally of one sealed run, at the width
\* of its bytes, as long as it holds it: a sealed run takes no hit, no connection
\* and no other number, whatever threads and processes do.
THEOREM BridgeSealedIsFinal ==
  ASSUME PromptCallbacks
  PROVE  Spec => /\ []Measured!Promised
                 /\ Measured!SealedIsFinal /\ Measured!RunsAscend
<1>1. Measured!Init => Measured!Promised
  BY DEF Measured!Init, Measured!Promised
<1>2. Measured!Promised /\ [Measured!Next]_(Measured!vars) =>
        Measured!Promised' /\ [Measured!FinalStep]_(Measured!vars)
                           /\ [Measured!AscendingStep]_(Measured!vars)
  BY PromiseStep
<1> QED
  BY <1>1, <1>2, BridgeImplementsFeedbackRun, PTL
     DEF ImplementsFeedbackRun, Measured!Spec, Measured!SealedIsFinal, Measured!RunsAscend
=============================================================================
