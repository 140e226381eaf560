-------------------------- MODULE CovbridgeProofs --------------------------
(***************************************************************************)
(* TLAPS proofs about Covbridge, for every number of children, threads,    *)
(* connections and edges and every width of the fields.  IInv of           *)
(* CovbridgeInv is shown inductive, one conjunct per lemma; the safety     *)
(* properties follow from it.                                              *)
(***************************************************************************)
EXTENDS CovbridgeInv, FiniteSetTheorems, TLAPS

-----------------------------------------------------------------------------
(* Who writes what.                                                        *)

\* The steps of a live controller never touch a thread or a connection.
LEMMA ControllerFrame ==
  ASSUME Controller, ~FatalExit
  PROVE  UNCHANGED workers
BY DEF Controller, Quiet, Move, Goto, cb_claim_controller, cb_begin, cb_cancel,
       cb_wait_snapshot, fuzzServer, ControllerOnly, ClaimRefused, ClaimCloseAdmission,
       ClaimDrain, ClaimStoreRun, ClaimStoreGate, ClaimClearCompleted,
       ClaimStorePid, BeginFails, BeginCheck, BeginZero, BeginClearOverflow,
       BeginClearCompleted, BeginStoreRun, BeginOpen, ConnectFails, InputSent,
       CancelCloseAdmission, CancelDone, CancelBusy, WaitCompleted, WaitGate,
       WaitTimeout, CheckFails, CheckRun, CopyCount, CopyDone, Import,
       DriverReturns, Fail, LeaveController

\* Only ClaimStoreGate and BeginOpen of the controller touch the history.
LEMMA ControllerHistory ==
  ASSUME Controller, ~FatalExit, ~ClaimStoreGate, ~BeginOpen
  PROVE  UNCHANGED history
BY DEF Controller, Quiet, Move, Goto, cb_claim_controller, cb_begin, cb_cancel,
       cb_wait_snapshot, fuzzServer, ControllerOnly, ClaimRefused, ClaimCloseAdmission,
       ClaimDrain, ClaimStoreRun, ClaimClearCompleted,
       ClaimStorePid, BeginFails, BeginCheck, BeginZero, BeginClearOverflow,
       BeginClearCompleted, BeginStoreRun, ConnectFails, InputSent,
       CancelCloseAdmission, CancelDone, CancelBusy, WaitCompleted, WaitGate,
       WaitTimeout, CheckFails, CheckRun, CopyCount, CopyDone, Import,
       DriverReturns, Fail, LeaveController

\* A thread never writes run_id or controller_pid, nor the controller's state.
LEMMA ThreadFrame ==
  ASSUME NEW t \in Threads, Thread(t)
  PROVE  UNCHANGED <<run_id, controller_pid, controller>>
BY DEF Thread, Continue, Local, shared, ThreadsOnly, JoinLoad, JoinCheckRun, Join, JoinRetry,
       HitLoad, HitAdd, HitOverflow, Suspend, Resume, CloseStart, CloseParked,
       CloseCheckRun, CloseLoad, Leave, LeaveRetry, SealCheckRun, Publish, Settle

\* The controller's writers of the gate word.
LEMMA GateWriters ==
  ASSUME Controller, ~FatalExit
  PROVE  \/ UNCHANGED gate
         \/ ClaimCloseAdmission \/ ClaimStoreGate \/ BeginOpen
         \/ CancelCloseAdmission
BY DEF Controller, Quiet, Move, Goto, cb_claim_controller, cb_begin, cb_cancel,
       cb_wait_snapshot, fuzzServer, shared, ClaimRefused, ClaimDrain, ClaimStoreRun,
       ClaimClearCompleted, ClaimStorePid, BeginFails, BeginCheck, BeginZero,
       BeginClearOverflow, BeginClearCompleted, BeginStoreRun, ConnectFails,
       InputSent, CancelDone, CancelBusy, WaitCompleted, WaitGate, WaitTimeout,
       CheckFails, CheckRun, CopyCount, CopyDone, Import, DriverReturns, Fail,
       LeaveController

\* The threads' writers of the gate word.
LEMMA GateThreadWriters ==
  ASSUME NEW t \in Threads, Thread(t)
  PROVE  UNCHANGED gate \/ Join(t) \/ Leave(t) \/ Settle(t)
BY DEF Thread, Continue, Local, shared, JoinLoad, JoinCheckRun, JoinRetry,
       HitLoad, HitAdd, HitOverflow, Suspend, Resume, CloseStart, CloseParked,
       CloseCheckRun, CloseLoad, LeaveRetry, SealCheckRun, Publish

\* The controller only ever clears completed_run.
LEMMA CompletedWriters ==
  ASSUME Controller, ~FatalExit
  PROVE  UNCHANGED completed_run \/ completed_run' = 0
BY DEF Controller, Quiet, Move, Goto, cb_claim_controller, cb_begin, cb_cancel,
       cb_wait_snapshot, fuzzServer, shared, ClaimRefused, ClaimCloseAdmission,
       ClaimDrain, ClaimStoreRun, ClaimStoreGate, ClaimClearCompleted,
       ClaimStorePid, BeginFails, BeginCheck, BeginZero, BeginClearOverflow,
       BeginClearCompleted, BeginStoreRun, BeginOpen, ConnectFails, InputSent,
       CancelCloseAdmission, CancelDone, CancelBusy, WaitCompleted, WaitGate,
       WaitTimeout, CheckFails, CheckRun, CopyCount, CopyDone, Import,
       DriverReturns, Fail, LeaveController

\* A thread writes completed_run only to publish.
LEMMA CompletedThreadWriters ==
  ASSUME NEW t \in Threads, Thread(t)
  PROVE  UNCHANGED completed_run \/ Publish(t)
BY DEF Thread, Continue, Local, shared, JoinLoad, JoinCheckRun, Join, JoinRetry,
       HitLoad, HitAdd, HitOverflow, Suspend, Resume, CloseStart, CloseParked,
       CloseCheckRun, CloseLoad, Leave, LeaveRetry, SealCheckRun, Settle

\* A step is one of a live controller, of the lock queue, of a thread, the
\* death of a child, or none.
LEMMA Steps ==
  ASSUME TypeOK, ControllerShape, [Next]_vars
  PROVE  \/ Controller /\ ~FatalExit
         \/ \E p \in Procs : LockFile(p)
         \/ \E p \in Procs : Die(p)
         \/ \E t \in Threads : Thread(t)
         \/ UNCHANGED vars
<1>1. CASE FatalExit
  <2>1. lock \in Procs
    BY <1>1 DEF FatalExit, TypeOK, ControllerType, ControllerShape
  <2> QED  BY <1>1, <2>1 DEF FatalExit
<1>2. CASE \E p \in Procs : Crash(p)
  BY <1>2 DEF Crash
<1> QED  BY <1>1, <1>2 DEF Next

-----------------------------------------------------------------------------
(* The controller and the gate.                                            *)

\* Initially the invariant holds (cb_init).
LEMMA InitIInv == Init => IInv
<1> SUFFICES ASSUME Init PROVE IInv
  OBVIOUS
<1> USE ConstAssumption
<1>1. TypeOK
  <2>1. MapType
    <3>1. gate \in Gates /\ counts \in [Slots -> 0..MaxCount]
      BY SMT DEF Init, Gates, GateForRun, Zeros
    <3>2. run_id \in 0..MaxRun /\ completed_run \in 0..MaxRun
      BY SMT DEF Init
    <3> QED  BY <3>1, <3>2 DEF Init, MapType
  <2>2. ControllerType
    BY SMT DEF Init, ControllerType, ControllerSteps, Zeros
  <2>3. WorkerType
    <3>1. seen \in [Threads -> Gates]
      BY SMT DEF Init, Gates, GateForRun
    <3>2. pc \in [Threads -> ThreadSteps] /\ slot \in [Threads -> Slots]
      BY SMT DEF Init, ThreadSteps, Slots
    <3> QED  BY <3>1, <3>2, SMT DEF Init, WorkerType
  <2>4. HistoryType
    BY SMT DEF Init, HistoryType, Zeros
  <2> QED  BY <2>1, <2>2, <2>3, <2>4 DEF TypeOK
<1>2. ControllerShape /\ GateShape /\ RunOrder /\ SealedShape
  BY SMT DEF Init, ControllerShape, Claiming, ClaimExhausted, GateShape,
             GateIdle, GateOfRun, GateShut, GateForRun, RunOrder, SealedShape
<1>3. ThreadShape /\ TagFollowsConnection /\ OneFinalizer
  BY SMT DEF Init, ThreadShape, ThreadOk, OneThreadEach, TagFollowsConnection,
             OneFinalizer, Finishing
<1>4. GateCountsMembers
  <2>1. Members(gate.run) = {}
    BY SMT DEF Init, Members, GateForRun
  <2>2. gate.active = 0 /\ lost = 0
    BY DEF Init, GateForRun
  <2> QED  BY <2>1, <2>2, FS_EmptySet DEF GateCountsMembers
<1> QED  BY <1>1, <1>2, <1>3, <1>4 DEF IInv

\* The lock, controller_pid and the bounds on run_id, step by step.
LEMMA ControllerShapeStep ==
  ASSUME TypeOK, ControllerShape, [Next]_vars
  PROVE  ControllerShape'
<1> USE ConstAssumption DEF TypeOK, MapType, ControllerType, ControllerShape,
                            Claiming, Goto, Move, ClaimExhausted
<1>1. CASE Controller /\ ~FatalExit
  <2>1. CASE cb_claim_controller
    BY <2>1, SMT DEF cb_claim_controller, ClaimRefused, ClaimCloseAdmission,
         ClaimDrain, ClaimStoreRun, ClaimStoreGate, ClaimClearCompleted,
         ClaimStorePid, LeaveController, shared
  <2>2. CASE cb_begin
    BY <2>2, SMT DEF cb_begin, BeginRefused, BeginFails, BeginCheck, BeginZero,
         BeginClearOverflow, BeginClearCompleted, BeginStoreRun, NextRun,
         BeginOpen, Fail, shared
  <2>3. CASE cb_cancel
    BY <2>3, SMT DEF cb_cancel, CancelCloseAdmission, CancelDone, CancelBusy
  <2>4. CASE cb_wait_snapshot
    BY <2>4, SMT DEF cb_wait_snapshot, WaitCompleted, WaitGate, WaitTimeout,
         CheckFails, CheckRun, CopyCount, CopyDone, Fail, shared
  <2>5. CASE fuzzServer
    BY <2>5, SMT DEF fuzzServer, ConnectFails, InputSent, Import,
         DriverReturns, LeaveController, shared
  <2> QED  BY <1>1, <2>1, <2>2, <2>3, <2>4, <2>5 DEF Controller
<1>2. ASSUME NEW p \in Procs, LockFile(p) PROVE ControllerShape'
  BY <1>2, SMT DEF LockFile, shared
<1>3. ASSUME NEW p \in Procs, Die(p) PROVE ControllerShape'
  BY <1>3, SMT DEF Die, shared
<1>4. ASSUME NEW t \in Threads, Thread(t) PROVE ControllerShape'
  BY <1>4, ThreadFrame, SMT DEF controller
<1>5. CASE UNCHANGED vars
  BY <1>5, SMT DEF vars, shared, controller
<1> QED  BY <1>1, <1>2, <1>3, <1>4, <1>5, Steps

\* What the gate word is at each step of the controller, and that it never
\* runs ahead of run_id.
LEMMA GateShapeStep ==
  ASSUME TypeOK, ControllerShape, GateShape, ThreadShape, [Next]_vars
  PROVE  GateShape'
<1> USE ConstAssumption
<1> USE DEF TypeOK, MapType, ControllerType, ControllerShape, Claiming, Goto,
            Move, ClaimExhausted, GateShape, GateIdle, GateOfRun, GateShut,
            GateForRun, OpenGate, Shut, Gates
<1>1. CASE Controller /\ ~FatalExit
  <2>1. CASE cb_claim_controller
    BY <2>1, SMT DEF cb_claim_controller, ClaimRefused, ClaimCloseAdmission,
         ClaimDrain, ClaimStoreRun, ClaimStoreGate, ClaimClearCompleted,
         ClaimStorePid, LeaveController, shared
  <2>2. CASE cb_begin
    BY <2>2, SMT DEF cb_begin, BeginRefused, BeginFails, BeginCheck, BeginZero,
         BeginClearOverflow, BeginClearCompleted, BeginStoreRun, NextRun,
         BeginOpen, Fail, shared
  <2>3. CASE cb_cancel
    BY <2>3, SMT DEF cb_cancel, CancelCloseAdmission, CancelMayClose,
         CancelDone, CancelBusy
  <2>4. CASE cb_wait_snapshot
    BY <2>4, SMT DEF cb_wait_snapshot, WaitCompleted, WaitGate, WaitTimeout,
         CheckFails, CheckRun, CopyCount, CopyDone, Fail, shared
  <2>5. CASE fuzzServer
    BY <2>5, SMT DEF fuzzServer, ConnectFails, InputSent, Import,
         DriverReturns, LeaveController, shared
  <2> QED  BY <1>1, <2>1, <2>2, <2>3, <2>4, <2>5 DEF Controller
<1>2. ASSUME NEW p \in Procs, LockFile(p) PROVE GateShape'
  BY <1>2, SMT DEF LockFile, shared
<1>3. ASSUME NEW p \in Procs, Die(p) PROVE GateShape'
  BY <1>3, SMT DEF Die, shared
<1>4. ASSUME NEW t \in Threads, Thread(t) PROVE GateShape'
  <2>1. run_id' = run_id /\ cpc' = cpc
    BY <1>4, ThreadFrame DEF controller
  <2>2. CASE UNCHANGED gate
    BY <2>1, <2>2, SMT
  <2>3. CASE Join(t)
    <3>1. gate = seen[t] /\ gate.enabled
      BY <2>3 DEF Join, Swapped, ThreadShape, ThreadOk, Admits
    <3>2. gate' = [gate EXCEPT !.active = @ + 1]
      BY <2>3, <3>1 DEF Join
    <3> QED  BY <2>1, <3>1, <3>2, SMT
  <2>4. CASE Leave(t)
    <3>1. gate = seen[t] /\ gate.active # 0
      BY <2>4 DEF Leave, Swapped, ThreadShape, ThreadOk
    <3>2. gate' = Desired(gate)
      BY <2>4, <3>1 DEF Leave
    <3> QED  BY <2>1, <3>1, <3>2, SMT DEF Desired, IsLastClose, FinalGate
  <2>5. CASE Settle(t)
    <3>1. CASE gate = FinalGate(seen[t].run)
      <4>1. gate.finalizing /\ gate' = GateForRun(gate.run)
        BY <2>5, <3>1, SMT DEF Settle, FinalGate
      <4> QED  BY <2>1, <4>1, SMT
    <3>2. CASE gate # FinalGate(seen[t].run)
      BY <2>1, <2>2, <2>5, <3>2 DEF Settle
    <3> QED  BY <3>1, <3>2
  <2> QED  BY <1>4, <2>2, <2>3, <2>4, <2>5, GateThreadWriters
<1>5. CASE UNCHANGED vars
  BY <1>5, SMT DEF vars, shared, controller
<1> QED  BY <1>1, <1>2, <1>3, <1>4, <1>5, Steps

-----------------------------------------------------------------------------
(* Types.                                                                  *)

\* The operators on gate words keep the run in 42 and the count in 20 bits.
LEMMA GateOps ==
  /\ \A r \in 0..MaxRun : GateForRun(r) \in Gates /\ OpenGate(r) \in Gates
                          /\ FinalGate(r) \in Gates
  /\ \A g \in Gates : Shut(g) \in Gates
  /\ \A g \in Gates : Admits(g) => [g EXCEPT !.active = @ + 1] \in Gates
  /\ \A g \in Gates : g.active # 0 => Desired(g) \in Gates
<1> USE ConstAssumption DEF Gates
<1>1. ASSUME NEW r \in 0..MaxRun
      PROVE  /\ GateForRun(r) \in Gates
             /\ OpenGate(r) \in Gates
             /\ FinalGate(r) \in Gates
  <2>1. 0 \in 0..MaxActive
    BY SMT
  <2>2. GateForRun(r) \in Gates
    BY <2>1 DEF GateForRun
  <2>3. OpenGate(r) \in Gates
    BY <2>2 DEF OpenGate
  <2>4. FinalGate(r) \in Gates
    BY <2>2 DEF FinalGate
  <2> QED  BY <2>2, <2>3, <2>4
<1>2. ASSUME NEW g \in Gates PROVE Shut(g) \in Gates
  BY Zenon DEF Shut
<1>3. \A g \in Gates : Admits(g) => [g EXCEPT !.active = @ + 1] \in Gates
  BY SMT DEF Admits
<1>4. ASSUME NEW g \in Gates, g.active # 0 PROVE Desired(g) \in Gates
  BY <1>1, <1>4, SMT DEF Desired, IsLastClose
<1> QED  BY <1>1, <1>2, <1>3, <1>4

\* The shared map keeps its type.
LEMMA MapTypeStep ==
  ASSUME TypeOK, ControllerShape, ThreadShape, [Next]_vars
  PROVE  MapType'
<1> USE ConstAssumption DEF TypeOK, MapType
<1>1. CASE Controller /\ ~FatalExit
  <2>1. gate' \in Gates
    BY <1>1, GateWriters, GateOps DEF ClaimCloseAdmission, ClaimStoreGate,
       BeginOpen, CancelCloseAdmission
  <2>2. completed_run' \in 0..MaxRun
    BY <1>1, CompletedWriters, SMT
  <2>3. /\ run_id' \in 0..MaxRun /\ controller_pid' \in Procs \union {NoProc}
        /\ overflow' \in BOOLEAN /\ counts' \in [Slots -> 0..MaxCount]
    <3> USE DEF ControllerType, ControllerShape, ClaimExhausted, Claiming, Goto,
                Move
    <3>1. CASE cb_claim_controller
      BY <3>1, SMT DEF cb_claim_controller, ClaimRefused, ClaimCloseAdmission,
           ClaimDrain, ClaimStoreRun, ClaimStoreGate, ClaimClearCompleted,
           ClaimStorePid, LeaveController, shared
    <3>2. CASE cb_begin
      <4>1. CASE BeginZero
        <5>1. index \in Slots
          BY <4>1, SMT DEF BeginZero, Slots
        <5>2. counts' \in [Slots -> 0..MaxCount]
          BY <4>1, <5>1, SMT DEF BeginZero
        <5> QED  BY <4>1, <5>2 DEF BeginZero
      <4>2. CASE BeginStoreRun
        <5>1. run_id' \in 0..MaxRun
          BY <4>2, SMT DEF BeginStoreRun, NextRun
        <5> QED  BY <4>2, <5>1 DEF BeginStoreRun
      <4>3. CASE cb_begin /\ ~BeginZero /\ ~BeginStoreRun
        BY <4>3 DEF cb_begin, BeginFails, BeginCheck, BeginClearOverflow,
           BeginClearCompleted, BeginOpen, Fail, shared
      <4> QED  BY <3>2, <4>1, <4>2, <4>3
    <3>3. CASE cb_cancel
      BY <3>3, SMT DEF cb_cancel, CancelCloseAdmission, CancelDone, CancelBusy
    <3>4. CASE cb_wait_snapshot
      BY <3>4, SMT DEF cb_wait_snapshot, WaitCompleted, WaitGate, WaitTimeout,
           CheckFails, CheckRun, CopyCount, CopyDone, Fail, shared
    <3>5. CASE fuzzServer
      BY <3>5, SMT DEF fuzzServer, ConnectFails, InputSent, Import,
           DriverReturns, LeaveController, shared
    <3> QED  BY <1>1, <3>1, <3>2, <3>3, <3>4, <3>5 DEF Controller
  <2> QED  BY <2>1, <2>2, <2>3
<1>2. CASE \E p \in Procs : LockFile(p) \/ Die(p)
  BY <1>2 DEF LockFile, Die, shared
<1>3. ASSUME NEW t \in Threads, Thread(t) PROVE MapType'
  <2>1. run_id' = run_id /\ controller_pid' = controller_pid
    BY <1>3, ThreadFrame
  <2>2. seen[t] \in Gates
    BY <1>3 DEF WorkerType
  <2>3. gate' \in Gates
    <3>1. CASE Join(t)
      BY <2>2, <3>1, GateOps DEF Join, ThreadShape, ThreadOk
    <3>2. CASE Leave(t)
      BY <2>2, <3>2, GateOps DEF Leave, ThreadShape, ThreadOk
    <3>3. CASE Settle(t)
      BY <2>2, <3>3, GateOps, SMT DEF Settle, Gates
    <3> QED  BY <1>3, <3>1, <3>2, <3>3, GateThreadWriters
  <2>4. completed_run' \in 0..MaxRun
    BY <1>3, <2>2, CompletedThreadWriters, SMT DEF Publish, Gates
  <2>5. overflow' \in BOOLEAN
    <3>1. UNCHANGED overflow \/ HitOverflow(t)
      BY <1>3 DEF Thread, Continue, Local, shared, JoinLoad, JoinCheckRun, Join,
         JoinRetry, HitLoad, HitAdd, Suspend, Resume, CloseStart, CloseParked,
         CloseCheckRun, CloseLoad, Leave, LeaveRetry, SealCheckRun, Publish,
         Settle
    <3> QED  BY <3>1 DEF HitOverflow
  <2>6. counts' \in [Slots -> 0..MaxCount]
    <3>1. UNCHANGED counts \/ HitAdd(t)
      BY <1>3 DEF Thread, Continue, Local, shared, JoinLoad, JoinCheckRun, Join,
         JoinRetry, HitLoad, HitOverflow, Suspend, Resume, CloseStart,
         CloseParked, CloseCheckRun, CloseLoad, Leave, LeaveRetry, SealCheckRun,
         Publish, Settle
    <3>2. CASE HitAdd(t)
      BY <3>2, SMT DEF HitAdd, WorkerType
    <3> QED  BY <3>1, <3>2
  <2> QED  BY <2>1, <2>3, <2>4, <2>5, <2>6
<1>4. CASE UNCHANGED vars
  BY <1>4 DEF vars, shared
<1> QED  BY <1>1, <1>2, <1>3, <1>4, Steps

\* The controller's own variables keep their types: the copy loop stays in
\* the map and an extra counter in its byte.
LEMMA ControllerTypeStep ==
  ASSUME TypeOK, ControllerShape, [Next]_vars
  PROVE  ControllerType'
<1> USE ConstAssumption DEF TypeOK, ControllerType, ControllerSteps, Zeros, Goto,
                            Move, Quiet
<1>1. CASE Controller /\ ~FatalExit
  <2>1. CASE cb_claim_controller
    BY <2>1, SMT DEF cb_claim_controller, ClaimRefused, ClaimCloseAdmission,
         ClaimDrain, ClaimStoreRun, ClaimStoreGate, ClaimClearCompleted,
         ClaimStorePid, LeaveController
  <2>2. CASE cb_begin
    BY <2>2, SMT DEF cb_begin, BeginFails, BeginCheck, BeginZero,
         BeginClearOverflow, BeginClearCompleted, BeginStoreRun, BeginOpen, Fail
  <2>3. CASE cb_cancel
    BY <2>3, SMT DEF cb_cancel, CancelCloseAdmission, CancelDone, CancelBusy
  <2>4. CASE cb_wait_snapshot
    <3>1. CASE CopyCount
      <4>1. index \in Slots /\ index' \in 1..(nslots + 1)
        BY <3>1, SMT DEF CopyCount, Slots
      <4>2. snapshot' \in [Slots -> 0..MaxCount]
        BY <3>1, <4>1 DEF CopyCount, MapType
      <4> QED  BY <3>1, <4>1, <4>2 DEF CopyCount
    <3>2. CASE cb_wait_snapshot /\ ~CopyCount
      BY <3>2, SMT DEF cb_wait_snapshot, WaitCompleted, WaitGate, WaitTimeout,
           CheckFails, CheckRun, CopyDone, Fail
    <3> QED  BY <2>4, <3>1, <3>2
  <2>5. CASE fuzzServer
    BY <2>5, SMT DEF fuzzServer, ConnectFails, InputSent, Import, Saturate,
         DriverReturns, LeaveController
  <2> QED  BY <1>1, <2>1, <2>2, <2>3, <2>4, <2>5 DEF Controller
<1>2. ASSUME NEW p \in Procs, LockFile(p) PROVE ControllerType'
  BY <1>2, SMT DEF LockFile
<1>3. ASSUME NEW p \in Procs, Die(p) PROVE ControllerType'
  BY <1>3, SMT DEF Die
<1>4. ASSUME NEW t \in Threads, Thread(t) PROVE ControllerType'
  BY <1>4, ThreadFrame DEF controller
<1>5. CASE UNCHANGED vars
  BY <1>5 DEF vars, controller
<1> QED  BY <1>1, <1>2, <1>3, <1>4, <1>5, Steps

\* The threads' variables keep their types.
LEMMA WorkerTypeStep ==
  ASSUME TypeOK, ControllerShape, ThreadShape, [Next]_vars
  PROVE  WorkerType'
<1> USE ConstAssumption DEF TypeOK, WorkerType
<1>1. CASE Controller /\ ~FatalExit
  BY <1>1, ControllerFrame DEF workers
<1>2. ASSUME NEW p \in Procs, LockFile(p) PROVE WorkerType'
  BY <1>2 DEF LockFile, ControllerOnly, workers
<1>3. ASSUME NEW p \in Procs, Die(p) PROVE WorkerType'
  <2>1. GateForRun(0) \in Gates
    BY GateOps, SMT
  <2>2. 1 \in Slots /\ 0 \in 0..MaxRun
    BY SMT DEF Slots
  <2>3. pc' \in [Threads -> ThreadSteps] /\ conn' \in [Threads -> Conns \union {NoConn}]
    BY <1>3 DEF Die, ThreadSteps
  <2>4. seen' \in [Threads -> Gates]
    BY <1>3, <2>1 DEF Die
  <2>5. /\ thread_run' \in [Threads -> 0..MaxRun] /\ slot' \in [Threads -> Slots]
        /\ joined' \in [Conns -> 0..MaxRun]
    BY <1>3, <2>2 DEF Die
  <2> QED  BY <2>3, <2>4, <2>5
<1>4. ASSUME NEW t \in Threads, Thread(t) PROVE WorkerType'
  <2> USE <1>4
  <2>1. GateForRun(0) \in Gates /\ gate \in Gates /\ seen[t] \in Gates
    BY GateOps, SMT DEF MapType
  <2>2. seen[t].run \in 0..MaxRun
    BY <2>1 DEF Gates
  <2>3. 1 \in Slots /\ 0 \in 0..MaxRun
    BY SMT DEF Slots
  <2> USE DEF Local, Done, Untag, TurnedAway, At, ThreadSteps
  <2>4. CASE JoinCheckRun(t)
    BY <2>1, <2>2, <2>3, <2>4 DEF JoinCheckRun
  <2>5. CASE Join(t)
    BY <2>1, <2>2, <2>3, <2>5 DEF Join
  <2>6. CASE JoinRetry(t)
    BY <2>1, <2>2, <2>3, <2>6 DEF JoinRetry
  <2>7. CASE HitAdd(t)
    BY <2>1, <2>2, <2>3, <2>7 DEF HitAdd
  <2>8. CASE HitOverflow(t)
    BY <2>1, <2>2, <2>3, <2>8 DEF HitOverflow
  <2>9. CASE CloseCheckRun(t)
    BY <2>1, <2>2, <2>3, <2>9 DEF CloseCheckRun
  <2>10. CASE CloseLoad(t)
    BY <2>1, <2>2, <2>3, <2>10 DEF CloseLoad
  <2>11. CASE Leave(t)
    <3>1. CASE IsLastClose(seen[t])
      BY <2>3, <2>11, <3>1 DEF Leave
    <3>2. CASE ~IsLastClose(seen[t])
      <4>1. Done(t) /\ joined' = [joined EXCEPT ![conn[t]] = 0] /\ UNCHANGED <<thread_run, slot>>
        BY <2>11, <3>2 DEF Leave
      <4> QED  BY <2>1, <2>3, <4>1
    <3> QED  BY <3>1, <3>2
  <2>12. CASE LeaveRetry(t)
    BY <2>1, <2>2, <2>3, <2>12 DEF LeaveRetry
  <2>13. CASE SealCheckRun(t)
    BY <2>1, <2>2, <2>3, <2>13 DEF SealCheckRun
  <2>14. CASE Publish(t)
    BY <2>1, <2>2, <2>3, <2>14 DEF Publish
  <2>15. CASE Settle(t)
    BY <2>1, <2>2, <2>3, <2>15 DEF Settle
  <2>16. CASE Suspend(t)
    BY <2>1, <2>2, <2>3, <2>16 DEF Suspend
  <2>17. CASE CloseStart(t)
    BY <2>1, <2>2, <2>3, <2>17 DEF CloseStart
  <2>18. ASSUME NEW c \in Conns, JoinLoad(t, c) PROVE WorkerType'
    BY <2>1, <2>2, <2>3, <2>18 DEF JoinLoad
  <2>19. ASSUME NEW c \in Conns, Resume(t, c) PROVE WorkerType'
    BY <2>1, <2>2, <2>3, <2>19 DEF Resume
  <2>20. ASSUME NEW c \in Conns, CloseParked(t, c) PROVE WorkerType'
    BY <2>1, <2>2, <2>3, <2>20 DEF CloseParked
  <2>21. ASSUME NEW s \in Slots, HitLoad(t, s) PROVE WorkerType'
    BY <2>1, <2>2, <2>3, <2>21 DEF HitLoad
  <2> QED
    BY <2>4, <2>5, <2>6, <2>7, <2>8, <2>9, <2>10, <2>11, <2>12, <2>13, <2>14, <2>15, <2>16, <2>17, <2>18, <2>19, <2>20, <2>21
       DEF Thread, Continue
<1>5. CASE UNCHANGED vars
  BY <1>5 DEF vars, workers
<1> QED  BY <1>1, <1>2, <1>3, <1>4, <1>5, Steps

\* The members of any run are finitely many.
LEMMA MembersFinite ==
  ASSUME NEW r
  PROVE  IsFiniteSet(Members(r)) /\ Cardinality(Members(r)) \in Nat
<1>1. Members(r) \subseteq Conns
  BY DEF Members
<1> QED  BY <1>1, ConstAssumption, FS_Subset, FS_CardinalityType

\* The history variables keep their types.
LEMMA HistoryTypeStep ==
  ASSUME TypeOK, ControllerShape, [Next]_vars
  PROVE  HistoryType'
<1> USE ConstAssumption DEF TypeOK, HistoryType
<1>1. CASE Controller /\ ~FatalExit
  <2>1. CASE ClaimStoreGate \/ BeginOpen
    BY <2>1, SMT DEF ClaimStoreGate, BeginOpen, Zeros
  <2> QED  BY <1>1, <2>1, ControllerHistory DEF history
<1>2. ASSUME NEW p \in Procs, LockFile(p) PROVE HistoryType'
  BY <1>2 DEF LockFile, ControllerOnly, history
<1>3. ASSUME NEW p \in Procs, Die(p) PROVE HistoryType'
  <2> DEFINE M == Members(gate.run) \intersect ConnsOf(p)
  <2>1. Cardinality(M) \in Nat
    <3>1. M \subseteq Members(gate.run)
      OBVIOUS
    <3> QED  BY <3>1, MembersFinite, FS_Subset, FS_CardinalityType
  <2>2. tally' = tally /\ lost' = lost + Cardinality(M)
    BY <1>3 DEF Die
  <2> HIDE DEF M
  <2> QED  BY <2>1, <2>2, SMT
<1>4. ASSUME NEW t \in Threads, Thread(t) PROVE HistoryType'
  <2>1. UNCHANGED history \/ HitAdd(t) \/ CloseCheckRun(t) \/ CloseLoad(t)
    BY <1>4 DEF Thread, Continue, Local, history, JoinLoad, JoinCheckRun, Join,
       JoinRetry, HitLoad, HitOverflow, Suspend, Resume, CloseStart, CloseParked,
       Leave, LeaveRetry, SealCheckRun, Publish, Settle
  <2>2. CASE HitAdd(t)
    BY <2>2, SMT DEF HitAdd, WorkerType
  <2>3. CASE CloseCheckRun(t) \/ CloseLoad(t)
    BY <2>3, SMT DEF CloseCheckRun, CloseLoad, TurnedAway
  <2> QED  BY <2>1, <2>2, <2>3 DEF history
<1>5. CASE UNCHANGED vars
  BY <1>5 DEF vars, history
<1> QED  BY <1>1, <1>2, <1>3, <1>4, <1>5, Steps

-----------------------------------------------------------------------------
(* The order of runs, the threads, and their tags.                         *)

\* The run of the gate never goes back.
LEMMA GateRunGrows ==
  ASSUME TypeOK, ControllerShape, GateShape, ThreadShape, [Next]_vars
  PROVE  gate'.run >= gate.run
<1> USE ConstAssumption DEF TypeOK, MapType, Gates
<1>1. CASE Controller /\ ~FatalExit
  <2>1. CASE UNCHANGED gate
    BY <2>1, SMT
  <2>2. CASE ClaimCloseAdmission \/ CancelCloseAdmission
    BY <2>2, SMT DEF ClaimCloseAdmission, CancelCloseAdmission, Shut
  <2>3. CASE ClaimStoreGate
    BY <2>3, SMT DEF ClaimStoreGate, GateForRun, GateShape
  <2>4. CASE BeginOpen
    BY <2>4, SMT DEF BeginOpen, OpenGate, GateForRun, GateShape
  <2> QED  BY <1>1, <2>1, <2>2, <2>3, <2>4, GateWriters
<1>2. CASE \/ \E p \in Procs : LockFile(p) \/ Die(p)
           \/ UNCHANGED vars
  <2>1. gate' = gate
    BY <1>2 DEF LockFile, Die, shared, vars
  <2> QED  BY <2>1, SMT
<1>3. ASSUME NEW t \in Threads, Thread(t) PROVE gate'.run >= gate.run
  <2>1. seen[t] \in Gates
    BY <1>3 DEF WorkerType
  <2>2. CASE UNCHANGED gate
    BY <2>2, SMT
  <2>3. CASE Join(t)
    BY <2>1, <2>3, SMT DEF Join, Swapped
  <2>4. CASE Leave(t)
    BY <2>1, <2>4, SMT DEF Leave, Swapped, Desired, FinalGate, GateForRun
  <2>5. CASE Settle(t)
    BY <2>1, <2>5, SMT DEF Settle, FinalGate, GateForRun
  <2> QED  BY <1>3, <2>2, <2>3, <2>4, <2>5, GateThreadWriters
<1> QED  BY <1>1, <1>2, <1>3, Steps

\* What a thread step does to `joined`: nothing, one join, or one exit.
LEMMA JoinedWriters ==
  ASSUME TypeOK, NEW t \in Threads, Thread(t)
  PROVE  \/ UNCHANGED joined
         \/ Join(t)
         \/ /\ joined' = [joined EXCEPT ![conn[t]] = 0]
            /\ Leave(t) \/ CloseCheckRun(t) \/ CloseLoad(t)
BY DEF Thread, Continue, Local, TurnedAway, JoinLoad, JoinCheckRun, JoinRetry,
   HitLoad, HitAdd, HitOverflow, Suspend, Resume, CloseStart, CloseParked,
   CloseCheckRun, CloseLoad, Leave, LeaveRetry, SealCheckRun, Publish, Settle

\* What a thread may remember after a step: what it remembered, the current
\* gate, or nothing.
LEMMA SeenWriters ==
  ASSUME TypeOK, NEW t \in Threads, Thread(t)
  PROVE  \/ UNCHANGED seen
         \/ seen' = [seen EXCEPT ![t] = gate]
         \/ seen' = [seen EXCEPT ![t] = GateForRun(0)]
BY DEF Thread, Continue, Local, TurnedAway, Done, JoinLoad, JoinCheckRun, Join,
   JoinRetry, HitLoad, HitAdd, HitOverflow, Suspend, Resume, CloseStart,
   CloseParked, CloseCheckRun, CloseLoad, Leave, LeaveRetry, SealCheckRun,
   Publish, Settle

\* No run is ahead of the gate's.
LEMMA RunOrderStep ==
  ASSUME TypeOK, TypeOK', ControllerShape, GateShape, ThreadShape, RunOrder,
         [Next]_vars
  PROVE  RunOrder'
<1>1. /\ gate.run \in Nat /\ gate'.run \in Nat /\ gate'.run >= gate.run
      /\ completed_run \in Nat
      /\ joined \in [Conns -> Nat]
  BY GateRunGrows, ConstAssumption DEF TypeOK, MapType, WorkerType, Gates
<1>2. \A t \in Threads : seen[t].run \in Nat
  BY ConstAssumption DEF TypeOK, WorkerType, Gates
<1>3. seen \in [Threads -> Gates]
  BY DEF TypeOK, WorkerType
<1>4. GateForRun(0).run = 0
  BY DEF GateForRun
<1>5. completed_run' <= gate'.run
  <2>1. UNCHANGED completed_run \/ completed_run' = 0
        \/ \E t \in Threads : Publish(t)
    BY CompletedWriters, CompletedThreadWriters, Steps
       DEF LockFile, Die, shared, vars
  <2>2. ASSUME NEW t \in Threads, Publish(t) PROVE completed_run' <= gate.run
    BY <2>2 DEF Publish, RunOrder
  <2>3. CASE UNCHANGED completed_run
    BY <1>1, <2>3, SMT DEF RunOrder
  <2>4. CASE completed_run' = 0
    BY <1>1, <2>4, SMT
  <2>5. CASE \E t \in Threads : Publish(t)
    <3>1. completed_run' <= gate.run /\ completed_run' \in Nat
      BY <2>2, <2>5, ConstAssumption DEF TypeOK, MapType
    <3> QED  BY <1>1, <3>1, SMT
  <2> QED  BY <2>1, <2>3, <2>4, <2>5
<1>6. CASE UNCHANGED workers
  BY <1>1, <1>2, <1>5, <1>6, SMT DEF workers, RunOrder
<1>7. ASSUME NEW p \in Procs, Die(p) PROVE RunOrder'
  BY <1>1, <1>2, <1>4, <1>5, <1>7, SMT DEF Die, RunOrder
<1>8. ASSUME NEW t \in Threads, Thread(t) PROVE RunOrder'
  <2>1. \A c \in Conns : joined'[c] <= gate'.run
    <3>1. CASE UNCHANGED joined
      BY <1>1, <3>1, SMT DEF RunOrder
    <3>2. CASE joined' = [joined EXCEPT ![conn[t]] = 0]
      BY <1>1, <3>2, SMT DEF RunOrder
    <3>3. CASE Join(t)
      <4>1. joined' = [joined EXCEPT ![conn[t]] = seen[t].run]
        BY <3>3 DEF Join
      <4> QED  BY <1>1, <1>2, <1>8, <4>1, SMT DEF RunOrder
    <3> QED  BY <1>8, <3>1, <3>2, <3>3, JoinedWriters
  <2>2. \A u \in Threads : seen'[u].run <= gate'.run
    <3>1. CASE UNCHANGED seen
      BY <1>1, <1>2, <3>1, SMT DEF RunOrder
    <3>2. CASE seen' = [seen EXCEPT ![t] = gate]
      BY <1>1, <1>2, <1>3, <3>2, SMT DEF RunOrder
    <3>3. CASE seen' = [seen EXCEPT ![t] = GateForRun(0)]
      BY <1>1, <1>2, <1>3, <1>4, <3>3, SMT DEF RunOrder
    <3> QED  BY <1>8, <3>1, <3>2, <3>3, SeenWriters
  <2> QED  BY <1>5, <2>1, <2>2 DEF RunOrder
<1> QED
  BY <1>6, <1>7, <1>8, Steps, ControllerFrame
     DEF LockFile, ControllerOnly, vars

\* A thread writes its own pc, tag, connection, gate and edge only.
LEMMA OtherThreads ==
  ASSUME TypeOK, NEW t \in Threads, Thread(t), NEW u \in Threads, u # t
  PROVE  /\ pc'[u] = pc[u] /\ thread_run'[u] = thread_run[u]
         /\ conn'[u] = conn[u] /\ seen'[u] = seen[u]
<1> USE DEF TypeOK, WorkerType
<1>1. pc' = [pc EXCEPT ![t] = pc'[t]]
  BY DEF Thread, Continue, Local, TurnedAway, Done, At, JoinLoad, JoinCheckRun,
     Join, JoinRetry, HitLoad, HitAdd, HitOverflow, Suspend, Resume, CloseStart,
     CloseParked, CloseCheckRun, CloseLoad, Leave, LeaveRetry, SealCheckRun,
     Publish, Settle
<1>2. UNCHANGED thread_run \/ \E r : thread_run' = [thread_run EXCEPT ![t] = r]
  BY DEF Thread, Continue, Local, Untag, JoinLoad, JoinCheckRun,
     Join, JoinRetry, HitLoad, HitAdd, HitOverflow, Suspend, Resume, CloseStart,
     CloseParked, CloseCheckRun, CloseLoad, Leave, LeaveRetry, SealCheckRun,
     Publish, Settle
<1>3. UNCHANGED conn \/ \E c : conn' = [conn EXCEPT ![t] = c]
  BY DEF Thread, Continue, Local, TurnedAway, Done, JoinLoad, JoinCheckRun,
     Join, JoinRetry, HitLoad, HitAdd, HitOverflow, Suspend, Resume, CloseStart,
     CloseParked, CloseCheckRun, CloseLoad, Leave, LeaveRetry, SealCheckRun,
     Publish, Settle
<1> QED  BY <1>1, <1>2, <1>3, SeenWriters

\* A thread keeps its connection, lets it go, or takes one of its child that
\* no thread serves.
LEMMA ConnMoves ==
  ASSUME TypeOK, NEW t \in Threads, Thread(t)
  PROVE  \/ conn'[t] = conn[t]
         \/ conn'[t] = NoConn
         \/ /\ conn'[t] \in Conns /\ ProcOf[conn'[t]] = ProcOf[t]
            /\ \A u \in Threads : conn[u] # conn'[t]
<1> USE DEF TypeOK, WorkerType
<1>1. ASSUME NEW c \in Conns, JoinLoad(t, c) \/ Resume(t, c) \/ CloseParked(t, c)
      PROVE  /\ conn'[t] = c /\ ProcOf[c] = ProcOf[t]
             /\ \A u \in Threads : conn[u] # c
  BY <1>1 DEF JoinLoad, Resume, CloseParked, Free, Parked
<1>2. CASE ~ \E c \in Conns : JoinLoad(t, c) \/ Resume(t, c) \/ CloseParked(t, c)
  BY <1>2 DEF Thread, Continue, TurnedAway, Done, JoinCheckRun,
     Join, JoinRetry, HitLoad, HitAdd, HitOverflow, Suspend, CloseStart,
     CloseCheckRun, CloseLoad, Leave, LeaveRetry, SealCheckRun, Publish, Settle
<1> QED  BY <1>1, <1>2

\* The thread that moves is in a callback that fits its connection.
LEMMA ThreadOkSelf ==
  ASSUME TypeOK, TypeOK', ThreadShape, NEW t \in Threads, Thread(t)
  PROVE  ThreadOk(t)'
<1>1. /\ ThreadOk(t)
      /\ pc \in [Threads -> ThreadSteps] /\ conn \in [Threads -> Conns \union {NoConn}]
      /\ seen \in [Threads -> Gates] /\ joined \in [Conns -> 0..MaxRun]
      /\ NoConn \notin Conns
  BY ConstAssumption DEF TypeOK, WorkerType, ThreadShape
<1> USE DEF ThreadOk, Finishing, Local, Done, At
<1>2. CASE JoinCheckRun(t)
  BY <1>1, <1>2 DEF JoinCheckRun
<1>3. CASE Join(t)
  BY <1>1, <1>3 DEF Join, Admits
<1>4. CASE JoinRetry(t)
  BY <1>1, <1>4 DEF JoinRetry
<1>5. CASE HitAdd(t)
  BY <1>1, <1>5 DEF HitAdd
<1>6. CASE HitOverflow(t)
  BY <1>1, <1>6 DEF HitOverflow
<1>7. CASE CloseCheckRun(t)
  BY <1>1, <1>7 DEF CloseCheckRun, TurnedAway
<1>8. CASE CloseLoad(t)
  BY <1>1, <1>8 DEF CloseLoad, TurnedAway
<1>9. CASE Leave(t)
  BY <1>1, <1>9 DEF Leave
<1>10. CASE LeaveRetry(t)
  BY <1>1, <1>10 DEF LeaveRetry
<1>11. CASE SealCheckRun(t)
  BY <1>1, <1>11 DEF SealCheckRun
<1>12. CASE Publish(t)
  BY <1>1, <1>12 DEF Publish
<1>13. CASE Settle(t)
  BY <1>1, <1>13 DEF Settle
<1>14. CASE Suspend(t)
  BY <1>1, <1>14 DEF Suspend
<1>15. CASE CloseStart(t)
  BY <1>1, <1>15 DEF CloseStart
<1>16. ASSUME NEW c \in Conns, JoinLoad(t, c) PROVE ThreadOk(t)'
  BY <1>1, <1>16 DEF JoinLoad, Free
<1>17. ASSUME NEW c \in Conns, Resume(t, c) PROVE ThreadOk(t)'
  BY <1>1, <1>17 DEF Resume, Parked
<1>18. ASSUME NEW c \in Conns, CloseParked(t, c) PROVE ThreadOk(t)'
  BY <1>1, <1>18 DEF CloseParked, Parked
<1>19. ASSUME NEW s \in Slots, HitLoad(t, s) PROVE ThreadOk(t)'
  BY <1>1, <1>19 DEF HitLoad
<1> QED
  BY <1>2, <1>3, <1>4, <1>5, <1>6, <1>7, <1>8, <1>9, <1>10,
     <1>11, <1>12, <1>13, <1>14, <1>15, <1>16, <1>17, <1>18, <1>19
     DEF Thread, Continue

\* Nothing that another thread relies on moves.
LEMMA ThreadOkOther ==
  ASSUME TypeOK, TypeOK', ThreadShape, NEW t \in Threads, Thread(t),
         NEW u \in Threads, u # t
  PROVE  ThreadOk(u)'
<1>1. /\ pc'[u] = pc[u] /\ conn'[u] = conn[u] /\ seen'[u] = seen[u]
  BY OtherThreads
<1>2. conn[u] # NoConn => conn[u] # conn[t]
  BY DEF ThreadShape, OneThreadEach
<1>3. conn[u] # NoConn => joined'[conn[u]] = joined[conn[u]]
  BY <1>2, JoinedWriters DEF TypeOK, WorkerType, Join
<1>4. ThreadOk(u)
  BY DEF ThreadShape
<1> QED  BY <1>1, <1>3, <1>4 DEF ThreadOk, Admits, Finishing

\* What threads know of their connections, step by step.
LEMMA ThreadShapeStep ==
  ASSUME TypeOK, TypeOK', ControllerShape, ThreadShape, [Next]_vars
  PROVE  ThreadShape'
<1>1. CASE UNCHANGED workers
  BY <1>1 DEF ThreadShape, OneThreadEach, ThreadOk, Admits, workers
<1>2. ASSUME NEW p \in Procs, Die(p) PROVE ThreadShape'
  <2>1. ASSUME NEW t \in Threads, t \in ThreadsOf(p)
        PROVE  /\ pc'[t] = "idle" /\ conn'[t] = NoConn
               /\ ThreadOk(t)'
    BY <1>2, <2>1 DEF Die, ThreadOk, Finishing
  <2>2. ASSUME NEW t \in Threads, t \notin ThreadsOf(p)
        PROVE  conn'[t] = conn[t] /\ ThreadOk(t)'
    <3>1. pc'[t] = pc[t] /\ conn'[t] = conn[t] /\ seen'[t] = seen[t]
      BY <1>2, <2>2 DEF Die
    <3>2. ThreadOk(t) /\ conn[t] \in Conns \union {NoConn}
      BY DEF ThreadShape, TypeOK, WorkerType
    <3>3. conn[t] # NoConn => joined'[conn[t]] = joined[conn[t]]
      BY <1>2, <2>2, <3>2 DEF Die, ThreadsOf, ConnsOf, ThreadOk
    <3> QED  BY <3>1, <3>2, <3>3 DEF ThreadOk, Admits, Finishing
  <2> QED  BY <2>1, <2>2 DEF ThreadShape, OneThreadEach
<1>3. ASSUME NEW t \in Threads, Thread(t) PROVE ThreadShape'
  <2>1. \A u \in Threads : ThreadOk(u)'
    BY <1>3, ThreadOkSelf, ThreadOkOther
  <2>2. \A u \in Threads : u # t => conn'[u] = conn[u]
    BY <1>3, OtherThreads
  <2>3. OneThreadEach'
    <3> SUFFICES ASSUME NEW v \in Threads, NEW w \in Threads, v # w,
                        conn'[v] = conn'[w]
                 PROVE  conn'[v] = NoConn
      BY DEF OneThreadEach
    <3>1. CASE v # t /\ w # t
      BY <2>2, <3>1 DEF ThreadShape, OneThreadEach
    <3>2. CASE v = t \/ w = t
      BY <1>3, <2>2, <3>2, ConnMoves DEF ThreadShape, OneThreadEach
    <3> QED  BY <3>1, <3>2
  <2> QED  BY <2>1, <2>3 DEF ThreadShape
<1> QED
  BY <1>1, <1>2, <1>3, Steps, ControllerFrame
     DEF LockFile, ControllerOnly, vars

\* A tag follows its connection, step by step.
LEMMA TagStep ==
  ASSUME TypeOK, TypeOK', ControllerShape, ThreadShape, TagFollowsConnection,
         [Next]_vars
  PROVE  TagFollowsConnection'
<1>1. CASE UNCHANGED workers
  BY <1>1 DEF TagFollowsConnection, workers
<1>2. ASSUME NEW p \in Procs, Die(p) PROVE TagFollowsConnection'
  <2> SUFFICES ASSUME NEW t \in Threads, thread_run'[t] # 0
               PROVE  /\ conn'[t] # NoConn /\ joined'[conn'[t]] = thread_run'[t]
                      /\ pc'[t] \in {"serve", "add", "wrap"}
    BY DEF TagFollowsConnection
  <2>1. t \notin ThreadsOf(p)
    BY <1>2 DEF Die
  <2>2. /\ pc'[t] = pc[t] /\ conn'[t] = conn[t] /\ thread_run'[t] = thread_run[t]
    BY <1>2, <2>1 DEF Die
  <2>3. conn[t] \in Conns /\ ProcOf[conn[t]] # p
    BY <2>1, <2>2 DEF TagFollowsConnection, ThreadShape, ThreadOk, ThreadsOf,
       TypeOK, WorkerType
  <2>4. joined'[conn[t]] = joined[conn[t]]
    BY <1>2, <2>3 DEF Die, ConnsOf
  <2> QED  BY <2>2, <2>4 DEF TagFollowsConnection
<1>3. ASSUME NEW t \in Threads, Thread(t), NEW u \in Threads, u # t,
             thread_run'[u] # 0
      PROVE  /\ conn'[u] # NoConn /\ joined'[conn'[u]] = thread_run'[u]
             /\ pc'[u] \in {"serve", "add", "wrap"}
  <2>1. /\ pc'[u] = pc[u] /\ conn'[u] = conn[u] /\ thread_run'[u] = thread_run[u]
    BY <1>3, OtherThreads
  <2>2. conn[u] # NoConn /\ conn[u] # conn[t]
    BY <1>3, <2>1 DEF TagFollowsConnection, ThreadShape, OneThreadEach
  <2>3. joined'[conn[u]] = joined[conn[u]]
    BY <1>3, <2>2, JoinedWriters DEF TypeOK, WorkerType, Join
  <2> QED  BY <1>3, <2>1, <2>2, <2>3 DEF TagFollowsConnection
<1>4. ASSUME NEW t \in Threads, Thread(t), thread_run'[t] # 0
      PROVE  /\ conn'[t] # NoConn /\ joined'[conn'[t]] = thread_run'[t]
             /\ pc'[t] \in {"serve", "add", "wrap"}
  <2>1. /\ thread_run[t] # 0 =>
              /\ conn[t] # NoConn /\ joined[conn[t]] = thread_run[t]
              /\ pc[t] \in {"serve", "add", "wrap"}
        /\ pc[t] = "join" => conn[t] \in Conns
        /\ pc \in [Threads -> ThreadSteps] /\ conn \in [Threads -> Conns \union {NoConn}]
        /\ thread_run \in [Threads -> 0..MaxRun] /\ joined \in [Conns -> 0..MaxRun]
        /\ NoConn \notin Conns
    BY ConstAssumption DEF TagFollowsConnection, TypeOK, WorkerType, ThreadShape,
       ThreadOk, Finishing
  <2> USE <1>4 DEF Local, At, Done, Untag, Finishing, TurnedAway
  <2>2. CASE JoinCheckRun(t)
    BY <2>1, <2>2 DEF JoinCheckRun
  <2>3. CASE Join(t)
    BY <2>1, <2>3 DEF Join
  <2>4. CASE JoinRetry(t)
    BY <2>1, <2>4 DEF JoinRetry
  <2>5. CASE HitAdd(t)
    BY <2>1, <2>5 DEF HitAdd
  <2>6. CASE HitOverflow(t)
    BY <2>1, <2>6 DEF HitOverflow
  <2>7. CASE CloseCheckRun(t)
    BY <2>1, <2>7 DEF CloseCheckRun
  <2>8. CASE CloseLoad(t)
    BY <2>1, <2>8 DEF CloseLoad
  <2>9. CASE Leave(t)
    BY <2>1, <2>9 DEF Leave
  <2>10. CASE LeaveRetry(t)
    BY <2>1, <2>10 DEF LeaveRetry
  <2>11. CASE SealCheckRun(t)
    BY <2>1, <2>11 DEF SealCheckRun
  <2>12. CASE Publish(t)
    BY <2>1, <2>12 DEF Publish
  <2>13. CASE Settle(t)
    BY <2>1, <2>13 DEF Settle
  <2>14. CASE Suspend(t)
    BY <2>1, <2>14 DEF Suspend
  <2>15. CASE CloseStart(t)
    BY <2>1, <2>15 DEF CloseStart
  <2>16. ASSUME NEW c \in Conns, JoinLoad(t, c) \/ CloseParked(t, c) PROVE FALSE
    BY <2>1, <2>16 DEF JoinLoad, CloseParked
  <2>17. ASSUME NEW c \in Conns, Resume(t, c)
        PROVE  /\ conn'[t] # NoConn /\ joined'[conn'[t]] = thread_run'[t]
               /\ pc'[t] \in {"serve", "add", "wrap"}
    BY <2>1, <2>17 DEF Resume, Parked
  <2>18. CASE \E s \in Slots : HitLoad(t, s)
    BY <2>1, <2>18 DEF HitLoad
  <2> QED
    BY <2>2, <2>3, <2>4, <2>5, <2>6, <2>7, <2>8, <2>9, <2>10,
       <2>11, <2>12, <2>13, <2>14, <2>15, <2>16, <2>17, <2>18
       DEF Thread, Continue
<1> QED
  BY <1>1, <1>2, <1>3, <1>4, Steps, ControllerFrame
     DEF LockFile, ControllerOnly, vars, TagFollowsConnection

-----------------------------------------------------------------------------
(* Finalizers, sealed runs, and the accounting of the gate.                *)

\* How a thread comes to be a finalizer, and stays one.
LEMMA FinalizerMoves ==
  ASSUME TypeOK, NEW t \in Threads, Thread(t), pc'[t] \in Finishing
  PROVE  \/ pc[t] \in Finishing /\ seen'[t] = seen[t] /\ UNCHANGED gate
         \/ Leave(t) /\ IsLastClose(seen[t]) /\ seen'[t] = seen[t]
<1> USE DEF TypeOK, WorkerType, Finishing, At, Done, Local, shared, TurnedAway
<1>1. CASE SealCheckRun(t) \/ Publish(t)
  BY <1>1 DEF SealCheckRun, Publish
<1>2. CASE Leave(t)
  BY <1>2 DEF Leave
<1>3. CASE ~(SealCheckRun(t) \/ Publish(t) \/ Leave(t))
  BY <1>3 DEF Thread, Continue, JoinLoad, JoinCheckRun, Join, JoinRetry, HitLoad,
     HitAdd, HitOverflow, Suspend, Resume, CloseStart, CloseParked,
     CloseCheckRun, CloseLoad, LeaveRetry, Settle
<1> QED  BY <1>1, <1>2, <1>3

\* What a step of a controller does to a gate that carries the run of a
\* finalizer: it keeps the flag, or replaces the run.
LEMMA ControllerKeepsFinalizing ==
  ASSUME TypeOK, ControllerShape, GateShape, RunOrder, Controller, ~FatalExit
  PROVE  \/ gate'.run = gate.run /\ gate'.finalizing = gate.finalizing
         \/ \A r \in 1..MaxRun : r <= gate.run => r < gate'.run
         \/ gate.run = 0 /\ gate'.run = 0
<1> USE ConstAssumption DEF TypeOK, MapType, Gates
<1>1. CASE ClaimCloseAdmission \/ CancelCloseAdmission
  <2>1. gate' = Shut(gate) \/ gate' = gate
    BY <1>1 DEF ClaimCloseAdmission, CancelCloseAdmission
  <2> QED  BY <2>1 DEF Shut
<1>2. CASE ClaimStoreGate
  <2>1. gate'.run = run_id /\ (run_id = 0 \/ gate.run < run_id) /\ gate.run <= run_id
    BY <1>2 DEF ClaimStoreGate, GateShape, GateForRun
  <2>2. gate.run \in 0..MaxRun /\ run_id \in 0..MaxRun
    OBVIOUS
  <2> QED  BY <2>1, <2>2, SMT
<1>3. CASE BeginOpen
  <2>1. gate'.run = run_id /\ gate.run = run_id - 1 /\ run_id \in 0..MaxRun
    BY <1>3 DEF BeginOpen, OpenGate, GateShape, GateForRun
  <2> QED  BY <2>1, SMT
<1> QED  BY <1>1, <1>2, <1>3, GateWriters

\* At most one finalizer per run, step by step.
LEMMA OneFinalizerStep ==
  ASSUME TypeOK, TypeOK', ControllerShape, GateShape, RunOrder, ThreadShape,
         SealedShape, OneFinalizer, [Next]_vars
  PROVE  OneFinalizer'
<1> USE ConstAssumption
<1>1. CASE Controller /\ ~FatalExit
  <2>1. pc' = pc /\ seen' = seen
    BY <1>1, ControllerFrame DEF workers
  <2> SUFFICES ASSUME NEW t \in Threads, pc[t] \in Finishing,
                      seen[t].run = gate'.run
               PROVE  gate'.finalizing
    BY <2>1, Zenon DEF OneFinalizer
  <2>2. seen[t].run \in 1..MaxRun /\ seen[t].run <= gate.run
    BY SMT DEF ThreadShape, ThreadOk, RunOrder, TypeOK, WorkerType, Gates
  <2>3. gate'.run = gate.run /\ gate'.finalizing = gate.finalizing
    BY <1>1, <2>2, ControllerKeepsFinalizing, SMT
  <2> QED  BY <2>3 DEF OneFinalizer
<1>2. CASE \/ \E p \in Procs : LockFile(p)
           \/ UNCHANGED vars
  BY <1>2 DEF LockFile, ControllerOnly, workers, shared, vars, OneFinalizer
<1>3. ASSUME NEW p \in Procs, Die(p) PROVE OneFinalizer'
  <2>1. gate' = gate
    BY <1>3 DEF Die, shared
  <2>2. ASSUME NEW t \in Threads, pc'[t] \in Finishing
        PROVE  pc[t] \in Finishing /\ seen'[t] = seen[t]
    BY <1>3, <2>2 DEF Die, Finishing
  <2> QED  BY <2>1, <2>2 DEF OneFinalizer
<1>4. ASSUME NEW t \in Threads, Thread(t) PROVE OneFinalizer'
  <2>1. \A u \in Threads : u # t => pc'[u] = pc[u] /\ seen'[u] = seen[u]
    BY <1>4, OtherThreads
  <2>2. gate \in Gates /\ seen[t] \in Gates
    BY DEF TypeOK, MapType, WorkerType
  <2>3. CASE Leave(t) /\ IsLastClose(seen[t])
    <3>1. gate = seen[t] /\ gate.enabled /\ seen[t].run # 0 /\ seen'[t] = seen[t]
      BY <2>3 DEF Leave, Swapped, IsLastClose, ThreadShape, ThreadOk
    <3>2. gate'.run = gate.run /\ gate'.finalizing
      BY <2>2, <2>3 DEF Leave, Swapped, Desired, FinalGate, GateForRun
    <3>3. ~gate.finalizing
      BY <3>1 DEF SealedShape
    <3>4. \A u \in Threads : pc[u] \in Finishing => seen[u].run # gate.run
      BY <3>3 DEF OneFinalizer
    <3> QED  BY <2>1, <3>1, <3>2, <3>4 DEF OneFinalizer
  <2>4. CASE Settle(t) /\ gate = FinalGate(seen[t].run)
    <3>1. pc[t] \in Finishing /\ pc'[t] \notin Finishing
      BY <2>4 DEF Settle, Done, At, Finishing, TypeOK, WorkerType
    <3>2. gate'.run = gate.run /\ gate.run = seen[t].run
      BY <2>4 DEF Settle, FinalGate, GateForRun
    <3>3. \A u \in Threads : u # t /\ pc[u] \in Finishing => seen[u].run # gate.run
      BY <3>1, <3>2 DEF OneFinalizer
    <3> QED  BY <2>1, <3>1, <3>2, <3>3 DEF OneFinalizer
  <2>5. CASE /\ ~(Leave(t) /\ IsLastClose(seen[t]))
             /\ ~(Settle(t) /\ gate = FinalGate(seen[t].run))
    <3>1. gate'.run = gate.run /\ gate'.finalizing = gate.finalizing
      <4>1. CASE Join(t)
        BY <2>2, <4>1 DEF Join, Swapped, Gates
      <4>2. CASE Leave(t)
        BY <2>2, <2>5, <4>2 DEF Leave, Swapped, Desired, Gates
      <4>3. CASE Settle(t)
        BY <2>5, <4>3 DEF Settle
      <4> QED  BY <1>4, <4>1, <4>2, <4>3, GateThreadWriters
    <3>2. pc'[t] \in Finishing => pc[t] \in Finishing /\ seen'[t] = seen[t]
      BY <1>4, <2>5, FinalizerMoves
    <3> QED  BY <2>1, <3>1, <3>2 DEF OneFinalizer
  <2> QED  BY <2>3, <2>4, <2>5
<1> QED  BY <1>1, <1>2, <1>3, <1>4, Steps

\* A sealed run stays sealed and empty, step by step.
LEMMA SealedShapeStep ==
  ASSUME TypeOK, TypeOK', ControllerShape, GateShape, RunOrder, ThreadShape,
         OneFinalizer, SealedShape, [Next]_vars
  PROVE  SealedShape'
<1> USE ConstAssumption
<1>1. gate \in Gates /\ gate.run \in Nat /\ completed_run \in Nat
  BY DEF TypeOK, MapType, Gates
<1>2. CASE Controller /\ ~FatalExit
  <2>1. completed_run' = completed_run \/ completed_run' = 0
    BY <1>2, CompletedWriters
  <2>2. CASE UNCHANGED gate
    BY <2>1, <2>2 DEF SealedShape
  <2>3. CASE ClaimCloseAdmission \/ CancelCloseAdmission
    <3>1. gate' = Shut(gate) \/ gate' = gate
      BY <2>3 DEF ClaimCloseAdmission, CancelCloseAdmission
    <3> QED  BY <1>1, <2>1, <3>1 DEF SealedShape, Shut, Gates
  <2>4. CASE ClaimStoreGate
    BY <2>4 DEF ClaimStoreGate, SealedShape, GateForRun
  <2>5. CASE BeginOpen
    <3>1. gate' = OpenGate(run_id) /\ completed_run' = completed_run
      BY <2>5 DEF BeginOpen
    <3>2. completed_run < run_id
      <4>1. completed_run <= gate.run
        BY DEF RunOrder
      <4>2. gate.run = run_id - 1 /\ run_id \in Nat
        BY <2>5, SMT DEF BeginOpen, GateShape, GateForRun, TypeOK, MapType
      <4> QED  BY <1>1, <4>1, <4>2, SMT
    <3>3. gate'.run = run_id /\ ~gate'.finalizing /\ completed_run # run_id
      BY <1>1, <3>1, <3>2, SMT DEF OpenGate, GateForRun, TypeOK, MapType
    <3> QED  BY <3>1, <3>3 DEF SealedShape
  <2> QED  BY <1>2, <2>2, <2>3, <2>4, <2>5, GateWriters
<1>3. CASE \/ \E p \in Procs : LockFile(p) \/ Die(p)
           \/ UNCHANGED vars
  BY <1>3 DEF LockFile, Die, shared, vars, SealedShape
<1>4. ASSUME NEW t \in Threads, Thread(t) PROVE SealedShape'
  <2>1. CASE Join(t)
    <3>1. gate = seen[t] /\ gate.enabled /\ gate.run # 0
      BY <2>1 DEF Join, Swapped, ThreadShape, ThreadOk, Admits
    <3>2. /\ gate'.run = gate.run /\ gate'.finalizing = gate.finalizing
          /\ completed_run' = completed_run
      BY <1>1, <2>1, <3>1 DEF Join, Gates
    <3> QED  BY <3>1, <3>2 DEF SealedShape
  <2>2. CASE Leave(t)
    <3>1. gate = seen[t] /\ gate.active # 0
      BY <2>2 DEF Leave, Swapped, ThreadShape, ThreadOk
    <3>2. gate' = Desired(gate) /\ completed_run' = completed_run
      BY <2>2, <3>1 DEF Leave
    <3>3. CASE IsLastClose(gate)
      BY <3>2, <3>3 DEF Desired, FinalGate, GateForRun, SealedShape
    <3>4. CASE ~IsLastClose(gate)
      BY <1>1, <3>1, <3>2, <3>4 DEF Desired, Gates, SealedShape
    <3> QED  BY <3>3, <3>4
  <2>3. CASE Settle(t)
    <3>1. completed_run' = completed_run
      BY <2>3 DEF Settle
    <3>2. gate' = gate \/ (~gate'.enabled /\ gate'.active = 0)
      BY <2>3 DEF Settle, GateForRun
    <3> QED  BY <3>1, <3>2 DEF SealedShape
  <2>4. CASE Publish(t)
    <3>1. pc[t] \in Finishing /\ gate' = gate /\ completed_run' = seen[t].run
      BY <2>4 DEF Publish, Finishing
    <3>2. seen[t].run = gate.run => gate.finalizing
      BY <3>1 DEF OneFinalizer
    <3> QED  BY <3>1, <3>2 DEF SealedShape
  <2>5. CASE UNCHANGED gate /\ UNCHANGED completed_run
    BY <2>5 DEF SealedShape
  <2>6. completed_run' = completed_run \/ Publish(t)
    BY <1>4, CompletedThreadWriters
  <2>7. Publish(t) => gate' = gate
    BY DEF Publish
  <2> QED  BY <1>4, <2>1, <2>2, <2>3, <2>4, <2>5, <2>6, GateThreadWriters
<1> QED  BY <1>2, <1>3, <1>4, Steps

\* The members of a later run are none: no run is ahead of the gate's.
LEMMA LaterRunHasNoMembers ==
  ASSUME TypeOK, RunOrder, NEW r \in Nat, r = 0 \/ gate.run < r
  PROVE  Members(r) = {} /\ Cardinality(Members(r)) = 0
<1>1. /\ gate.run \in Nat
      /\ \A c \in Conns : joined[c] \in Nat /\ joined[c] <= gate.run
  BY ConstAssumption DEF TypeOK, MapType, WorkerType, Gates, RunOrder
<1>2. ASSUME NEW c \in Conns, joined[c] = r, r # 0 PROVE FALSE
  BY <1>1, <1>2, SMT
<1>3. Members(r) = {}
  BY <1>2 DEF Members
<1> QED  BY <1>3, FS_EmptySet

\* The active field counts members and losses, step by step.
LEMMA GateCountsMembersStep ==
  ASSUME TypeOK, TypeOK', ControllerShape, GateShape, RunOrder, ThreadShape,
         GateCountsMembers, [Next]_vars
  PROVE  GateCountsMembers'
<1> USE ConstAssumption
<1> DEFINE M == Members(gate.run)
<1>1. /\ gate \in Gates /\ gate.run \in Nat /\ gate.active \in Nat /\ run_id \in Nat
      /\ lost \in Nat /\ IsFiniteSet(M) /\ Cardinality(M) \in Nat
  BY MembersFinite, SMT DEF TypeOK, MapType, Gates, HistoryType
<1>2. gate.active = Cardinality(M) + lost
  BY DEF GateCountsMembers
<1>3. CASE /\ gate'.run = gate.run /\ gate'.active = gate.active
           /\ UNCHANGED joined /\ UNCHANGED lost
  BY <1>2, <1>3 DEF GateCountsMembers, Members
<1>4. CASE Controller /\ ~FatalExit
  <2>1. joined' = joined
    BY <1>4, ControllerFrame DEF workers
  <2>2. CASE ClaimStoreGate \/ BeginOpen
    <3>1. gate'.run = run_id /\ gate'.active = 0 /\ lost' = 0
      BY <2>2 DEF ClaimStoreGate, BeginOpen, OpenGate, GateForRun
    <3>2. run_id = 0 \/ gate.run < run_id
      BY <1>1, <2>2, SMT DEF ClaimStoreGate, BeginOpen, GateShape, GateForRun
    <3>3. Members(run_id) = {} /\ Cardinality(Members(run_id)) = 0
      BY <1>1, <3>2, LaterRunHasNoMembers
    <3>4. Members(gate.run)' = Members(run_id)
      BY <2>1, <3>1 DEF Members
    <3> QED  BY <3>1, <3>3, <3>4, SMT DEF GateCountsMembers
  <2>3. CASE ~(ClaimStoreGate \/ BeginOpen)
    <3>1. lost' = lost
      BY <1>4, <2>3, ControllerHistory DEF history
    <3>2. gate' = gate \/ gate' = Shut(gate)
      BY <1>4, <2>3, GateWriters DEF ClaimCloseAdmission, CancelCloseAdmission
    <3>3. gate'.run = gate.run /\ gate'.active = gate.active
      BY <1>1, <3>2, Zenon DEF Shut, Gates
    <3> QED  BY <1>3, <2>1, <3>1, <3>3
  <2> QED  BY <2>2, <2>3
<1>5. CASE \/ \E p \in Procs : LockFile(p)
           \/ UNCHANGED vars
  BY <1>3, <1>5 DEF LockFile, ControllerOnly, workers, history, shared, vars
<1>6. ASSUME NEW p \in Procs, Die(p) PROVE GateCountsMembers'
  <2>1. gate' = gate /\ lost' = lost + Cardinality(M \intersect ConnsOf(p))
    BY <1>6 DEF Die, shared
  <2>2. Members(gate.run)' = M \ ConnsOf(p)
    BY <1>6, <2>1 DEF Die, Members, ConnsOf
  <2>3. /\ Cardinality(M \ ConnsOf(p)) =
               Cardinality(M) - Cardinality(M \intersect ConnsOf(p))
        /\ Cardinality(M \intersect ConnsOf(p)) \in Nat
    BY <1>1, FS_Difference, FS_Intersection, FS_CardinalityType
  <2> HIDE DEF M
  <2> QED  BY <1>1, <1>2, <2>1, <2>2, <2>3, SMT DEF GateCountsMembers
<1>7. ASSUME NEW t \in Threads, Thread(t) PROVE GateCountsMembers'
  <2>1. seen[t] \in Gates /\ joined \in [Conns -> 0..MaxRun]
    BY DEF TypeOK, WorkerType
  <2>2. ASSUME conn[t] \in M, joined' = [joined EXCEPT ![conn[t]] = 0],
               gate'.run = gate.run
        PROVE  Cardinality(Members(gate.run))' = Cardinality(M) - 1
    <3>1. Members(gate.run)' = M \ {conn[t]}
      BY <2>1, <2>2 DEF Members
    <3>2. Cardinality(M \ {conn[t]}) = Cardinality(M) - 1
      BY <1>1, <2>2, FS_RemoveElement, Zenon
    <3> QED  BY <3>1, <3>2
  <2>3. CASE Join(t)
    <3>1. /\ pc[t] = "join" /\ gate = seen[t] /\ gate.run # 0
          /\ conn[t] \in Conns /\ joined[conn[t]] = 0
      BY <2>3 DEF Join, Swapped, ThreadShape, ThreadOk, Admits, Finishing, TypeOK,
         WorkerType
    <3>2. /\ joined' = [joined EXCEPT ![conn[t]] = gate.run]
          /\ lost' = lost /\ gate' = [gate EXCEPT !.active = @ + 1]
      BY <2>3, <3>1 DEF Join, history
    <3>3. gate'.run = gate.run /\ gate'.active = gate.active + 1
      BY <1>1, <3>2 DEF Gates
    <3>4. Members(gate.run)' = M \union {conn[t]} /\ conn[t] \notin M
      BY <2>1, <3>1, <3>2, <3>3 DEF Members
    <3>5. Cardinality(Members(gate.run))' = Cardinality(M) + 1
      BY <1>1, <3>4, FS_AddElement
    <3> HIDE DEF M
    <3> QED  BY <1>1, <1>2, <3>2, <3>3, <3>5, SMT DEF GateCountsMembers
  <2>4. CASE Leave(t)
    <3>1. /\ gate = seen[t] /\ gate.active # 0 /\ gate.run = joined[conn[t]]
          /\ joined[conn[t]] # 0 /\ conn[t] \in Conns
      BY <2>4 DEF Leave, Swapped, ThreadShape, ThreadOk, Finishing, TypeOK, WorkerType
    <3>2. /\ joined' = [joined EXCEPT ![conn[t]] = 0] /\ lost' = lost
          /\ gate' = Desired(gate)
      BY <2>4, <3>1 DEF Leave, history
    <3>3. gate'.run = gate.run /\ gate'.active = gate.active - 1
      <4>1. CASE IsLastClose(gate)
        BY <3>2, <4>1, SMT DEF Desired, IsLastClose, FinalGate, GateForRun
      <4>2. CASE ~IsLastClose(gate)
        BY <1>1, <3>2, <4>2 DEF Desired, Gates
      <4> QED  BY <4>1, <4>2
    <3>4. conn[t] \in M
      BY <3>1 DEF Members
    <3>5. Cardinality(Members(gate.run))' = Cardinality(M) - 1
      BY <2>2, <3>2, <3>3, <3>4
    <3> HIDE DEF M
    <3> QED  BY <1>1, <1>2, <3>2, <3>3, <3>5, SMT DEF GateCountsMembers
  <2>5. CASE CloseCheckRun(t) \/ CloseLoad(t)
    <3>1. gate' = gate /\ (TurnedAway(t) \/ UNCHANGED <<joined, lost>>)
      BY <2>5 DEF CloseCheckRun, CloseLoad
    <3>2. joined[conn[t]] # 0 /\ conn[t] \in Conns
      BY <2>5 DEF CloseCheckRun, CloseLoad, ThreadShape, ThreadOk, Finishing,
         TypeOK, WorkerType
    <3>3. CASE TurnedAway(t) /\ joined[conn[t]] = gate.run
      <4>1. conn[t] \in M
        BY <3>2, <3>3 DEF Members
      <4>2. lost' = lost + 1 /\ Cardinality(Members(gate.run))' = Cardinality(M) - 1
        BY <2>2, <3>1, <3>3, <4>1 DEF TurnedAway
      <4> HIDE DEF M
      <4> QED  BY <1>1, <1>2, <3>1, <4>2, SMT DEF GateCountsMembers
    <3>4. CASE TurnedAway(t) /\ joined[conn[t]] # gate.run
      <4>1. Members(gate.run)' = M /\ lost' = lost
        BY <2>1, <3>1, <3>2, <3>4 DEF TurnedAway, Members
      <4> QED  BY <1>2, <3>1, <4>1 DEF GateCountsMembers
    <3> QED  BY <1>3, <3>1, <3>3, <3>4
  <2>6. CASE Settle(t)
    <3>1. gate' = gate \/ (gate'.run = gate.run /\ gate'.active = gate.active)
      BY <2>6 DEF Settle, FinalGate, GateForRun
    <3> QED  BY <1>3, <2>6, <3>1 DEF Settle, history
  <2>7. CASE UNCHANGED gate /\ UNCHANGED joined
    <3>1. UNCHANGED lost \/ CloseCheckRun(t) \/ CloseLoad(t)
      BY <1>7 DEF Thread, Continue, Local, history, JoinLoad, JoinCheckRun, Join,
         JoinRetry, HitLoad, HitAdd, HitOverflow, Suspend, Resume, CloseStart,
         CloseParked, Leave, LeaveRetry, SealCheckRun, Publish, Settle
    <3> QED  BY <1>3, <2>5, <2>7, <3>1
  <2> QED  BY <1>7, <2>3, <2>4, <2>5, <2>6, <2>7, GateThreadWriters, JoinedWriters
<1> QED  BY <1>4, <1>5, <1>6, <1>7, Steps

-----------------------------------------------------------------------------
(* The theorems.                                                           *)

\* Every step of the bridge preserves the invariant.
LEMMA NextIInv == IInv /\ [Next]_vars => IInv'
<1> SUFFICES ASSUME IInv, [Next]_vars PROVE IInv'
  OBVIOUS
<1>1. /\ TypeOK /\ ControllerShape /\ GateShape /\ RunOrder /\ ThreadShape
      /\ TagFollowsConnection /\ GateCountsMembers /\ OneFinalizer /\ SealedShape
  BY DEF IInv
<1>2. TypeOK'
  BY <1>1, MapTypeStep, ControllerTypeStep, WorkerTypeStep, HistoryTypeStep
     DEF TypeOK
<1>3. ControllerShape' /\ GateShape'
  BY <1>1, ControllerShapeStep, GateShapeStep
<1>4. RunOrder' /\ ThreadShape'
  BY <1>1, <1>2, RunOrderStep, ThreadShapeStep
<1>5. TagFollowsConnection' /\ GateCountsMembers'
  BY <1>1, <1>2, TagStep, GateCountsMembersStep
<1>6. OneFinalizer' /\ SealedShape'
  BY <1>1, <1>2, OneFinalizerStep, SealedShapeStep
<1> QED  BY <1>2, <1>3, <1>4, <1>5, <1>6 DEF IInv

\* IInv holds of every reachable state.
THEOREM BridgeInvariant == Spec => []IInv
BY InitIInv, NextIInv, PTL DEF Spec

\* The words of the map and the variables of both sides keep their types:
\* neither field of the gate word overflows into the next one.
THEOREM BridgeTypes == Spec => []TypeOK
<1>1. IInv => TypeOK
  BY DEF IInv
<1> QED  BY <1>1, BridgeInvariant, PTL

\* The active field is the number of members and losses of the gate's run
\* (cb_connection_begin, cb_connection_end, cb_claim_controller).
THEOREM BridgeCountsMembers == Spec => []GateCountsMembers
<1>1. IInv => GateCountsMembers
  BY DEF IInv
<1> QED  BY <1>1, BridgeInvariant, PTL

\* Completion of the current run is visible only after everyone has left it
\* (cb_connection_end, cb_wait_snapshot).
THEOREM BridgeCompletionIsTotal == Spec => []CompletionIsTotal
<1>1. IInv => CompletionIsTotal
  <2> SUFFICES ASSUME IInv, run_id # 0, completed_run = run_id, gate.run = run_id
               PROVE  /\ ~gate.enabled /\ gate.active = 0 /\ lost = 0
                      /\ Members(run_id) = {}
    BY DEF CompletionIsTotal
  <2>1. ~gate.enabled /\ gate.active = 0
    BY DEF IInv, SealedShape
  <2>2. /\ 0 = Cardinality(Members(run_id)) + lost
        /\ lost \in Nat
    BY <2>1 DEF IInv, GateCountsMembers, TypeOK, HistoryType
  <2>3. Cardinality(Members(run_id)) = 0 /\ lost = 0
    BY <2>2, MembersFinite, SMT
  <2>4. Members(run_id) = {}
    BY <2>3, MembersFinite, FS_EmptySet
  <2> QED  BY <2>1, <2>3, <2>4
<1> QED  BY <1>1, BridgeInvariant, PTL

\* No two threads finalize the same run (cb_connection_end).
THEOREM BridgeOneFinalizer == Spec => []OneFinalizer
<1>1. IInv => OneFinalizer
  BY DEF IInv
<1> QED  BY <1>1, BridgeInvariant, PTL

\* cb_begin never finds a busy gate and cb_cancel never a foreign one,
\* whatever the connections of earlier runs do.
THEOREM BridgeControllerOwnsGate == Spec => []ControllerOwnsGate
<1>1. IInv => ControllerOwnsGate
  BY DEF IInv, ControllerOwnsGate, ControllerShape, Claiming, GateShape, GateIdle,
     GateOfRun, GateForRun
<1> QED  BY <1>1, BridgeInvariant, PTL

\* A takeover leaves at least one run identifier for cb_begin.
THEOREM BridgeClaimLeavesARun == Spec => []ClaimLeavesARun
<1>1. IInv => ClaimLeavesARun
  BY DEF IInv, ClaimLeavesARun, ControllerShape
<1> QED  BY <1>1, BridgeInvariant, PTL

\* A thread's tag is the run of the connection it serves (cb_thread_pause,
\* cb_thread_resume, cb_connection_begin, cb_connection_end).
THEOREM BridgeTagFollowsConnection == Spec => []TagFollowsConnection
<1>1. IInv => TagFollowsConnection
  BY DEF IInv
<1> QED  BY <1>1, BridgeInvariant, PTL

\* cb_begin opens a run that nothing in the bridge has an identifier of.
THEOREM BridgeOpensFreshRun == Spec => OpensFreshRun
<1>1. ASSUME IInv, [Next]_vars, ~gate.enabled, gate'.enabled PROVE FreshRun
  <2>1. /\ TypeOK /\ ControllerShape /\ GateShape /\ RunOrder /\ ThreadShape
        /\ TagFollowsConnection
    BY <1>1 DEF IInv
  <2>2. BeginOpen
    <3>1. ASSUME NEW t \in Threads, Thread(t) PROVE FALSE
      <4>1. CASE Join(t)
        BY <1>1, <2>1, <4>1 DEF Join, Swapped, ThreadShape, ThreadOk, Admits
      <4>2. CASE Leave(t)
        <5>1. gate' = Desired(gate)
          BY <4>2 DEF Leave, Swapped
        <5> QED  BY <1>1, <2>1, <5>1 DEF Desired, FinalGate, GateForRun, TypeOK,
                    MapType, Gates
      <4>3. CASE Settle(t)
        BY <1>1, <4>3 DEF Settle, GateForRun
      <4> QED  BY <1>1, <3>1, <4>1, <4>2, <4>3, GateThreadWriters
    <3>2. CASE Controller /\ ~FatalExit
      <4>1. gate' # Shut(gate) /\ gate' # GateForRun(run_id)
        BY <1>1, <2>1 DEF Shut, GateForRun, TypeOK, MapType, Gates
      <4> QED  BY <1>1, <3>2, <4>1, GateWriters DEF ClaimCloseAdmission,
                  ClaimStoreGate, CancelCloseAdmission
    <3>3. ~(UNCHANGED gate)
      BY <1>1
    <3> QED  BY <1>1, <2>1, <3>1, <3>2, <3>3, Steps DEF LockFile, Die, shared, vars
  <2>3. gate'.run = run_id /\ gate.run = run_id - 1 /\ run_id \in Nat
    BY <2>1, <2>2 DEF BeginOpen, OpenGate, GateForRun, GateShape, TypeOK, MapType
  <2>4. gate'.run > gate.run /\ gate.run \in Nat /\ gate'.run \in Nat
    BY <2>1, <2>3, SMT DEF TypeOK, MapType, Gates
  <2>5. completed_run \in Nat /\ completed_run <= gate.run
    BY <2>1, SMT DEF RunOrder, TypeOK, MapType
  <2>6. \A c \in Conns : joined[c] \in Nat /\ joined[c] <= gate.run
    BY <2>1, ConstAssumption DEF RunOrder, TypeOK, WorkerType
  <2>7. \A t \in Threads : seen[t].run \in Nat /\ seen[t].run <= gate.run
    BY <2>1, ConstAssumption DEF RunOrder, TypeOK, WorkerType, Gates
  <2>8. \A t \in Threads : thread_run[t] = 0 \/ \E c \in Conns : thread_run[t] = joined[c]
    BY <2>1 DEF TagFollowsConnection, TypeOK, WorkerType
  <2>9. \A c \in Conns : joined[c] < gate'.run
    BY <2>4, <2>6, SMT
  <2>10. \A t \in Threads : seen[t].run < gate'.run
    BY <2>4, <2>7, SMT
  <2>11. \A t \in Threads : thread_run[t] < gate'.run
    BY <2>4, <2>8, <2>9, SMT
  <2>12. gate'.run > completed_run
    BY <2>4, <2>5, SMT
  <2> QED  BY <2>4, <2>9, <2>10, <2>11, <2>12 DEF FreshRun
<1>2. IInv /\ [Next]_vars => [~gate.enabled /\ gate'.enabled => FreshRun]_vars
  BY <1>1
<1> QED  BY <1>2, BridgeInvariant, PTL DEF Spec, OpensFreshRun

\* cb_connection_begin admits to the run that run_id names, or not at all.
LEMMA JoinStep ==
    ASSUME IInv, [Next]_vars
    PROVE  AdmitsToCurrentRun
<1>1. ASSUME NEW c \in Conns, joined[c] = 0, joined'[c] # 0
      PROVE  joined'[c] = run_id
  <2>1. TypeOK /\ ControllerShape /\ GateShape /\ ThreadShape
    BY <1>1 DEF IInv
  <2>2. PICK t \in Threads : Thread(t) /\ Join(t)
    <3>1. ASSUME NEW p \in Procs, Die(p) PROVE FALSE
      BY <1>1, <3>1 DEF Die
    <3>2. CASE UNCHANGED joined
      BY <1>1, <3>2
    <3>3. ASSUME NEW t \in Threads, Thread(t) PROVE UNCHANGED joined \/ Join(t)
      BY <1>1, <2>1, <3>3, JoinedWriters DEF TypeOK, WorkerType
    <3> QED
      BY <1>1, <2>1, <3>1, <3>2, <3>3, Steps, ControllerFrame
         DEF LockFile, ControllerOnly, workers, vars
  <2>3. gate = seen[t] /\ gate.enabled
    BY <2>1, <2>2 DEF Join, Swapped, ThreadShape, ThreadOk, Admits
  <2>4. joined' = [joined EXCEPT ![conn[t]] = gate.run]
    BY <2>2, <2>3 DEF Join
  <2>5. gate.run = run_id
    BY <2>1, <2>3 DEF GateShape
  <2> QED  BY <1>1, <2>1, <2>4, <2>5 DEF TypeOK, WorkerType
<1> QED  BY <1>1 DEF AdmitsToCurrentRun

\* A run to which admission was closed admits nobody ever after.
LEMMA ClosedStep ==
    ASSUME IInv, [Next]_vars
    PROVE  ClosedStaysClosed
<1>1. ASSUME ~gate.enabled, gate'.run = gate.run
      PROVE  ~gate'.enabled /\ gate'.active <= gate.active
  <2>1. /\ TypeOK /\ ControllerShape /\ GateShape /\ ThreadShape
        /\ gate \in Gates /\ gate.active \in Nat /\ gate.run \in Nat
    BY <1>1, SMT DEF IInv, TypeOK, MapType, Gates
  <2>2. CASE UNCHANGED gate
    BY <1>1, <2>1, <2>2, SMT
  <2>3. CASE gate' = Shut(gate)
    <3>1. ~gate'.enabled /\ gate'.active = gate.active
      BY <2>1, <2>3, Zenon DEF Shut, Gates
    <3> QED  BY <2>1, <3>1, SMT
  <2>4. CASE \E r \in Nat : gate' = GateForRun(r)
    <3>1. ~gate'.enabled /\ gate'.active = 0
      BY <2>4 DEF GateForRun
    <3> QED  BY <2>1, <3>1, SMT
  <2>5. ~BeginOpen
    <3>1. BeginOpen => gate'.run = run_id /\ gate.run = run_id - 1 /\ run_id \in Nat
      BY <2>1 DEF BeginOpen, OpenGate, GateForRun, GateShape, TypeOK, MapType
    <3> QED  BY <1>1, <3>1, SMT
  <2>6. ASSUME NEW t \in Threads, Leave(t)
        PROVE  ~gate'.enabled /\ gate'.active <= gate.active
    <3>1. gate' = [gate EXCEPT !.active = @ - 1]
      BY <1>1, <2>6 DEF Leave, Swapped, Desired, IsLastClose
    <3>2. ~gate'.enabled /\ gate'.active = gate.active - 1
      BY <1>1, <2>1, <3>1 DEF Gates
    <3> QED  BY <2>1, <3>2, SMT
  <2>7. ASSUME NEW t \in Threads, Join(t) PROVE FALSE
    BY <1>1, <2>1, <2>7 DEF Join, Swapped, ThreadShape, ThreadOk, Admits
  <2>8. CASE Controller /\ ~FatalExit
    <3>1. run_id \in Nat
      BY <2>1 DEF TypeOK, MapType
    <3>2. \/ UNCHANGED gate \/ gate' = Shut(gate) \/ gate' = GateForRun(run_id)
      BY <2>5, <2>8, GateWriters DEF ClaimCloseAdmission, ClaimStoreGate,
         CancelCloseAdmission
    <3> QED  BY <2>2, <2>3, <2>4, <3>1, <3>2
  <2>9. ASSUME NEW t \in Threads, Thread(t)
        PROVE  ~gate'.enabled /\ gate'.active <= gate.active
    <3>1. seen[t].run \in Nat
      BY <2>1 DEF TypeOK, WorkerType, Gates
    <3>2. Settle(t) => gate' = gate \/ gate' = GateForRun(seen[t].run)
      BY DEF Settle
    <3> QED  BY <2>2, <2>4, <2>6, <2>7, <2>9, <3>1, <3>2, GateThreadWriters
  <2> QED  BY <1>1, <2>1, <2>2, <2>8, <2>9, Steps DEF LockFile, Die, shared, vars
<1> QED  BY <1>1 DEF ClosedStaysClosed

\* Who is admitted by cb_connection_begin, and until when.
THEOREM BridgeAdmission == Spec => AdmissionSound
<1>1. IInv /\ [Next]_vars => [AdmitsToCurrentRun /\ ClosedStaysClosed]_vars
  BY JoinStep, ClosedStep
<1> QED  BY <1>1, BridgeInvariant, PTL DEF Spec, AdmissionSound
=============================================================================
