---------------------------- MODULE HarnessProofs ----------------------------
(***************************************************************************)
(* Theorems about Harness, for any number of children, pids, health checks *)
(* and inputs.  What depends on how httpd stops its children and on the    *)
(* reuse of pids is stated under that condition.                           *)
(***************************************************************************)
EXTENDS Harness, FiniteSetTheorems, TLAPS

\* Children that run have pids of their own.
Slots ==
    \A k \in Kids :
        /\ life[k] # "gone" => pid[k] \in Pids
        /\ life[k] = "gone" => pid[k] = NoPid
        /\ \A j \in Kids : life[j] # "gone" /\ life[k] # "gone" /\ pid[j] = pid[k] => j = k

\* The controller is at an input, whose file is under its pid.
Trying == {"create", "fill", "begin", "open", "connect", "cancel", "unsent",
           "unsent_busy", "wait", "import", "imported"}
Filed ==
    /\ at \in Trying => input \in Inputs
    /\ at = "fill" /\ life[lock] = "up" => file[pid[lock]] = Partial
    /\ at \in Trying \ {"create", "fill"} /\ life[lock] = "up" => file[pid[lock]] = input

\* Without reuse of pids no other child has a file.
Files(k) == IF k # lock \/ at \in {"health", "health_wait", "ready"} THEN {Nothing}
            ELSE {Nothing, Partial, input}
OwnFiles == \A k \in Alive : file[pid[k]] \in Files(k)

\* A connection is in one place at a time, and an input is sent once.
OnItsWay(c) == c \in queue \/ \E k \in Kids : c \in served[k]
Unsent == {"create", "fill", "begin", "open", "connect", "cancel", "unsent", "unsent_busy"}
Traffic ==
    /\ \A c \in members : \E k \in Kids : c \in served[k]
    /\ \A k \in Kids : queue \intersect served[k] = {}
    /\ \A c \in Inputs : OnItsWay(c) => c <= input /\ (at \in Unsent => c < input)

\* What the steps of the controller find of the measurement, and do to it.
Measured ==
    /\ run <= input
    /\ at \in {"create", "fill", "begin", "open"} => run < input
    /\ at = "open" => phase = "void" /\ members = {} /\ lost = 0
    /\ at \in {"import", "imported"} => phase = "sealed"

\* A measurement that begins with an empty queue is that of the input.
Own ==
    /\ at \in {"open", "connect", "cancel"} =>
         queue = {} /\ measured = {} /\ members = {} /\ lost = 0
    /\ at = "connect" => phase = "open"
    /\ at = "wait" =>
         /\ queue \subseteq {input} /\ measured \subseteq {input} /\ members \subseteq measured
         /\ queue \intersect measured = {}
         /\ phase \in {"open", "sealed"}
         /\ phase = "sealed" => queue = {} /\ members = {} /\ lost = 0 /\ measured = {input}
    /\ at = "import" => phase = "sealed" /\ measured = {input}

\* An input that may still be lost to a measurement.
Pending(c) == c \in queue \union members

\* A worker does not die cleaning up after an input before it was sent.
Dispatched == late \subseteq 1..input /\ (at \in Unsent => input \notin late)

\* An input is not lost before it was sent nor after its measurement was waited
\* for, and while it is waited for only if its measurement lost it.
Unowed ==
    /\ unfinished \subseteq 1..input
    /\ at \in Trying \ {"wait"} => input \notin unfinished /\ ~Pending(input)
    /\ at = "wait" /\ input \in unfinished => lost > 0

\* Without orderly stops: what may still be lost is lost already or in its
\* measurement, and what was lost stays.
Kept ==
    /\ \A k \in Kids : life[k] \in {"gone", "up"}
    /\ \A c \in Inputs : Pending(c) => c \in unfinished \/ (c = input /\ at = "wait")
    /\ UnfinishedInputsKept

IInv == /\ TypeOK /\ Slots /\ Filed /\ Traffic /\ Measured /\ Dispatched
        /\ ~PidReuse => OwnFiles
        /\ PromptAccept => Own /\ Unowed
        /\ PromptAccept /\ ~Stops => Kept

-----------------------------------------------------------------------------
(* Constants and sets.                                                     *)

\* Inputs, health checks, and the marks that stand for no input.
LEMMA Kinds ==
    ASSUME HarnessAssumption
    PROVE  /\ Inputs \subseteq Nat \ {0} /\ \A i \in Inputs : i <= MaxInputs /\ i # Nothing /\ i # Partial
           /\ MaxInputs \in Nat /\ IsFiniteSet(Conns)
           /\ Nothing \in 0..MaxInputs /\ Inputs \subseteq Conns /\ Checks \subseteq Conns
<1>1. MaxInputs \in Nat /\ IsFiniteSet(Checks)
  BY DEF HarnessAssumption
<1>2. IsFiniteSet(Inputs)
  BY <1>1, FS_Interval DEF Inputs
<1>3. IsFiniteSet(Conns)
  BY <1>1, <1>2, FS_Union DEF Conns
<1> QED
  BY <1>1, <1>3 DEF Inputs, Conns, Nothing, Partial

\* What is lost with a child is counted.
LEMMA LostCount ==
    ASSUME HarnessAssumption, TypeOK, NEW k \in Kids
    PROVE  /\ Cardinality(members \intersect served[k]) \in Nat
           /\ members = {} => Cardinality(members \intersect served[k]) = 0
           /\ members \intersect served[k] # {} => Cardinality(members \intersect served[k]) > 0
<1>1. IsFiniteSet(members \intersect served[k])
  BY Kinds, FS_Subset DEF TypeOK
<1> QED
  BY <1>1, FS_CardinalityType, FS_EmptySet

\* Where the controller is, its child is.
LEMMA Locked ==
    ASSUME HarnessAssumption, TypeOK, at # "none"
    PROVE  lock \in Kids /\ life[lock] # "gone"
BY DEF TypeOK, Alive, HarnessAssumption

\* No child runs and nothing is on disk.
LEMMA InitInv ==
    ASSUME HarnessAssumption, Init
    PROVE  IInv
<1>1. TypeOK
  BY DEF HarnessAssumption, Init, TypeOK, Alive, Steps, Nothing, Partial
<1>2. Slots /\ Filed /\ Traffic /\ Measured /\ Dispatched /\ OwnFiles /\ Own
  BY DEF Init, Slots, Filed, Traffic, Dispatched, OnItsWay, Unsent, Measured, OwnFiles, Own, Trying,
     Alive
<1>3. Unowed /\ Kept
  BY DEF Init, Unowed, Kept, Pending, UnfinishedInputsKept, Trying
<1> QED
  BY <1>1, <1>2, <1>3 DEF IInv

-----------------------------------------------------------------------------
(* Types.                                                                  *)

\* Types, for each step of the controller
LEMMA ControllerTypes ==
    ASSUME HarnessAssumption, TypeOK, Filed, Controller
    PROVE  TypeOK'
<1> USE Kinds, Locked DEF TypeOK, Alive, Steps, Filed, Trying, Goto, ControllerOnly,
        NoFile, NoTraffic, children, connections, measurement, history
<1>1. CASE HealthConnect
  BY <1>1 DEF HealthConnect
<1>2. CASE HealthAnswered
  BY <1>2 DEF HealthAnswered
<1>3. CASE HealthTimeout
  BY <1>3 DEF HealthTimeout
<1>4. CASE NextInput
  BY <1>4 DEF NextInput
<1>5. CASE CreateFile
  BY <1>5 DEF CreateFile, MayCreate
<1>6. CASE FillFile
  BY <1>6 DEF FillFile
<1>7. CASE FillFails
  BY <1>7 DEF FillFails, Unlink
<1>8. CASE BeginVoid
  BY <1>8 DEF BeginVoid
<1>9. CASE BeginOpen
  BY <1>9 DEF BeginOpen
<1>10. CASE Connect
  BY <1>10 DEF Connect
<1>11. CASE ConnectFails
  BY <1>11 DEF ConnectFails
<1>12. CASE Cancel
  BY <1>12 DEF Cancel
<1>13. CASE RemoveUnsent
  BY <1>13 DEF RemoveUnsent, Unlink
<1>14. CASE WaitDone
  BY <1>14 DEF WaitDone
<1>15. CASE WaitTimeout
  BY <1>15 DEF WaitTimeout, Unresolved
<1>16. CASE Import
  BY <1>16 DEF Import
<1>17. CASE RemoveFile
  BY <1>17 DEF RemoveFile, Unlink
<1>18. CASE DriverReturns
  BY <1>18 DEF DriverReturns
<1> QED
  BY <1>1, <1>2, <1>3, <1>4, <1>5, <1>6, <1>7, <1>8, <1>9, <1>10, <1>11, <1>12, <1>13, <1>14, <1>15, <1>16, <1>17, <1>18 DEF Controller

\* A child ends.
LEMMA GoneTypes ==
    ASSUME HarnessAssumption, TypeOK, NEW k \in Kids, Gone(k), UNCHANGED file,
           unfinished' \subseteq Inputs, late' \subseteq Inputs
    PROVE  TypeOK'
BY LostCount DEF TypeOK, Alive, Steps, Gone

\* and of a child.
LEMMA ChildTypes ==
    ASSUME HarnessAssumption, TypeOK, Filed, NEW k \in Kids,
           \/ \E p \in Pids : Spawn(k, p)
           \/ Stop(k) \/ StopUnlink(k) \/ Exit(k) \/ Claim(k)
           \/ \E c \in Conns : Accept(k, c) \/ Finish(k, c) \/ Close(k, c)
    PROVE  TypeOK'
<1> USE Kinds DEF TypeOK, Alive, Steps, ControllerOnly, NoFile, children, controller,
        connections, measurement, history
<1>1. ASSUME NEW p \in Pids, Spawn(k, p) PROVE TypeOK'
  BY <1>1 DEF Spawn
<1>2. CASE Stop(k)
  BY <1>2 DEF Stop
<1>3. CASE StopUnlink(k) \/ Exit(k)
  BY <1>3 DEF StopUnlink, Exit, Unlink
<1>4. CASE Claim(k)
  BY <1>4 DEF Claim
<1>5. ASSUME NEW c \in Conns, Accept(k, c) PROVE TypeOK'
  BY <1>5 DEF Accept
<1>6. ASSUME NEW c \in Conns, Finish(k, c) \/ Close(k, c) PROVE TypeOK'
  BY <1>6 DEF Finish, Close, Leave
<1> QED
  BY <1>1, <1>2, <1>3, <1>4, <1>5, <1>6

-----------------------------------------------------------------------------
(* Pids and files.                                                         *)

\* What the controller thread leaves alone.
LEMMA ControllerFrame ==
    ASSUME Controller
    PROVE  /\ UNCHANGED <<pid, life, served>>
           /\ UNCHANGED late /\ (UNCHANGED unfinished \/ WaitTimeout)
           /\ UNCHANGED queue \/ HealthConnect \/ Connect
           /\ UNCHANGED measurement \/ BeginVoid \/ BeginOpen \/ Cancel
           /\ UNCHANGED lock \/ DriverReturns
           /\ UNCHANGED input \/ NextInput
           /\ UNCHANGED file \/ CreateFile \/ FillFile \/ FillFails \/ RemoveUnsent \/ RemoveFile
BY DEF Controller, HealthConnect, HealthAnswered, HealthTimeout, NextInput, CreateFile,
   FillFile, FillFails, BeginVoid, BeginOpen, Connect, ConnectFails, Cancel, RemoveUnsent,
   WaitDone, WaitTimeout, Import, RemoveFile, DriverReturns, Goto, ControllerOnly, NoFile,
   NoTraffic, children, connections, measurement, history

\* The children's steps that are not those of their controller.
ChildStep(k) ==
    \/ \E p \in Pids : Spawn(k, p)
    \/ Stop(k) \/ StopUnlink(k) \/ Exit(k) \/ Claim(k)
    \/ \E c \in Conns : Accept(k, c) \/ Finish(k, c) \/ Close(k, c)
Ending(k) ==
    /\ Gone(k) /\ UNCHANGED file
    /\ \/ at = "fatal" /\ lock = k /\ UNCHANGED history
       \/ \E c \in Conns : WorkerCrash(k, c)
       \/ life[k] # "gone" /\ unfinished' = unfinished \union Unresolved(k) /\ UNCHANGED late
       \/ life[k] = "exiting" /\ UNCHANGED history

\* A step is one of the controller, one of a child, or the end of a child.
LEMMA StepKinds ==
    ASSUME HarnessAssumption, TypeOK, Next
    PROVE  \/ Controller
           \/ \E k \in Kids : ChildStep(k) \/ Ending(k)
<1>1. Fatal => Ending(lock) /\ lock \in Kids
  BY Locked DEF Fatal, Ending
<1> QED
  BY <1>1 DEF Next, ChildStep, Ending, WorkerCrash, Killed, ExitDone

\* A slot holds one child, and a pid is used once at a time.
LEMMA SlotsStep ==
    ASSUME HarnessAssumption, TypeOK, Slots, Next
    PROVE  Slots'
<1>1. CASE Controller
  BY <1>1, ControllerFrame DEF Slots
<1>2. ASSUME NEW k \in Kids, Ending(k) PROVE Slots'
  BY <1>2 DEF Ending, Gone, Slots, TypeOK
<1>3. ASSUME NEW k \in Kids, NEW p \in Pids, Spawn(k, p) PROVE Slots'
  BY <1>3 DEF Spawn, Slots, TypeOK
<1>4. ASSUME NEW k \in Kids, Stop(k) \/ StopUnlink(k) \/ Exit(k) PROVE Slots'
  BY <1>4 DEF Stop, StopUnlink, Exit, Slots, TypeOK
<1>5. ASSUME NEW k \in Kids, Claim(k) \/ \E c \in Conns : Accept(k, c) \/ Finish(k, c) \/ Close(k, c)
      PROVE  Slots'
  BY <1>5 DEF Claim, ControllerOnly, Accept, Finish, Close, Leave, children, Slots
<1> QED
  BY <1>1, <1>2, <1>3, <1>4, <1>5, StepKinds DEF ChildStep

\* The file of the controller while it tries an input.
LEMMA FiledStep ==
    ASSUME HarnessAssumption, TypeOK, Slots, Filed, Next
    PROVE  Filed'
<1>1. CASE Controller
  <2> USE Kinds, Locked DEF Filed, Trying, TypeOK, Goto, ControllerOnly, NoFile, NoTraffic
  <2>1. CASE HealthConnect \/ HealthAnswered \/ HealthTimeout
    BY <2>1 DEF HealthConnect, HealthAnswered, HealthTimeout
  <2>2. CASE NextInput
    BY <2>2 DEF NextInput, Inputs
  <2>3. CASE CreateFile
    BY <2>3 DEF CreateFile, MayCreate, Slots
  <2>4. CASE FillFile \/ FillFails
    BY <2>4 DEF FillFile, FillFails, Unlink, Slots
  <2>5. CASE BeginVoid \/ BeginOpen \/ Connect
    BY <2>5 DEF BeginVoid, BeginOpen, Connect
  <2>6. CASE ConnectFails \/ Cancel
    BY <2>6 DEF ConnectFails, Cancel
  <2>7. CASE RemoveUnsent \/ RemoveFile
    BY <2>7 DEF RemoveUnsent, RemoveFile
  <2>8. CASE WaitDone \/ WaitTimeout \/ Import \/ DriverReturns
    BY <2>8 DEF WaitDone, WaitTimeout, Import, DriverReturns, children
  <2> QED
    BY <1>1, <2>1, <2>2, <2>3, <2>4, <2>5, <2>6, <2>7, <2>8 DEF Controller
<1>2. ASSUME NEW k \in Kids, Ending(k) PROVE Filed'
  BY <1>2, Locked DEF Ending, Gone, Filed, Trying, TypeOK
<1>3. ASSUME NEW k \in Kids, ChildStep(k) PROVE Filed'
  <2> USE Locked DEF Filed, Trying, Slots, TypeOK, controller
  <2>1. ASSUME NEW p \in Pids, Spawn(k, p) PROVE Filed'
    BY <2>1 DEF Spawn
  <2>2. CASE Stop(k)
    BY <2>2 DEF Stop
  <2>3. CASE StopUnlink(k) \/ Exit(k)
    BY <2>3 DEF StopUnlink, Exit, Unlink
  <2>4. CASE Claim(k) \/ \E c \in Conns : Accept(k, c) \/ Finish(k, c) \/ Close(k, c)
    BY <2>4 DEF Claim, ControllerOnly, NoFile, Accept, Finish, Close, Leave, children
  <2> QED
    BY <1>3, <2>1, <2>2, <2>3, <2>4 DEF ChildStep
<1> QED
  BY <1>1, <1>2, <1>3, StepKinds

\* The files of the other children, where no pid comes back.
LEMMA OwnFilesStep ==
    ASSUME HarnessAssumption, TypeOK, Slots, Filed, OwnFiles, ~PidReuse, Next
    PROVE  OwnFiles'
<1> USE DEF OwnFiles, Files, Alive
<1>1. CASE Controller
  <2> USE Kinds, Locked DEF TypeOK, Goto, ControllerOnly, NoFile, NoTraffic
  <2>1. CASE HealthConnect \/ HealthAnswered \/ HealthTimeout
    BY <2>1 DEF HealthConnect, HealthAnswered, HealthTimeout
  <2>2. CASE NextInput
    BY <2>2 DEF NextInput
  <2>3. CASE CreateFile
    BY <2>3 DEF CreateFile, MayCreate, Slots
  <2>4. CASE FillFile \/ FillFails
    BY <2>4 DEF FillFile, FillFails, Unlink, Slots
  <2>5. CASE BeginVoid \/ BeginOpen \/ Connect \/ ConnectFails \/ Cancel
    BY <2>5 DEF BeginVoid, BeginOpen, Connect, ConnectFails, Cancel
  <2>6. CASE RemoveUnsent \/ RemoveFile
    BY <2>6 DEF RemoveUnsent, RemoveFile, Unlink, Slots
  <2>7. CASE WaitDone \/ WaitTimeout \/ Import \/ DriverReturns
    BY <2>7 DEF WaitDone, WaitTimeout, Import, DriverReturns, children
  <2> QED
    BY <1>1, <2>1, <2>2, <2>3, <2>4, <2>5, <2>6, <2>7 DEF Controller
<1>2. ASSUME NEW k \in Kids, Ending(k) PROVE OwnFiles'
  BY <1>2 DEF Ending, Gone, TypeOK
<1>3. ASSUME NEW k \in Kids, ChildStep(k) PROVE OwnFiles'
  <2> USE Locked DEF Slots, TypeOK, controller
  <2>1. ASSUME NEW p \in Pids, Spawn(k, p) PROVE OwnFiles'
    BY <2>1 DEF Spawn
  <2>2. CASE Stop(k)
    BY <2>2 DEF Stop
  <2>3. CASE StopUnlink(k) \/ Exit(k)
    BY <2>3 DEF StopUnlink, Exit, Unlink
  <2>4. CASE Claim(k) \/ \E c \in Conns : Accept(k, c) \/ Finish(k, c) \/ Close(k, c)
    BY <2>4 DEF Claim, ControllerOnly, NoFile, Accept, Finish, Close, Leave, children
  <2> QED
    BY <1>3, <2>1, <2>2, <2>3, <2>4 DEF ChildStep
<1> QED
  BY <1>1, <1>2, <1>3, StepKinds

-----------------------------------------------------------------------------
(* The measurement of an input.                                            *)

\* Nobody but the input is in its measurement.
LEMMA OwnStep ==
    ASSUME HarnessAssumption, TypeOK, Filed, Own, PromptAccept, Next
    PROVE  Own'
<1> USE DEF Own
<1>1. CASE Controller
  <2> USE DEF TypeOK, Goto, ControllerOnly, NoFile, NoTraffic, connections, measurement
  <2>1. CASE HealthConnect \/ HealthAnswered \/ HealthTimeout
    BY <2>1 DEF HealthConnect, HealthAnswered, HealthTimeout
  <2>2. CASE NextInput \/ CreateFile \/ FillFile \/ FillFails
    BY <2>2 DEF NextInput, CreateFile, FillFile, FillFails
  <2>3. CASE BeginVoid \/ BeginOpen
    BY <2>3 DEF BeginVoid, BeginOpen
  <2>4. CASE Connect \/ ConnectFails \/ Cancel \/ RemoveUnsent
    BY <2>4 DEF Connect, ConnectFails, Cancel, RemoveUnsent
  <2>5. CASE WaitDone \/ WaitTimeout \/ Import \/ RemoveFile \/ DriverReturns
    BY <2>5 DEF WaitDone, Completed, WaitTimeout, Import, RemoveFile, DriverReturns
  <2> QED
    BY <1>1, <2>1, <2>2, <2>3, <2>4, <2>5 DEF Controller
<1>2. ASSUME NEW k \in Kids, Ending(k) PROVE Own'
  BY <1>2, LostCount DEF Ending, Gone, TypeOK
<1>3. ASSUME NEW k \in Kids, ChildStep(k) PROVE Own'
  <2> USE DEF controller, connections, measurement
  <2>1. CASE (\E p \in Pids : Spawn(k, p)) \/ Stop(k) \/ StopUnlink(k) \/ Exit(k)
    BY <2>1 DEF Spawn, Stop, StopUnlink, Exit
  <2>2. CASE Claim(k)
    BY <2>2 DEF Claim
  <2>3. ASSUME NEW c \in Conns, Accept(k, c) PROVE Own'
    BY <2>3 DEF Accept
  <2>4. ASSUME NEW c \in Conns, Finish(k, c) \/ Close(k, c) PROVE Own'
    BY <2>4 DEF Finish, Close, Leave, IsLast
  <2> QED
    BY <1>3, <2>1, <2>2, <2>3, <2>4 DEF ChildStep
<1> QED
  BY <1>1, <1>2, <1>3, StepKinds

\* A connection is on its way once.
LEMMA TrafficStep ==
    ASSUME HarnessAssumption, TypeOK, Filed, Traffic, Next
    PROVE  Traffic'
<1> USE DEF Traffic, OnItsWay, Unsent
<1>1. CASE Controller
  <2> USE Kinds DEF TypeOK, Goto, NoTraffic, connections, measurement
  <2>1. CASE HealthConnect
    BY <2>1 DEF HealthConnect, HarnessAssumption
  <2>2. CASE NextInput
    BY <2>2 DEF NextInput
  <2>3. CASE Connect
    BY <2>3 DEF Connect, Filed, Trying
  <2>4. CASE HealthAnswered \/ HealthTimeout \/ CreateFile \/ FillFile \/ FillFails
    BY <2>4 DEF HealthAnswered, HealthTimeout, CreateFile, FillFile, FillFails
  <2>5. CASE BeginVoid \/ BeginOpen \/ ConnectFails \/ Cancel \/ RemoveUnsent
    BY <2>5 DEF BeginVoid, BeginOpen, ConnectFails, Cancel, RemoveUnsent
  <2>6. CASE WaitDone \/ WaitTimeout \/ Import \/ RemoveFile \/ DriverReturns
    BY <2>6 DEF WaitDone, WaitTimeout, Import, RemoveFile, DriverReturns
  <2> QED
    BY <1>1, <2>1, <2>2, <2>3, <2>4, <2>5, <2>6 DEF Controller
<1>2. ASSUME NEW k \in Kids, Ending(k) PROVE Traffic'
  BY <1>2 DEF Ending, Gone, TypeOK
<1>3. ASSUME NEW k \in Kids, ChildStep(k) PROVE Traffic'
  <2> USE DEF TypeOK, controller, connections, measurement
  <2>1. CASE (\E p \in Pids : Spawn(k, p)) \/ Stop(k) \/ StopUnlink(k) \/ Exit(k)
    BY <2>1 DEF Spawn, Stop, StopUnlink, Exit
  <2>2. CASE Claim(k)
    BY <2>2 DEF Claim
  <2>3. ASSUME NEW c \in Conns, Accept(k, c) PROVE Traffic'
    BY <2>3 DEF Accept
  <2>4. ASSUME NEW c \in Conns, Finish(k, c) \/ Close(k, c) PROVE Traffic'
    BY <2>4 DEF Finish, Close, Leave
  <2> QED
    BY <1>3, <2>1, <2>2, <2>3, <2>4 DEF ChildStep
<1> QED
  BY <1>1, <1>2, <1>3, StepKinds

\* The measurement is that of the input in work.
LEMMA MeasuredStep ==
    ASSUME HarnessAssumption, TypeOK, Filed, Measured, Next
    PROVE  Measured'
<1> USE DEF Measured, Unsent
<1>1. CASE Controller
  <2> USE Kinds DEF TypeOK, Goto, NoTraffic, connections, measurement
  <2>1. CASE HealthConnect \/ HealthAnswered \/ HealthTimeout
    BY <2>1 DEF HealthConnect, HealthAnswered, HealthTimeout
  <2>2. CASE NextInput \/ CreateFile \/ FillFile \/ FillFails
    BY <2>2 DEF NextInput, CreateFile, FillFile, FillFails
  <2>3. CASE BeginVoid \/ BeginOpen
    BY <2>3 DEF BeginVoid, BeginOpen
  <2>4. CASE Connect \/ ConnectFails \/ Cancel \/ RemoveUnsent
    BY <2>4 DEF Connect, ConnectFails, Cancel, RemoveUnsent
  <2>5. CASE WaitDone \/ WaitTimeout \/ Import \/ RemoveFile \/ DriverReturns
    BY <2>5 DEF WaitDone, Completed, WaitTimeout, Import, RemoveFile, DriverReturns
  <2> QED
    BY <1>1, <2>1, <2>2, <2>3, <2>4, <2>5 DEF Controller
<1>2. ASSUME NEW k \in Kids, Ending(k) PROVE Measured'
  BY <1>2, LostCount DEF Ending, Gone, TypeOK
<1>3. ASSUME NEW k \in Kids, ChildStep(k) PROVE Measured'
  <2> USE DEF controller, connections, measurement
  <2>1. CASE (\E p \in Pids : Spawn(k, p)) \/ Stop(k) \/ StopUnlink(k) \/ Exit(k)
    BY <2>1 DEF Spawn, Stop, StopUnlink, Exit
  <2>2. CASE Claim(k)
    BY <2>2 DEF Claim
  <2>3. ASSUME NEW c \in Conns, Accept(k, c) \/ Finish(k, c) \/ Close(k, c) PROVE Measured'
    BY <2>3 DEF Accept, Finish, Close, Leave
  <2> QED
    BY <1>3, <2>1, <2>2, <2>3 DEF ChildStep
<1> QED
  BY <1>1, <1>2, <1>3, StepKinds

-----------------------------------------------------------------------------
(* What is owed.                                                           *)

\* A child that ends owes its own input, and those that were lost with it.
LEMMA EndingOwes ==
    ASSUME HarnessAssumption, TypeOK, Slots, Filed, NEW k \in Kids, Ending(k)
    PROVE  /\ \A i \in unfinished' \ unfinished :
                 i \in Unresolved(k) \/ (i \in served[k] /\ i \in members /\ i \in Inputs)
           /\ \A i \in late' \ late : i \in served[k] /\ i \in Inputs
           /\ \A i \in Unresolved(k) : /\ i = input /\ i \in Inputs /\ lock = k
                                        /\ file[pid[k]] = i /\ pid[k] \in Pids
           /\ unfinished \subseteq unfinished' /\ Unresolved(k) \subseteq unfinished'
           /\ UNCHANGED <<file, input, queue>>
           /\ served' = [served EXCEPT ![k] = {}] /\ members' = members \ served[k]
           /\ lock = k => at' = "none"
           /\ lock # k => at' = at /\ lock' = lock
           /\ lost' = lost + Cardinality(members \intersect served[k])
<1>1. \A i \in Unresolved(k) : /\ i = input /\ i \in Inputs /\ lock = k
                              /\ file[pid[k]] = i /\ pid[k] \in Pids
  BY DEF Unresolved, Filed, Trying, Slots
<1>2. /\ \A i \in unfinished' \ unfinished :
           i \in Unresolved(k) \/ (i \in served[k] /\ i \in members /\ i \in Inputs)
      /\ \A i \in late' \ late : i \in served[k] /\ i \in Inputs
  BY DEF Ending, WorkerCrash, history
<1>3. unfinished \subseteq unfinished' /\ Unresolved(k) \subseteq unfinished'
  BY DEF Ending, WorkerCrash, history, Unresolved
<1>4. Gone(k) /\ UNCHANGED file
  BY DEF Ending
<1> QED
  BY <1>1, <1>2, <1>3, <1>4 DEF Gone

\* Only a connection that was sent has a worker to die of it,
LEMMA DispatchedStep ==
    ASSUME HarnessAssumption, TypeOK, Slots, Filed, Traffic, Dispatched, Next
    PROVE  Dispatched'
<1> USE DEF Dispatched
<1>1. CASE Controller
  <2>1. UNCHANGED late
    BY <1>1, ControllerFrame
  <2> USE <2>1 DEF Unsent, Goto
  <2>2. CASE NextInput
    BY <2>2 DEF NextInput, TypeOK
  <2>3. CASE HealthConnect \/ HealthAnswered \/ HealthTimeout \/ CreateFile
    BY <2>3 DEF HealthConnect, HealthAnswered, HealthTimeout, CreateFile
  <2>4. CASE FillFile \/ FillFails \/ BeginVoid \/ BeginOpen \/ Connect
    BY <2>4 DEF FillFile, FillFails, BeginVoid, BeginOpen, Connect
  <2>5. CASE ConnectFails \/ Cancel \/ RemoveUnsent
    BY <2>5 DEF ConnectFails, Cancel, RemoveUnsent
  <2>6. CASE WaitDone \/ WaitTimeout \/ Import \/ RemoveFile \/ DriverReturns
    BY <2>6 DEF WaitDone, WaitTimeout, Import, RemoveFile, DriverReturns
  <2> QED
    BY <1>1, <2>2, <2>3, <2>4, <2>5, <2>6 DEF Controller
<1>2. ASSUME NEW k \in Kids, Ending(k) PROVE Dispatched'
  <2>1. /\ \A i \in late' \ late : i \in served[k] /\ i \in Inputs
        /\ UNCHANGED input /\ at' \in {at, "none"}
    BY <1>2, EndingOwes
  <2>2. \A i \in late' \ late : i \in 1..input /\ (at \in Unsent => i < input)
    BY <2>1, Kinds DEF Traffic, OnItsWay, Inputs, TypeOK
  <2>3. late' \subseteq 1..input
    BY <2>2
  <2>4. at \in Unsent => input \notin late'
    BY <2>2 DEF TypeOK
  <2> QED
    BY <2>1, <2>3, <2>4 DEF Unsent
<1>3. ASSUME NEW k \in Kids, ChildStep(k) PROVE Dispatched'
  <2>1. CASE (\E p \in Pids : Spawn(k, p)) \/ Stop(k) \/ StopUnlink(k) \/ Exit(k)
    BY <2>1 DEF Spawn, Stop, StopUnlink, Exit, controller, history
  <2>2. CASE Claim(k)
    BY <2>2 DEF Claim, ControllerOnly, history, Unsent
  <2>3. ASSUME NEW c \in Conns, Accept(k, c) \/ Finish(k, c) \/ Close(k, c) PROVE Dispatched'
    BY <2>3 DEF Accept, Finish, Close, Leave, controller, history
  <2> QED
    BY <1>3, <2>1, <2>2, <2>3 DEF ChildStep
<1> QED
  BY <1>1, <1>2, <1>3, StepKinds

\* The input in work is lost or owed with its controller at the latest.
LEMMA UnowedEnding ==
    ASSUME HarnessAssumption, TypeOK, Slots, Filed, Traffic, Unowed, NEW k \in Kids, Ending(k)
    PROVE  Unowed'
<1>1. /\ \A i \in unfinished' \ unfinished :
           i \in Unresolved(k) \/ (i \in served[k] /\ i \in members /\ i \in Inputs)
      /\ \A i \in Unresolved(k) : i = input /\ i \in Inputs /\ lock = k
      /\ UNCHANGED <<input, queue>> /\ members' = members \ served[k]
      /\ lock = k => at' = "none"
      /\ lock # k => at' = at /\ lock' = lock
      /\ lost' = lost + Cardinality(members \intersect served[k]) /\ lost \in Nat
  BY EndingOwes DEF TypeOK
<1>2. \A i \in unfinished' : i \in 1..input
  <2>1. \A i \in Inputs : i \in served[k] => i <= input
    BY DEF Traffic, OnItsWay
  <2>2. \A i \in Inputs : i <= input => i \in 1..input
    BY DEF Inputs, TypeOK, HarnessAssumption
  <2>3. \A i \in unfinished : i \in 1..input
    BY DEF Unowed
  <2>4. \A i \in Unresolved(k) : i \in 1..input
    BY <1>1, Kinds DEF Inputs
  <2> QED
    BY <1>1, <2>1, <2>2, <2>3, <2>4
<1>3. ASSUME at' \in Trying \ {"wait"}
      PROVE  input \notin unfinished' /\ ~Pending(input)'
  <2>1. at' = at /\ lock # k /\ input \notin unfinished /\ ~Pending(input)
    BY <1>1, <1>3 DEF Unowed, Trying
  <2>2. input \notin members /\ input \notin Unresolved(k)
    BY <1>1, <2>1 DEF Pending
  <2>3. input \notin unfinished'
    BY <1>1, <2>1, <2>2
  <2>4. ~Pending(input)'
    BY <1>1, <2>1 DEF Pending
  <2> QED
    BY <2>3, <2>4
<1>4. ASSUME at' = "wait", input \in unfinished'
      PROVE  lost' > 0
  <2>1. at = "wait" /\ lock # k
    BY <1>1, <1>4
  <2>2. CASE input \in unfinished
    BY <1>1, <2>1, <2>2, LostCount DEF Unowed
  <2>3. CASE input \notin unfinished
    <3>1. members \intersect served[k] # {}
      BY <1>1, <1>4, <2>1, <2>3
    <3> QED
      BY <1>1, <3>1, LostCount
  <2> QED
    BY <2>2, <2>3
<1> QED
  BY <1>1, <1>2, <1>3, <1>4 DEF Unowed, Pending

\* What a measurement is waited for, is in it.
LEMMA UnowedController ==
    ASSUME HarnessAssumption, TypeOK, Filed, Traffic, Own, Unowed, Controller
    PROVE  Unowed'
<1> USE Kinds
<1>1. CASE WaitTimeout
  <2>1. /\ unfinished' \subseteq unfinished \union {input} /\ at' = "fatal"
        /\ input \in Inputs /\ input' = input
    BY <1>1 DEF WaitTimeout, Unresolved, Filed, Trying, Goto
  <2> QED
    BY <2>1 DEF Unowed, Trying, Inputs
<1>2. CASE ~WaitTimeout
  <2>1. UNCHANGED unfinished
    BY <1>2, ControllerFrame
  <2>2. unfinished' \subseteq 1..input'
    <3>1. input' = input \/ input' = input + 1
      BY ControllerFrame DEF NextInput
    <3> QED
      BY <2>1, <3>1 DEF Unowed, TypeOK
  <2> USE <2>1, <2>2
          DEF Unowed, Goto, NoTraffic, connections, measurement, Pending, Trying
  <2>3. CASE HealthConnect
    BY <2>3 DEF HealthConnect
  <2>4. CASE NextInput
    <3>1. CASE at' = "create"
      <4>1. /\ input' = input + 1 /\ input' \in Inputs /\ UNCHANGED <<queue, members>>
        BY <2>4, <3>1 DEF NextInput, TypeOK, Inputs
      <4>2. \A c \in Inputs : Pending(c) => c <= input
        BY DEF Traffic, OnItsWay
      <4>3. ~Pending(input')
        BY <4>1, <4>2 DEF TypeOK
      <4> QED
        BY <3>1, <4>1, <4>3 DEF TypeOK
    <3>2. CASE at' = "ready"
      BY <3>2
    <3> QED
      BY <2>4, <3>1, <3>2 DEF NextInput
  <2>5. CASE HealthAnswered \/ HealthTimeout \/ CreateFile \/ FillFile \/ FillFails
    BY <2>5 DEF HealthAnswered, HealthTimeout, CreateFile, FillFile, FillFails
  <2>6. CASE BeginVoid \/ BeginOpen \/ ConnectFails \/ Cancel \/ RemoveUnsent
    BY <2>6 DEF BeginVoid, BeginOpen, ConnectFails, Cancel, RemoveUnsent
  <2>7. CASE Connect
    BY <2>7 DEF Connect
  <2>8. CASE WaitDone
    <3>1. /\ at = "wait" /\ at' = "import" /\ phase = "sealed"
          /\ UNCHANGED <<input, queue, lost, members>>
      BY <2>8 DEF WaitDone, Completed
    <3>2. queue = {} /\ members = {} /\ lost = 0
      BY <3>1 DEF Own
    <3>3. input \notin unfinished /\ ~Pending(input)
      BY <3>1, <3>2
    <3> QED
      BY <3>1, <3>3
  <2>9. CASE Import \/ RemoveFile \/ DriverReturns
    BY <2>9 DEF Import, RemoveFile, DriverReturns
  <2> QED
    BY <1>2, <2>3, <2>4, <2>5, <2>6, <2>7, <2>8, <2>9 DEF Controller
<1> QED
  BY <1>1, <1>2

\* The other steps of a child owe nothing.
LEMMA UnowedChild ==
    ASSUME HarnessAssumption, TypeOK, Own, Unowed, NEW k \in Kids, ChildStep(k)
    PROVE  Unowed'
<1> USE DEF Unowed, Pending, Trying, children, controller, connections, measurement, history
<1>1. CASE (\E p \in Pids : Spawn(k, p)) \/ Stop(k) \/ StopUnlink(k) \/ Exit(k)
  BY <1>1 DEF Spawn, Stop, StopUnlink, Exit
<1>2. CASE Claim(k)
  BY <1>2 DEF Claim, ControllerOnly
<1>3. ASSUME NEW c \in Conns, Accept(k, c) PROVE Unowed'
  BY <1>3 DEF Accept
<1>4. ASSUME NEW c \in Conns, Finish(k, c) \/ Close(k, c) PROVE Unowed'
  BY <1>4 DEF Finish, Close, Leave
<1> QED
  BY <1>1, <1>2, <1>3, <1>4 DEF ChildStep

\* A child that ends leaves its input on file, and what it took from a measurement
\* is owed or on file with its controller.
LEMMA KeptEnding ==
    ASSUME HarnessAssumption, TypeOK, Slots, Filed, Kept, NEW k \in Kids, Ending(k)
    PROVE  Kept'
<1> USE Kinds
<1>1. /\ \A i \in unfinished' \ unfinished :
           i \in Unresolved(k) \/ (i \in served[k] /\ i \in members /\ i \in Inputs)
      /\ \A i \in Unresolved(k) : file[pid[k]] = i /\ pid[k] \in Pids
      /\ unfinished \subseteq unfinished' /\ Unresolved(k) \subseteq unfinished'
      /\ UNCHANGED <<file, input, queue>> /\ members' = members \ served[k]
      /\ lock # k => at' = at
  BY EndingOwes
<1>2. \A c \in Inputs : c \in members => c \in unfinished \/ (c = input /\ at = "wait")
  BY DEF Kept, Pending
<1>3. at = "wait" => /\ input \in Inputs /\ lock \in Kids /\ life[lock] = "up"
                     /\ file[pid[lock]] = input /\ pid[lock] \in Pids
  BY Locked DEF Kept, Filed, Trying, Slots
<1>4. UnfinishedInputsKept'
  <2>1. ASSUME NEW i \in unfinished' PROVE \E p \in Pids : file[p] = i
    BY <1>1, <1>2, <1>3, <2>1 DEF Kept, UnfinishedInputsKept
  <2> QED
    BY <1>1, <2>1 DEF UnfinishedInputsKept
<1>5. ASSUME NEW c \in Inputs, Pending(c)'
      PROVE  c \in unfinished' \/ (c = input' /\ at' = "wait")
  <2>1. Pending(c)
    BY <1>1, <1>5 DEF Pending
  <2>2. CASE c \in unfinished
    BY <1>1, <2>2
  <2>3. CASE c = input /\ at = "wait" /\ lock # k
    BY <1>1, <2>3
  <2>4. CASE c = input /\ at = "wait" /\ lock = k
    <3>1. life[k] = "up" /\ input \in Unresolved(k)
      BY <1>3, <2>4 DEF Unresolved
    <3> QED
      BY <1>1, <2>4, <3>1
  <2> QED
    BY <2>1, <2>2, <2>3, <2>4 DEF Kept
<1>6. \A j \in Kids : life'[j] \in {"gone", "up"}
  BY DEF Ending, Gone, Kept, TypeOK
<1> QED
  BY <1>4, <1>5, <1>6 DEF Kept

\* The controller takes the file of an input that is owed when its child is being
\* stopped, or at the end of the input, if its worker died cleaning up.
LEMMA FilesTaken ==
    ASSUME HarnessAssumption, TypeOK, Slots, Filed, Unowed, Dispatched, Controller,
           NEW p \in Pids, file[p] \in owed, file'[p] # file[p]
    PROVE  /\ p = pid[lock] /\ lock \in Kids
           /\ \/ life[lock] \notin {"gone", "up"}
              \/ at = "imported" /\ file[p] = input /\ input \in late \ unfinished
<1>1. file[p] \in Inputs /\ file[p] # Nothing /\ file[p] # Partial
  BY Kinds DEF TypeOK, owed
<1>2. CASE UNCHANGED file
  BY <1>2
<1>3. CASE CreateFile
  <2>1. p = pid[lock] /\ file[p] = Nothing
    BY <1>3 DEF CreateFile, MayCreate, NoFile, TypeOK
  <2> QED
    BY <1>1, <2>1
<1>4. CASE FillFile \/ FillFails
  <2>1. p = pid[lock] /\ at = "fill"
    BY <1>4 DEF FillFile, FillFails, Unlink, TypeOK
  <2>2. lock \in Kids /\ life[lock] # "gone"
    BY <2>1, Locked
  <2>3. life[lock] # "up"
    BY <1>1, <2>1 DEF Filed
  <2> QED
    BY <2>1, <2>2, <2>3
<1>5. CASE RemoveUnsent
  <2>1. p = pid[lock] /\ at \in {"unsent", "unsent_busy"}
    BY <1>5 DEF RemoveUnsent, Unlink, TypeOK
  <2>2. lock \in Kids /\ life[lock] # "gone"
    BY <2>1, Locked
  <2>3. input \notin owed
    BY <2>1 DEF Unowed, Dispatched, Trying, Unsent, owed
  <2>4. life[lock] # "up"
    BY <2>1, <2>3 DEF Filed, Trying
  <2> QED
    BY <2>1, <2>2, <2>4
<1>6. CASE RemoveFile
  <2>1. p = pid[lock] /\ at = "imported"
    BY <1>6 DEF RemoveFile, Unlink, TypeOK
  <2>2. lock \in Kids /\ life[lock] # "gone"
    BY <2>1, Locked
  <2>3. input \notin unfinished
    BY <2>1 DEF Unowed, Trying
  <2>4. life[lock] = "up" => file[p] = input
    BY <2>1 DEF Filed, Trying
  <2> QED
    BY <2>1, <2>2, <2>3, <2>4 DEF owed
<1> QED
  BY <1>2, <1>3, <1>4, <1>5, <1>6, ControllerFrame

\* Nothing unfinished is taken where no child is stopped.
LEMMA KeptFiles ==
    ASSUME HarnessAssumption, TypeOK, Slots, Filed, Unowed, Dispatched, Kept, Controller
    PROVE  \A i \in unfinished, p \in Pids : file[p] = i => file'[p] = i
BY FilesTaken DEF Kept, owed

\* The controller keeps what it owes
LEMMA KeptController ==
    ASSUME HarnessAssumption, TypeOK, Slots, Filed, Own, Unowed, Dispatched, Kept, Controller
    PROVE  Kept'
<1> USE Kinds
<1>1. UNCHANGED life /\ \A k \in Kids : life'[k] \in {"gone", "up"}
  BY ControllerFrame DEF Kept
<1>2. CASE WaitTimeout
  <2>1. /\ unfinished' = unfinished \union {input} /\ at' = "fatal" /\ input \in Inputs
        /\ UNCHANGED <<input, file, queue, members>>
        /\ file[pid[lock]] = input /\ pid[lock] \in Pids
    BY <1>2, Locked
       DEF WaitTimeout, Unresolved, Kept, Filed, Trying, Slots, Goto, NoFile, NoTraffic,
           connections, measurement
  <2> QED
    BY <1>1, <2>1 DEF Kept, Pending, UnfinishedInputsKept, Inputs
<1>3. CASE ~WaitTimeout
  <2>1. UNCHANGED unfinished
    BY <1>3, ControllerFrame
  <2>2. UnfinishedInputsKept'
    <3>1. ASSUME NEW i \in unfinished PROVE \E p \in Pids : file'[p] = i
      <4>1. PICK p \in Pids : file[p] = i
        BY DEF Kept, UnfinishedInputsKept
      <4> QED
        BY <4>1, KeptFiles
    <3> QED
      BY <2>1, <3>1 DEF UnfinishedInputsKept
  <2> USE <1>1, <2>1, <2>2
          DEF Kept, Goto, NoTraffic, connections, measurement, Pending
  <2>3. CASE HealthConnect
    BY <2>3 DEF HealthConnect, HarnessAssumption, TypeOK
  <2>4. CASE NextInput
    BY <2>4 DEF NextInput, TypeOK
  <2>5. CASE HealthAnswered \/ HealthTimeout \/ CreateFile \/ FillFile \/ FillFails
    BY <2>5 DEF HealthAnswered, HealthTimeout, CreateFile, FillFile, FillFails
  <2>6. CASE BeginVoid \/ BeginOpen \/ ConnectFails \/ Cancel \/ RemoveUnsent
    BY <2>6 DEF BeginVoid, BeginOpen, ConnectFails, Cancel, RemoveUnsent
  <2>7. CASE Connect
    BY <2>7 DEF Connect, Filed
  <2>8. CASE WaitDone
    <3>1. /\ at = "wait" /\ at' = "import" /\ phase = "sealed"
          /\ UNCHANGED <<input, queue, members>>
      BY <2>8 DEF WaitDone, Completed
    <3>2. queue = {} /\ members = {}
      BY <3>1 DEF Own
    <3> QED
      BY <3>1, <3>2
  <2>9. CASE Import \/ RemoveFile \/ DriverReturns
    BY <2>9 DEF Import, RemoveFile, DriverReturns
  <2> QED
    BY <1>3, <2>3, <2>4, <2>5, <2>6, <2>7, <2>8, <2>9 DEF Controller
<1> QED
  BY <1>2, <1>3

\* and so does a child that is not stopped.
LEMMA KeptChild ==
    ASSUME HarnessAssumption, TypeOK, Kept, ~Stops, NEW k \in Kids, ChildStep(k)
    PROVE  Kept'
<1> USE DEF Kept, UnfinishedInputsKept, Pending, children, controller, connections,
        measurement, history
<1>1. ASSUME NEW p \in Pids, Spawn(k, p) PROVE Kept'
  BY <1>1 DEF Spawn, TypeOK
<1>2. ~Stop(k) /\ ~StopUnlink(k) /\ ~Exit(k)
  BY DEF Stop, StopUnlink, Exit
<1>3. CASE Claim(k)
  <2>1. at = "none" /\ UNCHANGED <<life, file, queue, unfinished>> /\ members' = {}
    BY <1>3, HarnessAssumption DEF Claim, ControllerOnly, NoFile, TypeOK
  <2> QED
    BY <2>1
<1>4. ASSUME NEW c \in Conns, Accept(k, c) PROVE Kept'
  BY <1>4 DEF Accept
<1>5. ASSUME NEW c \in Conns, Finish(k, c) \/ Close(k, c) PROVE Kept'
  BY <1>5 DEF Finish, Close, Leave
<1> QED
  BY <1>1, <1>2, <1>3, <1>4, <1>5 DEF ChildStep

-----------------------------------------------------------------------------
(* The theorems.                                                           *)

\* Every step keeps the invariant.
LEMMA StepInv ==
    ASSUME HarnessAssumption, IInv, [Next]_vars
    PROVE  IInv'
<1>1. CASE Next
  <2>1. TypeOK'
    <3>1. ASSUME NEW k \in Kids, Ending(k) PROVE unfinished' \subseteq Inputs /\ late' \subseteq Inputs
      BY <3>1 DEF Ending, WorkerCrash, history, Unresolved, IInv, TypeOK, Filed, Trying
    <3>2. ASSUME NEW k \in Kids, Ending(k) PROVE Gone(k) /\ UNCHANGED file
      BY <3>2 DEF Ending
    <3> QED
      BY <1>1, <3>1, <3>2, StepKinds, ControllerTypes, GoneTypes, ChildTypes
         DEF IInv, ChildStep
  <2>2. Slots' /\ Filed' /\ Traffic' /\ Measured' /\ Dispatched'
    BY <1>1, SlotsStep, FiledStep, TrafficStep, MeasuredStep, DispatchedStep DEF IInv
  <2>3. (~PidReuse => OwnFiles)'
    BY <1>1, OwnFilesStep DEF IInv
  <2>4. (PromptAccept => Own /\ Unowed)'
    <3>1. PromptAccept => Own'
      BY <1>1, OwnStep DEF IInv
    <3>2. PromptAccept => Unowed'
      BY <1>1, StepKinds, UnowedController, UnowedEnding, UnowedChild DEF IInv
    <3> QED
      BY <3>1, <3>2
  <2>5. (PromptAccept /\ ~Stops => Kept)'
    BY <1>1, StepKinds, KeptController, KeptEnding, KeptChild DEF IInv
  <2> QED
    BY <2>1, <2>2, <2>3, <2>4, <2>5 DEF IInv
<1>2. CASE UNCHANGED vars
  BY <1>2 DEF vars, children, controller, connections, measurement, history, IInv, TypeOK, Alive,
     Slots, Filed, Traffic, Measured, Dispatched, OwnFiles, Files, Own, Unowed, Kept, OnItsWay,
     Pending, UnfinishedInputsKept
<1> QED
  BY <1>1, <1>2

\* The inductive invariant: whose pid and whose file is whose, what a
\* measurement may hold at each step of the controller, and what is still owed.
THEOREM HarnessInvariant == Spec => []IInv
<1>1. Init => IInv
  BY HarnessAssumption, InitInv
<1>2. IInv /\ [Next]_vars => IInv'
  BY HarnessAssumption, StepInv
<1> QED
  BY <1>1, <1>2, PTL DEF Spec

\* Slots, files, connections and the measurement keep their types.
THEOREM HarnessTypes == Spec => []TypeOK
<1>1. IInv => TypeOK
  BY DEF IInv
<1> QED
  BY <1>1, HarnessInvariant, PTL

\* writeCurrentInput comes before the connection, removeCurrentInput after the
\* import, and no other child touches the file, whatever httpd does.
THEOREM HarnessSentInputOnFile == Spec => []SentInputOnFile
<1>1. IInv => SentInputOnFile
  BY DEF IInv, SentInputOnFile, Filed, Trying
<1> QED
  BY <1>1, HarnessInvariant, PTL

\* With a queue that is empty when a measurement begins, what cb_wait_snapshot
\* waits for is the input's own connection, orderly stops or not.
THEOREM HarnessMatchingConnection ==
    ASSUME PromptAccept
    PROVE  Spec => []MatchingConnection
<1>1. IInv => MatchingConnection
  BY DEF IInv, MatchingConnection, Own
<1> QED
  BY <1>1, HarnessInvariant, PTL

\* However many children and controllers die at whatever step, and whoever gets
\* their pids: an input whose measurement or controller was lost stays on file.
THEOREM HarnessUnfinishedKept ==
    ASSUME PromptAccept, ~Stops
    PROVE  Spec => []UnfinishedInputsKept
<1>1. IInv => UnfinishedInputsKept
  BY DEF IInv, Kept
<1> QED
  BY <1>1, HarnessInvariant, PTL

\* Where httpd stops children in an orderly way, where pids come back and where
\* workers die cleaning up, an input that killed a child can still be lost, but
\* only in two ways: to such a stop (fuzzerChildStopping and the exit guard of a
\* child, or the controller of a child that is being stopped), or at the end of the
\* very input whose worker died after its connection had left the measurement.
OwedLeftAlone ==
    [][\A p \in Pids : file[p] \in owed /\ file'[p] # file[p] =>
          \/ \E k \in Kids : pid[k] = p /\ life[k] \in {"stopping", "stopped", "exiting"}
          \/ at = "imported" /\ file[p] = input /\ input \in late \ unfinished]_vars

\* The failures of writeCurrentInput and a cancellation never touch an input that
\* killed a child, whatever dies and whoever gets its pid, and removeCurrentInput
\* only that of a worker whose death its measurement could not see.
THEOREM HarnessOwedLeftAlone ==
    ASSUME PromptAccept
    PROVE  Spec => OwedLeftAlone
<1>1. ASSUME IInv, [Next]_vars, NEW p \in Pids, file[p] \in owed, file'[p] # file[p]
      PROVE  \/ \E k \in Kids : pid[k] = p /\ life[k] \in {"stopping", "stopped", "exiting"}
             \/ at = "imported" /\ file[p] = input /\ input \in late \ unfinished
  <2>1. TypeOK /\ Slots /\ Filed /\ Unowed /\ Dispatched
    BY <1>1 DEF IInv
  <2>2. Next
    BY <1>1 DEF vars
  <2>3. CASE Controller
    <3>1. /\ p = pid[lock] /\ lock \in Kids
          /\ \/ life[lock] \notin {"gone", "up"}
             \/ at = "imported" /\ file[p] = input /\ input \in late \ unfinished
      BY <1>1, <2>1, <2>3, HarnessAssumption, FilesTaken
    <3> QED
      BY <2>1, <3>1 DEF TypeOK
  <2>4. ASSUME NEW k \in Kids, ChildStep(k) \/ Ending(k)
        PROVE  pid[k] = p /\ life[k] \in {"stopping", "stopped"}
    BY <1>1, <2>1, <2>4
       DEF ChildStep, Ending, Spawn, Stop, StopUnlink, Exit, Claim, NoFile, Accept, Finish,
           Close, Leave, Unlink, TypeOK
  <2> QED
    BY <2>1, <2>2, <2>3, <2>4, HarnessAssumption, StepKinds
<1>2. IInv /\ [Next]_vars =>
        [\A p \in Pids : file[p] \in owed /\ file'[p] # file[p] =>
           \/ \E k \in Kids : pid[k] = p /\ life[k] \in {"stopping", "stopped", "exiting"}
           \/ at = "imported" /\ file[p] = input /\ input \in late \ unfinished]_vars
  BY <1>1
<1> QED
  BY <1>2, HarnessInvariant, PTL DEF Spec, OwedLeftAlone

\* fuzzerChildStopping, the exit guard and removeCurrentInput only remove the
\* input that is tried, where no pid comes back.
THEOREM HarnessOnlyCurrentRemoved ==
    ASSUME ~PidReuse
    PROVE  Spec => OnlyCurrentRemoved
<1>1. ASSUME IInv, [Next]_vars, NEW p \in Pids, file[p] \in Inputs, file'[p] # file[p]
      PROVE  file[p] = input
  <2>1. TypeOK /\ Slots /\ Filed /\ OwnFiles
    BY <1>1 DEF IInv
  <2>2. Next
    BY <1>1 DEF vars
  <2>3. CASE Controller
    <3>1. lock \in Kids /\ life[lock] # "gone" /\ p = pid[lock]
      BY <1>1, <2>1, <2>3, ControllerFrame, HarnessAssumption, Locked
         DEF CreateFile, FillFile, FillFails, RemoveUnsent, RemoveFile, Unlink, NoFile, TypeOK
    <3> QED
      BY <1>1, <2>1, <3>1, HarnessAssumption, Kinds DEF OwnFiles, Files, Alive
  <2>4. ASSUME NEW k \in Kids, ChildStep(k) \/ Ending(k) PROVE file[p] = input
    <3>1. p = pid[k] /\ life[k] # "gone"
      BY <1>1, <2>1, <2>4
         DEF ChildStep, Ending, Spawn, Stop, StopUnlink, Exit, Claim, NoFile, Accept, Finish,
             Close, Leave, Unlink, TypeOK
    <3> QED
      BY <1>1, <2>1, <3>1, HarnessAssumption, Kinds DEF OwnFiles, Files, Alive
  <2> QED
    BY <2>1, <2>2, <2>3, <2>4, HarnessAssumption, StepKinds
<1>2. IInv /\ [Next]_vars =>
        [\A p \in Pids : file[p] \in Inputs /\ file'[p] # file[p] => file[p] = input]_vars
  BY <1>1
<1> QED
  BY <1>2, HarnessInvariant, PTL DEF Spec, OnlyCurrentRemoved

\* A child that left its controller thread has no file, so that status.sh
\* counts every file that is owed once no controller is at work.
THEOREM HarnessPreservedCounted ==
    ASSUME ~PidReuse
    PROVE  Spec => []PreservedCounted
<1>1. ASSUME IInv, at = "none", NEW p \in Pids, file[p] \in owed
      PROVE  p \in Counted
  <2>1. TypeOK /\ Slots /\ OwnFiles /\ lock = NoKid /\ NoKid \notin Kids /\ NoPid \notin Pids
    BY <1>1, HarnessAssumption DEF IInv, TypeOK, HarnessAssumption
  <2>2. file[p] # Nothing
    BY <1>1, <2>1, HarnessAssumption, Kinds DEF TypeOK, owed
  <2>3. ASSUME NEW k \in Kids, pid[k] = p PROVE FALSE
    BY <2>1, <2>2, <2>3 DEF Slots, OwnFiles, Files, Alive
  <2> QED
    BY <2>2, <2>3 DEF Counted
<1>2. IInv => PreservedCounted
  BY <1>1 DEF PreservedCounted
<1> QED
  BY <1>2, HarnessInvariant, PTL

-----------------------------------------------------------------------------
(* The measurement is one of FeedbackRun.                                  *)

Taking == IF phase = "open" THEN Cardinality(members) + lost ELSE 0
Held   == IF at = "imported" THEN {[s \in 1..1 |-> 0]} ELSE {}

\* What a step may do to the measurement for it to be a step of FeedbackRun.
LEMMA BridgeSteps ==
    ASSUME HarnessAssumption, IInv,
           \/ UNCHANGED <<run, phase>> /\ Taking' = Taking /\ Held' = Held
           \/ UNCHANGED <<run, phase>> /\ Taking' = Taking /\ Held' = {}
           \/ /\ phase = "void" /\ Held = {} /\ run' \in run + 1..MaxInputs
              /\ phase' = "open" /\ Taking' = Taking /\ Held' = Held
           \/ phase = "open" /\ Taking' = Taking + 1 /\ UNCHANGED <<run, phase>> /\ Held' = Held
           \/ /\ phase = "open" /\ Taking > 0 /\ Taking' = Taking - 1
              /\ phase' = (IF Taking = 1 THEN "sealed" ELSE "open")
              /\ UNCHANGED run /\ Held' = Held
           \/ /\ phase = "sealed" /\ Held' = {[s \in 1..1 |-> 0]}
              /\ UNCHANGED <<run, phase>> /\ Taking' = Taking
           \/ run' \in run..MaxInputs /\ phase' = "void" /\ Taking' = 0 /\ Held' = {}
    PROVE  [Bridge!Next]_(Bridge!vars)
<1>1. \A s \in 1..1 : 0 <= 0
  OBVIOUS
<1>2. Bridge!Saturated(0) = 0
  BY DEF Bridge!Saturated
<1> QED
  BY <1>1, <1>2
     DEF Taking, Held, Bridge!Next, Bridge!vars, Bridge!Open, Bridge!Join, Bridge!Leave,
         Bridge!Deliver, Bridge!Retire, Bridge!Void, Bridge!Zeros

\* Who takes part: those in the run and those that died in it.
LEMMA TakingType ==
    ASSUME HarnessAssumption, TypeOK
    PROVE  /\ IsFiniteSet(members) /\ Cardinality(members) \in Nat /\ lost \in Nat
           /\ members = {} <=> Cardinality(members) = 0
BY Kinds, FS_Subset, FS_CardinalityType, FS_EmptySet DEF TypeOK

\* The controller does no more,
LEMMA ControllerBridge ==
    ASSUME HarnessAssumption, IInv, Controller
    PROVE  [Bridge!Next]_(Bridge!vars)
<1>1. TypeOK /\ Filed /\ Measured
  BY DEF IInv
<1>2. UNCHANGED measurement \/ BeginVoid \/ BeginOpen \/ Cancel
  BY ControllerFrame
<1>3. CASE UNCHANGED measurement /\ ~Import
  <2>1. UNCHANGED <<run, phase>> /\ Taking' = Taking
    BY <1>3 DEF measurement, Taking
  <2>2. Held' = Held \/ Held' = {}
    BY <1>3 DEF Held, Controller, HealthConnect, HealthAnswered, HealthTimeout, NextInput,
       CreateFile, FillFile, FillFails, BeginVoid, BeginOpen, Connect, ConnectFails, Cancel,
       RemoveUnsent, WaitDone, WaitTimeout, RemoveFile, DriverReturns, Goto
  <2> QED
    BY <2>1, <2>2, BridgeSteps
<1>4. CASE Import
  <2>1. phase = "sealed" /\ UNCHANGED measurement /\ at' = "imported"
    BY <1>1, <1>4 DEF Import, Measured, Goto, NoTraffic
  <2> QED
    BY <2>1, BridgeSteps DEF measurement, Taking, Held
<1>5. CASE BeginVoid \/ Cancel
  <2>1. phase' = "void" /\ UNCHANGED run /\ at' # "imported" /\ run \in run..MaxInputs
    BY <1>1, <1>5 DEF BeginVoid, Cancel, Goto, TypeOK
  <2> QED
    BY <2>1, BridgeSteps DEF Taking, Held
<1>6. CASE BeginOpen
  <2>1. /\ phase = "void" /\ phase' = "open" /\ run' = input
        /\ members' = {} /\ lost' = 0 /\ members = {} /\ lost = 0
        /\ at = "open" /\ at' = "connect"
    BY <1>1, <1>6 DEF BeginOpen, Measured, Goto
  <2>2. run' \in run + 1..MaxInputs
    BY <1>1, <2>1, Kinds DEF Measured, Unsent, TypeOK
  <2> QED
    BY <2>1, <2>2, FS_EmptySet, BridgeSteps DEF Taking, Held
<1> QED
  BY <1>2, <1>3, <1>4, <1>5, <1>6

\* and neither does a child.
LEMMA ChildBridge ==
    ASSUME HarnessAssumption, IInv, NEW k \in Kids, ChildStep(k) \/ Ending(k)
    PROVE  [Bridge!Next]_(Bridge!vars)
<1>1. TypeOK /\ Traffic
  BY DEF IInv
<1>2. CASE Ending(k)
  <2>1. /\ members' = members \ served[k] /\ UNCHANGED <<run, phase>>
        /\ lost' = lost + Cardinality(members \intersect served[k])
        /\ Held' = Held \/ Held' = {}
    BY <1>2 DEF Ending, Gone, Held
  <2>2. Cardinality(members') = Cardinality(members) - Cardinality(members \intersect served[k])
    BY <1>1, <2>1, TakingType, FS_Difference
  <2>3. Taking' = Taking
    BY <1>1, <2>1, <2>2, TakingType, LostCount DEF Taking
  <2> QED
    BY <2>1, <2>3, BridgeSteps
<1>3. CASE (\E p \in Pids : Spawn(k, p)) \/ Stop(k) \/ StopUnlink(k) \/ Exit(k)
  <2>1. UNCHANGED measurement /\ at' = at
    BY <1>3 DEF Spawn, Stop, StopUnlink, Exit, controller
  <2> QED
    BY <2>1, BridgeSteps DEF measurement, Taking, Held
<1>4. CASE Claim(k)
  <2>1. phase' = "void" /\ UNCHANGED run /\ at' = "health" /\ run \in run..MaxInputs
    BY <1>1, <1>4 DEF Claim, TypeOK
  <2> QED
    BY <2>1, BridgeSteps DEF Taking, Held
<1>5. ASSUME NEW c \in Conns, Accept(k, c) PROVE [Bridge!Next]_(Bridge!vars)
  <2>1. UNCHANGED <<run, phase, lost, at>> /\ c \notin members
    BY <1>1, <1>5 DEF Accept, Traffic, controller
  <2>2. CASE phase = "open"
    <3>1. Cardinality(members') = Cardinality(members) + 1
      BY <1>1, <1>5, <2>1, <2>2, TakingType, FS_AddElement DEF Accept
    <3> QED
      BY <1>1, <2>1, <2>2, <3>1, TakingType, BridgeSteps DEF Taking, Held
  <2>3. CASE phase # "open"
    BY <2>1, <2>3, BridgeSteps DEF Taking, Held
  <2> QED
    BY <2>2, <2>3
<1>6. ASSUME NEW c \in Conns, Finish(k, c) \/ Close(k, c) PROVE [Bridge!Next]_(Bridge!vars)
  <2>1. /\ UNCHANGED <<run, lost, at>> /\ members' = members \ {c}
        /\ phase' = IF phase = "open" /\ IsLast(c) THEN "sealed" ELSE phase
    BY <1>6 DEF Finish, Close, Leave, controller
  <2>2. CASE phase # "open"
    BY <2>1, <2>2, BridgeSteps DEF Taking, Held
  <2>3. CASE phase = "open" /\ c \notin members
    <3>1. members' = members /\ ~IsLast(c)
      BY <2>1, <2>3 DEF IsLast
    <3> QED
      BY <2>1, <2>3, <3>1, BridgeSteps DEF Taking, Held
  <2>4. CASE phase = "open" /\ c \in members
    <3>1. Cardinality(members') = Cardinality(members) - 1 /\ Cardinality(members) > 0
      <4>1. Cardinality(members') = Cardinality(members) - 1
        BY <1>1, <2>1, <2>4, TakingType, FS_RemoveElement
      <4>2. Cardinality(members) # 0 /\ Cardinality(members) \in Nat
        BY <1>1, <2>4, TakingType
      <4> QED
        BY <4>1, <4>2
    <3>2. IsLast(c) <=> Taking = 1
      <4>1. members = {c} <=> members' = {}
        BY <2>1, <2>4
      <4>2. members' = {} <=> Cardinality(members') = 0
        BY <1>1, <2>1, TakingType, FS_Subset, FS_EmptySet
      <4> QED
        BY <1>1, <2>4, <3>1, <4>1, <4>2, TakingType DEF IsLast, Taking
    <3>3. CASE IsLast(c)
      BY <1>1, <2>1, <2>4, <3>1, <3>2, <3>3, TakingType, BridgeSteps DEF Taking, Held
    <3>4. CASE ~IsLast(c)
      BY <1>1, <2>1, <2>4, <3>1, <3>2, <3>4, TakingType, BridgeSteps DEF Taking, Held
    <3> QED
      BY <3>3, <3>4
  <2> QED
    BY <2>2, <2>3, <2>4
<1> QED
  BY <1>2, <1>3, <1>4, <1>5, <1>6 DEF ChildStep

\* What the harness does with the bridge is what FeedbackRun allows: cb_begin,
\* cb_cancel, cb_wait_snapshot and the import, and the hooks of the connections.
THEOREM HarnessUsesFeedbackRun == Spec => UsesFeedbackRun
<1>1. Init => Bridge!Init
  BY DEF Init, Bridge!Init, Bridge!Zeros
<1>2. IInv /\ [Next]_vars => [Bridge!Next]_(Bridge!vars)
  <2>1. ASSUME IInv, Next PROVE [Bridge!Next]_(Bridge!vars)
    BY <2>1, HarnessAssumption, StepKinds, ControllerBridge, ChildBridge DEF IInv
  <2>2. ASSUME UNCHANGED vars PROVE UNCHANGED Bridge!vars
    BY <2>2 DEF vars, controller, measurement, Bridge!vars
  <2> QED
    BY <2>1, <2>2
<1> QED
  BY <1>1, <1>2, HarnessInvariant, PTL DEF Spec, UsesFeedbackRun, Bridge!Spec

-----------------------------------------------------------------------------
(* What whoever implements FeedbackRun keeps, for the harness. *)

\* A step of the measurement, seen from the harness, keeps what was promised, seals
\* for good and opens under a number of its own.
LEMMA BridgePromise ==
  ASSUME Bridge!Promised, [Bridge!Next]_(Bridge!vars)
  PROVE  /\ Bridge!Promised'
         /\ Bridge!FinalStep /\ Bridge!AscendingStep
<1> USE DEF Bridge!Promised, Bridge!FinalStep, Bridge!AscendingStep
<1>1. CASE UNCHANGED Bridge!vars
  <2>1. /\ UNCHANGED <<run, phase>>
        /\ UNCHANGED (IF phase = "open" THEN Cardinality(members) + lost ELSE 0)
        /\ UNCHANGED (IF at = "imported" THEN {[s \in 1..1 |-> 0]} ELSE {})
    BY <1>1 DEF Bridge!vars
  <2>2. Bridge!Promised'
    BY <2>1 DEF Bridge!Saturated
  <2>3. Bridge!FinalStep
    BY <2>1
  <2>4. Bridge!AscendingStep
    BY <2>1
  <2> QED
    BY <2>2, <2>3, <2>4
<1>2. CASE Bridge!Open
  BY <1>2 DEF Bridge!Open
<1>3. CASE Bridge!Join
  BY <1>3 DEF Bridge!Join
<1>4. ASSUME NEW s \in 1..1, Bridge!Hit(s)
      PROVE  /\ Bridge!Promised'
             /\ Bridge!FinalStep /\ Bridge!AscendingStep
  BY <1>4 DEF Bridge!Hit
<1>5. CASE Bridge!Leave
  BY <1>5 DEF Bridge!Leave
<1>6. CASE Bridge!Deliver
  BY <1>6 DEF Bridge!Deliver, Bridge!Saturated
<1>7. CASE Bridge!Retire
  BY <1>7 DEF Bridge!Retire
<1>8. CASE Bridge!Void
  BY <1>8 DEF Bridge!Void
<1> QED
  BY <1>1, <1>2, <1>3, <1>4, <1>5, <1>6, <1>7, <1>8 DEF Bridge!Next

\* A run that the harness has seen sealed takes no connection until it is void,
\* however children start, stop and leave connections behind, and no execution has
\* the run of an earlier one, across cb_cancel and new controllers.
THEOREM HarnessSealedIsFinal ==
  Spec => []Bridge!Promised /\ Bridge!SealedIsFinal /\ Bridge!RunsAscend
<1>1. Bridge!Init => Bridge!Promised
  BY DEF Bridge!Init, Bridge!Promised
<1>2. Bridge!Promised /\ [Bridge!Next]_(Bridge!vars) =>
        Bridge!Promised' /\ [Bridge!FinalStep]_(Bridge!vars)
                         /\ [Bridge!AscendingStep]_(Bridge!vars)
  BY BridgePromise
<1> QED
  BY <1>1, <1>2, HarnessUsesFeedbackRun, PTL
     DEF UsesFeedbackRun, Bridge!Spec, Bridge!SealedIsFinal, Bridge!RunsAscend
=============================================================================
