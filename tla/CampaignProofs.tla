--------------------------- MODULE CampaignProofs ---------------------------
(***************************************************************************)
(* Theorems about Campaign, for any number of launchers and configurations. *)
(* Those about the httpds are for launchers that are not stopped in the    *)
(* second before a new httpd is recorded, and two of them speak of the     *)
(* configurations whose httpd writes its pid file within that second.      *)
(***************************************************************************)
EXTENDS Campaign, TLAPS

Places == {"idle", "check", "rotate", "start", "stop_old", "settle", "monitor",
           "tidy", "term", "wait", "mark", "done"}
States == {"none", "new", "up", "dying", "gone"}
Profiles == {"absent", "none", "good", "empty"}
Settling(l, n) == at[l] = "settle" /\ next[l] = n

\* TypeOK, with a name for the range of the loop.
Nexts == 1..MaxConfig + 1
Types ==
    /\ lock = NoOne \/ (lock \in Launchers /\ at[lock] \notin {"idle", "done"})
    /\ next \in [Launchers -> Nexts]
    /\ recorded \in [Launchers -> SUBSET Configs]
    /\ \A l \in Launchers : recorded[l] \subseteq selected[l] /\ selected[l] \subseteq wanted[l]
    /\ pidfile \in [Configs -> Launchers \union {NoOne, Stale}]
    /\ completed \subseteq Launchers

\* What each variable ranges over, and which configuration is being started.
Shape ==
    /\ at \in [Launchers -> Places] /\ wanted \in [Launchers -> SUBSET Configs]
    /\ selected \in [Launchers -> SUBSET Configs]
    /\ failure \in [Launchers -> BOOLEAN] /\ intact \in [Launchers -> BOOLEAN]
    /\ result \in [Launchers -> {0, 1}]
    /\ proc \in [Launchers -> [Configs -> States]]
    /\ profile \in [Launchers -> [Configs -> Profiles]]
    /\ \A l \in Launchers :
         /\ at[l] = "idle" => next[l] = 1
         /\ at[l] = "check" => next[l] \in Configs
         /\ at[l] \in {"settle", "stop_old"} => next[l] \in wanted[l]

\* Until it stops a launcher has the lock.
Working == {"check", "rotate", "start", "stop_old", "settle", "monitor", "tidy"}
LockHeld == \A l \in Launchers : at[l] \in Working => lock = l

\* Every httpd that writes its pid file in time is found through it, but for one
\* that is starting; whatever becomes of the others.
Known ==
    \A l \in Launchers, n \in PromptPidFile :
        /\ proc[l][n] \in {"up", "dying"} => pidfile[n] = l
        /\ proc[l][n] = "new" => Settling(l, n)
        /\ Settling(l, n) => \A m \in Launchers : Alive(m, n) => m = l
        /\ at[l] = "stop_old" /\ next[l] = n =>
             \A m \in Launchers : Alive(m, n) => proc[m][n] = "dying"
        /\ (at[l] = "check" /\ n < next[l]) \/ at[l] = "rotate" =>
             \A m \in Launchers : ~Alive(m, n)
        /\ at[l] \in Working \ {"check"} => \A m \in Launchers : Alive(m, n) => m = l

\* An httpd is one the launcher will wait for, or it knows that it is not;
\* and its profiles are those of a configuration that was selected.
Accounted(l) ==
    /\ \A n \in Configs :
         /\ Alive(l, n) => n \in recorded[l] \/ Settling(l, n) \/ ~intact[l] \/ at[l] = "done"
         /\ Alive(l, n) => profile[l][n] # "absent"
         /\ profile[l][n] # "absent" => n \in selected[l] \/ Settling(l, n) \/ failure[l] \/ at[l] = "done"
    /\ at[l] = "mark" => recorded[l] = {} /\ (intact[l] => ~failure[l])
    /\ l \in completed =>
         at[l] = "done" /\ Reportable(l) /\ \A n \in Configs : ~Alive(l, n)

\* What holds however launchers are stopped, and what needs that they are not in
\* the second before an httpd is recorded.
Calm == ~StopUnrecorded
AllAccounted == \A l \in Launchers : Accounted(l)
IInv == /\ Types /\ Shape /\ LockHeld
        /\ Calm => AllAccounted /\ Known

-----------------------------------------------------------------------------

\* No launcher runs and no session exists.
LEMMA InitInv ==
    ASSUME CampaignAssumption, Init
    PROVE  IInv
<1>1. MaxConfig \in Nat \ {0} /\ 1 \in 1..MaxConfig + 1
  BY DEF CampaignAssumption
<1>2. Types
  BY <1>1 DEF Init, Types, Nexts, Configs
<1>3. Shape
  <2>1. wanted \in [Launchers -> SUBSET Configs]
    <3>1. {Configs} \union {{n} : n \in Configs} \subseteq SUBSET Configs
      OBVIOUS
    <3> QED
      BY <3>1 DEF Init
  <2>2. 1 \in Configs
    BY <1>1 DEF Configs
  <2> QED
    BY <2>1, <2>2 DEF Init, Shape, Places, States, Profiles
<1>4. LockHeld /\ AllAccounted /\ Known
  BY DEF Init, LockHeld, Working, Known, AllAccounted, Accounted, Settling, Alive
<1> QED
  BY <1>2, <1>3, <1>4 DEF IInv

-----------------------------------------------------------------------------
(* Types.                                                                  *)

\* run_fuzzer is done with a configuration: on to the next, or to the end.
LEMMA ContinueStep ==
    ASSUME CampaignAssumption, Types, Shape, NEW l \in Launchers, NEW ok \in BOOLEAN,
           next[l] \in Configs, Continue(l, ok)
    PROVE  /\ failure' = [failure EXCEPT ![l] = failure[l] \/ ~ok]
           /\ failure' \in [Launchers -> BOOLEAN]
           /\ next' \in [Launchers -> Nexts] /\ at' \in [Launchers -> Places]
           /\ result' \in [Launchers -> {0, 1}]
           /\ at'[l] \in {"term", "start"}
           /\ \A m \in Launchers : m # l => at'[m] = at[m] /\ next'[m] = next[m]
<1>1. /\ \/ at' = [at EXCEPT ![l] = "term"] \/ at' = [at EXCEPT ![l] = "start"]
      /\ UNCHANGED next \/ next' = [next EXCEPT ![l] = next[l] + 1]
      /\ UNCHANGED result \/ result' = [result EXCEPT ![l] = 1]
  BY DEF Continue, Goto
<1>2. next[l] + 1 \in Nexts
  BY DEF Configs, Nexts, CampaignAssumption
<1>3. next' \in [Launchers -> Nexts] /\ \A m \in Launchers : m # l => next'[m] = next[m]
  BY <1>1, <1>2 DEF Types
<1>4. at' \in [Launchers -> Places] /\ at'[l] \in {"term", "start"}
      /\ \A m \in Launchers : m # l => at'[m] = at[m]
  BY <1>1 DEF Shape, Places
<1>5. result' \in [Launchers -> {0, 1}]
  BY <1>1 DEF Shape
<1>6. failure' = [failure EXCEPT ![l] = failure[l] \/ ~ok] /\ failure' \in [Launchers -> BOOLEAN]
  BY DEF Continue, Shape
<1> QED
  BY <1>3, <1>4, <1>5, <1>6

\* One entry of a table changes.
LEMMA Entry ==
    ASSUME NEW D, NEW E, NEW S, NEW f \in [D -> [E -> S]], NEW d \in D, NEW e \in E, NEW v \in S
    PROVE  /\ [f EXCEPT ![d][e] = v] \in [D -> [E -> S]]
           /\ \A a \in D, b \in E :
                [f EXCEPT ![d][e] = v][a][b] = IF a = d /\ b = e THEN v ELSE f[a][b]
<1> DEFINE row == [f[d] EXCEPT ![e] = v]
<1>1. row \in [E -> S] /\ \A b \in E : row[b] = IF b = e THEN v ELSE f[d][b]
  OBVIOUS
<1>2. [f EXCEPT ![d][e] = v] = [f EXCEPT ![d] = row]
  OBVIOUS
<1> HIDE DEF row
<1>3. [f EXCEPT ![d] = row] \in [D -> [E -> S]]
  BY <1>1
<1>4. \A a \in D : [f EXCEPT ![d] = row][a] = IF a = d THEN row ELSE f[a]
  OBVIOUS
<1> QED
  BY <1>1, <1>2, <1>3, <1>4

\* One httpd changes its state.
LEMMA ProcStep ==
    ASSUME Shape, NEW l \in Launchers, NEW n \in Configs, NEW s \in States, Proc(l, n, s)
    PROVE  /\ proc' \in [Launchers -> [Configs -> States]]
           /\ \A m \in Launchers, k \in Configs :
                proc'[m][k] = IF m = l /\ k = n THEN s ELSE proc[m][k]
BY Entry DEF Shape, States, Proc

\* One run_N directory changes.
LEMMA ProfileStep ==
    ASSUME Shape, NEW l \in Launchers, NEW n \in Configs, NEW s \in Profiles,
           profile' = [profile EXCEPT ![l][n] = s]
    PROVE  /\ profile' \in [Launchers -> [Configs -> Profiles]]
           /\ \A m \in Launchers, k \in Configs :
                profile'[m][k] = IF m = l /\ k = n THEN s ELSE profile[m][k]
BY Entry DEF Shape, Profiles

\* The loop over the configurations stays in range.
LEMMA Numbers ==
    ASSUME CampaignAssumption
    PROVE  /\ 1 \in Configs /\ Configs \subseteq Nexts
           /\ \A n \in Configs : n + 1 \in Nexts /\ (n < MaxConfig => n + 1 \in Configs)
           /\ \A n \in Nexts : n <= MaxConfig => n \in Configs
BY DEF Configs, Nexts, CampaignAssumption

\* A launcher goes somewhere else, with or without an exit status.
LEMMA Moves ==
    ASSUME CampaignAssumption, Types, Shape, NEW l \in Launchers,
           at' \in [Launchers -> Places], result' \in [Launchers -> {0, 1}],
           next' \in [Launchers -> Nexts],
           \A m \in Launchers : m # l => at'[m] = at[m] /\ next'[m] = next[m],
           at'[l] \notin {"idle", "settle", "stop_old"}, at'[l] = "check" => next'[l] \in Configs,
           lock' \in {lock, NoOne, l}, lock' = l => at'[l] # "done",
           UNCHANGED <<recorded, selected, failure, intact>>, LauncherOnly
    PROVE  Types' /\ Shape'
<1>1. UNCHANGED <<built, wanted, proc, pidfile, profile, completed>>
  BY DEF LauncherOnly, choice, httpd
<1>2. Types'
  <2>1. lock' = NoOne \/ (lock' \in Launchers /\ at'[lock'] \notin {"idle", "done"})
    BY DEF Types
  <2> QED
    BY <1>1, <2>1 DEF Types
<1>3. Shape'
  <2>1. ASSUME NEW m \in Launchers
        PROVE  /\ at'[m] = "idle" => next'[m] = 1
               /\ at'[m] = "check" => next'[m] \in Configs
               /\ at'[m] \in {"settle", "stop_old"} => next'[m] \in wanted'[m]
    BY <1>1 DEF Shape
  <2> QED
    BY <1>1, <2>1 DEF Shape
<1> QED
  BY <1>2, <1>3

\* The shell ends.
LEMMA Exits ==
    ASSUME CampaignAssumption, Types, Shape, NEW l \in Launchers, Exit(l),
           lock' \in {lock, NoOne}, lock' # l, completed' \subseteq Launchers,
           UNCHANGED <<choice, httpd, profile>>
    PROVE  Types' /\ Shape'
<1>1. /\ UNCHANGED <<built, wanted, proc, pidfile, profile>>
      /\ at' = [at EXCEPT ![l] = "done"]
      /\ next' = [next EXCEPT ![l] = 1] /\ recorded' = [recorded EXCEPT ![l] = {}]
      /\ selected' = [selected EXCEPT ![l] = {}] /\ failure' = [failure EXCEPT ![l] = FALSE]
      /\ intact' = [intact EXCEPT ![l] = TRUE] /\ result' = [result EXCEPT ![l] = 0]
  BY DEF Exit, Goto, choice, httpd
<1>2. 1 \in Nexts
  BY Numbers
<1>3. Types'
  <2>1. lock' = NoOne \/ (lock' \in Launchers /\ at'[lock'] \notin {"idle", "done"})
    BY <1>1 DEF Types
  <2>2. \A m \in Launchers : recorded'[m] \subseteq selected'[m] /\ selected'[m] \subseteq wanted'[m]
    BY <1>1 DEF Types, Shape
  <2> QED
    BY <1>1, <1>2, <2>1, <2>2 DEF Types
<1>4. Shape'
  <2>1. /\ at' \in [Launchers -> Places] /\ selected' \in [Launchers -> SUBSET Configs]
        /\ failure' \in [Launchers -> BOOLEAN] /\ intact' \in [Launchers -> BOOLEAN]
        /\ result' \in [Launchers -> {0, 1}]
    BY <1>1 DEF Shape, Places
  <2>2. ASSUME NEW m \in Launchers
        PROVE  /\ at'[m] = "idle" => next'[m] = 1
               /\ at'[m] = "check" => next'[m] \in Configs
               /\ at'[m] \in {"settle", "stop_old"} => next'[m] \in wanted'[m]
    BY <1>1 DEF Shape, Types
  <2> QED
    BY <1>1, <2>1, <2>2 DEF Shape
<1> QED
  BY <1>3, <1>4

\* The steps of a launcher before it starts an httpd, and while it watches.
LEMMA WatchTypes ==
    ASSUME CampaignAssumption, Types, Shape, NEW l \in Launchers,
           TakeLock(l) \/ CheckConfig(l) \/ Rotate(l) \/ Started(l) \/ Monitor(l) \/ Tidy(l)
    PROVE  Types' /\ Shape'
<1>1. CASE TakeLock(l)
  <2>1. LauncherOnly /\ next \in [Launchers -> Nexts] /\ at[l] = "idle"
    BY <1>1 DEF TakeLock, Types
  <2>2. CASE LockFree
    <3>1. /\ lock' = l /\ at' = [at EXCEPT ![l] = "check"] /\ result' = result
          /\ UNCHANGED <<next, recorded, selected, failure, intact>>
      BY <1>1, <2>2 DEF TakeLock, Goto, memory
    <3>2. next'[l] \in Configs
      BY <2>1, <3>1, Numbers DEF Shape
    <3>3. /\ at' \in [Launchers -> Places] /\ at'[l] = "check"
          /\ \A m \in Launchers : m # l => at'[m] = at[m] /\ next'[m] = next[m]
      BY <3>1 DEF Shape, Places
    <3>4. result' \in [Launchers -> {0, 1}]
      BY <3>1 DEF Shape
    <3> QED
      BY <2>1, <3>1, <3>2, <3>3, <3>4, Moves
  <2>3. CASE ~LockFree
    <3>1. Exit(l) /\ lock' = lock
      BY <1>1, <2>3 DEF TakeLock
    <3>2. lock # l
      BY <2>1 DEF Types, CampaignAssumption
    <3> QED
      BY <2>1, <3>1, <3>2, Exits DEF LauncherOnly, Types
  <2> QED
    BY <2>2, <2>3
<1>2. CASE CheckConfig(l)
  <2>1. /\ LauncherOnly /\ next \in [Launchers -> Nexts]
        /\ at[l] = "check" /\ next[l] \in Configs
        /\ ~Running(next[l]) => UNCHANGED <<recorded, selected, failure, intact>>
    BY <1>2 DEF CheckConfig, Types, Shape
  <2>2. CASE Running(next[l])
    <3>1. Exit(l) /\ lock' = Released(l)
      BY <1>2, <2>2 DEF CheckConfig
    <3>2. lock' \in {lock, NoOne} /\ lock' # l
      BY <3>1 DEF Released, CampaignAssumption
    <3> QED
      BY <2>1, <3>1, <3>2, Exits DEF LauncherOnly, Types
  <2>3. CASE ~Running(next[l]) /\ next[l] < MaxConfig
    <3>1. /\ UNCHANGED <<lock, at, result, recorded, selected, failure, intact>>
          /\ next' = [next EXCEPT ![l] = next[l] + 1] /\ next[l] + 1 \in Configs
      BY <1>2, <2>1, <2>3, Numbers DEF CheckConfig
    <3>2. /\ next' \in [Launchers -> Nexts] /\ next'[l] \in Configs
          /\ \A m \in Launchers : m # l => next'[m] = next[m]
      BY <2>1, <3>1, Numbers
    <3>3. UNCHANGED <<built, wanted, proc, pidfile, profile, completed>>
      BY <2>1 DEF LauncherOnly, choice, httpd
    <3>4. Types'
      BY <2>1, <3>1, <3>2, <3>3 DEF Types
    <3>5. Shape'
      BY <2>1, <3>1, <3>2, <3>3 DEF Shape
    <3> QED
      BY <3>4, <3>5
  <2>4. CASE ~Running(next[l]) /\ ~(next[l] < MaxConfig)
    <3>1. /\ next' = [next EXCEPT ![l] = 1] /\ at' = [at EXCEPT ![l] = "rotate"]
          /\ UNCHANGED <<lock, result, recorded, selected, failure, intact>>
      BY <1>2, <2>4 DEF CheckConfig, Goto
    <3>2. /\ next' \in [Launchers -> Nexts]
          /\ \A m \in Launchers : m # l => next'[m] = next[m]
      BY <2>1, <3>1, Numbers
    <3>3. /\ at' \in [Launchers -> Places] /\ at'[l] = "rotate"
          /\ \A m \in Launchers : m # l => at'[m] = at[m]
      BY <3>1 DEF Shape, Places
    <3>4. result' \in [Launchers -> {0, 1}]
      BY <3>1 DEF Shape
    <3> QED
      BY <2>1, <3>1, <3>2, <3>3, <3>4, Moves
  <2> QED
    BY <2>2, <2>3, <2>4
<1>3. CASE Rotate(l)
  <2>1. /\ at' = [at EXCEPT ![l] = "start"] /\ LauncherOnly /\ next \in [Launchers -> Nexts]
        /\ UNCHANGED <<lock, next, recorded, selected, failure, intact, result>>
    BY <1>3 DEF Rotate, Goto, Types
  <2>2. /\ at' \in [Launchers -> Places] /\ at'[l] = "start"
        /\ \A m \in Launchers : m # l => at'[m] = at[m] /\ next'[m] = next[m]
    BY <2>1 DEF Shape, Places
  <2>3. result' \in [Launchers -> {0, 1}]
    BY <2>1 DEF Shape
  <2> QED
    BY <2>1, <2>2, <2>3, Moves
<1>4. CASE Started(l)
  <2>1. /\ UNCHANGED <<lock, next, recorded, selected, failure, intact>> /\ LauncherOnly
        /\ next \in [Launchers -> Nexts]
    BY <1>4 DEF Started, Types
  <2>2. PICK step \in {"term", "monitor"} :
          /\ at' = [at EXCEPT ![l] = step]
          /\ result' = result \/ result' = [result EXCEPT ![l] = 1]
    BY <1>4 DEF Started, Goto
  <2>3. /\ at' \in [Launchers -> Places] /\ at'[l] \in {"term", "monitor"}
        /\ \A m \in Launchers : m # l => at'[m] = at[m] /\ next'[m] = next[m]
    BY <2>1, <2>2 DEF Shape, Places
  <2>4. result' \in [Launchers -> {0, 1}]
    BY <2>2 DEF Shape
  <2> QED
    BY <2>1, <2>3, <2>4, Moves
<1>5. CASE Monitor(l)
  <2>1. Types'
    BY <1>5 DEF Monitor, Goto, Types, LauncherOnly, choice, httpd
  <2>2. Shape'
    BY <1>5 DEF Monitor, Goto, Shape, Places, LauncherOnly, choice, httpd
  <2> QED
    BY <2>1, <2>2
<1>6. CASE Tidy(l)
  <2>1. /\ at' = [at EXCEPT ![l] = "monitor"] /\ LauncherOnly /\ next \in [Launchers -> Nexts]
        /\ UNCHANGED <<lock, next, recorded, selected, failure, intact, result>>
    BY <1>6 DEF Tidy, Goto, Types
  <2>2. /\ at' \in [Launchers -> Places] /\ at'[l] = "monitor"
        /\ \A m \in Launchers : m # l => at'[m] = at[m] /\ next'[m] = next[m]
    BY <2>1 DEF Shape, Places
  <2>3. result' \in [Launchers -> {0, 1}]
    BY <2>1 DEF Shape
  <2> QED
    BY <2>1, <2>2, <2>3, Moves
<1> QED
  BY <1>1, <1>2, <1>3, <1>4, <1>5, <1>6

\* Its steps when it stops.
LEMMA StopTypes ==
    ASSUME CampaignAssumption, Types, Shape, NEW l \in Launchers,
           StopSignal(l) \/ KillSignal(l) \/ Stopping(l)
    PROVE  Types' /\ Shape'
<1> USE Numbers DEF Types, Shape, Places, Goto, Released, LauncherOnly, choice, httpd
<1>1. CASE StopSignal(l)
  <2>1. /\ at' = [at EXCEPT ![l] = "term"] /\ LauncherOnly /\ next \in [Launchers -> Nexts]
        /\ UNCHANGED <<next, recorded, selected, failure, intact, result>>
        /\ lock' \in {lock, NoOne}
    BY <1>1 DEF StopSignal
  <2>2. /\ at' \in [Launchers -> Places] /\ at'[l] = "term"
        /\ \A m \in Launchers : m # l => at'[m] = at[m] /\ next'[m] = next[m]
    BY <2>1
  <2>3. result' \in [Launchers -> {0, 1}]
    BY <2>1
  <2> QED
    BY <2>1, <2>2, <2>3, Moves
<1>2. CASE KillSignal(l)
  <2>1. Exit(l) /\ LauncherOnly /\ lock' \in {lock, NoOne} /\ lock' # l
    BY <1>2 DEF KillSignal, CampaignAssumption
  <2> QED
    BY <2>1, Exits
<1>3. CASE TermAll(l)
  <2>1. Types'
    BY <1>3 DEF TermAll
  <2>2. Shape'
    <3>1. proc' \in [Launchers -> [Configs -> States]]
      BY <1>3 DEF TermAll, States
    <3> QED
      BY <1>3, <3>1 DEF TermAll
  <2> QED
    BY <2>1, <2>2
<1>4. CASE WaitGone(l)
  <2>1. Types'
    BY <1>4 DEF WaitGone
  <2>2. Shape'
    BY <1>4 DEF WaitGone
  <2> QED
    BY <2>1, <2>2
<1>5. CASE WaitTimesOut(l)
  <2>1. Types'
    BY <1>5 DEF WaitTimesOut
  <2>2. Shape'
    BY <1>5 DEF WaitTimesOut
  <2> QED
    BY <2>1, <2>2
<1>6. CASE Waited(l)
  <2>1. Types'
    BY <1>6 DEF Waited
  <2>2. Shape'
    BY <1>6 DEF Waited
  <2> QED
    BY <2>1, <2>2
<1>7. CASE Mark(l)
  <2>1. /\ Exit(l) /\ lock' \in {lock, NoOne} /\ lock' # l
        /\ UNCHANGED <<choice, httpd, profile>> /\ completed' \subseteq Launchers
    BY <1>7 DEF Mark, CampaignAssumption
  <2> QED
    BY <2>1, Exits
<1> QED
  BY <1>1, <1>2, <1>3, <1>4, <1>5, <1>6, <1>7 DEF Stopping

\* httpd is started under the launcher's name.
LEMMA SpawnTypes ==
    ASSUME CampaignAssumption, Types, Shape, NEW l \in Launchers, next[l] \in wanted[l],
           pidfile' = [pidfile EXCEPT ![next[l]] = NoOne], Spawn(l),
           UNCHANGED <<choice, lock, recorded, selected, intact, completed>>
    PROVE  Types' /\ Shape'
<1>1. next[l] \in Configs
  BY DEF Shape
<1>2. /\ proc' \in [Launchers -> [Configs -> States]]
      /\ profile' \in [Launchers -> [Configs -> Profiles]]
  BY <1>1, ProcStep, ProfileStep DEF Spawn, States, Profiles
<1>3. at' = [at EXCEPT ![l] = "settle"] /\ UNCHANGED <<next, failure, result>>
  BY DEF Spawn, Goto
<1>4. Types'
  BY <1>1, <1>3 DEF Types, Shape, choice
<1>5. Shape'
  BY <1>2, <1>3 DEF Shape, Places, choice
<1> QED
  BY <1>4, <1>5

\* Its steps when it starts an httpd.
LEMMA StartTypes ==
    ASSUME CampaignAssumption, Types, Shape, NEW l \in Launchers,
           StartConfig(l) \/ OldStopped(l) \/ OldRemains(l) \/ Settle(l)
    PROVE  Types' /\ Shape'
<1> USE Numbers DEF Types, Shape, Places, Goto, LauncherOnly, choice, httpd
<1>1. CASE StartConfig(l)
  <2>1. next[l] \in Configs
    BY <1>1 DEF StartConfig
  <2>2. CASE next[l] \notin wanted[l]
    <3>1. Types'
      <4>1. /\ next' = [next EXCEPT ![l] = next[l] + 1]
            /\ UNCHANGED <<lock, at, recorded, selected, wanted, pidfile, completed>>
        BY <1>1, <2>2 DEF StartConfig
      <4>2. next' \in [Launchers -> Nexts]
        BY <2>1, <4>1
      <4> QED
        BY <4>1, <4>2
    <3>2. Shape'
      BY <1>1, <2>1, <2>2 DEF StartConfig
    <3> QED
      BY <3>1, <3>2
  <2>3. CASE next[l] \in wanted[l] /\ next[l] \notin built
    <3>1. Continue(l, FALSE) /\ at[l] = "start"
      BY <1>1, <2>3 DEF StartConfig
    <3>2. Types'
      BY <1>1, <2>1, <2>3, <3>1, ContinueStep DEF StartConfig
    <3>3. Shape'
      BY <1>1, <2>1, <2>3, <3>1, ContinueStep DEF StartConfig
    <3> QED
      BY <3>2, <3>3
  <2>4. CASE next[l] \in wanted[l] /\ next[l] \in built /\ ~Running(next[l])
    BY <1>1, <2>1, <2>4, SpawnTypes DEF StartConfig
  <2>5. CASE next[l] \in wanted[l] /\ next[l] \in built /\ Running(next[l])
    <3>1. pidfile[next[l]] \in Launchers
      BY <2>5 DEF Running
    <3>2. proc' \in [Launchers -> [Configs -> States]]
      BY <1>1, <2>1, <2>5, <3>1, ProcStep DEF StartConfig, States
    <3>3. Types'
      BY <1>1, <2>1, <2>5 DEF StartConfig
    <3>4. at' = [at EXCEPT ![l] = "stop_old"]
          /\ UNCHANGED <<next, wanted, selected, failure, intact, result, profile>>
      BY <1>1, <2>5 DEF StartConfig
    <3>5. Shape'
      BY <2>5, <3>2, <3>4
    <3> QED
      BY <3>3, <3>5
  <2> QED
    BY <2>2, <2>3, <2>4, <2>5
<1>2. CASE OldStopped(l)
  BY <1>2, SpawnTypes DEF OldStopped
<1>3. CASE OldRemains(l)
  <2>1. Continue(l, FALSE) /\ at[l] = "stop_old" /\ next[l] \in Configs
    BY <1>3 DEF OldRemains
  <2>2. /\ next' \in [Launchers -> Nexts] /\ at' \in [Launchers -> Places]
        /\ at'[l] \in {"term", "start"}
        /\ \A m \in Launchers : m # l => at'[m] = at[m] /\ next'[m] = next[m]
        /\ failure' \in [Launchers -> BOOLEAN] /\ result' \in [Launchers -> {0, 1}]
    BY <2>1, ContinueStep
  <2>3. UNCHANGED <<lock, recorded, selected, intact, wanted, proc, pidfile, profile, completed>>
    BY <1>3 DEF OldRemains
  <2>4. Types'
    BY <1>3, <2>1, <2>2, <2>3
  <2>5. Shape'
    BY <2>1, <2>2, <2>3
  <2> QED
    BY <2>4, <2>5
<1>4. CASE Settle(l)
  <2>1. at[l] = "settle" /\ next[l] \in wanted[l] /\ next[l] \in Configs
    BY <1>4 DEF Settle
  <2>2. PICK ok \in BOOLEAN : Continue(l, ok)
    BY <1>4 DEF Settle
  <2>3. /\ UNCHANGED <<lock, wanted, intact, proc, pidfile, profile, completed>>
        /\ \/ UNCHANGED <<recorded, selected>>
           \/ /\ recorded' = [recorded EXCEPT ![l] = recorded[l] \union {next[l]}]
              /\ selected' = [selected EXCEPT ![l] = selected[l] \union {next[l]}]
    BY <1>4 DEF Settle
  <2>4. /\ recorded' \in [Launchers -> SUBSET Configs]
        /\ selected' \in [Launchers -> SUBSET Configs]
        /\ \A m \in Launchers : recorded'[m] \subseteq selected'[m] /\ selected'[m] \subseteq wanted[m]
    <3>1. CASE UNCHANGED <<recorded, selected>>
      BY <3>1
    <3>2. CASE /\ recorded' = [recorded EXCEPT ![l] = recorded[l] \union {next[l]}]
               /\ selected' = [selected EXCEPT ![l] = selected[l] \union {next[l]}]
      <4> DEFINE R == recorded[l] \union {next[l]}
                 S == selected[l] \union {next[l]}
      <4>1. /\ R \in SUBSET Configs /\ S \in SUBSET Configs
            /\ R \subseteq S /\ S \subseteq wanted[l]
        BY <2>1
      <4> HIDE DEF R, S
      <4>2. recorded' = [recorded EXCEPT ![l] = R] /\ selected' = [selected EXCEPT ![l] = S]
        BY <3>2 DEF R, S
      <4>3. recorded' \in [Launchers -> SUBSET Configs] /\ selected' \in [Launchers -> SUBSET Configs]
        BY <4>1, <4>2
      <4>4. ASSUME NEW m \in Launchers
            PROVE  recorded'[m] \subseteq selected'[m] /\ selected'[m] \subseteq wanted[m]
        <5>1. CASE m = l
          BY <4>1, <4>2, <5>1
        <5>2. CASE m # l
          BY <4>2, <5>2
        <5> QED
          BY <5>1, <5>2
      <4> QED
        BY <4>3, <4>4
    <3> QED
      BY <2>3, <3>1, <3>2
  <2>5. /\ next' \in [Launchers -> Nexts] /\ at' \in [Launchers -> Places]
        /\ at'[l] \in {"term", "start"}
        /\ \A m \in Launchers : m # l => at'[m] = at[m] /\ next'[m] = next[m]
        /\ failure' \in [Launchers -> BOOLEAN] /\ result' \in [Launchers -> {0, 1}]
    BY <2>1, <2>2, ContinueStep
  <2>6. Types'
    BY <2>3, <2>4, <2>5
  <2>7. Shape'
    BY <2>3, <2>4, <2>5
  <2> QED
    BY <2>6, <2>7
<1> QED
  BY <1>1, <1>2, <1>3, <1>4

\* Those of an httpd.
HttpdStep(l, n) == HttpdStarts(l, n) \/ ChildStops(l, n) \/ HttpdCrashes(l, n) \/ HttpdStops(l, n)
LEMMA HttpdTypes ==
    ASSUME CampaignAssumption, Types, Shape, NEW l \in Launchers, NEW n \in Configs,
           HttpdStep(l, n)
    PROVE  Types' /\ Shape'
<1> USE DEF HttpdOnly, choice, launcher, memory, httpd
<1>1. UNCHANGED <<lock, at, next, recorded, selected, failure, intact, result, wanted, completed>>
  BY DEF HttpdStep, HttpdStarts, ChildStops, HttpdCrashes, HttpdStops
<1>2. pidfile' \in [Configs -> Launchers \union {NoOne, Stale}]
  BY DEF HttpdStep, HttpdStarts, ChildStops, HttpdCrashes, HttpdStops, Types
<1>3. proc' \in [Launchers -> [Configs -> States]]
  <2>1. UNCHANGED proc \/ \E s \in States : Proc(l, n, s)
    BY DEF HttpdStep, HttpdStarts, ChildStops, HttpdCrashes, HttpdStops, States
  <2> QED
    BY <2>1, ProcStep DEF Shape
<1>4. profile' \in [Launchers -> [Configs -> Profiles]]
  <2>1. UNCHANGED profile \/ \E s \in Profiles : profile' = [profile EXCEPT ![l][n] = s]
    BY DEF HttpdStep, HttpdStarts, ChildStops, HttpdCrashes, HttpdStops, Profiles
  <2> QED
    BY <2>1, ProfileStep DEF Shape
<1> QED
  BY <1>1, <1>2, <1>3, <1>4 DEF Types, Shape

-----------------------------------------------------------------------------
(* Launchers and httpds that are apart.                                    *)

Starting(l) == StartConfig(l) \/ OldStopped(l) \/ OldRemains(l) \/ Settle(l)
Watching(l) == TakeLock(l) \/ CheckConfig(l) \/ Rotate(l) \/ Started(l) \/ Monitor(l) \/ Tidy(l)
Ending(l) == StopSignal(l) \/ KillSignal(l) \/ Stopping(l)

\* A step of one launcher leaves what the others know.
LEMMA Elsewhere ==
    ASSUME CampaignAssumption, Types, Shape, NEW l \in Launchers,
           Starting(l) \/ Watching(l) \/ Ending(l),
           NEW m \in Launchers, m # l
    PROVE  /\ at'[m] = at[m] /\ next'[m] = next[m]
           /\ recorded'[m] = recorded[m] /\ selected'[m] = selected[m]
           /\ failure'[m] = failure[m] /\ intact'[m] = intact[m]
           /\ m \in completed' <=> m \in completed
<1> USE DEF Types, Shape, Goto, Exit, LauncherOnly, memory
<1>1. CASE Watching(l)
  BY <1>1 DEF Watching, TakeLock, CheckConfig, Rotate, Started, Monitor, Tidy
<1>2. CASE Ending(l)
  BY <1>2 DEF Ending, Stopping, StopSignal, KillSignal, TermAll, WaitGone, WaitTimesOut,
              Waited, Mark
<1>3. CASE StartConfig(l)
  BY <1>3 DEF StartConfig, Continue, Spawn
<1>4. CASE OldStopped(l)
  BY <1>4 DEF OldStopped, Spawn
<1>5. CASE OldRemains(l)
  BY <1>5 DEF OldRemains, Continue
<1>6. CASE Settle(l)
  BY <1>6 DEF Settle, Continue
<1> QED
  BY <1>1, <1>2, <1>3, <1>4, <1>5, <1>6 DEF Starting

\* The lock passes to a launcher only when no other is at work.
LEMMA LockStep ==
    ASSUME CampaignAssumption, Types, Shape, LockHeld, NEW l \in Launchers,
           Starting(l) \/ Watching(l) \/ Ending(l)
    PROVE  LockHeld'
<1> USE DEF Goto, Exit, LauncherOnly, Released
<1>1. at'[l] \in Working => lock' = l
  <2> USE DEF LockHeld, Working, Shape
  <2>1. CASE Watching(l)
    BY <2>1 DEF Watching, TakeLock, CheckConfig, Rotate, Started, Monitor, Tidy
  <2>2. CASE Ending(l)
    BY <2>2 DEF Ending, Stopping, StopSignal, KillSignal, TermAll, WaitGone, WaitTimesOut,
                Waited, Mark
  <2>3. CASE Starting(l)
    <3>1. at[l] \in {"start", "stop_old", "settle"} /\ lock' = lock
      BY <2>3 DEF Starting, StartConfig, OldStopped, OldRemains, Settle
    <3> QED
      BY <3>1
  <2> QED
    BY <2>1, <2>2, <2>3
<1>2. lock' = lock \/ lock' = Released(l) \/ (lock = NoOne /\ lock' = l)
  BY DEF Starting, StartConfig, OldStopped, OldRemains, Settle, LockFree,
         Watching, TakeLock, CheckConfig, Rotate, Started, Monitor, Tidy,
         Ending, Stopping, StopSignal, KillSignal, TermAll, WaitGone, WaitTimesOut, Waited, Mark
<1>3. ASSUME NEW m \in Launchers, m # l, at'[m] \in Working
      PROVE  lock' = m
  <2>1. lock = m
    BY <1>3, Elsewhere DEF LockHeld
  <2> QED
    BY <1>2, <1>3, <2>1 DEF CampaignAssumption
<1> QED
  BY <1>1, <1>3 DEF LockHeld

\* With the lock, and no pid file that leads to one, there is no httpd.
LEMMA NoneRuns ==
    ASSUME LockHeld, Known, NEW l \in Launchers, at[l] \in {"check", "start"},
           NEW n \in PromptPidFile, ~Running(n), NEW m \in Launchers
    PROVE  ~Alive(m, n)
<1>1. CASE proc[m][n] \in {"up", "dying"}
  BY <1>1 DEF Known, Running, Alive
<1>2. proc[m][n] # "new"
  BY DEF Known, Settling, LockHeld, Working
<1> QED
  BY <1>1, <1>2 DEF Alive

\* A step that neither starts nor stops an httpd.
Quiet(l) ==
    /\ UNCHANGED <<proc, pidfile, profile>>
    /\ at'[l] \notin {"settle", "stop_old"}
    /\ \A n \in PromptPidFile :
         /\ proc[l][n] # "new"
         /\ (at'[l] = "check" /\ n < next'[l]) \/ at'[l] = "rotate" =>
              \A m \in Launchers : ~Alive(m, n)
         /\ at'[l] \in Working \ {"check"} => \A m \in Launchers : Alive(m, n) => m = l

\* A configuration that is not started.
Skips(l) == StartConfig(l) /\ (next[l] \notin wanted[l] \/ next[l] \notin built)
QuietActions(l) ==
    Skips(l) \/ OldRemains(l) \/ Settle(l) \/ Watching(l) \/ (Ending(l) /\ ~TermAll(l))

\* Most steps of a launcher leave the httpds alone, and none of them comes to the
\* rotation past an httpd.
LEMMA QuietStep ==
    ASSUME CampaignAssumption, Types, Shape, Calm, LockHeld, Known,
           NEW l \in Launchers, QuietActions(l)
    PROVE  Quiet(l)
<1> USE DEF Goto, Exit
<1>1. UNCHANGED <<proc, pidfile, profile>>
  BY DEF QuietActions, Skips, StartConfig, OldRemains, Settle,
         Watching, TakeLock, CheckConfig, Rotate, Started, Monitor, Tidy,
         Ending, Stopping, StopSignal, KillSignal, WaitGone, WaitTimesOut, Waited, Mark,
         LauncherOnly, httpd
<1>2. at'[l] \notin {"settle", "stop_old"}
  <2>1. CASE Skips(l) \/ OldRemains(l) \/ Settle(l)
    BY <2>1 DEF Skips, StartConfig, OldRemains, Settle, Continue, Shape
  <2>2. CASE Watching(l)
    BY <2>2 DEF Watching, TakeLock, CheckConfig, Rotate, Started, Monitor, Tidy, Shape
  <2>3. CASE Ending(l)
    BY <2>3 DEF Ending, Stopping, StopSignal, KillSignal, TermAll, WaitGone, WaitTimesOut,
                Waited, Mark, Shape
  <2> QED
    BY <2>1, <2>2, <2>3 DEF QuietActions
<1>3. ASSUME NEW n \in PromptPidFile
      PROVE  proc[l][n] # "new"
  <2>1. CASE Settle(l)
    BY <2>1 DEF Settle, Calm, Known, Settling
  <2>2. CASE ~Settle(l)
    <3>1. at[l] # "settle"
      BY <2>2 DEF QuietActions, Skips, StartConfig, OldRemains,
                  Watching, TakeLock, CheckConfig, Rotate, Started, Monitor, Tidy,
                  Ending, Stopping, StopSignal, KillSignal, TermAll, WaitGone, WaitTimesOut,
                  Waited, Mark, Calm
    <3> QED
      BY <3>1 DEF Known, Settling
  <2> QED
    BY <2>1, <2>2
<1>4. ASSUME NEW n \in PromptPidFile, NEW m \in Launchers,
             (at'[l] = "check" /\ n < next'[l]) \/ at'[l] = "rotate"
      PROVE  ~Alive(m, n)
  <2>1. CASE TakeLock(l)
    <3>1. at'[l] # "rotate" /\ (at'[l] = "check" => next'[l] = 1)
      BY <2>1 DEF TakeLock, Shape, memory
    <3>2. n \in Configs
      BY DEF CampaignAssumption
    <3> QED
      BY <1>4, <3>1, <3>2 DEF Configs, CampaignAssumption
  <2>2. CASE CheckConfig(l)
    <3>1. ~Running(next[l]) /\ at[l] = "check"
      BY <1>4, <2>2 DEF CheckConfig, Shape
    <3>2. n < next[l] \/ n = next[l]
      <4>1. n \in Int /\ next[l] \in Int /\ MaxConfig \in Int /\ n <= MaxConfig
        <5>1. n \in Configs /\ next[l] \in Nexts /\ MaxConfig \in Nat
          BY DEF Types, CampaignAssumption
        <5> QED
          BY <5>1 DEF Nexts, Configs
      <4>2. CASE next[l] < MaxConfig
        <5>1. next'[l] = next[l] + 1 /\ at'[l] = "check"
          BY <2>2, <3>1, <4>2 DEF CheckConfig, Types
        <5> QED
          BY <1>4, <4>1, <5>1
      <4> QED
        BY <4>1, <4>2
    <3> QED
      BY <3>1, <3>2, NoneRuns DEF Known
  <2>3. CASE Skips(l) \/ OldRemains(l) \/ Settle(l)
    BY <1>4, <2>3 DEF Skips, StartConfig, OldRemains, Settle, Continue, Shape
  <2>4. CASE Rotate(l) \/ Started(l) \/ Monitor(l) \/ Tidy(l)
    BY <1>4, <2>4 DEF Rotate, Started, Monitor, Tidy, Shape
  <2>5. CASE Ending(l)
    BY <1>4, <2>5 DEF Ending, Stopping, StopSignal, KillSignal, TermAll, WaitGone, WaitTimesOut,
                Waited, Mark, Shape
  <2> QED
    BY <2>1, <2>2, <2>3, <2>4, <2>5 DEF QuietActions, Watching
<1>5. ASSUME NEW n \in PromptPidFile, NEW m \in Launchers,
             at'[l] \in Working \ {"check"}, Alive(m, n)
      PROVE  m = l
  <2>1. CASE at'[l] = "rotate"
    BY <1>4, <1>5, <2>1
  <2>2. CASE at'[l] # "rotate"
    <3>1. CASE Watching(l)
      BY <1>5, <2>2, <3>1
         DEF Watching, TakeLock, CheckConfig, Rotate, Started, Monitor, Tidy, Working, Shape, Known
    <3>2. CASE Ending(l)
      BY <1>5, <3>2 DEF Ending, Stopping, StopSignal, KillSignal, TermAll, WaitGone, WaitTimesOut,
                Waited, Mark, Working, Shape
    <3>3. CASE Skips(l) \/ OldRemains(l) \/ Settle(l)
      <4>1. at[l] \in Working \ {"check"}
        BY <3>3 DEF Skips, StartConfig, OldRemains, Settle, Working
      <4> QED
        BY <1>5, <4>1 DEF Known
    <3> QED
      BY <3>1, <3>2, <3>3 DEF QuietActions
  <2> QED
    BY <2>1, <2>2
<1> QED
  BY <1>1, <1>2, <1>3, <1>4, <1>5 DEF Quiet

\* Such a step keeps the pid files in order.
LEMMA KnownQuiet ==
    ASSUME CampaignAssumption, Types, Shape, Calm, LockHeld, Known,
           NEW l \in Launchers, QuietActions(l)
    PROVE  Known'
<1>1. Quiet(l)
  BY QuietStep
<1>2. UNCHANGED pidfile
  BY DEF QuietActions, Skips, StartConfig, OldRemains, Settle,
         Watching, TakeLock, CheckConfig, Rotate, Started, Monitor, Tidy,
         Ending, Stopping, StopSignal, KillSignal, WaitGone, WaitTimesOut, Waited, Mark,
         LauncherOnly, httpd
<1>3. \A m \in Launchers : m # l => at'[m] = at[m] /\ next'[m] = next[m]
  BY Elsewhere DEF QuietActions, Skips, Starting
<1>4. ASSUME NEW m \in Launchers, m # l, NEW n \in PromptPidFile
      PROVE  Known!(m, n)'
  BY <1>1, <1>2, <1>3, <1>4 DEF Known, Quiet, Settling, Alive
<1>5. ASSUME NEW n \in PromptPidFile
      PROVE  Known!(l, n)'
  BY <1>1, <1>2, <1>5 DEF Known, Quiet, Settling, Alive
<1> QED
  BY <1>4, <1>5 DEF Known

\* A new httpd, where there was none.
LEMMA KnownSpawn ==
    ASSUME CampaignAssumption, Types, Shape, Known, NEW l \in Launchers,
           at[l] \in {"start", "stop_old"}, next[l] \in Configs,
           next[l] \in PromptPidFile => \A m \in Launchers : ~Alive(m, next[l]),
           pidfile' = [pidfile EXCEPT ![next[l]] = NoOne], Spawn(l),
           \A m \in Launchers : m # l => at[m] \notin Working
    PROVE  Known'
<1>1. /\ at' = [at EXCEPT ![l] = "settle"] /\ next' = next /\ at'[l] = "settle"
      /\ \A m \in Launchers : m # l => at'[m] = at[m]
  BY DEF Spawn, Goto, Shape
<1>2. \A m \in Launchers, n \in Configs :
        proc'[m][n] = IF m = l /\ n = next[l] THEN "new" ELSE proc[m][n]
  BY ProcStep DEF Spawn, States
<1>3. \A n \in Configs : n # next[l] => pidfile'[n] = pidfile[n]
  OBVIOUS
<1>4. ASSUME NEW m \in Launchers, NEW n \in PromptPidFile
      PROVE  Known!(m, n)'
  <2>1. (proc[m][n] \in {"up", "dying"} => pidfile[n] = m)'
    BY <1>2, <1>3 DEF Known, Alive
  <2>2. (proc[m][n] = "new" => Settling(m, n))'
    BY <1>1, <1>2 DEF Known, Settling, Alive, Working
  <2>3. CASE m = l
    <3>1. \A o \in Launchers : Alive(o, n)' => o = l
      BY <1>2 DEF Known, Alive, Working
    <3> QED
      BY <1>1, <1>2, <2>1, <2>2, <2>3, <3>1 DEF Settling
  <2>4. CASE m # l
    BY <1>1, <2>1, <2>2, <2>4 DEF Settling, Working
  <2> QED
    BY <2>3, <2>4
<1> QED
  BY <1>4 DEF Known

\* SIGTERM to the httpd that the pid file names.
LEMMA KnownTerm ==
    ASSUME CampaignAssumption, Types, Shape, Known, NEW l \in Launchers,
           next[l] \in Configs, at[l] = "start", Running(next[l]),
           Proc(pidfile[next[l]], next[l], "dying"), Goto(l, "stop_old"),
           UNCHANGED <<next, pidfile>>,
           \A m \in Launchers : m # l => at[m] \notin Working
    PROVE  Known'
<1> DEFINE o == pidfile[next[l]]
<1>1. o \in Launchers /\ Alive(o, next[l])
  BY DEF Running
<1>2. \A m \in Launchers, n \in Configs :
        proc'[m][n] = IF m = o /\ n = next[l] THEN "dying" ELSE proc[m][n]
  BY <1>1, ProcStep DEF States
<1>3. at'[l] = "stop_old" /\ \A m \in Launchers : m # l => at'[m] = at[m]
  BY DEF Goto, Shape
<1>4. \A m \in Launchers, n \in PromptPidFile : proc[m][n] # "new"
  BY DEF Known, Settling, Working
<1>5. next[l] \in PromptPidFile => \A m \in Launchers : Alive(m, next[l]) => m = o
  BY <1>4 DEF Known, Alive
<1> HIDE DEF o
<1>6. ASSUME NEW m \in Launchers, NEW n \in PromptPidFile
      PROVE  Known!(m, n)'
  <2>1. (proc[m][n] \in {"up", "dying"} => pidfile[n] = m)'
    BY <1>1, <1>2, <1>5 DEF Known, o
  <2>2. (proc[m][n] # "new")'
    BY <1>2, <1>4
  <2>3. CASE m = l
    <3>1. \A i \in Launchers : Alive(i, n)' => i = l
      BY <1>1, <1>2 DEF Known, Alive, Working
    <3> QED
      BY <1>2, <1>3, <1>5, <2>1, <2>2, <2>3, <3>1 DEF Settling, Alive
  <2>4. CASE m # l
    BY <1>3, <2>1, <2>2, <2>4 DEF Settling, Working
  <2> QED
    BY <2>3, <2>4
<1> QED
  BY <1>6 DEF Known

\* SIGTERM to every httpd of the campaign.
LEMMA KnownTermAll ==
    ASSUME CampaignAssumption, Types, Shape, Known, NEW l \in Launchers, TermAll(l)
    PROVE  Known'
<1>1. at[l] = "term" /\ at'[l] = "wait" /\ UNCHANGED <<next, pidfile>>
      /\ \A m \in Launchers : m # l => at'[m] = at[m]
  BY DEF TermAll, Goto, Shape
<1>2. ASSUME NEW m \in Launchers, NEW n \in PromptPidFile
      PROVE  proc'[m][n] = proc[m][n] \/ (m = l /\ Alive(m, n) /\ proc'[m][n] = "dying")
  BY DEF TermAll, Shape
<1>3. \A n \in PromptPidFile : proc[l][n] # "new"
  BY <1>1 DEF Known, Settling
<1>4. ASSUME NEW m \in Launchers, NEW n \in PromptPidFile
      PROVE  /\ Alive(m, n)' => Alive(m, n)
             /\ Alive(m, n)' /\ proc[m][n] = "dying" => proc'[m][n] = "dying"
             /\ proc'[m][n] \in {"up", "dying"} => proc[m][n] \in {"up", "dying"}
             /\ proc'[m][n] = "new" => proc[m][n] = "new"
  BY <1>2, <1>3 DEF Alive
<1>5. ASSUME NEW m \in Launchers, NEW n \in PromptPidFile
      PROVE  Known!(m, n)'
  <2>1. CASE m = l
    BY <1>1, <1>3, <1>4, <2>1 DEF Known, Settling, Working
  <2>2. CASE m # l
    BY <1>1, <1>4, <2>2 DEF Known, Settling
  <2> QED
    BY <2>1, <2>2
<1> QED
  BY <1>5 DEF Known

\* What StartConfig does beyond passing over a configuration.
LEMMA StartCases ==
    ASSUME NEW l \in Launchers, StartConfig(l), ~Skips(l)
    PROVE  /\ at[l] = "start" /\ next[l] \in wanted[l]
           /\ UNCHANGED <<lock, recorded, selected, intact, wanted, completed>>
           /\ \/ /\ ~Running(next[l]) /\ Spawn(l)
                 /\ pidfile' = [pidfile EXCEPT ![next[l]] = NoOne]
              \/ /\ Running(next[l]) /\ Proc(pidfile[next[l]], next[l], "dying")
                 /\ Goto(l, "stop_old")
                 /\ UNCHANGED <<next, failure, result, pidfile, profile>>
BY DEF StartConfig, Skips, choice

\* So does every step of a launcher that has the lock.
LEMMA KnownStep ==
    ASSUME CampaignAssumption, Types, Shape, Calm, LockHeld, Known,
           NEW l \in Launchers, Starting(l) \/ Watching(l) \/ Ending(l)
    PROVE  Known'
<1>1. at[l] \in Working => \A m \in Launchers : m # l => at[m] \notin Working
  BY DEF LockHeld
<1>2. CASE QuietActions(l)
  BY <1>2, KnownQuiet
<1>3. CASE StartConfig(l) /\ ~Skips(l)
  <2>1. at[l] = "start" /\ next[l] \in Configs
    BY <1>3, StartCases DEF Shape
  <2>2. CASE ~Running(next[l])
    BY <1>1, <1>3, <2>1, <2>2, StartCases, NoneRuns, KnownSpawn DEF Working
  <2>3. CASE Running(next[l])
    BY <1>1, <1>3, <2>1, <2>3, StartCases, KnownTerm DEF Working
  <2> QED
    BY <2>2, <2>3
<1>4. CASE OldStopped(l)
  <2>1. at[l] = "stop_old" /\ next[l] \in Configs
    BY <1>4 DEF OldStopped, Shape
  <2>2. next[l] \in PromptPidFile => \A m \in Launchers : ~Alive(m, next[l])
    BY <1>4, <2>1 DEF OldStopped, Known
  <2> QED
    BY <1>1, <1>4, <2>1, <2>2, KnownSpawn DEF OldStopped, Working
<1>5. CASE TermAll(l)
  BY <1>5, KnownTermAll
<1> QED
  BY <1>2, <1>3, <1>4, <1>5 DEF Starting, QuietActions, Ending

\* An httpd writes its pid file when no other serves its configuration.
LEMMA KnownHttpd ==
    ASSUME CampaignAssumption, Types, Shape, Known, NEW l \in Launchers, NEW n \in Configs,
           HttpdStep(l, n)
    PROVE  Known'
<1>1. UNCHANGED <<at, next>>
  BY DEF HttpdStep, HttpdStarts, ChildStops, HttpdCrashes, HttpdStops, HttpdOnly, launcher, memory
<1>2. CASE HttpdStarts(l, n)
  <2>1. \A m \in Launchers, k \in Configs :
          proc'[m][k] = IF m = l /\ k = n THEN "up" ELSE proc[m][k]
    BY <1>2, ProcStep DEF HttpdStarts, States
  <2>2. proc[l][n] = "new" /\ pidfile' = [pidfile EXCEPT ![n] = l]
    BY <1>2 DEF HttpdStarts
  <2>3. \A k \in Configs : pidfile'[k] = IF k = n THEN l ELSE pidfile[k]
    BY <2>2 DEF Types
  <2>4. n \in PromptPidFile => \A m \in Launchers : Alive(m, n) => m = l
    BY <2>2 DEF Known
  <2>5. \A m \in Launchers, k \in Configs : Alive(m, k)' <=> Alive(m, k)
    BY <2>1, <2>2 DEF Alive
  <2>6. ASSUME NEW m \in Launchers, NEW k \in PromptPidFile
        PROVE  Known!(m, k)'
    <3>1. (proc[m][k] \in {"up", "dying"} => pidfile[k] = m)'
      BY <2>1, <2>3, <2>4 DEF Known, Alive
    <3>2. (at[m] = "stop_old" /\ next[m] = k =>
             \A o \in Launchers : Alive(o, k) => proc[o][k] = "dying")'
      BY <1>1, <2>1, <2>2, <2>4 DEF Known, Alive
    <3> QED
      BY <1>1, <2>1, <2>5, <3>1, <3>2 DEF Known, Settling
  <2> QED
    BY <2>6 DEF Known
<1>3. CASE ChildStops(l, n)
  BY <1>1, <1>3 DEF ChildStops, httpd, Known, Settling, Alive
<1>4. CASE HttpdCrashes(l, n) \/ HttpdStops(l, n)
  <2>1. \A m \in Launchers, k \in Configs :
          proc'[m][k] = IF m = l /\ k = n THEN "gone" ELSE proc[m][k]
    BY <1>4, ProcStep DEF HttpdCrashes, HttpdStops, States
  <2>2. \A k \in Configs : pidfile'[k] = pidfile[k] \/ (k = n /\ pidfile[k] = l)
    BY <1>4 DEF HttpdCrashes, HttpdStops, Types
  <2>3. \A m \in Launchers, k \in Configs :
          Alive(m, k)' => Alive(m, k) /\ proc'[m][k] = proc[m][k]
    BY <2>1 DEF Alive
  <2>4. ASSUME NEW m \in Launchers, NEW k \in PromptPidFile
        PROVE  Known!(m, k)'
    <3>1. (proc[m][k] \in {"up", "dying"} => pidfile[k] = m)'
      BY <2>1, <2>2 DEF Known
    <3>2. (proc[m][k] = "new" => Settling(m, k))'
      BY <1>1, <2>1 DEF Known, Settling
    <3> QED
      BY <1>1, <2>3, <3>1, <3>2 DEF Known, Settling
  <2> QED
    BY <2>4 DEF Known
<1> QED
  BY <1>2, <1>3, <1>4 DEF HttpdStep

\* A launcher starts httpds of its own, and stops others without a new one.
LEMMA OthersAlive ==
    ASSUME CampaignAssumption, Types, Shape, NEW l \in Launchers,
           Starting(l) \/ Watching(l) \/ Ending(l),
           NEW m \in Launchers, m # l, NEW n \in Configs
    PROVE  (Alive(m, n)' <=> Alive(m, n)) /\ profile'[m][n] = profile[m][n]
<1>1. CASE Watching(l) \/ Skips(l) \/ OldRemains(l) \/ Settle(l)
  BY <1>1 DEF Watching, TakeLock, CheckConfig, Rotate, Started, Monitor, Tidy,
              Skips, StartConfig, OldRemains, Settle, LauncherOnly, httpd, Alive
<1>2. CASE Ending(l)
  BY <1>2 DEF Ending, Stopping, StopSignal, KillSignal, TermAll, WaitGone, WaitTimesOut,
              Waited, Mark, LauncherOnly, httpd, Alive, Shape
<1>3. CASE StartConfig(l) /\ ~Skips(l)
  <2>1. next[l] \in Configs
    BY <1>3, StartCases DEF Shape
  <2>2. CASE ~Running(next[l])
    <3>1. Spawn(l)
      BY <1>3, <2>2, StartCases
    <3>2. proc'[m][n] = proc[m][n]
      BY <2>1, <3>1, ProcStep DEF Spawn, States
    <3>3. profile'[m][n] = profile[m][n]
      BY <2>1, <3>1, ProfileStep DEF Spawn, Profiles
    <3> QED
      BY <3>2, <3>3 DEF Alive
  <2>3. CASE Running(next[l])
    <3>1. Proc(pidfile[next[l]], next[l], "dying") /\ profile' = profile
      BY <1>3, <2>3, StartCases
    <3>2. pidfile[next[l]] \in Launchers /\ Alive(pidfile[next[l]], next[l])
      BY <2>3 DEF Running
    <3>3. proc'[m][n] = IF m = pidfile[next[l]] /\ n = next[l] THEN "dying" ELSE proc[m][n]
      BY <2>1, <3>1, <3>2, ProcStep DEF States
    <3> QED
      BY <3>1, <3>2, <3>3 DEF Alive
  <2> QED
    BY <2>2, <2>3
<1>4. CASE OldStopped(l)
  <2>1. next[l] \in Configs /\ Spawn(l)
    BY <1>4 DEF OldStopped, Shape
  <2>2. proc'[m][n] = proc[m][n]
    BY <2>1, ProcStep DEF Spawn, States
  <2>3. profile'[m][n] = profile[m][n]
    BY <2>1, ProfileStep DEF Spawn, Profiles
  <2> QED
    BY <2>2, <2>3 DEF Alive
<1> QED
  BY <1>1, <1>2, <1>3, <1>4 DEF Starting

\* What a launcher knows of its own httpds: when it starts one,
LEMMA AccountedSpawn ==
    ASSUME CampaignAssumption, Types, Shape, NEW l \in Launchers, Accounted(l),
           at[l] \in {"start", "stop_old"}, next[l] \in Configs, Spawn(l),
           UNCHANGED <<recorded, selected, intact, completed>>
    PROVE  Accounted(l)'
<1>1. at'[l] = "settle" /\ UNCHANGED <<next, failure>>
  BY DEF Spawn, Goto, Shape
<1>2. \A n \in Configs : n # next[l] => proc'[l][n] = proc[l][n]
  BY ProcStep DEF Spawn, States
<1>3. \A n \in Configs : profile'[l][n] = IF n = next[l] THEN "none" ELSE profile[l][n]
  BY DEF Spawn, Shape
<1>4. l \notin completed'
  BY DEF Accounted
<1>5. ASSUME NEW n \in Configs, n = next[l]
      PROVE  Accounted(l)!1!(n)'
  BY <1>1, <1>3, <1>5 DEF Settling
<1>6. ASSUME NEW n \in Configs, n # next[l]
      PROVE  Accounted(l)!1!(n)'
  BY <1>1, <1>2, <1>3, <1>6 DEF Accounted, Settling, Alive
<1> QED
  BY <1>1, <1>4, <1>5, <1>6 DEF Accounted

\* before that and after,
LEMMA AccountedStart ==
    ASSUME CampaignAssumption, Types, Shape, NEW l \in Launchers, Accounted(l), Starting(l)
    PROVE  Accounted(l)'
<1>1. CASE Skips(l)
  <2>1. /\ at[l] = "start" /\ at'[l] \in {"start", "term"} /\ (failure[l] => failure'[l])
        /\ UNCHANGED <<recorded, selected, intact, completed, proc, profile>>
    BY <1>1 DEF Skips, StartConfig, Continue, Goto, httpd, Shape
  <2> QED
    BY <2>1 DEF Accounted, Settling, Alive
<1>2. CASE StartConfig(l) /\ ~Skips(l)
  <2>1. at[l] = "start" /\ next[l] \in Configs /\ UNCHANGED <<recorded, selected, intact, completed>>
    BY <1>2, StartCases DEF Shape
  <2>2. CASE ~Running(next[l])
    BY <1>2, <2>1, <2>2, StartCases, AccountedSpawn
  <2>3. CASE Running(next[l])
    <3>1. /\ Proc(pidfile[next[l]], next[l], "dying") /\ Goto(l, "stop_old")
          /\ UNCHANGED <<next, failure, result, pidfile, profile>>
      BY <1>2, <2>3, StartCases
    <3>2. pidfile[next[l]] \in Launchers /\ Alive(pidfile[next[l]], next[l])
      BY <2>3 DEF Running
    <3>3. \A n \in Configs : Alive(l, n)' <=> Alive(l, n)
      BY <2>1, <3>1, <3>2, ProcStep DEF States, Alive
    <3>4. at'[l] = "stop_old"
      BY <3>1 DEF Goto, Shape
    <3> QED
      BY <2>1, <3>1, <3>3, <3>4 DEF Accounted, Settling
  <2> QED
    BY <2>2, <2>3
<1>3. CASE OldStopped(l)
  BY <1>3, AccountedSpawn DEF OldStopped, Shape
<1>4. CASE OldRemains(l)
  <2>1. /\ at[l] = "stop_old" /\ at'[l] \in {"start", "term"} /\ (failure[l] => failure'[l])
        /\ UNCHANGED <<recorded, selected, intact, completed, proc, profile>>
    BY <1>4 DEF OldRemains, Continue, Goto, LauncherOnly, httpd, Shape
  <2> QED
    BY <2>1 DEF Accounted, Settling, Alive
<1>5. CASE Settle(l)
  <2>1. /\ at[l] = "settle" /\ at'[l] \in {"start", "term"} /\ (failure[l] => failure'[l])
        /\ UNCHANGED <<intact, completed, proc, profile>>
    BY <1>5 DEF Settle, Continue, Goto, LauncherOnly, httpd, Shape
  <2>2. CASE Alive(l, next[l])
    <3>1. /\ recorded'[l] = recorded[l] \union {next[l]}
          /\ selected'[l] = selected[l] \union {next[l]}
      BY <1>5, <2>2 DEF Settle, Types, Shape
    <3> QED
      BY <2>1, <3>1 DEF Accounted, Settling, Alive
  <2>3. CASE ~Alive(l, next[l])
    <3>1. failure'[l] /\ UNCHANGED <<recorded, selected>>
      BY <1>5, <2>3 DEF Settle, Continue, Shape
    <3> QED
      BY <2>1, <2>3, <3>1 DEF Accounted, Settling, Alive
  <2> QED
    BY <2>2, <2>3
<1> QED
  BY <1>1, <1>2, <1>3, <1>4, <1>5 DEF Starting

\* while it watches,
LEMMA AccountedWatch ==
    ASSUME CampaignAssumption, Types, Shape, NEW l \in Launchers, Accounted(l), Watching(l)
    PROVE  Accounted(l)'
<1>1. /\ UNCHANGED <<proc, profile, completed>>
      /\ at'[l] # "done" => UNCHANGED <<selected, intact>>
  BY DEF Watching, TakeLock, CheckConfig, Rotate, Started, Monitor, Tidy, Exit, Goto, Shape,
         LauncherOnly, httpd, memory
<1>2. /\ at[l] \in {"idle", "check", "rotate", "start", "monitor", "tidy"}
      /\ at'[l] # "mark" /\ (at'[l] # "done" => at'[l] \in Places)
  BY DEF Watching, TakeLock, CheckConfig, Rotate, Started, Monitor, Tidy, Goto, Exit, Shape, Places
<1>3. at'[l] # "done" /\ failure[l] => failure'[l]
  BY DEF Watching, TakeLock, CheckConfig, Rotate, Started, Monitor, Tidy, Exit, Goto, Shape, memory
<1>4. \A n \in Configs : at'[l] # "done" /\ n \in recorded[l] /\ Alive(l, n) => n \in recorded'[l]
  BY DEF Watching, TakeLock, CheckConfig, Rotate, Started, Monitor, Tidy, Exit, Goto, Shape, Types,
         memory
<1> QED
  BY <1>1, <1>2, <1>3, <1>4 DEF Accounted, Settling, Alive

\* and when it stops, up to the marker.
LEMMA AccountedEnd ==
    ASSUME CampaignAssumption, Types, Shape, Calm, NEW l \in Launchers, Accounted(l), Ending(l)
    PROVE  Accounted(l)'
<1>1. CASE TermAll(l)
  <2>1. at[l] = "term" /\ at'[l] = "wait"
        /\ UNCHANGED <<recorded, selected, failure, intact, completed, profile>>
    BY <1>1 DEF TermAll, Goto, Shape
  <2>2. \A n \in Configs : Alive(l, n)' <=> Alive(l, n)
    BY <1>1 DEF TermAll, Shape, Alive
  <2> QED
    BY <2>1, <2>2 DEF Accounted, Settling
<1>2. CASE KillSignal(l)
  <2>1. UNCHANGED <<proc, profile, completed>> /\ at'[l] = "done" /\ at[l] # "done"
    BY <1>2 DEF KillSignal, Exit, Goto, LauncherOnly, httpd, Shape
  <2> QED
    BY <2>1 DEF Accounted, Settling, Alive
<1>3. CASE StopSignal(l) \/ WaitGone(l) \/ WaitTimesOut(l) \/ Waited(l)
  <2>1. UNCHANGED <<proc, profile, completed, selected, failure>>
    BY <1>3 DEF StopSignal, WaitGone, WaitTimesOut, Waited, LauncherOnly, httpd
  <2>2. at[l] \notin {"settle", "done"}
    BY <1>3 DEF StopSignal, WaitGone, WaitTimesOut, Waited, Calm
  <2>3. \A n \in Configs :
          n \in recorded[l] /\ Alive(l, n) => n \in recorded'[l] \/ ~intact'[l]
    BY <1>3 DEF StopSignal, WaitGone, WaitTimesOut, Waited, Types, Shape
  <2>4. ~intact[l] => ~intact'[l]
    BY <1>3 DEF StopSignal, WaitGone, WaitTimesOut, Waited, Shape
  <2>5. at'[l] = "mark" => recorded'[l] = {} /\ (intact'[l] => ~failure'[l])
    <3>1. CASE StopSignal(l)
      BY <3>1 DEF StopSignal, Goto, Shape
    <3>2. CASE WaitGone(l) \/ WaitTimesOut(l)
      BY <3>2 DEF WaitGone, WaitTimesOut
    <3>3. CASE Waited(l)
      BY <3>3 DEF Waited, Shape
    <3> QED
      BY <1>3, <3>1, <3>2, <3>3
  <2>6. l \notin completed
    BY <2>2 DEF Accounted
  <2> QED
    BY <2>1, <2>2, <2>3, <2>4, <2>5, <2>6 DEF Accounted, Settling, Alive
<1>4. CASE Mark(l)
  <2>1. at[l] = "mark" /\ at'[l] = "done" /\ UNCHANGED <<proc, profile>>
    BY <1>4 DEF Mark, Exit, Goto, httpd, Shape
  <2>2. ASSUME l \in completed'
        PROVE  Reportable(l) /\ \A n \in Configs : ~Alive(l, n)
    <3>1. /\ intact[l] /\ selected[l] # {} /\ \A n \in selected[l] : profile[l][n] = "good"
          /\ selected[l] \subseteq Configs
      BY <1>4, <2>1, <2>2 DEF Mark, Accounted, Profiled, Shape
    <3>2. \A n \in Configs : ~Alive(l, n)
      BY <2>1, <3>1 DEF Accounted, Settling
    <3>3. \A n \in Configs : profile[l][n] \in {"absent", "good"}
      BY <2>1, <3>1 DEF Accounted, Settling
    <3>4. \E n \in Configs : profile[l][n] # "absent"
      BY <3>1
    <3> QED
      BY <3>2, <3>3, <3>4 DEF Reportable
  <2> QED
    BY <2>1, <2>2 DEF Accounted, Settling, Alive, Reportable
<1> QED
  BY <1>1, <1>2, <1>3, <1>4 DEF Ending, Stopping

\* An httpd that ends, or whose child does.
LEMMA AccountedHttpd ==
    ASSUME CampaignAssumption, Types, Shape, NEW l \in Launchers, NEW n \in Configs,
           HttpdStep(l, n), NEW m \in Launchers, Accounted(m)
    PROVE  Accounted(m)'
<1>1. UNCHANGED <<at, next, recorded, selected, failure, intact, completed>>
  BY DEF HttpdStep, HttpdStarts, ChildStops, HttpdCrashes, HttpdStops, HttpdOnly, launcher, memory
<1>2. ASSUME NEW k \in Configs
      PROVE  /\ Alive(m, k)' => Alive(m, k)
             /\ \/ profile'[m][k] = profile[m][k]
                \/ Alive(m, k) /\ profile'[m][k] # "absent"
  <2>1. CASE HttpdStarts(l, n)
    BY <2>1, ProcStep DEF HttpdStarts, States, Alive
  <2>2. CASE HttpdCrashes(l, n)
    BY <2>2, ProcStep DEF HttpdCrashes, States, Alive
  <2>3. CASE ChildStops(l, n)
    BY <2>3, ProfileStep DEF ChildStops, httpd, Profiles, Alive
  <2>4. CASE HttpdStops(l, n)
    <3>1. Alive(m, k)' => Alive(m, k)
      BY <2>4, ProcStep DEF HttpdStops, States, Alive
    <3>2. PICK p \in Profiles : p # "absent" /\ profile' = [profile EXCEPT ![l][n] = p]
      BY <2>4 DEF HttpdStops, Profiles
    <3>3. profile'[m][k] = IF m = l /\ k = n THEN p ELSE profile[m][k]
      BY <3>2 DEF Shape
    <3>4. Alive(l, n)
      BY <2>4 DEF HttpdStops, Alive
    <3> QED
      BY <3>1, <3>2, <3>3, <3>4
  <2> QED
    BY <2>1, <2>2, <2>3, <2>4 DEF HttpdStep
<1>3. \A k \in Configs : (profile'[m][k] = "absent") <=> (profile[m][k] = "absent")
  BY <1>2 DEF Accounted
<1>4. ASSUME m \in completed, NEW k \in Configs
      PROVE  profile'[m][k] = profile[m][k]
  BY <1>2, <1>4 DEF Accounted
<1> QED
  BY <1>1, <1>2, <1>3, <1>4 DEF Accounted, Settling, Reportable

-----------------------------------------------------------------------------
(* The theorems.                                                           *)

\* Every step keeps the invariant.
LEMMA StepInv ==
    ASSUME CampaignAssumption, IInv, [Next]_vars
    PROVE  IInv'
<1> USE DEF IInv
<1>1. CASE UNCHANGED vars
  <2>1. UNCHANGED <<built, wanted, lock, at, next, recorded, selected, failure, intact, result,
                    proc, pidfile, profile, completed>>
    BY <1>1 DEF vars, choice, launcher, memory, httpd
  <2>2. Types' /\ Shape'
    BY <2>1 DEF Types, Shape
  <2>3. LockHeld' /\ (Known => Known')
    BY <2>1 DEF LockHeld, Known, Settling, Alive
  <2>4. AllAccounted => AllAccounted'
    BY <2>1 DEF AllAccounted, Accounted, Settling, Alive, Reportable
  <2> QED
    BY <2>2, <2>3, <2>4 DEF Calm
<1>2. ASSUME NEW l \in Launchers, Starting(l) \/ Watching(l) \/ Ending(l)
      PROVE  IInv'
  <2>1. Types' /\ Shape'
    BY <1>2, StartTypes, WatchTypes, StopTypes DEF Starting, Watching, Ending
  <2>2. LockHeld'
    BY <1>2, LockStep
  <2>3. ASSUME Calm
        PROVE  Known'
    BY <1>2, <2>3, KnownStep
  <2>4. ASSUME Calm
        PROVE  AllAccounted'
    <3>1. Accounted(l)'
      BY <1>2, <2>4, AccountedStart, AccountedWatch, AccountedEnd DEF AllAccounted
    <3>2. ASSUME NEW m \in Launchers, m # l
          PROVE  Accounted(m)'
      <4>1. /\ at'[m] = at[m] /\ next'[m] = next[m]
            /\ recorded'[m] = recorded[m] /\ selected'[m] = selected[m]
            /\ failure'[m] = failure[m] /\ intact'[m] = intact[m]
            /\ m \in completed' <=> m \in completed
        BY <1>2, <3>2, Elsewhere
      <4>2. \A n \in Configs :
              (Alive(m, n)' <=> Alive(m, n)) /\ profile'[m][n] = profile[m][n]
        BY <1>2, <3>2, OthersAlive
      <4>3. Accounted(m)
        BY <2>4 DEF AllAccounted
      <4> QED
        BY <4>1, <4>2, <4>3 DEF Accounted, Settling, Reportable
    <3> QED
      BY <3>1, <3>2 DEF AllAccounted
  <2> QED
    BY <2>1, <2>2, <2>3, <2>4 DEF Calm
<1>3. ASSUME NEW l \in Launchers, NEW n \in Configs, HttpdStep(l, n)
      PROVE  IInv'
  <2>1. Types' /\ Shape'
    BY <1>3, HttpdTypes
  <2>2. LockHeld'
    <3>1. UNCHANGED <<lock, at>>
      BY <1>3 DEF HttpdStep, HttpdStarts, ChildStops, HttpdCrashes, HttpdStops, HttpdOnly, launcher, memory
    <3> QED
      BY <3>1 DEF LockHeld
  <2>3. ASSUME Calm
        PROVE  Known'
    BY <1>3, <2>3, KnownHttpd
  <2>4. ASSUME Calm
        PROVE  AllAccounted'
    BY <1>3, <2>4, AccountedHttpd DEF AllAccounted
  <2> QED
    BY <2>1, <2>2, <2>3, <2>4 DEF Calm
<1> QED
  BY <1>1, <1>2, <1>3 DEF Next, Starting, Watching, Ending, HttpdStep

\* The inductive invariant: types and the lock always, the records of a launcher
\* that is not stopped too early, and the pid files that it finds in time.
THEOREM CampaignInvariant == Spec => []IInv
<1>1. Init => IInv
  BY InitInv, CampaignAssumption
<1>2. IInv /\ [Next]_vars => IInv'
  BY StepInv, CampaignAssumption
<1> QED
  BY <1>1, <1>2, PTL DEF Spec

\* Type correctness, however the launchers are stopped; the lock is held by a
\* launcher at work.
THEOREM CampaignTypes == Spec => []TypeOK
<1>1. IInv => TypeOK
  BY DEF IInv, Types, Nexts, TypeOK
<1> QED
  BY <1>1, CampaignInvariant, PTL

\* At most one launcher checks, rotates, starts or watches.
OneAtWork == \A l, m \in Launchers : at[l] \in Working /\ at[m] \in Working => l = m

\* flock and the trap of run.sh: launchers at work exclude each other, wherever and
\* however they are stopped and whatever their httpds do.
THEOREM CampaignOneAtWork == Spec => []OneAtWork
<1>1. IInv => OneAtWork
  BY DEF IInv, LockHeld, OneAtWork
<1> QED
  BY <1>1, CampaignInvariant, PTL

\* No configuration whose httpd writes its pid file in time is ever served by two:
\* run.sh looks at the pid files under its lock before it starts anything.  The
\* other configurations may be as slow as they like.
THEOREM CampaignOneServer ==
    ASSUME ~StopUnrecorded
    PROVE  Spec => []OneServer
<1>1. IInv => OneServer
  <2> SUFFICES ASSUME IInv, NEW n \in PromptPidFile, NEW l \in Launchers, NEW m \in Launchers,
                      Alive(l, n), Alive(m, n)
               PROVE  l = m
    BY DEF OneServer
  <2>1. Known
    BY DEF IInv, Calm
  <2>2. CASE proc[l][n] = "new" \/ proc[m][n] = "new"
    BY <2>1, <2>2 DEF Known
  <2>3. CASE proc[l][n] # "new" /\ proc[m][n] # "new"
    BY <2>1, <2>3 DEF Known, Alive
  <2> QED
    BY <2>2, <2>3
<1> QED
  BY <1>1, CampaignInvariant, PTL

\* logrotate --force meets no httpd with a pid file in time, since every pid file
\* was looked at under the lock, and the logrotate of the monitor loop none of
\* another launcher.
THEOREM CampaignRotation ==
    ASSUME ~StopUnrecorded
    PROVE  Spec => RotatesOwnLogs
<1>1. IInv /\ [Next]_vars =>
        [\A l, m \in Launchers, n \in PromptPidFile :
           /\ at[l] = "rotate" /\ at'[l] = "start" => ~Alive(m, n)
           /\ at[l] = "tidy" /\ at'[l] = "monitor" => (Alive(m, n) => m = l)]_vars
  BY DEF IInv, Calm, Known, Working
<1> QED
  BY <1>1, CampaignInvariant, PTL DEF Spec, RotatesOwnLogs

\* genreport.sh can report every session that _term marks complete, also where an
\* httpd is slow to write its pid file.
THEOREM CampaignReportable ==
    ASSUME ~StopUnrecorded
    PROVE  Spec => []CompleteReportable
<1>1. IInv => CompleteReportable
  BY DEF IInv, Calm, AllAccounted, Accounted, Types, CompleteReportable
<1> QED
  BY <1>1, CampaignInvariant, PTL

\* A session that is marked complete has left no httpd behind, pid file or not.
THEOREM CampaignLeavesNone ==
    ASSUME ~StopUnrecorded
    PROVE  Spec => []CompleteLeavesNone
<1>1. IInv => CompleteLeavesNone
  BY DEF IInv, Calm, AllAccounted, Accounted, Types, CompleteLeavesNone
<1> QED
  BY <1>1, CampaignInvariant, PTL
=============================================================================
