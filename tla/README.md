# A verification development for apachehttp-fuzz

The repository fuzzes Apache httpd from inside: a module (`fuzzer.c`) runs
libFuzzer in a thread of one httpd child, sends every input to httpd's own
listener, and learns what the input covered, in whichever process and thread it
was served, through counters in shared memory (`covbridge.c`). Around that are
scripts that start a campaign, stop it, replay inputs and report.

This directory models the parts with control of their own in TLA+, checks them
with TLC, and proves what matters most with TLAPS. `PROJECT.json` lists every
run, the source lines each definition stands for, the mutants that show each
property can fail, the hazards and the findings.

## 1. Inventory

| Component | Source | State | Operations | Hard because |
|---|---|---|---|---|
| coverage bridge | `covbridge.c` | one mapped `shared_map` (`gate` word, `run_id`, `completed_run`, controller pid, counters), a thread-local tag | `cb_claim_controller`, `cb_begin`, `cb_cancel`, `cb_wait_snapshot`, `cb_libfuzzer_import`; `cb_connection_begin/end`, `cb_thread_pause/resume`, the `trace-pc-guard` wrapper | lock-free, several processes, each may die between any two accesses, time-outs |
| harness | `fuzzer.c` | `fuzzer.lock`, `currentInputN-PID` files, exit guard, stop flag, per-connection state | controller thread, `fuzzServer`, connection and child hooks | a crash is the event of interest: what is on disk then matters; stop, exit and controller run at the same time |
| sending an input | `fuzzer.c:222-311` | a socket, bytes sent and received | `sendAll`, `waitForPacketResponse`, `sendPrelude`, `sendMultipacketData` | short sends, stalls, resets, time-outs |
| input framing | `fuzzer.c:151-189`, `send-test-case.py`, `generate-interesting-corpus.py` | none | decode, decode, encode | three programs, one format, numeric edges |
| replay tool | `send-test-case.py` | a socket | `parse_fuzzer_input`, `receive_response`, `main` | must do what the harness did, and say where it stopped |
| campaign launcher | `run.sh` | `run.lock`, pid files, its lists of httpds, profile session and `.complete` | check, start, monitor, `_term` | concurrent launchers, signals at any command, httpds that hang |
| reports | `genreport.sh`, `status.sh` | none (read files of the others) | latest session, counts | read what others are still writing; pids are reused |
| instrumentation check | `build-check/` | the artifacts, errors and counters of one run, its report | `load_config`, `discover`, `inspect`, `parse_elf`, `detect`, `make_report`, `main` | a file that is overlooked or half read passes; the tree may be rebuilt meanwhile; links, overlapping roots and overrides |
| build | `build.sh`, `toolchain/` | source, build and run trees | clone, configure, make, install | external tools |
| log filter, rotation, configurations | `asanProcess.sh`, `logrotate.conf`, `*.conf.in` | text | text filters, data | - |

How they interact. `run.sh` starts one httpd per configuration. Its parent maps
`shared_map` (`cb_init`, before the fork) and forks children. Every child starts
a controller thread (`fuzzerChildInit`), which blocks on `fuzzer.lock`. The one
that gets it takes the bridge over (`cb_claim_controller`), checks that the
server answers and enters libFuzzer, which calls `fuzzServer` per input: write
the input to its file, open a run, connect, send, close, wait until the run is
complete, import the counters, remove the file. The connection meets the
bridge in the hooks: `pre_connection` joins the run, `pre_close_connection` or
the pool cleanup leaves it, suspend and resume move the thread tag. `run.sh`
stops everything with SIGTERM and marks the session complete; `genreport.sh`
reads completed sessions; `status.sh` counts the preserved inputs.
`check_build.py` runs apart from all this, before a campaign: it looks for the
files of a build (`discover`), asks readelf about each (`inspect`), compares what
it finds with the expectations of `check-build.ini` and reports.

What makes each correct:
- bridge: the counters libFuzzer imports are those of its input, all of them and
  no others; a run is complete exactly when all who joined have left; run
  identifiers are never used twice; a controller's death never wedges its
  successor; every input is resolved.
- harness: the input to blame for a crash is on disk, whole, and stays there;
  feedback is that of the input's connection; the next controller starts.
- exchange: the server sees the packets in order, gated as asked, and the
  exchange ends.
- framing: harness and replay tool agree on every byte string; nothing is read
  or written out of bounds; seeds decode to what they were written from.
- instrumentation check: no file that belongs to it is overlooked; exit status
  and report say what the tables of the files say; nothing but an earlier report
  is overwritten.
- campaign: one campaign and one httpd per configuration at a time; a stop ends;
  a session marked complete is complete.

## 2. Modules

| Module | What it is |
|---|---|
| `FeedbackRun` | abstract: what the bridge promises. One measurement at a time, sealed when everyone has left, delivered exactly or not at all |
| `Covbridge` | the bridge, one step per atomic access, with its callers; implements `FeedbackRun` by a refinement mapping |
| `CovbridgeInv` | its inductive invariants: `IInv`, and `FInv` for prompt callbacks |
| `CovbridgeProofs` | its theorems that need no assumption on callbacks |
| `CovbridgeFeedback` | exact feedback and the refinement of `FeedbackRun`, proved for prompt callbacks |
| `MCCovbridge` | children, threads and connections for TLC, symmetry |
| `Harness`, `HarnessProofs` | `fuzzer.c` around the bridge; uses no more of the bridge than `FeedbackRun` promises, which is a refinement, so the two models compose; its theorems |
| `MCHarness` | symmetry and a bound on the health checks in service, for TLC |
| `Framing`, `FramingProofs` | the input format and its three programs; its theorems |
| `Exchange`, `ExchangeProofs` | one input on the wire, by the harness and by the replay tool; its theorems |
| `Campaign`, `CampaignProofs` | `run.sh`, and what `genreport.sh` accepts; its theorems |
| `MCCampaign` | two launchers, one of which is asked for one configuration, for TLC |
| `Discover`, `DiscoverProofs` | `discover()` of `check_build.py` on a tree that may change; its theorems |
| `Evidence` | the pure part of `check_build.py`: `parse_elf`, `inspect`, `detect`, `policy_failed`, `effective_modes` |
| `CheckBuild`, `CheckBuildProofs` | one run of `check_build.py`, from its configuration to its exit status, on top of `Evidence`; its theorems |
| `MCDiscover`, `MCCheckBuild` | a tree, and files, answers of readelf and configurations, for TLC |

### Covbridge

State: the words of `shared_map`; the gate word as a record of its four bit
fields; `lock`, `waiting` and `cpc` (where the controller is); `snapshot` and
`extra`; per thread `pc`, `thread_run` and what it loaded last (`seen`, `slot`);
per connection the run it joined. Every load, store and compare-and-swap of
`shared_map` is an action; where a thread can only read back what it wrote last,
accesses share one. `tally` and `lost` are history: the hits that should be
counted, and members of the run that died or were turned away.

`Die` and `Crash` end a child at any step: its threads vanish, its connections
stay counted in the gate, the kernel drops its lock and httpd's parent starts
another child in its place. `PromptCallbacks` is an assumption some runs make:
no thread that survives stays inside one bridge callback across a whole takeover.
The code does not enforce it and mostly leaves no time for it either: the drain loop
(`covbridge.c:188`) looks at the active count alone, so that a thread whose
connection is still in the run gets the drain deadline, and a finalizer, or a thread
whose connection has left, gets no grace at all. Section 3 says what happens without
the assumption.

The memory model is sequential consistency. The code uses acquire and release
on the words that order the protocol and relaxed accesses on the counters, which
are read only after the completing store has been seen; on these words the
protocol relies on no order that release and acquire do not give, but that is an
argument and not a check.

`cb_init` and guard registration happen before the fork and are the initial
state. Clocks are abstracted: a time-out may fire whenever the loop it is in
has been reached, except that `ClaimDrain` prefers a drained gate.

### Harness

Children occupy slots and have pids. `life` is what the main thread of a child
does (up, stopping, stopped, exiting); the controller thread runs on while the
main thread stops, as the code does. `file` is the current-input file of each
pid: nothing, created but not written, or an input. A connection is `queue`d in
the listener until a worker takes it, and joins the measurement that is open
then, whoever its client is: an input or a health check. It leaves the
measurement in the `pre_close` hook (`Finish`), and its worker still has it
(`served`) for the lingering close and the cleanup of its pool, until `Close`, where
the cleanup callback finds nothing left to do or, if the hook did not run, leaves the
measurement now. The worker can die of it before and after it has left.

Three constants are assumptions and are switched off where a run needs the
contrary: `Stops` (httpd stops children in an orderly way), `PromptAccept` (no
connection is left in the queue when the next input begins) and `PidReuse` (a
child may get the pid of a dead controller that left a file).
Two variables are history. `unfinished` are the inputs whose worker died before
their connection had left its measurement, whose coverage timed out, or whose
controller died between sending and removing the file. `late` are those whose
worker died while it cleaned up after a connection that had left. `owed` is both:
every input that killed something.

### Framing, Exchange, Campaign

`Framing` runs the C and the Python decoder in lockstep, one frame per step, on
any byte string or on a seed written by `multipacket()`; a byte has `Base`
values and `high` records how far the C decoder has looked. `Exchange` numbers
packets and bytes, takes partial sends and reads, and lets the server read,
answer, close or reset at any time; a signal that interrupts a call changes
nothing and is left out. The replay tool begins with its options and its file,
which `Prepare` may refuse, and its `result` is its exit status; the harness
begins when it has connected. `Campaign` has launchers, the lock (held by the `flock`
process, so that Ctrl-C may end it before the launcher), and per configuration
an httpd, a pid file and the profiles of the session. A trap runs between two
commands, which is where `StopSignal` is enabled. `StopUnrecorded` says whether a
stop may come in the second between the start of an httpd and its entry in the list
(it may always come between two of them, and while an old one is being stopped), and
`PromptPidFile` names the configurations whose httpd has written its pid file after
that second. The monitor loop takes two steps: it looks at its httpds (`Monitor`), and it filters
and rotates the logs while they run (`Tidy`). The variables of a launcher end with its
shell (`Exit`); with which status it ends is left out.

### Discover, Evidence, CheckBuild

`Discover` is the walk. A path is a place in a tree and `disk` says what is at
it; `Change` replaces that at any time, as a build does. The code looks at a file
three times (`stat`, `open`, `resolve`), which are three actions; a directory is
listed in one. Files of a directory are taken in any order, where the code sorts
them, so the properties do not rest on the order of names. What a file is taken
for is decided by its first bytes and, for objects, by its name. `reached` is
history. `DiscoverAssumption` says that `Parent` makes a tree and that the object
roots come first, as in the loop over `((objects, "object"), (binaries,
"binary"))`. Four things are fixed by it or by the inputs and narrow the model: a
root is not a link to a directory, no link leads to a link, nothing becomes a fifo
(which `open` would wait for), and a pattern of `exclude` is the set of paths it
matches.

`Evidence` is a set of operators. A symbol or section is named by the check whose
pattern it matches, so that the regular expressions are not modelled and what is
done with a match is. `Result` is an answer of readelf: whether it complained
(`diagnostic`), whether it printed a heading per archive member (`listed`), and
the tables of each ELF file.

`CheckBuild` is `main`: one action per stage and one per unit of a file. The list
of files is any that `discover` may return and readelf answers anything, because
a file may be rebuilt or gone when it is read. `Write` and `WriteFails`, `Announce`
and `AnnounceFails` are the last two stages; `Loop` is described below. `log` and
`troubled` are history: the units with the modes they were judged by, and the
files that were not read from end to end. That nobody replaces the report path
between its check and its use is assumed.

## 3. Runs

| Run | Instance | Shows |
|---|---|---|
| `bridge` | 2 children with 1 thread and 1 connection each, 3 run numbers, any crash | types, member accounting, completion, one finalizer, controller owns the gate, fresh run numbers, admission; an input that was sent is resolved; a cancellation ends unless its finalizer died; when the deaths stop, a waiting child takes over |
| `bridge_feedback` | the same with 2 edges, counters that wrap at 2 and bytes that saturate at 1, `PromptCallbacks` | imported feedback is exact; `Covbridge` implements `FeedbackRun` |
| `harness_crashes` | 2 slots, 3 pids, 2 health checks, 3 inputs, pids reused | an input lost to its measurement or its controller is kept, a sent input is on file, feedback is of the matching connection |
| `harness_stops` | 2 inputs, orderly stops, late connections, one health check in service at a time, no pid of a preserved input reused | no removal touches an earlier controller's input; `status.sh` counts every preserved input; the harness uses the bridge as `FeedbackRun` allows |
| `framing` | all strings of up to 11 two-valued bytes, limit 2 packets, seeds of up to 3 | bounds, agreement, canonical form, seeds |
| `exchange` | up to 3 packets of 2 bytes, responses of up to 3 bytes, every combination of options | order, gating, bound, exit status, termination |
| `campaign` | 2 launchers, of which one is asked for a single configuration, 2 configurations, the pid file of one of them possibly late, no stop in the second after a start | one server per configuration and no rotation of another's logs where the pid file is in time, complete sessions; a stop ends |
| `check_discover` | overlapping roots, links (one leads back up), a fifo, an object whose name lies, excluded paths, one change at any point | nothing steady is overlooked; a tree at rest is listed exactly; silence means success; excluded is excluded; the scan ends |
| `check_report` | an archive, a binary and an object, 7 kinds of files, 6 configurations, 8 report paths | exit status, last override wins, counters add up, no failure is hidden, nothing is overwritten |

The bounds. The bridge needs two children for a takeover, two connections for a
join that races a last close, three run numbers for a stale one, a current one
and the exhaustion of the field, and an active count of two to meet its limit.
The harness needs two slots (controller and worker in different children), a
pid more than slots, so that one is free to come back, and two inputs, so that
one is owed while another is current. In `harness_stops` at most one health check
is being served at a time; the other waits in the queue. A frame header of two bytes with two
values gives lengths 0 to 3, and ten bytes let a string exceed two packets.
Responses of three bytes, read in pieces of two, hit the limit unevenly. One
thread per child is enough for threads to race, since two children do; that more
threads change nothing in the safety properties is proved. In `campaign` the configuration with the late pid file is the first of the loop, so
that a launcher goes on from it to the other; two launchers that both want every
configuration are left to the proof. One change under the
walk comes between any two of its looks at any file; that errors are then
reported for every root is proved for any number. Two overrides are needed for
one to be overridden, and two members for a diagnostic to follow one in order.

### Fairness

`Covbridge!FairSpec` has weak fairness for the controller and for each thread
inside a callback: they are scheduled threads in loops without locks. Nothing is
assumed of a thread that serves a connection (it may hang in Apache), nor that
children die or an input comes. `Exchange` is fair to the client and assumes
nothing of the server. `Campaign` is fair to `_term` and assumes nothing of
httpd. `Discover!FairSpec` is fair to the scan, one thread that runs, and
not to those who change files. Liveness runs use no symmetry.

### Findings

Each is a run that must fail, and quotes the sentence that it contradicts.
- `harness_stop_after_crash`: an orderly stop removes an input that killed a
  worker or timed out, before its controller has called `_exit`.
- `harness_late_crash`: a worker dies in the lingering close or the pool cleanup
  that follow the `pre_close` hook. The run is complete by then, or completes; the
  controller, in another child, imports it and removes the input that killed the
  worker. The delay of `fuzzer.c:427-428` waits for such a cleanup and does not
  notice its death. (A worker that dies there after the delay finds its input gone
  already; one in the controller's own child takes the controller with it, and the
  file stays.)
- `campaign_early_stop`: a stop in the second after an httpd was started leaves
  it out of the list; the session is marked complete and cannot be reported.

### What the assumptions hide

A passing run that fixes a constant says what it does not show. Changing the
constant in its cfg gives the counterexample; the code allows each of them.
- `PromptCallbacks = FALSE` in `bridge_feedback`: the coverage wrapper tests the
  gate (`covbridge.c:112`) before it increments the counter (114), and nothing in
  between holds the run open. A hit that straddles a takeover counts in the next run
  (`FeedbackExact`), where README.md:137-142 of the repository says that the run tag
  "prevents ... unrelated worker activity from leaking into the next input" and
  `tests/test_covbridge.c:151-152` "Work attempted with the retained run A tag must
  not alter B". Moreover, a last closer that passed its run check
  (`covbridge.c:366`) and was held up across a takeover stores its old run over
  `completed_run` (370), possibly over a later completion, whose input then times out
  (`IdleMeansCompleted`). The takeover does not wait for either thread: its drain
  loop (188) looks at the active count, in which a finalizer is no longer, and ends
  at its deadline. `covbridge.c:200-202` speaks of the accounting of unfinished
  connections only ("Invalidate that old run before clearing its stale accounting").
- `CancelReturns` without `Orphaned`: a child that dies between the
  compare-and-swap of its last close (356) and the one that settles the gate
  (373) leaves `cb_cancel` (264) waiting without a deadline.
- `PromptAccept = FALSE` in `harness_crashes`: a health check that timed out
  stays in the listener's queue, joins the run of the first input and can
  complete it alone (`MatchingConnection`; README.md:132-134 of the repository
  speaks of the matching connection).
- `StopUnrecorded = TRUE` in `campaign` (the finding `campaign_early_stop`): a stop
  in the second after an httpd was started leaves it out of the list of those to
  stop. It goes on running under no launcher, and if its pid file comes late the next
  launcher does not see it either. All four properties of states and rotations fail
  (`OneServer`, `CompleteReportable`, `CompleteLeavesNone`, `RotatesOwnLogs`).
- A configuration outside `PromptPidFile`, for which `OneServer` and
  `RotatesOwnLogs` say nothing: while its httpd has not written its pid
  file, the check of `run.sh:60-68` does not see it. If Ctrl-C ends its launcher's
  lock meanwhile, a second launcher passes the check, rotates logs under that httpd
  and starts the same configuration: with `Configs` for `PromptPidFile` in the two
  properties, `campaign` violates both. When the pid file comes after that check, the
  second launcher finds the httpd as it comes to its configuration, and stops it
  (`OldStopped`, `OldRemains`). A session that is marked complete is one all the same.
- `PidReuse = TRUE` in `harness_stops`: a child with the pid of a dead
  controller removes that controller's preserved input when it is stopped, and
  hides it from `status.sh` until then (`OnlyCurrentRemoved`,
  `PreservedCounted`).
- `ExitTellsTheTruth` excepts runs with a `loop`: if the configuration, the report
  or a binary path is a loop of symbolic links, `Path.resolve` of Python before
  3.13 raises RuntimeError, which `main` does not catch. The interpreter exits
  with 1, which `build-check/README.md` reads as "expectation failed", without a
  report.

## 4. Proofs

Every theorem holds for all values of the constants that the module's ASSUME
allows; where it needs more, its statement says so. Each module has an inductive
invariant `IInv`, one lemma per action or group of actions, and a `StepInv` that
combines them; the theorems follow from `IInv`, and the action properties from
`IInv` and one step.

`CovbridgeProofs`: every safety property of `bridge`, for any number of
children, threads, connections and edges and any field widths, from
`ConstAssumption` alone and without `PromptCallbacks`; and two more that no run
checks since the proof covers them, that a takeover leaves a run number for
`cb_begin` and that a thread's tag is the run of its connection. None of the
properties is inductive by itself. `IInv` adds: at which steps of the controller
the gate is idle and which gate it may find (`GateShape`), what a thread knows of
its connection at each step (`ThreadShape`), that no run number is ahead of the
gate's (`RunOrder`), and that a sealed run has no member (`SealedShape`). The
crux is that an idle gate cannot be moved by any thread: joining needs the
enabled bit, leaving needs a member, settling needs the finalizing bit; so the
controller's plain stores there lose nothing, and its compare-and-swaps
elsewhere make stale loads harmless. `AdmissionSound` also needs that a join
whose compare-and-swap succeeds has loaded the gate of the current run
(`JoinStep`). TLC finds `IInv` to hold on the instance of `bridge` too
(`MCCovbridge` extends `CovbridgeInv`: name it as an INVARIANT there).

`CovbridgeFeedback`: the properties of `bridge_feedback`, again for any number of
everything, under `PromptCallbacks`. `FInv` adds to `IInv` that whoever may still
write the map is in the run of the gate (`MidOfRun`, the one conjunct that needs
the assumption); that an input on its way has a gate that is open, final, or idle
and complete (`Resolution`, `Completion`); that all counters are zero when a run
opens (`Reset`); that a counter is the tally of its run until it wraps, and then
that has been noted, is about to be, or the run can never complete (`Counted`);
and that what has been copied is exact (`Copied`). The crux of the second-last is
a child that dies between the wrap of a counter and the store of `overflow`: its
connection stays in the gate, so nobody reads the counter (`DeathNoted`). From
`FInv` follow `FeedbackExact` and `IdleMeansCompleted`, and step by step the
refinement: joins, hits and the last close of an open run are those of
`FeedbackRun`, `cb_begin` opens, takeover and cancellation void, `Import`
delivers, and every other step is none. With `HarnessUsesFeedbackRun` this
proves both sides of the interface on which the two models compose. TLC finds
`FInv` to hold on the instance of `bridge_feedback`. What `FeedbackRun` is worth
to whoever keeps to it is stated there (`Promised`, `SealedIsFinal`, `RunsAscend`)
and proved through the refinements, of the bridge (`BridgeSealedIsFinal`) and of
what the harness sees of it (`HarnessSealedIsFinal`): only the tally of a sealed run
is ever held by libFuzzer, a sealed run stays as it is until it is void, and every
run has a number above all earlier ones.

`HarnessProofs`: for any number of child slots, pids, health checks and inputs.
`IInv` says where the controller is and what is on file at each of its steps
(`Filed`), that an input is on its way at most once (`Traffic`), and which
measurement a step may find (`Measured`). From these alone: types, the sent
input on file, and that every step of `Harness` is one of `FeedbackRun` or
leaves its state alone (`HarnessUsesFeedbackRun`). `OwnFiles`, under
`~PidReuse`, says that no child but the controller's has a file; from it,
`OnlyCurrentRemoved` and `PreservedCounted`. `Own`, under `PromptAccept`, says
that only the input is in its measurement, hence `MatchingConnection`; with it,
`Unowed` says that an input that is unfinished is not one the controller may still
finish or give up; and `Kept`, with `~Stops` besides, that what may still be lost to
its measurement is lost already, or is the input that is waited for, which is on
file; hence `UnfinishedInputsKept`. `Dispatched` says that no worker dies cleaning up
after an input before it was sent. With orderly stops and with deaths in the cleanup
an input can be lost (section 3, findings); `HarnessOwedLeftAlone` proves, from
`PromptAccept` alone, that these are the only two ways: the file of an input that
killed anything is taken away under the pid of a child that is itself being stopped,
or at the end of that very input, if its worker died after its connection had left.
The other conditions are those the runs fix; section 3 says what happens without
them.

`CampaignProofs`: for any number of launchers and configurations. Types and
`LockHeld` (a launcher that checks, rotates, starts or watches has the lock, hence
`CampaignOneAtWork`) hold however launchers are stopped. `Accounted` (a launcher waits
for its httpds, or knows that its session is not intact) needs `~StopUnrecorded`;
from it, that a marked session can be reported and left nothing running.
`Known` says of every configuration in `PromptPidFile` that its httpd is named by the
pid file, or is the one being started, so a launcher that has looked at the pid file
knows, and whoever has passed the check has none running but its own. It is inductive
whatever the httpds of the other configurations do; from it, one server for such a
configuration, a forced rotation that meets none of its httpds and a rotation in the
monitor loop that meets only the launcher's own, although launchers may be killed and
leave their httpds behind.

`FramingProofs`: the C decoder stays in bounds and the Python decoder agrees
with it, for inputs of every size, any width of a byte and any packet limit. The
two are at the same offset with the same packets until they decide; the one
refuses a packet too many before it looks at its length and the other after it
has taken it, in the same round. `Decoded` adds what the packets are: those
taken so far, each behind its length, are the input up to the offset (`Tiled`),
and a decoder that reads a seed is at the frame it is to take next (`AtSeed`);
from these, `NothingLost` and `SeedsDecode`. That a written seed is its frames one
behind another, whatever their number, is an induction over the packets
(`LaidAppend`), for which `FlattenSeq` has first to be shown to satisfy its
recursion (`FlattensExists`).

`ExchangeProofs`: types, the gates and the exit status, for inputs, packets and
responses of any size and a server that does as it likes. `IInv` (`InputShape`,
`ClientShape`, `ServerShape`, `WireShape`) relates the packet in work to what is
on the wire and to the answers that have been counted; `Opened` is what a gate
waits for. `Placed` adds that the wire is the script up to the byte the client is
at, from which `WireInOrder` follows; the script's order is arithmetic on quotients and
remainders of positions (`ScriptPlaces`).

`DiscoverProofs`: whatever changes under the walk, everything it has reached is
an artifact of the three kinds, and a scan without errors has found something
under every root it was to look at. `RootsGave` is the crux: a root is left with
an error or an artifact. `Faithful` adds that the walk reaches nothing through an
excluded path (`Inside`) and that a candidate which nobody has touched is listed,
named in an error, or still ahead of the walk: below a directory it is to list
(`Covered`). That there is always such a directory is `WayGoesOn`; it needs the
way from a root to a path, which `Above` builds along `Parent`, to end and to
branch nowhere (`AboveUnfold`, `AboveChain`, `WayEnds`), and there the assumption
that `Parent` is a tree is used. `Exact` adds the converse while nothing has
changed: what is listed or in an error has its reason in the tree (`FoundAtRest`),
with the kind of the last root that leads to it (`Turns`; this is where the object
roots have to come first).

`CheckBuildProofs`: exit status and report, for any number of files, members,
checks and overrides and any answers of readelf. `IInv` says that the exit counters
count what was logged (`ErrorsCounted`, `FilesLogged`, `FailuresCounted`), and that the
report path was looked at before it is written (`OutputChecked`); the lemmas on
`detect` and `inspect` say what their results mean, for any file. `DecidedInv` adds
that the rules are those of the file and every item was judged by them, from
which `LastMatchWins`: `LastMatch` is the induction over the overrides that
`effective_modes` goes through, and `EffectiveDecides` shows that the baseline
loses nothing by losing its "ignore". `Counted` says of every counter which
positions of the log it is the number of (`UnitsCounted`, `FilesCounted`,
`BadCounted`, `NamesCounted`, `UsedNoted`); a step adds one position and changes
the counters whose sets it enters (`LogAppend`, `UnitSets`, `UnitCounts`). From it
`ReportAddsUp`: the summary's sum over the names is the number of failing items
because every failing item has one name (`SumOfParts`, an induction over the
names), and a check that is left out of the summary was ignored for every item.
TLC finds `Counted` to hold on the instance of `check_report`.

Induction is not by the library's theorems, which take an operator that no
installed prover instantiates: a set of numbers has a least element since < is
well-founded on them (`LeastElement`), so what holds of 0 and is handed on holds
of all (`Induct`); a recursive function is then shown to satisfy its equation.

Every safety and action property of the passing runs is proved, under the
conditions named above. Only model-checked: all liveness (out of the prover's
reach, like ENABLED).

## 5. Not modelled

The build and the toolchain, the log filter, what logrotate does to a log, packet
capture, the contents of the seeds and the configurations, the queries of
`status.sh` other than the count of preserved inputs, and the calls of LLVM tools
in `genreport.sh`: external programs, text and data, with next to no state of this
repository's. Of the instrumentation check, the regular expressions of the
checks (a name is the check it matches), the columns of readelf's tables, the
layout of the report and the option parser; of the replay tool, what it prints. Of the harness, the profile file name, the
test-case log and the filter of `pre_connection` on the listener's port are left
out. Not in reach of TLC: the weak memory model, real time.

One more behaviour was seen and has no property: an orderly exit (the exit guard
unlinks, then writes the profile) leaves a window in which the controller thread
may create its next file, which then looks like a preserved input.

## 6. Plan

1. Done: every component with control of its own, each with its properties, runs
   and theorems.
2. Open modules: `Staging` (what `build.sh` does to source, build and run trees
   under failure, as far as it is control), the selection of `status.sh` over a
   running campaign.
3. Composition: `Covbridge` under `Harness` in one instance, in place of
   `FeedbackRun`, for one input and one crash; `Exchange` under `Harness`.
4. Proofs: what is left of `OwedLeftAlone` without `PromptAccept`, where a health
   check may complete the run of an input that then kills its worker before it has
   left, and `removeCurrentInput` takes the file all the same; the theorems of
   `Campaign` with `StopUnrecorded`, for the configurations whose httpds are in the
   list.
