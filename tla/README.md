# Verification of buck2-nextest-adapter

TLA+ models of this repository, checked with TLC and proved about with TLAPS.
Paths below are relative to the repository.

## 1. The system

The repository runs Rust tests built by Buck under cargo-nextest and brings the
JUnit reports out.  Four programs take part, in two crates.

| part | files | state it keeps | operations |
|---|---|---|---|
| executor service | `executor/src/service.rs` | `sender` (an `mpsc::Sender` under a mutex, `None` once Buck ended its requests), the channel of 10 000 specs, the server task | `external_runner_spec`, `end_of_test_requests`, `run` |
| executor orchestrator | `executor/src/orchestrator.rs` | `reserved` (report names, lowercased), `SessionState.publication_open`, the local `verdict`, one `process()` future per spec | `run`, `process`, `report`, `report_infra`, `publish_if_open`, `fail_session` |
| executor reports | `executor/src/report.rs` | the destination directory's descriptors, `TEMP_COUNTER` | `DestinationDir::open`, `publish`, `inspect_and_read`, `validate_xml`, `ReportIdentity::filename` |
| executor command line, transport | `cli.rs`, `transport.rs`, `runner.rs`, `main.rs` | none | parse once, connect, call `service::run` |
| Buck test runner | `adapter/src/bin/nextest_buck_test.rs` | scratch root, child, pipe readers, signal guard | validate the bundle, list, run, publish JUnit, drain, clean up, exit status |
| nextest v2 bridge | `adapter/src/nextest_v2.rs` | observed signal, process groups | `synthesize`, `publish_junit`, `SignalGuard`, `drain_process_groups` |
| artifact adapter | `adapter/src/bin/nextest_buck_artifact.rs` | scratch guard, signal guard, children | `run_child`, `run_buck_artifact`, `validate_report` |
| report export | `adapter/src/export.rs` | a temporary | `export_report` |
| manifests | `adapter/src/manifest_v1.rs`, `manifest_v2.rs`, `json.rs`, `digest.rs` | none | strict parsing and validation |
| adapter XML check | `adapter/src/report.rs` | none | a second validator of the same reports |

How they interact.  Buck starts the executor, connects to it over two channels,
and sends it one `ExternalRunnerSpec` per test target, each in a request of its
own, then `EndOfTestRequests`.  Handlers push the specs into the channel; the
run task pulls them, up to 10 000 at once, and each `process()` calls Buck back:
`Execute2` to run the test, `ReportTestResult` with its outcome, and at the end
of the session `EndOfTestResults` with the exit code.  The command Buck runs for
an `Execute2` is the Buck test runner, which supervises nextest and leaves one
`junit.xml` in the declared directory; the executor inspects that directory and
commits the bytes to the caller's `--junit-dir`.

### What is hard about it

* **Concurrency.**  Handlers are tokio tasks of their own; they clone the sender
  under a mutex and send outside it, so a clone may be in flight when
  `EndOfTestRequests` takes the sender.  All `process()` futures are polled by
  one task, so they interleave at their awaits; results come back in any order.
* **Failure.**  Each RPC can fail with or without its effect.  A failing
  `process()` only queues a stop message, so others run on before `run()` closes
  the session.  Publication can fail before or after its commit.
* **Bounds.**  Channel and slots can be full while the run task dies.
* **Files.**  Names that differ in case only, or that exceed `NAME_MAX`; commits
  that must not replace; temporaries left behind by a crash.
* **Processes.**  (adapter) signals racing exits, escaped descendants, deadlines.
* **Hand-offs.**  The runner's report and the executor's inspection meet in one
  directory; scratch paths are shared; a check is one call and what it guards
  the next.
* **Twins.**  Two XML validators, two manifest validators, four option parsers,
  two staging routines written apart that have to agree.

### What makes each component correct

* service: no acknowledged spec is lost by the end of requests; a handler is
  always answered; the program exits once Buck has ended its requests.
* orchestrator: a report name is dispatched once; each spec has at most one
  result; a test outcome is reported only with its report; the exit code is 0
  only when all is well; a closed session stays closed.
* report publication: a committed file is complete and never replaced; an error
  leaves no temporary; a crash leaves no partial report under a final name.
* runner and artifact adapter: the status has a fixed precedence; no known child
  outlives the scratch directory it works in; a report is copied when nobody can
  change it any more; a signal that was seen is told.
* manifests, validators, command line: they accept exactly the inputs their
  reference definition accepts, the two XML validators agree, and the two of a v1
  manifest differ in stated points only.

`PROJECT.json` lists every hazard at its line, with the properties that cover
it.

## 2. Modules

| module | models | 
|---|---|
| `ExecutorSession` | one session of the executor: `service.rs` and `orchestrator.rs` |
| `SessionContract` | what the session promises Buck, with no queue, slot or await in it |
| `ExecutorSessionInv` | the inductive invariant of `ExecutorSession`, in named parts |
| `ExecutorSessionProofs` | the safety theorems of the session and the refinement of `SessionContract` |
| `MCExecutorSession` | the symmetry TLC uses |
| `ReportPublish` | `DestinationDir` of `report.rs`, one system call per step |
| `AtomicPublish` | what `publish` promises: one report per name, at once and for good |
| `ReportPublishProofs` | its theorems, the refinement of `AtomicPublish` among them |
| `MCReportPublish` | the symmetry TLC uses |
| `ReportExport` | `export_report` of `export.rs`, one system call per step |
| `AtomicReplace` | what it promises: whole replacements in some order, Ok for good |
| `ReportExportProofs` | its theorems, the refinement of `AtomicReplace` among them |
| `MCReportExport` | the symmetry TLC uses |
| `SignalGuard` | the guard both adapters install: the first of HUP, INT, TERM |
| `RunnerLifecycle` | one run of `nextest_buck_test.rs`, from scratch root to exit status |
| `RunnerLifecycleProofs` | its safety theorems |
| `MCRunnerLifecycle` | the symmetry TLC uses |
| `ArtifactLifecycle` | one run of `nextest_buck_artifact.rs` in `buck-artifact` mode |
| `ArtifactLifecycleProofs` | its safety theorems |
| `MCArtifactLifecycle` | the symmetry TLC uses |
| `JunitHandoff` | `publish_junit` of `nextest_v2.rs` and `inspect_and_read` of the executor's `report.rs` on one declared directory, one system call per step |
| `ScratchSetup` | the scratch path and the private roots of `nextest_buck_test.rs` and `nextest_buck_artifact.rs`, one system call per step |
| `RunnerFiles` | composes the two in the order of `execute` |
| `RunnerFilesProofs` | the safety theorems of the three |
| `MCRunnerFiles` | the symmetry TLC uses |
| `JunitXml` | `validate_report_xml` and `validate_xml`, event by event |
| `ExecutorLine` | the executor's command line, `parse` of `cli.rs` argument by argument, and what `connect` and `process` make of it |
| `ReportNames` | `filename`, `reserve_key`, `semantic_id`, `decode_semantic_id`, `generated_name`, byte by byte, and the reservations of a session |
| `AdapterLine` | `parse`, `parse_args`, `take_value` and `take_vec` of the adapter's three programs, one option with its arguments per step |
| `InputProofs` | the theorems of the four: both validators accept the well-formed reports, whatever the document; the executor exactly Buck's lines; a name belongs to one identity; the order of an adapter's options carries no meaning |
| `PrivateRoot` | paths, and the tree that `ensure_dir`, `copy_regular` and `json_write` make |
| `RunnerInputs` | identities, declared inputs, the bundle's resources and the list of the runner |
| `RunnerStaging` | schema-v2 manifest, bundle and private root of the runner, record by record and call by call |
| `RunnerEnvironment` | the environment of the runner's commands, option by option and entry by entry |
| `ArtifactInputs` | schema-v1 manifest, bundle matching and environment of the artifact adapter |
| `ArtifactStaging` | its bundle and private root, record by record and call by call |
| `StagingProofs` | the theorems of the three, and how exactly the two validators of schema v1 differ |
| `CommandLines` | arguments, and the options of the adapter's three programs |
| `MCInputs` | runs the seven that are state machines, one at a time |

`ExecutorSession` uses publication as one step, `Commit`, that takes a free name
or fails, and may fail after it took it; `AtomicPublish` is that step's contract
and `ReportPublish` the calls behind it.

### ExecutorSession and the code

A step is the code between two awaits.  `pc[s]` follows spec `s` from its
request through its handler and its `process()`:

    idle -> cloned -> queued -> started -> executing -> publishing -> reporting -> done
       \-> refused                 |            |\-> omitted      \-> closing
                                   \------------\--------------------> failing

| code | action |
|---|---|
| `external_runner_spec`: lock, clone or refuse | `CloneSender`, `RefuseClosed` |
| ... `send().await` and the reply | `SendSpec`, `RefuseDead`, `DropRequest` (the server drops a handler whose request is cancelled) |
| `end_of_test_requests` | `EndOfTestRequests` |
| `buffer_unordered` takes a spec | `Pull` |
| `process` up to the first error | `RejectSpec` |
| ... duplicate key, reserved environment key | `RefuseSpec` |
| ... reservation and the `Execute2` call | `Dispatch` |
| ... its answer | `ExecuteCancelled`, `ExecuteFailed`, `ExecuteFinished` |
| ... `inspect_and_read`, `publish_if_open`, `report_infra` | `PublishReport`, `PublishFailed` |
| `report`: the request arrives; its answer | `DeliverReport`; `ReportAccepted`, `ReportFailed` |
| `report`: `fail_session` on its error | `CloseAfterReport` |
| `run`: the select, `fail_session`, the end of the stream | `AbortSession`, `FailSession`, `EndOfStream` |
| `EndOfTestResults` and its answer | `EndAccepted`, `EndFailed` |
| `service::run`: destination, shutdown, result | `StartSession`, `ServerStopped` |

`reserved`, `publicationOpen`, `verdict` and `sender` are the code's variables;
`disk` is the destination directory as a function from report names to the spec
whose report it is; `executed`, `reports`, `exit` and `rpcFailed` are what Buck
saw.  The identity of a spec is reduced to its reservation key, a filename after
`to_ascii_lowercase`, so specs that collide in case share a key.  Two specs with
one key in the model stand for both exact and case-only duplicates, and `disk`
is per key, since the second of such a pair is refused before it could publish.
`publish` runs synchronously under the state lock, so its whole effect on the
session is one step; when its directory fsync fails after the commit, the step
commits and the status becomes `INFRA_FAILURE` all the same.

Delivery of `ReportTestResult` is a step of its own, separate from the answer:
a request may arrive and its answer be lost, may arrive after the run task gave
up on the session, or never arrive.  It may arrive more than once in the model;
`reports[s]` is the set of statuses received, so this adds nothing.

Left out: texts of details, the command, environment and fixed fields of
`Execute2`, heap dumps, and the fields `failed` and `published` of
`SessionState`, which the code writes and never reads.

### SessionContract

Per spec: it may be accepted, given one result, and have one file committed; the
session then ends with a code or fails.  A test outcome of a nextest spec needs
its file first, the code is 0 exactly when every accepted spec passed, and files
are never replaced.  `ExecutorSession!KeepsContract` is this specification under
the mapping at the end of `ExecutorSession`.

### ReportPublish and the code

`pc[e]` follows executor `e` through `open`, and through one `publish` at a time
(the session holds its state lock over `publish`, which has no await):

    closed -> idle -> writing -> syncing -> committing -> syncing_dir -> idle
       \-> refused       \-----------\------------\  \-> unlinking -/
                                              cleaning <-/          any -> dead

| code | action |
|---|---|
| `open`: the directory must be empty; a refusal or a call that fails | `Open`, `OpenFails` |
| `publish`: `openat` with `O_EXCL` | `CreateTemp`, `CreateFails` |
| `write_fd`, `fsync` of the temporary | `Write`, `Sync`, `WriteFails` |
| `publish_noreplace_fd`: `renameat2` | `Rename`, `CommitFails` |
| ... `linkat`, `unlinkat` where the filesystem refuses it | `Link`, `CommitFails`, `Unlink`, `UnlinkFails` |
| the error paths' `unlinkat` | `Clean` (removed, or the removal's error ignored) |
| `fsync` of the directory | `SyncDir`, `SyncDirFails` |
| the environment | `Kill` (one executor), `Crash` (the machine) |

A temporary's name is its filename, the process id and the counter; its identity
is the executor that created it, so `SameName` may hold of two files' names when
executors run in two pid namespaces, and every call after `openat` finds its
temporary by that name.  `CreateFails` also stands for the refusals before it (a
bad filename, invalid XML) and for `ENAMETOOLONG`.

A crash of the machine keeps what an `fsync` of the directory has put on the disk
(`stable`) and loses or keeps every other entry by itself; bytes not synced may
be torn.  Not modelled: entries removed before a crash that come back after it
(a committed temporary's old name), and the two directory listings and the inode
check of `open`, which are one step.
The session gives every name at most one `publish`, so `Answered` bars a second.

### ReportExport and the code

    reading -> creating -> writing -> syncing -> checking -> renaming -> syncing_dir -> done
       \-----------|           \---------\----------\-----------\-> dropping -/    any -> dead

| code | action |
|---|---|
| `read_source`, `validate_report_xml`, `open_destination_parent` | `Read`, `ReadFails` |
| `create_temporary`: `openat` with `O_EXCL`, the next name on `EEXIST` | `CreateTemp`, `TryNext`, `CreateFails` |
| `write_all`, `fsync`, `validate_destination`, `renameat` | `Write`, `Sync`, `Check`, `Rename` |
| an error of one of them; `Temporary::drop` | `Error`; `Drop` (removed, or the error ignored) |
| `fsync` of the directory | `SyncDir`, `SyncDirFails` |
| the environment | `Kill` (one adapter), `Crash` (the machine) |

The adapters race for one destination, which each replaces whatever it holds.
The destination is the order of the renames: `place[e]` is the place of adapter
`e`'s rename in it, `latest` the one a reader sees (0 is what was there before)
and `stable` the one a crash of the machine keeps.  A crash takes the later
renames back first, as a journalled directory does; a filesystem that forgets
an earlier rename of a name and keeps a later one is not modelled.  A process
exports once, so its `TEMP_COUNTER` equals the attempt and a name is the process
id and the attempt; process ids may be equal in two pid namespaces, and the
rename and the removal find the file by its name.  `Attempts` stands for 128.
An error after the rename (`SyncDirFails`) leaves the report in place, which
`AtomicReplace` allows: an error says nothing about the file.  In
`ArtifactLifecycle` the whole is one step, `Export` or `ExportFails`.

### SignalGuard

A guard's thread records the first signal that arrives and ends (`Watch`);
dropping or stopping the guard closes it (`Close`).  signal-hook registers its
handler once and keeps it, so after a guard is gone the signals it named are
neither recorded nor fatal: the state `handler = "ignored"`.  Two signals that
are both pending may be recorded in either order, as the crate hands them out by
number.  Both lifecycle modules extend this one.

### RunnerLifecycle and the code

The runner runs three commands in turn (version and list in `run_capture`, run
in `run_supervised`, which have the same shape), each with a guard of its own:

    start -> stage -> install -> spawn -> collect -> watch -> drain -> join
                         ^                   \-> wait -/  \-> quiesce -/ |
                         \------------------- next command -------------/
    conclude -> publish -> cleanup -> exited        (every error -> conclude)

| code | action |
|---|---|
| `execute`: checks, `private_root` | `Refuse`, `MakeRoot` |
| ... directories, `synthesize`, bundle | `Stage`, `StageFails` |
| `SignalGuard::install`, `spawn` | `InstallGuard`, `InstallFails`, `Spawn`, `SpawnFails` |
| first `collect_process_groups` | `Collect`, `CollectFails`, `WaitLeader` |
| the loop: `try_wait` | `TryWait`, `TryWaitFails` |
| ... the first signal, SIGKILL five seconds later | `Forward`, `ForwardFails`, `Escalate`, `EscalateFails` |
| `drain_process_groups` | `Quiet`, `DrainError`, `DrainKill`, `GiveUp`, `DrainFails` |
| joining the readers, what the status means | `Proceed`, `BoundaryFails`, `Finish`, `JoinFails` |
| `publish_junit` and its alternatives | `BeginPublish`, `Publish`, `PublishFails`, `ReportMissing`, `KeepStatus` |
| scratch and exit | `Retain`, `Cleanup`, `CleanupFails` |
| the processes, the kernel | `LeaderExits`, `Fork`, `Detach`, `GroupDies`, `SignalArrives`, `SignalRecorded`, `RunnerDies` |

Processes are seen as the code sees them, by their groups: `live` are the groups
that have a process, `tree` those a walk of `ps` output from the leader finds,
`holders` those that can write to the pipes, `groups` what the loop knows.  A
descendant may form a group (`Fork`), and leaves the tree when its parent ends
(`Detach`) without having been seen; that is the gap the code has, and the
properties are stated for `observed` groups.  Deadlines are choices: a grace
period may be over at any time.  A process id is not given to a new group while
the runner remembers it, and no descendant joins the runner's own group, which
the drain would skip.  Termination signals before the first guard kill the
runner (`RunnerDies`).  `declared` is the final `junit.xml`; a temporary that a
failing `publish_junit` leaves beside it is not represented here;
`JunitHandoff` has it.

### ArtifactLifecycle and the code

    start -> arm -> check -> stage -> probe_run -> probe_list -> list -> dispatch -> watch -> drain -> export -> stop -> cleanup -> exited
                                                                          wait <-/   \-> settle -/        (every error -> drop)

| code | action |
|---|---|
| `run_buck_artifact`: checks, `prepare_scratch`, `unique_root` | `Refuse`, `RootFails`, `MakeRoot` |
| the guard and its first look | `Arm`, `ArmFails`, `Unhindered`, `Interrupted` |
| manifest, bundle, metadata | `Stage`, `StageFails` |
| `probe_no_tests` of `run` and of `list`; `nextest list` | `Probe`, `ProbeFails`; `List`, `ListRefused`, `ListFails` |
| `run_child`: look, spawn, loop | `Interrupted`, `Spawn`, `SpawnFails`, `TryWait`, `TryWaitFails`, `Forward`, `Escalate`, `SendFails` |
| `drain_group`, `child.wait` on the error paths | `Quiet`, `DrainError`, `DrainKill`, `GiveUp`, `WaitLeader` |
| report and export | `Export`, `ExportFails`, `ExportNothing` |
| `stop`, `cleanup`, the guards' drops | `Stop`, `Cleanup`, `CleanupFails`, `Drop` |

Only the group of `nextest run` is known to this program, so it is one group:
its leader and `others`.  A zombie leader keeps the group alive for `kill(-pgid,
0)`, which is why an error before the reaping ends in `GiveUp`.  In both modules
a report appears when nextest ends, absent, torn or valid.  Once the program has
exited or was killed, nothing more is followed.

### JunitHandoff and the code

    start -> reading -> listing -> creating -> writing -> syncing -> checking -> renaming -> syncing_dir -> done
       \--------\----------\-----------\----------\---------\---------\-----------\-------------\-----> done (error)

| code | action |
|---|---|
| `empty_declared_directory` | `Admit`, `RefuseFull` |
| nextest; `regular`, the directory's checks, `read`, `validate_report_xml` | `Read`, `ReadFails` |
| `read_dir` | `List`, `ListFails` |
| `create_new` of `.junit.xml.<pid>.tmp` | `CreateTemp`, `CreateFails` |
| `set_permissions`, `write_all`, `sync_all` | `Write`, `Sync`, `WriteFails` |
| `symlink_metadata` of `junit.xml` | `Check`, `Occupied` |
| `rename`, `sync_all` of the directory | `Rename`, `RenameFails`, `SyncDir`, `SyncDirFails` |
| `inspect_and_read`: open and list; open the file; read and validate | `ListDeclared`, `OpenReport`, `ReadReport`, `InspectFails` |
| the environment | `Kill` (one runner), `Crash` (the machine) |

Unlike `publish` of the executor, an error leaves the temporary, and the commit
replaces.  Buck gives every `Execute2` a directory of its own; the model does not
assume it, so that a second runner shows what each call by itself is worth.  The
content of the directory is as in `ReportExport`: the order of the renames, the
place up to which it is on the disk, and the temporaries.  `window` remembers
who had looked and not yet renamed when a report was put in place.  The inspection
may start at any time and happens once; it reads the file it opened even when
another rename replaces the name.  `publish_junit` knows no size limit and the
executor takes 64 MiB: an Ok report may be `oversized`.

### ScratchSetup, RunnerFiles and the code

| code | action |
|---|---|
| `symlink_metadata` / `openat` of a component | `Found`, `Missing` |
| `create_dir` / `mkdirat` | `Make`; `MakeLate` (the adapter accepts `EEXIST`), `MakeLost` (the runner does not) |
| any other error, or a component that is no directory | `WalkFails` |
| `private_root`, `unique_root` | `MakeRoot`, `MakeRootFails`, `TryNext` |
| `remove_dir_all` | `RemoveRoot` |

A component once made stays (nobody removes the scratch path), so `depth` counts
those that exist.  Only the `BUCK_SCRATCH_PATH` branch creates components; the
`TMPDIR` branch of `private_root` is not modelled.  Roots carry the clock's value,
which two processes may read alike.  `RunnerFiles` orders the two: the runner looks
at its declared directory, makes its root, publishes, removes its root.

### What is read before anything starts

Seven of these modules are state machines, one step for each turn of a loop or
each call: `JunitXml`, `ReportNames`, `ExecutorLine`, `AdapterLine`,
`RunnerStaging`, `RunnerEnvironment`, `ArtifactStaging`.  The others hold the
operators they share.

* `JunitXml`: a document is the sequence of events the reader returns, and each
  event is one turn of both loops, which keep a stack, the root and a count.
  `WellFormedReport` says what a report is with depths and partners, no loop and
  no stack.  The events include those the readers, which trim texts and check end
  names, never return.
* `ExecutorLine`: a step reads one argument.  `place` is the part of `parse` that
  reads it (the preamble, the other end of the transport, the four fixed words, the
  executor's own options, or an error that was returned), `option` the option whose
  value comes next.  `BucksLine` is the line Buck writes, without a loop: pairs of
  trace id and config entries, a transport of one kind, the words, pairs of options.
  `AsI64` is the cast of `orchestrator.rs:167`; the two widths of the timeout are
  constants.  A relative path, a port that does not parse or an encoding error is a
  text the option refuses.
* `PrivateRoot`: a path is its components, the root a function from paths to what
  wrote the file.  The three calls fail where the file system makes them fail: on
  a file in the way, and for `fs::write` on a directory that is not there.
* `RunnerStaging`: `ManifestV2::validate` record by record (`ReadRecord`), the
  resolution of executables, `synthesize` package by package (`OpenPackage`,
  `WriteSource`; a `BTreeMap` orders the packages, here they come in any order),
  `parse_bundle` and the copies.  `GiveUp` is any error of the system.
* `RunnerEnvironment`: `--suite-env` option by option, the bundle's variables entry
  by entry, and `sanitized_env`.
* `RunnerInputs`: labels, digests, platforms and spelling are one `sound` flag per
  record or item.
* `ArtifactStaging`, `ArtifactInputs`: the same for the artifact adapter, with
  `validate_bundle`'s two loops and the copies in its order.  A destination is kept
  as it is spelled: empty and "." components inside it disappear (`Components`), and
  a copy to one that ends in a slash fails (`CopyTo`, `WorkingDirectory`).
  `synthesize` copies whatever is at the executable's place, and a file copied over
  itself is emptied (`Synthesize`).  `Displaced` names the manifests whose artifact
  is not what nextest starts; the adapter accepts them (see below).  Of a v1 manifest
  `BinaryAccepts` takes exactly the schema's `fields`, `LibraryAccepts` also a
  foreign one (serde ignores it) and a list for a record; names, values and spellings
  are checked by each in its own way.
* `ReportNames`: bytes, with lengths below 65536.  `Reserve` and `Duplicate` are
  `process` up to the reservation; an identity whose name is too long changes
  nothing.  `reserve_key` folds case, and with it the length bytes: a component of
  65 bytes (a length byte `A`) and one of 97 (`a`) can be folded into one key when
  the shorter identity goes on with bytes that read like the tag and the length of
  the next component.  Those hold a NUL, so the property says that a reservation is
  shared by case variants only, for identities without NULs.  With NULs the session
  answers one of two different targets "duplicate configured target identity"; no
  report is overwritten, as the names differ (`EncodedName` is injective for all).
* `CommandLines`: an argument is a text or a number.  A program is described by
  its options (once, last, all, lists, flags).
* `AdapterLine`: the `while` loop of each program, a round a step: an option and
  what `take_value` or `take_vec` take for it, fewer arguments when the line ends
  there.  `given` is the struct `Args`, `seen` its `_seen` flags; other options are
  known by their field, as in the code (`Again`).  `AskHelp` is the look for `--help`
  before the loop: the rounds of a program that has it hold none (`WellCut`).  A state
  that reads is also the state of a line that ends here, and `GoesOn` what `main` and
  the first checks make of it.  `OptionsMeanOneThing` says what a line means without
  a loop: a round is unsound by itself, two exclude each other wherever they stand,
  and the last or all of an option count.  The order matters in one place, and
  `SoundRounds` says it: the artifact adapter looks at its vector of resources after
  each list, so an empty list is refused unless one before it was not empty.

## 3. Runs

| run | instance | shows |
|---|---|---|
| `session` | 3 specs of any kind, 2 keys and the two bad ones, channel of 1, 2 slots, symmetric specs and keys | the five safety properties, the two action properties, and `ExecutorSession` implements `SessionContract` |
| `session_live` | 3 nextest specs, 1 key and the two bad ones, channel of 1, 1 slot, fairness | the executor exits; every acknowledged spec is resolved |
| `publish` | 2 executors, 2 names, 2 process ids, both kinds of filesystem | three safety properties, and `ReportPublish` implements `AtomicPublish` |
| `export` | 3 adapters, 2 process ids, 2 attempts | three safety properties, and `ReportExport` implements `AtomicReplace` |
| `runner` | 2 signals, 2 groups of descendants beside the command's, fairness | quiet publication, whole verdicts, told interruptions, scratch kept under live processes; after a signal the runner ends, or waits for a process it never saw |
| `artifact` | 3 signals, fairness | quiet export, whole statuses, no lost signal after dispatch; after a signal the adapter ends, or waits for a leader it could not kill |
| `files` | 2 runners and 1 adapter, 2 process ids, a path of 1 component, 1 clock value, 2 attempts | an Ok report reaches the executor; roots are their owner's; not every process loses the race for a component; a report is replaced only in the window after a check; the directory implements `AtomicReplace` |
| `inputs` | see below | what is read and staged before nextest starts: eight properties |
| `runner_signal` | violation | a signal during version or list is not told |
| `artifact_retain` | violation | scratch is not retained after a failed lifecycle |
| `session_cancel` | violation | a cancellation does not stop later publication |
| `session_overlong` | violation | one overlong identity fails the session |

Bounds.  Each hazard takes at most three actors: two specs on one key and a
third whose failure closes the session.  A channel of one and two slots (one in
`session_live`) make both limits reachable with three specs: one being
processed, one queued, one handler waiting for room.  `req` is chosen in `Init`
from every combination of key and kind, so each run covers all mixes of
duplicate, malformed, overlong, reserved-environment, nextest and other specs.
Symmetry is used only in runs without liveness, and only permutes values no
definition or property of the run tells apart: specs, report names, the two bad
keys (`UnexportableIsPerTarget` does tell these apart, and its run uses no
symmetry), executors, process ids.

`files` needs two runners for a rename in another's window and a third process of
the other program, which takes `EEXIST` for an answer.  With one clock value every
pair of roots of one program collides, two attempts reach both the next name and
the last one.  The inspection is one.

`inputs` takes documents of up to 5 events (an element in a root, with data before
or after, is 5) over 3 element names, manifests of up to 3 of 72 records with
bundles of up to 2 resources (two packages that meet, and a third record that
meets either; a resource that meets any of the files written before), up to 4
suite and bundle variables together, 5 places of a v1 manifest's executable (two
spellings of one, one with a slash at its end, a file of the adapter's, the place it is
dispatched from), 2 working directories and 5 lists of runtime inputs (one of them over
the executable, one with two spellings and a file of the adapter's) with bundles as
long as its declared resources, manifests that differ in each field's check of the two
validators, pairs of identities
over 5 texts that differ in case, in a separator and in UTF-8, 3 rounds of a
command line, or 2 behind the ones its program needs, and of the executor every line with at most
one `--config-entry` up to the argument it refuses (the others occur at most once).
Whatever the properties compare is pairwise, or
pairwise under a third item; the widths 3, 7 and 15 of `i32`, `i64` and `u64` have
values on and off each bound.  For the values of the trace id and of a config entry,
which nothing reads, six stand for all.  Each alphabet has, for every check, an item that it refuses and one it
passes.  For the seven machines the theorems below drop these bounds.

In `publish` a hazard takes two executors on one name, and a second name for the
report that must survive; process ids may be equal or not.  Each executor
answers for each name once, which bounds the counters and makes the run finite
without further bounds.  After a crash an executor not yet started may start.  `export`
has three adapters for a rename between another's rename and its answer, with a
third whose name collides with either; each exports once, two attempts reach
both the next name and the last one.

Fairness (`FairSpec`).  tokio polls every task that can make progress, so every
await-free section that is enabled for good is taken; a send in a full channel
completes once there is room.  Buck answers every RPC or its connection breaks,
which the client sees as an error, so the answers to `Execute2`,
`ReportTestResult` and `EndOfTestResults` are fair as a disjunction: no
particular answer is.  Nothing is assumed of Buck's requests: it need not send a
spec, drop a request, or end the session.  `SessionEnds` therefore starts from
`~sender`; an executor whose Buck vanishes without `EndOfTestRequests` waits for
ever, since its incoming stream never ends (`service.rs:17-22`).

In `runner` two groups are needed for one that is known and one that has left the
tree, and two signals for one that is recorded and one that is not; the three
commands bound the rest (a command's `Spawn` resets what the loop knows).  In
`artifact` everything but the signals is finite.  Both end, so
deadlock is not checked in the runs of either: a finished program has no step.

Fairness of the lifecycles.  Their loops poll for ever, and their deadlines
pass.  Where a call may succeed or fail only one of the two is forced.  A process
that was sent SIGKILL ends, and the last one of its group is reaped by whoever is
its parent; nothing is assumed of a process that was not killed, nor of nextest.
Hence the exceptions in both `InterruptedEnds`.

`files` and `inputs` state no liveness: a runner may be killed at any call, and a
pure algorithm ends.  Both end, so deadlock is not checked there.

### Findings

* `runner_signal`: `README.md:145` promises a signal-derived status.
  `run_capture` computes it, and `execute` treats any status but 0 of version or
  list as a failed boundary and returns 2 (`nextest_buck_test.rs:1102-1117`).
  The artifact adapter returns 2 too for a signal before `nextest run`
  (`nextest_buck_artifact.rs:1347`, `:1529`: the action `Interrupted`).
* `artifact_retain`: `docs/baseline-and-manifest.md:95` has wait and quiescence
  failures retain the scratch root.  `run_child` returns an error for them, and
  `ScratchGuard::drop` removes the root, since only `cleanup` sets `retained`.

* `session_cancel`: `README.md:64` says a cancellation stops later publication,
  as does the error text at `orchestrator.rs:300`.  `process()` maps `Cancelled`
  to `OMITTED` (`orchestrator.rs:211`) and nothing closes publication.
* `session_overlong`: `README.md:60-62` makes an unexportable report an
  `INFRA_FAILURE` of its target and keeps the others.  An identity longer than
  255 encoded bytes is an error of `process()` (`orchestrator.rs:111`) and ends
  the session for every target.

Met while modelling, outside what a run of this project decides by itself:

* The artifact adapter compares the destinations of its copies in part only, and
  `ArtifactAsDeclared` states what follows, for every manifest it accepts.  A v1
  manifest may name its executable among `runtime_inputs`; the runtime resource is
  then copied over the artifact (`nextest_buck_artifact.rs:1580`) and is what nextest
  starts.  Destinations under `workspace/`, `meta/` and `target/` are accepted and
  then overwritten; an executable declared at `target/debug/deps/` under the name it
  is dispatched from is copied over itself, which empties it.  `a//b` is another
  destination than `a/b` to the check and the same to the file system.
  `docs/baseline-and-manifest.md:43` says that paths overlapping protected ones and
  adapter-owned path names are rejected, and `:51` that the digests of the declared
  and the staged executable are compared.  There is no such check in the code, so
  none of these is an error.
* The two validators of schema v1 differ in more than the contract's identity, and
  `ManifestsAgree` states every difference.  Only the library takes a foreign field, a
  list in a record's place, another identity, and `CARGO_HOME` and its like as
  variables.  Only the adapter takes a path with empty or "." components inside, an
  executable below its working directory, an empty variable name (its check of all
  bytes has none to look at) and a NUL in a value.  `docs/baseline-and-manifest.md:43`
  says that extra fields fail closed, which holds of the adapter.
* `docs/baseline-and-manifest.md:43` also says adapter-owned environment names are
  rejected.  `validate_manifest` does not keep `HOME` and `TMPDIR`, and a bundle's
  variables are applied over all of the adapter's (`env_for`).  The Buck test
  runner does both (`EnvironmentAsGiven`).
* Two v2 records with sources `a/x` and `x` may resolve to one declared executable
  (`source_for` takes a suffix), although `manifest_v2.rs:187` calls executables
  unique.  The identities stay apart, which is what `StagedAsDeclared` says.
* The runner's `create_dir` of a scratch component takes `AlreadyExists` for an
  error, the artifact adapter's does not (`MakeLost`, `MakeLate`).
* `--help` anywhere, also as a value, ends the runner and the artifact adapter with
  status 0.

## 4. Proofs

### The session

`ExecutorSessionProofs` proves, for any sets of specs and keys and any
capacities, from `SessionAssumption` (the kinds are those of the code, the
special values differ from the ordinary ones, both capacities are positive):

| theorem | property |
|---|---|
| `TypeCorrect` | `TypeOK` |
| `Invariance` | `IInv` |
| `ExecutionsAreUnique` | `OneExecutionPerKey` |
| `OutcomesHaveReports` | `OutcomeHasReport` |
| `ResultsAreSingle` | `SingleResult` |
| `VerdictIsHonest` | `HonestVerdict` |
| `EndLosesNothing` | `NothingLostAtEnd` |
| `CommittedReportsStay` | `ReportsKept` |
| `ClosingIsFinal` | `ClosedStaysClosed` |

No property is inductive alone.  `IInv` adds what the code relies on silently:

* `ChannelInv`: the channel holds each queued spec exactly once, so a pulled
  spec was acknowledged and is pulled once.
* `DispatchInv`: an executed spec has its key reserved, and at most one spec per
  key got past the reservation.
* `PendingInv`: where each `process()` stands fixes what it may still report, and
  a status Buck holds is the one still pending.
* `DiskInv`: the file under a key is that of the one executed spec with that key.
* `ReportInv`: a nextest outcome that is pending or received has its file.
* `VerdictInv`: verdict 0 means every finished spec passed.
* `EndInv`: from the end of the stream on nothing is in flight, queued or being
  sent, and the sender is gone.

Each part is preserved by its own lemma (`ChannelStep`, `DispatchStep`, ...),
one step per action; `Invariance` puts them together.  What is proved of `IInv`,
`TypeOK` and `TempIsOwn` no run repeats.

`ExecutorSessionProofs` also proves `SessionImplementsContract`:
`Spec => KeepsContract`.  The invariant says which action of the contract a step
is: `DeliverReport` is the contract's result, whose guard (a file for a nextest
outcome, no result before) comes from `ReportInv` and `PendingInv`; `EndOfStream`
fixes the code, which is the contract's verdict by `VerdictInv` and `EndInv`;
the rest are stutters.

### Publication

`ReportPublishProofs` proves, for any executors, names and process ids, from
`PublishAssumption` (`None` is none of them):

| theorem | property |
|---|---|
| `Invariance` | `IInv` |
| `OnlyCompleteIsVisible` | `VisibleIsComplete` |
| `OkIsForGood` | `ExportedStays` |
| `TemporariesAreApart` | `TempIsOwn` |
| `TemporariesAreAccounted` | `TempsAreExplained` |
| `PublishKeepsPromise` | `KeepsPromise` |

The argument.  `TempIsOwn` rests on `O_EXCL` only: while a temporary is in the
directory no other file can take its name, so a name leads an executor to its
own file (`CallInv` says the file is there).  Hence what is committed is what
the executor itself synced (`CallInv`, `FinalInv`); a crash can only take an
entry back to `stable`, which is empty or the same report (`FinalInv`); and Ok
comes after the directory's sync, so `stable` holds what was acknowledged
(`ExportedInv`).

### The export

`ReportExportProofs` proves, for any adapters and process ids and any number of
attempts, from `ExportAssumption` (at least one attempt):

| theorem | property |
|---|---|
| `Invariance` | `IInv` |
| `OnlyCompleteIsVisible` | `VisibleIsComplete` |
| `OkIsForGood` | `ExportedStays` |
| `TemporariesAreApart` | `TempIsOwn` |
| `TemporariesAreAccounted` | `TempsAreExplained` |
| `ExportKeepsPromise` | `KeepsPromise` |

`TempIsOwn` rests on `O_EXCL` again, so what an adapter renames is the file it
synced.  `PlaceInv` says that the places up to `latest` are taken by one adapter
each, every one with a synced file: a crash that takes the latest ones back
uncovers another whole report.  `ExportedInv` bounds the places of acknowledged
reports by `stable`, which no crash goes below; the directory's sync may be
another adapter's, and then covers this one's rename too.

### The lifecycles

`RunnerLifecycleProofs` proves, for any signals and groups, from
`RunnerAssumption`, and `ArtifactLifecycleProofs`, for any signals, from
`ArtifactAssumption` (the special values differ from the ordinary ones):

| theorem | property |
|---|---|
| `Invariance` (both) | `IInv` |
| `PublicationIsQuiet`, `ExportsAreQuiet` | `PublishedIsQuiet`, `ExportIsQuiet` |
| `VerdictsAreWhole`, `StatusesAreWhole` | `VerdictIsWhole`, `StatusIsWhole` |
| `InterruptionsAreTold`, `DispatchedSignalsAreTold` | `InterruptionIsTold`, `DispatchedSignalTold` |
| `ScratchIsKept` | `ScratchOutlivesGroups` |

The argument is the same twice.  The drain is left without an error only when
every known group is gone, and none of them comes back, as a group's first
process needs a live parent in it or the id anew (`GroupsInv`, `LeaderInv`); so
from there on the files are nobody's but the program's (`FilesInv`).  `ResultInv`
says at each place what the pending status can still be, given the signal that
was seen and the report that is there.  One lemma takes each stretch of the
program, one step each action.

### The files of concurrent runs

`RunnerFilesProofs` proves, for any runners, adapters, process ids, components
and attempts, from `HandoffAssumption`, `ScratchAssumption` and `FilesAssumption`
(at least one component and one attempt; the runners and the adapters are the
processes; the special values are none of them):

| theorem | property |
|---|---|
| `FilesAreHandedOver` | `FilesSpec => Spec`: the composition does to the directory what `JunitHandoff` says |
| `HandoffInvariance`, `SetupInvariance` | `HandoffInv`, `SetupInv` |
| `OkReachesTheExecutor` | `OkIsHandedOver` |
| `ReplacementIsARace` | `ReplacedOnlyInWindow` |
| `HandoffKeepsPromise` | `KeepsPromise` |
| `RootsAreSeparate` | `RootsAreOwn` |
| `SomeoneGetsOn` | `NotEveryoneLoses` |

`HandoffInv` is the export's invariant for a directory that should start empty.
`TempInv` and `PlaceInv` are as there, so no torn file is ever in place
(`AlwaysWhole`) and the refinement's `latest` is the directory's own.  `CallInv`
adds the window: a runner about to rename over a report was about to rename when
that report came.  `LookInv` follows the inspection: when only reports of the
runners it began after exist, each step finds what `ExportedInv` says is there.
`SetupInv` says of the path that nobody is past its first missing component
(`WalkInv`), so whoever created the deepest one was not too late for it, and of
the roots that no two have one name (`RootInv`), so a removal by name takes the
process's own root only.

### Report validation

`InputProofs` proves for documents of any length over any element names, from
`MaxEventsAssumption` (the bound is a number):

| theorem | property |
|---|---|
| `ValidatorsAlwaysAgree` | `ValidatorsAgree` |

The validators carry a stack; the definition speaks of depths and partners.
`SoundSoFar` is the part of it that no later event can repair, and the inductive
invariant says of each loop that it has refused exactly when the document read so
far is not `SoundSoFar`, and otherwise that its stack names the open elements,
level by level (`StackIsOpen`), and its root is the one element at depth 0
(`RootIsTop`).  The lemmas on depths and partners are what one more event does to
them.

### The executor's line

`InputProofs` proves for lines of any length, with any number of config entries,
over any arguments, from `ArgumentsAssumption` (an argument is a text and a number)
and `WidthsAssumption` (the widths are numbers; which is larger does not matter):

| theorem | property |
|---|---|
| `LineInvariance` | `LineInv` |
| `ExecutorTakesBucksLines` | `ExecutorLineIsBucks` |
| `RefusalsAreFinal` | a refused line begins none of Buck's |

While nothing is refused, `LineInv` gives the length of the line from what has been
stored (`PlaceInv`) and says that the pairs, the transport, the words and the options
read so far are Buck's (`PreambleInv`, `TransportInv`, `WordsInv`, `OptionsInv`).
That makes an accepted line one of Buck's.  The other direction needs the future of a
line: a refused one must not turn into Buck's by what follows, so `RefusedInv`
quantifies over all its continuations.  It holds because a line of Buck's that begins
with what was read has its transport where `parse` met one (`TransportsMeet`), and
there Buck can only write what `parse` takes next (`BucksOptionFits`,
`BucksValueFits`, `BucksWordFits`).  That the executor goes on with the right values
rests on `OptionsStandFirst`: no value and no word reads like an option.

### The names of reports and tests

`InputProofs` proves for any set of identities, each four UTF-8 texts of any bytes,
from `IdentitiesAssumption` (that they are):

| theorem | property |
|---|---|
| `NamesInvariance` | `NamesInv` |
| `NamesAreTheirOwn` | `NamesAreOwn` |

What the folds and loops compute is proved for every input.  The library's induction
theorems take an operator, which no prover here can instantiate; but "less than" is
well-founded on the naturals as a set of pairs, so a non-empty set of naturals has a
least element (`Smallest`), and induction is a fact about sets (`Induction`).  From it
come the function that a step and a base determine (`Recursion`, `Unfolding`), what
`FlattenSeq` computes (`Flattening`), and where each piece lies in the whole (`Layout`).

A name is cut up from the left.  The escapes of two bytes that begin alike are as long
as each other, whatever the case (`SameWidth`), so two encoded texts that are equal, or
equal but for case, have their escapes at the same places (`SamePlaces`), and the bytes
behind them are equal, or are but for case (`EncodeBack`).  A report's name then gives
back four tagged fields, and the length in front of each says where it ends
(`FieldSame`); in a key the case of the length is lost, and what tells the fields apart
is that a length begins with NULs and the texts hold none (`FieldsFold`).  For the
semantic id the proof runs `decode_semantic_id` on what `semantic_id` made: byte by byte
in a field (`DecodeBack`), separator by separator in the value (`SplitThree`); that it
gives the components back (`DecodeSemanticBack`) makes `semantic_id` injective.
`NamesInv` says that the keys taken are those of the identities that took one, each its
own, and that one is refused for a key that is taken.

### The adapter's command lines

`InputProofs` proves for the three programs, whatever rounds their lines have, from
`RoundsAssumption` (how a line is cut into rounds):

| theorem | property |
|---|---|
| `AdapterLineInvariance` | `AdapterInv` |
| `OptionsMeanTheSame` | `OptionsMeanOneThing` |

The loop decides each round by what it remembers, the property by all the rounds
before it.  `Remembered` ties the two: a flag is set exactly when its option was read,
and the field of an option without a flag is empty exactly when it was not.  Then a
round is taken exactly when it fits behind the rounds before it (`TakeableFits`), and
a sound line stays one exactly when the next round does (`SoundOneMore`).  That fails
for a field that stays empty when it is given, the runner's list of resources, which
is why that option has a flag.  All that is used of the three tables is which kinds of
options they keep apart (`OptionKinds`).

### What the adapters stage

`StagingProofs` proves, for any records, manifests, bundles, declared files and
variables, from `RecordsAssumption` (paths are sequences of texts, and a generated
name belongs to one identity, which is `NamesAreOwn`) and `ManifestsAssumption`
(a spelled path has at least one component):

| theorem | property |
|---|---|
| `StagingInvariance`, `ArtifactInvariance` | `StagingInv`, `ArtifactInv` |
| `RunnerStagesAsDeclared` | `StagedAsDeclared` |
| `ArtifactStagesAsDeclared` | `ArtifactAsDeclared` |
| `ManifestValidatorsAgree` | `ManifestsAgree` |
| `EnvironmentReachesTests` | `EnvironmentAsGiven` |

A call leaves every file but the one it writes (`Calls`), so all that matters is
that no two calls write one path.  For the runner that follows from what each loop
has checked so far: one `cwd` for a package and the packages' `cwd`s apart
(`RecordsInv`), one source file for an identity, resources off the runner's own
directories (`ResourcesInv`).  `PackagesInv` says that a package is opened where all
its records say; `FilesInv` that everything written so far is still there.
For the artifact adapter `PairsInv` says that no two accepted resources have one
source or path and none meets a manifest's destination, `PlacedInv` how far the
copies are, `CopiesInv` which of those made are in place and which were written
over, without any condition on the manifest, and `StartedInv` what is at the place
nextest starts the executable from.  That the validators differ in the stated points
only is a matter of the paths: without empty and "." components the two spellings of
a path's check say the same (`SafeIsNormalized`).
The environment needs that the two maps hold just what was accepted
(`EnvironmentInv`).

### Model-checked only

The liveness properties: fairness and ENABLED are out of the prover's reach.

## 5. Plan

1. Done: `ExecutorSession`, `SessionContract`, their invariant and proofs.
2. Done: `ReportPublish`, `AtomicPublish` and their proofs.
3. Done: `SignalGuard`, `RunnerLifecycle`, `ArtifactLifecycle` and their proofs.
4. Done: `ReportExport`, `AtomicReplace` and their proofs.
5. Done: `JunitHandoff`, `ScratchSetup`, `RunnerFiles`: the files of concurrent
   runs, and the hand-off of the declared output from runner to executor.
6. Done: `JunitXml`, `ExecutorLine`, `AdapterLine`, `RunnerStaging`,
   `RunnerEnvironment`, `ArtifactStaging`, `ReportNames` as state machines and
   their proofs.

Left: strict JSON (`json.rs`), whose depth and duplicate checks are such a loop too.

### Not modelled

Generated protocol code; the Starlark rules; the shell and Python gates, which
drive the programs from outside; the executor's test fixture.  Of modelled
programs: the polling of a transport once it is connected, strict JSON parsing and
hashing, the texts of generated manifests and metadata, the comparison of the
artifact adapter's baselines, its `digest` mode, the children of its probes and of
`nextest list` (which it waits for without a guard), the look at files of a rooted
v1 manifest, and non-unix branches.
