# Flugo in TLA+

Flugo is a framework for applications with a Go backend and a Flutter user interface. The Go side is a
C-shared library; Dart calls it over FFI (`pkg/bridge`), a code generator writes the Dart half
(`internal/codegen`), Go packages give portable access to files and secrets (`pkg/filechooser`,
`pkg/keyring`), two Flutter plugins talk to security keys (`plugins/`), and a CLI scaffolds, updates, builds
and packages projects (`cmd/flugo`, `internal/`). This directory holds models of the parts where order,
concurrency and failure matter, the TLC runs that check them, and the proofs that TLAPS checks.

Contents: [Inventory](#1-inventory) · [Modules](#2-the-modules) · [Runs](#3-the-runs) ·
[Proofs](#4-the-proofs) · [Disagreements found](#5-disagreements-between-code-and-documentation) ·
[Limits](#6-what-is-not-modelled-and-why) · [Plan](#7-plan) · [Running](#8-running-it)

## 1. Inventory

### How the parts interact

```
 Dart isolate(s)                     Go c-shared library                      outside
 ---------------                     -------------------                      -------
 bridge.gen.dart  --FlugoCall------> Dispatch ----------\
   (codegen)      --FlugoCallSecure> DispatchSecure ------> registry --reflect--> user services
   Isolate.run    --FlugoCallBytes-> Dispatch + byteStore                           |
                  --FlugoGetBytes--> byteStore                                      |
   openStream     --FlugoOpenStream> DispatchStream --+--> streams registry         |
                  --FlugoStreamCancel> CancelStream --+--> Emitter.cancel           |
   ReceivePort <=== Dart_PostCObject === drain goroutine <== Emitter <== producer goroutine
 filechooser.dart --> generated calls --> pkg/filechooser --> file system, D-Bus portal, Android activity
                                          pkg/keyring     --> Android KeyStore via JVM, or the OS keyring
 hardware_key, webauthn (Flutter plugins; no Go) ----------> NFC/USB security keys
```

Shared mutable state inside the library: the method registry, the byte store, the stream registry, the base
and temp directories, the cached JVM. All are package variables behind a mutex, or a `sync.Once`. Calls
arrive on arbitrary threads: the generated `callAsync` runs every call in an isolate of its own
(`Isolate.run`), so two calls on one service run concurrently; streams are opened and cancelled on the
main isolate's thread.

### Components

| Component | State it keeps | Operations | What is hard | What makes it correct |
|---|---|---|---|---|
| Byte-result channel, `bridge.go` | `byteStore`, `byteStoreID` | `FlugoCallBytes`, `FlugoGetBytes`, eviction in `storeBytes` | id drawn outside the lock; copy and wipe outside the lock; results nobody fetches | every result in one place; delivered at most once and intact; bounded; nothing readable left behind; eviction only hits callers far behind |
| Streams, `stream.go`, `stream_ffi.go`, `dartpost`, `openStream` of `codegen.go` | `Emitter` (`ch`, `res`, `cancelled`), stream registry, the port queue, `openStream`'s closure | `Send`, `Close`, `Fail`, `drain`, `DispatchStream`, `CancelStream`, `postMsg`, `finish` | five parties, Go's random `select`, cancel racing the end, errors and panics in the middle, an isolate that dies | ordered and gap-free delivery, one ending and nothing after it, the ending after all items, producers always stoppable, everything comes to rest |
| Atomic file output, `filechooser.go` | the files | `WriteFile`, `WriteFileStream`, `WriteFileStreamDeferred`, `CommitFile`, `DiscardFile`, `replaceFile`, Dart's `cleanupTemp` | crashes, every system call may fail, other writers, a fallback when rename is refused | the target is never partial; committed means committed; reports are true; no hidden file stays |
| Method registry and dispatch, `handler.go`, `types.go` | `registry` | `Register`, `Dispatch`, `DispatchSecure`, `encodeResults` | answers for every result shape; panics of user methods | what the generator accepts, dispatch answers as the Dart side reads it |
| Secrets and paths, `secret.go`, `paths.go` | `Secret.buf`; base and temp dir | `NewSecret`, `Open`, `Destroy`; `SetBaseDir`, `SetTmpDir` | use after `Destroy`, paths that change under a call | a secret is wiped after the call; a temp file is found again |
| Linux portal dialogs, `portal_linux.go`, `filechooser_linux.go` | one request: handle, signal channel | `newPortalRequest`, `wait`, `cleanup`, `PickFile`, `SaveFile(s)`, `OpenURL` | the answer may come before the call returns, late, or never; signals of other requests on the same connection | one dialog gives one answer; a late answer is not lost silently |
| Android keyring, `keyring_android.go` | cached VM, cache dir, key in the KeyStore, one file per value | `Available`, `Set`, `Get`, `Delete`, `List`, `loadKeyStore` | check-then-generate of the key, in-place writes, cached failures | what `Set` stored, `Get` returns |
| Hardware-key plugin, `HardwareKeyPlugin.kt` | one pending challenge, discovery on/off | `handleChallengeResponse`, `onDevice`, `cancel`, attach/detach | asynchronous answers against cancel and retry | a response belongs to the challenge of the call that receives it |
| WebAuthn plugin, `WebauthnPlugin.kt` | pending result and action, watchdog, discovery | `startCeremony`, `onDevice`, `finish`, `cancelAssertion` | watchdog, cancel and device thread | each ceremony ends once, with its own result |
| iOS plugins | a pending result | as above | as above | as above |
| Android document activity, `mainactivity_kt.tmpl` | one pending save | `saveDocument`, `onActivityResult` | activity recreation, copy on a thread | one answer per request |
| Code generator, `codegen.go` | none between runs | `Generate`, `analyzeTypes`, `validateSecret/Stream/Return`, `generateDart` | agreement with dispatch | accepted shapes round-trip |
| Project update, `scaffold/update.go`, `bundleid.go`, `appversion.go` | the project's files, `flugo_version` in the config | `Update`, `SyncConfigFiles`, `mergeGitignore`, `applyRendered`, `syncFlugoDeps` | interruption, reruns, user edits | idempotent; a user's edit survives somewhere |
| Scaffolding, `scaffold.go`, `deeplink.go`, templates | none | `Create` | – | – |
| CLI, builders, packagers, `cmd/flugo`, `builder`, `packager`, `flathub`, `appimage` | build outputs | one sequence of external tools per target | order of steps, leftovers of failed builds | – |
| Config, versions, app info, `config.go`, `version.go`, `gotoolchain.go`, `util`, `appinfo` | none | validation, comparison | boundaries of version strings | – |
| Vendored Dart headers, `dartpost/*.h` | – | third party | – | – |

`PROJECT.json` lists the same components with their status, and under `hazards` each place in the code that
is hard to test, with the property that covers it or the reason none does yet.

## 2. The modules

| Module | Extends / instantiates | Models |
|---|---|---|
| `ByteStore` | – | the byte-result channel |
| `StreamContract` | – | the abstract specification of a stream, as its subscriber sees it |
| `Stream` | instantiates `StreamContract` | emitter, drain goroutine, registry, port and Dart side |
| `StreamProofs` | `Stream` | theorems about it |
| `AtomicFile` | – | the abstract specification of the file at an output path |
| `FileWrite` | instantiates `AtomicFile` | the writing half of `filechooser` with its file system |
| `FileWriteProofs` | `FileWrite` | theorems about it |
| `OneShot` | – | the abstract specification of a method channel with one operation in flight |
| `HardwareKey` | instantiates `OneShot` | the Android hardware-key plugin |
| `HardwareKeyProofs` | `HardwareKey` | theorems about it |
| `Webauthn` | instantiates `OneShot` | the Android WebAuthn plugin |
| `WebauthnProofs` | `Webauthn` | theorems about it |
| `Keyring` | – | the Android keyring: its key, its files, its callers |
| `KeyringProofs` | `Keyring` | theorems about it |
| `PortalRequest` | – | the Linux dialogs: portal requests on one bus connection, the timer, the fallback tools |
| `PortalRequestProofs` | `PortalRequest` | theorems about it |
| `BindContract` | – | what generator and bridge make of a signature and its results; no variables |
| `Dispatch` | `BindContract` | one call through the bridge and back, plain or with a secret |
| `BridgeProofs` | `ByteStore`, `Dispatch` | theorems about both: the definitions of `ByteStore` carry a prefix where the two would clash |
| `ProjectFiles` | – | the files of a project and the command working on them |
| `Update` | `ProjectFiles` | `flugo update`, and `SyncConfigFiles` |
| `Build` | `Update` | `flugo gen`, `build`, `run`, `package`, `clean` |
| `Project` | `Build` | all of them on one project, with its developer and kills; the properties |
| `ProjectProofs` | `Project` | theorems about it |
| `MC...` | the module of that name | symmetry sets, item kinds, signatures for TLC |

Operators introduced by a comment "Mutant: ..." are not part of any specification. Each is one action of
its module with a plausible mistake in it; `PROJECT.json` says which property fails when the action is
replaced by it, and so which mistake that property would catch.

### ByteStore

An id stands for a stored buffer. `byteStore` is the key set of the map, `byteStoreID` the atomic counter,
and what is in a buffer comes down to whether `zeroBytes` has run over it (`zeroed`). `returned`,
`handedOff`, `evicted` record what became of an id. Each Dart thread has a program counter, and the split of
the two calls is where another thread can really get in between:

| Action | Code |
|---|---|
| `AllocID` | `byteStoreID.Add(1)`, before the lock |
| `StoreBytes` | the critical section of `storeBytes`: insert, and over the cap wipe and delete the smallest id |
| `TakeBytes` | the critical section of `FlugoGetBytes`: look up and delete |
| `CopyBytes`, `WipeBytes` | `C.CBytes` and `zeroBytes` after the unlock |

The dispatch that precedes `storeBytes` touches none of this state. A `FlugoGetBytes` that finds nothing
changes nothing and is not a step. Threads only ask for ids that `FlugoCallBytes` returned.

### StreamContract and Stream

`StreamContract` is what `docs/STREAMING.md` and the tests promise: items are shown in the order they were
sent and without gaps (an item the Dart side cannot decode is skipped), at most one ending, and `done` or
`failed` only after everything sent.

`Stream` has, per stream: the producer goroutine (`prod`, `sent`), its `Emitter` (`ch`, `res`,
`cancelled`), the drain goroutine (`drain`, `hand`, `verdict`), the registry (`streams`), the port (`port`,
`portOpen`) and the Dart side (`streamId`, `turn`, `finished`, `shown`, `ending`).

* **Items** are numbers in send order; `kind` says what is wrong with one: nothing, `decode` throws in Dart,
  `json.Marshal` returns an error, or `MarshalJSON` panics.
* **Producer.** User code under the documented rules: any number of `Send`s, then one `Close` or `Fail`.
  `Send` is two steps because it has two `select`s: `cancelled` may be closed between them. A `Send` that
  returns an error leaves no trace, so the refusal of the first select is not a step.
* **Drain goroutine.** `select` is any enabled case: `DrainItem`, `DrainResult`, `DrainCancelled`. Then come
  the flush loop, `postMsg` with its three outcomes (`EmitItem`, `EmitUnmarshalable`, `EmitPanics`),
  `src.cancel()` (`StopProducer`), the terminal post and the deferred `unregisterStream`.
* **Port.** `PostString` appends to an unbounded queue if the port is open and otherwise reports failure.
* **Dart.** One isolate for all streams; it runs one turn at a time (`DartIdle`), which is why opening,
  handling a message and cancelling exclude each other although each is several steps: `OpenCalls`,
  `Register`; `HandleEnding` or `Unsubscribe`, `CancelLookup`, `CancelSignal`, `ClosePort`. `CancelStream`
  is split at its unlock. `IsolateGone` is the isolate's death: ports close and nobody calls `finish`.

### AtomicFile and FileWrite

`AtomicFile` says what the package comment and the comments of `WriteFileStream` and `CommitFile` promise of the
file at an output path: a call replaces it with its whole output (`Replace`) or not at all, reports once and
truthfully (`Report`), and does nothing to it after that; a crash takes it back at most to what the disk last
caught up with. A failed or discarded call may have replaced it (`RemoveTmpFails` below), and `CommitFile` without force may replace
what appears after its check, so `AtomicFile` does not forbid either.

`FileWrite` implements it (`IsAtomicFile`). What a reader finds (`Shown`) is the call whose complete output is at the
target, what another program left there, or `Part`, which `AtomicFile` knows no way to reach. A call that a crash cut off has
reported `lost`. The staging files, the syncs and the directory are what the abstract file does not see.


`puts` is the history of everything that was ever at the target path and `dir` the directory: which of them
is there now and which hidden files exist. `disk` is the part of the directory that has reached the disk;
`data` is the state of each file's contents: `partial`, `whole` (complete, unsynced), `safe` (synced), or
`torn` by a crash. One program counter per call walks through `WriteFileStreamDeferred` and
`CommitFile`/`replaceFile`, with each system call a step and its failure another: `OpenTempFails`,
`ProduceFails`, `RenameRefused`, `CopyFails`, `RemoveTmpFails`, and a `SyncDir` that is refused without
notice. `mode` tells `WriteFileStream` (which commits, and discards after a failed commit) from the deferred
form, whose caller decides later and may retry. `native` tells desktop from Flatpak/mobile, where the file is
handed to Dart instead.

Environment: `OtherProgram` changes the target; `Writeback` lets the directory reach the disk at any time;
`Crash` takes the directory back to `disk`, tears unsynced files, and stops all calls under way. The
file-system model is the one the code's `Sync` and `syncDir` calls are written for: unsynced data may be
lost, and directory changes reach the disk in order. The removal of the temp file in `DiscardFile` is taken to succeed; its
error is ignored by the code on the paths modelled here, and what then stays is the user's disk problem.

### OneShot, HardwareKey and Webauthn

Both plugins keep one pending call and let several parties settle it. `OneShot` says what a Dart caller may
count on: a call is refused at once, or becomes *the* pending call; it is settled once and answered once.

A call in these models stands for its argument too: the challenge and slot, or the ceremony with its options
and PIN. `Response(c)` is the response to the challenge of `c`, whoever receives it.

`HardwareKey` has one critical section per action, as in the code. `pendingResult` and `pendingChallenge` are
the guarded fields; `asked` is what a device thread captured in `onDevice` and works on without the lock;
`posted` are the runnables given to the main looper; `reply` is what Dart received. `OnDevice` and
`DeviceAnswers` are the two ends of `requestConnection`. `isDiscoveryActive` is the code's flag and `discovery` the
transports that really listen. The engine and activity callbacks come in the order Flutter guarantees: the
activity is detached before the engine.

`Webauthn` goes further, since `startCeremony` and `finish` hold the lock only for part of their work. Each
thread (devices and `Main`) has a program counter:

| Steps | Code |
|---|---|
| `Register`, `StartUsb`, `StartNfc`, `SetActive`, `RememberWatchdog`, `PostWatchdog` | `startCeremony`, on the main thread; `DiscoveryFails` is its `catch` |
| `FinishTake` | the critical section of `finish`, started by `Cancel`, `WatchdogFires`, `ActionEnds` or `DiscoveryFails` |
| `FinishUnstarted`, or `FinishStop` and `FinishClear` | `stopDiscovery` with its early returns, then the post of the reply |
| `OnDevice`, `Recheck`, `ActionEnds` | capture of the action, the check when the connection is there, the ceremony |

`Main` runs one message at a time (`MainIdle`); device threads interleave with every step of it. `watchdogs`
are the delayed messages in the looper, `timeoutRunnable` the one `finish` would remove.

`fresh` in both is history: the calls made when nothing of an earlier call was left (no key computing; no
thread under way and no watchdog left). What the plugins promise about *whose* answer a call gets holds for these only
(`webauthn_cancelled` and section 5 show why).

### Keyring

Every call comes on a thread of its own (`call[t]`), and the package has no lock. `jvm`, `vm`, `cache` are
the pointer `JNI_OnLoad` leaves and what the two `sync.Once` remember of it, for the life of the process; `key`
counts the keys generated under the alias, and a blob carries the number of the key it was encrypted with, so
that a key replaced is a key the older blobs do not match.

| Action | Code |
|---|---|
| `Available`, `SetValue`, `Get` | entry of each: `getVM`, `getCache`, or an error |
| `ContainsAlias`, `GenerateKey` | `loadKeyStore` and `generateKey`; the check and the generation are two steps |
| `Encrypt`, `Truncate`, `WriteBlob`, `WriteFails` | `Set`: `getKey`/`encrypt`, then the two halves of `os.WriteFile` |
| `ReadFile`, `Decrypt`, `Delete` | `Get`, `Delete` |
| `Fails` | any JNI or system call before something is changed |
| `LoadLibrary`, `Kill` | the life of the process |

`good` is history: the value of the last `Set` of a name that no other `Set` or `Delete` of that name overlapped.

### PortalRequest

One call is one dialog. `pc` follows `portalFileChooser` and its caller; `subscribed` and `matched` are
`conn.Signal` and `AddMatch`; `bus`, `slot`, `deferred` are a Response on its way, in the channel of capacity 1,
and in godbus's goroutine that waits for room in it. godbus passes each signal to every channel of the connection
(`Deliver`), which is why `Receive` has a branch that drops. `portal` is the portal's dialog, `tool` the
fallback's. `Answer` may come at any time, before the method call has returned (`calling`), and after the timer.
`BusLost` closes the channels of the calls under way, which then only the timer ends.

The three pickers and `SaveFile` are one kind (they differ in options and in the tool), `SaveFiles` has no
fallback, and the three openers await no Response. The request's path carries a time in nanoseconds, taken to be
different for each call.

### BindContract and Dispatch

`BindContract` is pure: `Accepts` is what `flugo generate` lets pass, `EncodeResults` what the bridge answers,
`DecodeResponse` what the generated Dart code reads from it. A type stands for all types treated alike, a value
for its class (`nil`, `zero`, `some`, an integer beyond 63 bits, NaN, an error without a message), and JSON for
its form and the value in it. The two sides were written in two languages by two mappings
(`goTypeFromTypesType` with `dartFromJSON`, against `encoding/json`), and a run compares them over every
signature of up to two results.

`Dispatch` is one call: `Call` or `CallSecure` in Dart, `Lookup`, `DecodeParams` or `Seal`, the method (`Returns`
anything of its types, or `Panics`), `Encode`, and `Return` to Dart. `copies` are the two plaintext copies of a secret
the bridge makes, `secret` the enclave, `aborted` that a panic has reached the cgo boundary. `Bind` may come late.

### ProjectFiles, Update, Build, Project

A project is a handful of files, each standing for those treated like it: `hook` (main.dart, build.dart), `titlebar`,
`make` (ffigen.yaml, Makefile), `ignore`, `gomod`, `pubspec`, `yaml` (flugo.yaml), `gradle` (the native
identifiers), `kt1` and `kt2` (MainActivity.kt in either package). A file is what the commands can tell of it: whether it carries the
developer's text (`mine`), the release whose text it carries (`gen`), an app version, a package, an option. A command
(`cmd`) is a list of steps; nothing is atomic but a step, and a kill comes between two, or inside `os.WriteFile`
(which leaves the file empty). A failing write ends a command as a kill does.

| Module | Actions | Code |
|---|---|---|
| `ProjectFiles` | `ApplyRendered` = `Skip`, `Create`, `BackUp` then `Overwrite`; `WriteFile`; `Start` | `applyRendered`, `os.WriteFile`, `config.Load` |
| `Update` | `StartUpdate`; `PatchBundleID`, `Relocate`, `RemoveOldActivity`, `RenderTemplate`, `RenderActivity`, `MergeIgnore`, `PinGoMod`, `PinPlugins`, `Stamp` | `Update` in its order, with `--all` and `--plugins` |
| `Update` | `SyncConfigFile` | `SyncConfigFiles`, with which `build` and `run` begin |
| `Build` | `CheckAppVersion`, `BuildGoShared`, `DropMarker`, `BuildFlutter`, `BundleGoLib`, `FinishDesktop` | `buildDesktop` |
| `Build` | `BuildABI`, `BuildApk`, `BuildDeviceABI`; `NeedBundle`, `Assemble`; `PackageLinux`; `RunFlutter`; `GenerateBridge`, `SyncAppVersion`, `Tidy`; `Clean`, `FlutterClean`; `NextTarget` | the other targets; `gen`; `clean` and the end of `update`; `build all` |
| `Project` | `EditText`, `DeleteFile`, `LoseEndMarker`, `Configure`, `EditSource`, `Kill` | the developer, and signals |

`rev` is the revision of the backend's source; a library is the version stamped into it and the source it was made of. Each tool may fail.

`go mod tidy` is a writer of go.mod like the developer and the pin: `Tidy` of `gen` and the second half of `PinGoMod` take
`TidyGoMod`, which may drop what the developer requires and does not import yet. `gen` makes no backup; in an update the tidy comes after
the pin has made one, so that `UpdateKeepsEdits` holds over it. `Arch` is the architecture of a Linux host. Flutter, the AppImage and the packager
name the bundle's directory by it; `BundleGoLib` copies to the x64 directory whatever it is, and so misses the bundle on arm64.

## 3. The runs

| Run | Result | Shows |
|---|---|---|
| `byte_store` | pass | `OnePlace`, `Bounded`, `DeliveredIntact`, `EvictionIsLate` with three threads |
| `stream` | pass | `Pipeline`, `NothingAfterEnding`, `NoOrphanProducer`, the refinement `KeepsContract`, two liveness properties, no deadlock |
| `stream_backlog` | violation | `BacklogBounded`: the port's queue grows past the emitter's capacity |
| `file_write` | pass | `TargetWhole`, `ReportsMatchEffect`, `NoStrayTemp`, `CommitSurvives`, the refinement `IsAtomicFile`: two calls on one path, another program, all failures, one crash |
| `hardware_key` | pass | `OwnResponse`, `DiscoveryFollowsActivity`, the refinement `IsOneShot`, and `PresentedIsAnswered` |
| `webauthn` | pass | `OwnOutcome`, `PendingIsReachable`, the refinement `IsOneShot`, and `NeverWedged`: every ceremony ends |
| `webauthn_cancelled` | violation | `CancelledNeverRuns`: a cancelled ceremony runs when another one is pending by then |
| `keyring` | pass | `StoredStays`, `SettledKeyStays`: values outlive other calls, failures and kills, and the key is replaced only in the race of the first calls |
| `portal` | pass | `OwnAnswer`, `AnswerKept`, `NothingLeft`, and `AnswerReturned`: each dialog's answer reaches its call, and nobody else's |
| `dispatch` | pass | `ResultsArrive`, `FailuresAreThrown`, `NothingReadableLeft`: for every signature, what is returned is what Dart gets |
| `project` | pass | `UpdateKeepsEdits`, `StampIsEarned`, `OnlyTornFilesStopUpdate`, `SharedFilesKept`, `BuildsAreFresh`, `DevRunCompiles` |
| `project_appimage` | violation | `AppImageIsCurrent`: an AppImage of the new version's name with the old version in it |

**Bounds.** Each is a CONSTANT used in a guard, named in its module.

* `ByteStore`: 3 threads, cap 2, 5 results. The cap is reached with entries to spare, an overtaken thread can
  be the victim of its own insertion (it needs `cap` younger ids), and two threads race for one id while the
  third evicts. Threads are interchangeable (symmetry).
* `Stream`: one stream, buffer 2, 4 items, all four kinds in every combination. Four items against a buffer
  of two let the producer block with items also in the drainer's hand and in the port. A second stream in the
  same run takes TLC beyond a few minutes; what streams share is the isolate's thread and the registry, and the
  theorems hold for any number of streams.
* `FileWrite`: 2 calls on the same path, 1 touch by another program, 1 crash, 2 files per call: one attempt
  of the rename fallback for each call. After that `RenameRefused` can only fail, as it does when no staging file
  can be opened. Calls are interchangeable (symmetry).

* `HardwareKey`: 3 calls and 2 keys. Two calls can pass a key that is still computing for a first one, and two
  keys can answer one call. With and without NFC.
* `Webauthn`: 2 ceremonies and 1 key; two keys take TLC beyond five minutes. One key already races cancel and
  the watchdog to settle a ceremony, and its `finish` can meet the start of the second.
  No time is modelled: a watchdog may fire at any moment after it is posted, which includes the two minutes.
* `Keyring`: 3 threads, 2 names, 1 value, 2 keys generated, 1 kill. Two threads race for the first key while the third has
  a value under way; two names show that calls for one leave the other alone. A value is told from another only by
  the name and key it belongs to. Threads and names are interchangeable (symmetry).
* `PortalRequest`: 2 calls and 1 lost connection. One call's signals fill the other's channel; a second foreign
  signal would wait in `deferred` like the first.
* `Dispatch`: 2 calls, all signatures listed in `MCDispatch`: each type as a parameter, every pair of result types, and
  some triples. Parameters and results are varied together only where both are simple, since they do not interact.
* `Project`: 2 commands, 2 edits or kills (at most one kill), releases 1 and 2, two versions. An interrupted command and
  its repetition, or two different commands on what the first left; edits before, between and during them. The
  project is created by release 1 and release 2 is installed. `project_appimage` needs three commands (build, `gen`, build).
  `Arch` is x64 in both; what is left to say of arm64 is proved (`NoBackendOnArm64`).

**Fairness.** In `Stream`: weak fairness for the drain goroutine, for a `Send` that
can return (the Go scheduler runs runnable goroutines), for the port handler and for the rest of a turn of the
isolate (Dart's event loop). None for a producer's decision to send or end, for the application's decision to
open or cancel, or for the isolate's death: nothing makes these happen. The choice among ready `select`
cases is not assumed fair: weak fairness is on the drain goroutine as a whole.

In `HardwareKey`: weak fairness for the main looper and for a device that has been asked (the key answers, fails
or is pulled off, which is an exception). In `Webauthn`: weak fairness for the rest of `startCeremony` and
`finish` in each thread, and strong fairness for posted replies and watchdogs, because the looper is a queue: each message is
reached however many others are handled first, but is not enabled while another one runs. Nothing is assumed of
keys there, so that `NeverWedged` rests on the watchdog alone. Nobody has to present a key, cancel, or come back to
the activity.

In `PortalRequest`: weak fairness for what the bus, godbus and the waiting goroutine do by themselves: `Deliver`,
`DeliverDeferred`, `Receive`, `TimedOut` once the timer has fired, `Cleanup`. None for the user's answer or for the
timer to fire, so that `AnswerReturned` does not lean on the timeout. `Keyring`, `Dispatch` and `Project` state no liveness: their
calls and commands are sequences of steps without a wait.

**Deadlock.** `Stream` is checked for it: `AllQuiet` names the only states in which nothing may be left to do
(and stutters there), so a producer or drainer stuck elsewhere is reported as a deadlock. So is `Keyring`,
whose calls never end. The other modules set `CHECK_DEADLOCK FALSE`: their calls are finite in number and the
system is done when they are.

**Violations.** These runs check sentences of the repository's documents and comments that the code does not
keep; see section 5.

## 4. The proofs

The proofs hold for every value of the constants: any number of threads, streams, calls, items and crashes,
any cap and any buffer size. The assumptions are `BufferAssumption`, `CapAssumption` and the like, that these are
numbers and that the cap and the buffer are not zero, that `NoCall` is not a call, that the parameters and
results of a signature are sequences of the types modelled, and that releases and
app versions are positive numbers, one version the first. `ArchAssumption` says that a host is x64 or arm64: the theorems
about `Project` hold on both.

| Theorem | Property | Argument |
|---|---|---|
| `BridgeProofs!StoreTypeCorrect`, `ResultsAccountedFor`, `DeliveryIsIntact` | `StoreTypeOK`; `OnePlace` and `WipeDiscipline`; `DeliveredIntact` | `StoreTypeOK`, `OnePlace` and `WipeDiscipline` are inductive together. `OnePlace` says each id is carried by one thread, or stored, or handed off, or evicted. Wiping follows the places, so a buffer in the hands of a copying thread is neither evicted nor wiped |
| `BridgeProofs!CapHolds` | `Bounded` | an insertion adds one entry to at most `cap`, and over the cap one is taken out; by cardinality of finite sets |
| `BridgeProofs!EvictionSparesRecentIDs` | `EvictionIsLate` | the victim is the minimum of `cap + 1` ids, all of them issued: so the counter is at least `cap` past it |
| `StreamProofs!TypeCorrect`, `EndingIsLast`, `DeliveryInOrder`, `ProducersStoppable` | `TypeOK`, `NothingAfterEnding`, `Pipeline`, `NoOrphanProducer` | `IInv` is `TypeOK` with `Stages`, which ties the drainer's place to the rest of a stream: when something is in its hand, when it is registered, that an ending is posted only on the way out, that `stop`, `unregister` and `exited` are left with the producer ended, cancelled, or behind a panic. The four invariants are then one step lemma each |
| `StreamProofs!ImplementsContract` | `KeepsContract` | `ContractInv` adds `Ends`, what holds around the end of a stream (the buffer is empty when the ending is posted, and nothing is sent once one that says `done` or `failed` is in the port), and `Delivered`: while the subscriber listens, some number `h` of items is dealt with (shown, or skipped because `decode` threw), and what the port holds are the items `h + 1`, `h + 2`, ... and then the ending. Handling a message moves `h`, posting one appends the next; each step is then a step of `StreamContract` or a stutter |
| `StreamProofs!FinishStopsProducer` | – | the part of `CancelReachesProducer` that needs no fairness: when `finish` has been through `FlugoStreamCancel`, the emitter was found and cancelled, or it had been unregistered, and by `Stages` then the producer was cancelled or had ended before |
| `FileWriteProofs!TypeCorrect`, `WritesAreAtomic`, `CommitsSurvive` | `TypeOK`, `TargetWhole`, `CommitSurvives` | `TypeOK` with: what a call at a given place knows of its first file and of its staging file (synced before the rename), `disk` never ahead of `dir`, and every file in the history synced and out of its writer's hand; for `CommitSurvives` also that the history only grows and `disk` only moves forward in it |
| `FileWriteProofs!CallsAreAccountedFor`, `ReportsAreTrue`, `NothingIsLeftBehind` | –, `ReportsMatchEffect`, `NoStrayTemp` | neither property sees a call before it has returned, so `Reporting` says for each place whether the call has been at the target, and `Swept` which of its two hidden files it can still have there; calls that report `exists` are not in `NoStrayTemp` (section 5, item 7). `Counted` counts the files of other programs in the history as they are put there. A step leaves the calls it does not belong to alone (`LeftAlone`): its files are its own |
| `FileWriteProofs!ImplementsAtomicFile` | `IsAtomicFile` | by `History` every entry of `puts` is synced, so what an entry shows never changes (`ShownStays`), not even in a crash. A step then is one of four kinds: it puts a file (`ReplaceStep`), returns (`ReportStep`), belongs to the environment, or is not seen. `Reporting` says that who puts a file has not returned, and with `Committed` that the reports are true |
| `HardwareKeyProofs!TypeCorrect`, `EachCallHasOneOutcome`, `FreshCallsGetTheirOwn`, `DiscoveryIsTiedToActivity` | `TypeOK`, `OneOutcome`, `OwnResponse`, `DiscoveryFollowsActivity` | each action is, for the calls, one of a few kinds of step (a refusal, an acceptance, a settlement, a delivery, or none of these); one lemma per kind says how pending call and outcomes move. For `OwnResponse`: while a fresh call is pending, every device at work was given its challenge |
| `HardwareKeyProofs!ImplementsOneShot` | `IsOneShot` | the same kinds of step are `Refuse`, `Accept`, `Settle`, `Answer` and stuttering of `OneShot` under the mapping `StatusOf`; `OneOutcome` says that a pending call has no outcome yet, and a settled one exactly one |
| `WebauthnProofs!TypeCorrect`, `FreshCeremoniesGetTheirOwn`, `FreshCeremoniesStayReachable` | `TypeOK`, `OwnOutcome`, `PendingIsReachable` | `finish()` may be under way in every thread at once. `OnePlace` says that a call is pending, or taken by one of them, or posted, or answered; `WorkInPlace` what a thread carries at its place; `ByItself` that a ceremony that started with nothing left of earlier ones has every thread, the watchdog and the discovery to itself while it is pending. `OwnOf` then only has to follow the call from the thread that takes it to its answer |
| `WebauthnProofs!NoCallIsLost`, `ImplementsOneShot` | –, `IsOneShot` | `OnePlace` again: taking the call under the lock is `Settle` and running what was posted is `Answer`, and there is at most one of each for a call. Everything else stutters |
| `KeyringProofs!TypeCorrect`, `StoredValuesStay` | `TypeOK`, `StoredStays` | `IInv` adds what a call carries at its place (`Stage`), that an undisturbed `Set` is alone at its file, which is empty (`HasFile`), and that nobody is at the file of a value stored undisturbed (`NobodyAt`). So a write of another call never reaches such a file, and the write that makes a value `good` is not over an older blob. Calls that are not at their write share one lemma (`CallMoves`), those that end it another (`WriterEnds`) |
| `KeyringProofs!SettledKeys` | `SettledKeyStays` | from `TypeOK` alone: only `ContainsAlias` sends a call to `generate`, and only while there is no key |
| `PortalRequestProofs!TypeCorrect`, `OwnAnswers`, `NoAnswerIsLost`, `CallsCleanUp` | `TypeOK`, `OwnAnswer`, `AnswerKept`, `NothingLeft` | `Stage` ties a call's place to its subscription, its dialog and its result; `Signal` says that a Response is on the bus or in the channels, never both, and only after its dialog was answered. A call that waits is subscribed and its rule is in place, so that its Response is passed to every living channel, its own among them; a channel that is full defers it |
| `BridgeProofs!TypeCorrect`, `FailuresThrow`, `SecretsAreWiped` | `TypeOK`, `FailuresAreThrown`, `NothingReadableLeft` | `Sealing` and `Doing` say for each place what is known of the secret and of the method. The theorems need of `BindContract` only that a failed response is read as an exception, so they hold for whatever the tables say of the types |
| `BridgeProofs!ReturnedIsReceived` | `ResultsArrive` | this one is about the tables: `Responding` says that the response is what `EncodeResults` makes of the method's results, and what Dart saw is what `DecodeResponse` makes of that. `AcceptedShapes` works out what signatures the generator lets through (one value and the error behind it, by cardinality), and `ValuesArrive` follows the value through both tables, type by type |
| `ProjectProofs!TypeCorrect` | `TypeOK` | a command is a list of steps still to do, so the shape of its last one has to be known from its first: `Chain` says that every step in the list is one that may follow the one before (`Follow`), `Sorted` that the steps of an update are taken by nothing but an update. All that follows stands on these two |
| `ProjectProofs!UpdatesCanBeRunAgain` | `OnlyTornFilesStopUpdate` | `Named`: unless a write was cut short, flugo.yaml and every MainActivity.kt that is there name a package, and an update under way has read one. These are all the reasons an update has to refuse |
| `ProjectProofs!SharedTextKept` | `SharedFilesKept` | `MineIsHere` and `Kept`: what is rendered, merged or pinned into a shared file carries the text that was in it; only `--all` starts from nothing, and it waives the file when it starts. What `go mod tidy` drops leaves `written`, the files with text of the developer, as a deleted file does (section 5, item 13) |
| `ProjectProofs!UpdatesKeepEdits` | `UpdateKeepsEdits` (action property) | `EditsSafe`, see below |
| `ProjectProofs!StampsAreEarned` | `StampIsEarned` | `Earned`: each step of an update settles a fact about its file (`Fact`), and what is past stays settled, since no later step touches it in another way; the move of MainActivity.kt is over two files and has a half-way (`Moving`). At the stamp every step is past, which is `Current` |
| `ProjectProofs!ShippedBuildsAreFresh` | `BuildsAreFresh` | `Making` says for each step of a build which of its products are already of this build; an APK takes its version with it (`ApkFresh`), whatever is edited later. That the bundle's library is of this build is proved for x64; on arm64 there is none in it (section 5, item 4) |
| `ProjectProofs!Arm64BundlesStayEmpty` | – | `NoBackendOnArm64` is inductive as it stands: only `BundleGoLib` could put a library into the bundle, and only on x64 (section 5, item 4) |
| `ProjectProofs!DevRunsCompile` | `DevRunCompiles` | `Marked`: outside of Flutter's build the marker is there only after a kill |

The invariants as the runs check them are not inductive. For streams, for instance, `NothingAfterEnding`
survives a post only because no ending has been posted while the drainer is in its loop, which is a fact
about the drainer's place (`Stages`).

`KeepsContract` shows it best: that the items shown are in order is a promise about the subscriber, and the step
that could break it is a post of the drain goroutine some messages earlier; so the invariant has to speak of
everything in between.

`EditsSafe` is the strengthening of a two-state property: that what an update found is in the file or in its `.bak` is not
inductive, because the next step that renders the same file overwrites the `.bak` (go.mod is rendered by `--all` and pinned after it). So a
copy only counts when its file is *done* (`DoneAt`): past all steps that can still change it, or such that the steps left would
render what is there already. A file that is not done has the text in it, and `Backed` says that the copy made
just before a write is of what is about to be overwritten.

The strengthenings were checked with TLC on the instances of section 3 before they were proved.

**Only model-checked.** All liveness properties, since fairness and ENABLED are outside this prover's reach:
`CancelReachesProducer`, `EndedStreamFinishes`, `PresentedIsAnswered`, `NeverWedged` and `AnswerReturned`. The other way
round, `StoreTypeOK`, `TypeOK` of `Stream`, `FileWrite`, `HardwareKey`, `Webauthn`, `PortalRequest` and `Project`, `WipeDiscipline`, `OneOutcome`,
`NoCallIsLost` and `FinishStopsProducer` are proved and no run repeats them. No module uses
`RECURSIVE`, so nothing is withheld from the prover for that reason.

## 5. Disagreements between code and documentation

Checked by a run (TLC finds the violation):

1. **No backpressure from the subscriber** (`stream_backlog`). stream.go:14 and docs/STREAMING.md:81 say that a
   slow subscriber slows the producer. The drainer posts to the port without waiting, so the producer is
   only as slow as the drainer.
2. **A cancelled ceremony may run** (`webauthn_cancelled`). The recheck of `onDevice` (WebauthnPlugin.kt:159) asks
   whether *some* action is pending. If another ceremony has been started since the cancel, the cancelled one is run
   and its response finishes the other call. The comment above it says that it is not run.
3. **A stale AppImage under a new name** (`project_appimage`). `buildAppImage` (appimage.go:50) builds linux only when there is no bundle
   at all. Raise the version, run `flugo gen`, build the AppImage: the check of the version passes, and the bundle of
   the old version is packaged under the new one's name. appversion.go:72: "a build cannot ship a number that differs from
   flugo.yaml". `flugo package linux` does the same without a check.

Proved of the code as it is:

4. **No backend in the bundle on arm64 Linux** (`ProjectProofs!Arm64BundlesStayEmpty`). `flutterBuildOutputPaths`
   (builder.go:176) names `linux/x64` on every host. On an arm64 Linux host, which `desktopBuildParams` builds for
   natively, `bundleGoLib` makes that directory (desktop.go:137) and copies the library there; Flutter's bundle is under
   `linux/arm64`, made without the hook, and gets no backend. The build completes, and the tarball takes that bundle
   without a backend; the AppImage carries a copy of the library of its own (appimage.go:96-99). desktop.go:82-83:
   "copies the compiled Go shared library into the correct location within the Flutter build output so it can be found
   at runtime". What does hold is `BuildsAreFresh`, for the library on x64.

Met while modelling; each can be read off the model, and no run is spent on it:

5. **A panic in `MarshalJSON` strands the producer.** `DispatchStream` recovers (stream.go:233)
   and posts an error, and its deferred `unregisterStream` runs, but `src.cancel()` is only on the
   normal path (241-244). The later `FlugoStreamCancel` finds no stream; a `Send` on a full buffer
   blocks for good. docs/STREAMING.md:80 says cancelling unblocks the producer. What does hold is `NoOrphanProducer`.
6. **"The oldest entry" may be the newest.** The comment at bridge.go:71 takes the smallest
   id for the oldest entry; ids are drawn before the lock. What does hold is `EvictionIsLate`.
7. **`Exists` may leave a hidden file.** When the target appears between
   `writeTarget` and `CommitFile`, `WriteFileStream` returns the `Exists` result without the `PendingWrite`,
   so that nobody can retry or discard. filechooser.go:69 says it returns without writing. `NoStrayTemp` excepts this case.
8. **A response to another challenge.** `HardwareKeyPlugin.succeed` takes whatever call is pending when the key is
   done. Cancel while the key computes (it may be waiting for a touch), call again, and the second call receives the
   response to the first challenge. hardware_key.dart:7: "given a challenge, return the device's 20-byte HMAC-SHA1
   response". What does hold is `OwnResponse`.
9. **A value that cannot be read back.** Two first calls of `Available` may both find no key; the second generation replaces the
   first key, and a value encrypted in between is lost. `StoredStays` excepts a key generated again; `SettledKeyStays`
   says that this happens only then.
10. **Errors that are lost.** The generator accepts `(error, T)` and `(error, error)`; dispatch looks for the error in the last place
   (handler.go:155-159), so that the first one is never thrown, against README.md:152. An error with an empty message
   reads as success. A result type that implements `error` and is not nilable, or a `MarshalJSON` that panics, panics in
   `encodeResults`, outside the recover of `callMethod`. The key of a field without a json tag is derived differently on the two sides.
11. **Lines of `.gitignore` may go.** If the end marker of the managed block is lost, an update appends a new block, and the next one takes
   everything from the old start marker to the new end for the block. update.go:84-85: "Every non-block line is preserved
   verbatim".
12. **flugo.yaml is rewritten from memory.** `config.Save` marshals what was loaded; config.go:154 says that it preserves comments. What
   the developer changes while an update runs is lost, and a kill in the write leaves the file empty: later updates refuse, builds go on
   with no version.
13. **`flugo gen` may drop lines of go.mod.** It runs `go mod tidy` in `backend/` (main.go:311) without a backup, so that a `require` the developer has
   added and not imported yet is gone. An update runs it too, after the pin's `.bak`. `SharedFilesKept` excepts what it drops.

Not promised by the code, and stated nowhere as a property: a crash during a write leaves the hidden temp
file; a commit whose final `os.Remove` fails reports an error with the target replaced; `CommitFile`
without force can still replace a target that appears between its check and the rename. The Android
hardware-key plugin has no timeout: `hardware_key.dart:104` names the code `timeout`, but a pending call for
which no key is presented stays pending, and later ones are refused as busy until it is cancelled. A `finish` of
an earlier ceremony may stop the discovery of the next; the watchdog then ends it (`NeverWedged`).

A dialog the portal still shows after 60 s stays on the screen beside the fallback's, and its answer is dropped. The Go copy of a
secret is not wiped when the method is not bound. `SyncConfigFiles` overwrites main.dart, titlebar.dart and
build.dart without a backup. An update that is killed while overwriting and run again replaces the good `.bak` by the torn file
(`UpdateKeepsEdits` is about one update). Torn `build.gradle` or `go.mod` files are not repaired, and a torn
MainActivity.kt makes later updates fail (`OnlyTornFilesStopUpdate`). A kill between the write and the removal of a relocated
MainActivity.kt can leave two. `flugo run android` refreshes the library of one ABI, `clean` leaves `jniLibs`. A build that was killed
leaves the marker that keeps later runs from compiling (`DevRunCompiles`).

## 6. What is not modelled, and why

Not modelled: the iOS plugins (thin wrappers over system frameworks, same protocol as the Android ones), the
document activity of Android (one pending save that nothing contends for; recreation of the activity loses it), the vendored Dart headers (third
party; the port is modelled from how `post.go` uses it), the JNI resolver and URL-scheme registration (one-shot platform
calls), creation of a project and deeplink wiring (writes into a fresh directory; `Project` starts from their result), flatpak and
flathub packaging, icons, `doctor`, `lint`, `upgrade` (external tools in a row, without state of flugo's), `--dry-run` (writes nothing),
`--regen-platforms`, the macOS library graph and sandbox entitlements, the text the code generator emits, validation of
configuration fields other than `app.id`. `List` of the keyring only reads a directory.
Within the modelled parts: JSON contents, the Go types of items, the wording of errors, and path
checks (`isNativeTemp`, `ownedTempDir`), which see only paths the package itself made. `WriteFile` is
`WriteFileStream` with a producer that writes one buffer.

## 7. Plan

Done, most important behaviour first:

1. `ByteStore`.
2. `StreamContract`, `Stream`, `StreamProofs`.
3. `AtomicFile`, `FileWrite`, `FileWriteProofs`.
4. `OneShot`, `HardwareKey`, `HardwareKeyProofs`, `Webauthn`, `WebauthnProofs`.
5. `Keyring`, `KeyringProofs`; 6. `PortalRequest`, `PortalRequestProofs`; 7. `BindContract`, `Dispatch`, and `BridgeProofs` of it and
   `ByteStore`; 8. `ProjectFiles`, `Update`, `Build`, `Project`, `ProjectProofs`.

## 8. Running it

```
tlc -workers 2 -config MCStream.cfg MCStream
tlapm StreamProofs.tla
```
