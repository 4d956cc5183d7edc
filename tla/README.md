# Verification of the JSR D10F device tree

This directory holds TLA+ specifications of the native code that the device
tree ships, the TLC configurations that check them on small instances, and
TLAPS proofs of their main invariants.  Source lines are those of this commit.

## 1. Inventory

The repository is an Android device tree.  Most of it is configuration
(keylayouts, overlays, ICU data, sepolicy, init scripts, patches for other
repositories).  The parts with logic of their own:

| part | source | state | operations |
|---|---|---|---|
| event loop | `libril/ril_event.cpp`, `eventLoop`/`triggerEvLoop` in `ril.cpp` | `watch_table`, `timer_list`, `pending_list`, `readFds`, `nfds`, wakeup pipe | set, add, delete event; add timer; the select loop |
| command channel | `libril/ril.cpp` | `s_fdListen`, `s_fdCommand`, `s_fdDebug`, their events, `s_pendingRequests` | accept, read a record, dispatch, complete, cancel, write a response, debug commands |
| unsolicited responses | `libril/ril.cpp` | kernel wake lock, `s_last_wake_timeout_info`, `s_lastNITZTimeData` | raise, cancel the previous timer, release on timeout, flush to a new client |
| radio state | `libril/ril.cpp` 3664-3778 | `voiceRadioTech`, `cdmaSubscriptionSource`, `simRuimStatus` | `processRadioState` and the decoders |
| parcels | `libril/ril.cpp` 440-1609 and 1685-2980 | none | one `dispatchX`, `responseX` per payload |
| liblight | `liblight/lights.c` | `g_attention`, `g_notification`, `g_battery`, LED files | the `set_light_*` functions |
| storage | `init/init_d10f.c`, `JSR_Settings` | properties, fstab | plan a swap, apply it at boot |
| key handler | `keyhandler/src` | time of the last press, sensor and wake lock | key events, handler messages |
| mmc tool, EXT_CSD | `mmc_utils/mmc.c`, `mmc_cmds.c` | the card's EXT_CSD registers, partly one-time programmable | the sub-commands |
| mmc tool, RPMB | `mmc_utils/mmc_cmds.c` 1542-2035 | the card's key, write counter, blocks and result register | `rpmb write-key`, `read-counter`, `read-block`, `write-block` |

How they interact.  The daemon `rild` runs one *loop thread* (`ril_event_loop`),
the *main thread* that calls `RIL_register`, and the threads of the vendor
library.  All of them call into `ril_event.cpp`: the loop's callbacks from
inside `firePending`, the others under `listMutex` followed by a byte into the
wakeup pipe.  A client's request travels `processCommandsCallback` ->
`processCommandBuffer` -> dispatch function -> vendor library; the vendor
answers on any thread through `RIL_onRequestComplete` and `sendResponseRaw`.
The debug socket issues requests of its own (`issueLocalRequest`).  Unsolicited
responses come from vendor threads and from the loop thread
(`onNewCommandConnect`).  The other parts run in other processes.

What is hard: reads of the loop's data without `listMutex`; one-shot events that
every error path must arm again; requests that are off the list but not yet
answered when their client leaves; descriptor numbers and heap addresses that
are reused; `blockingWrite` closing a descriptor the loop still watches; the
wake timers cancelled through an unprotected pointer; messages raised from inside
the raising of a message; requests that the vendor library frees while their
dispatch function still runs; payloads that end anywhere; operations on a card
that are several ioctls; files written at boot while the power may go.  `PROJECT.json` lists each
of these hazards with its line and the properties that cover it.

## 2. Modules

| module | models | proofs |
|---|---|---|
| `RilEvent` | the event loop | `RilEventProofs` |
| `RilDaemon` | the command channel on top of it | `RilDaemonProofs` |
| `RilDispatch` | the dispatch functions and the Parcels they read | `RilDispatchProofs` |
| `RilUnsol` | unsolicited responses, wake lock, NITZ, radio state translation | `RilUnsolProofs` |
| `MmcExtCsd` | the mmc commands that change EXT_CSD | `MmcExtCsdProofs` |
| `RpmbStore` | abstract: what an rpmb command promises | |
| `Rpmb` | the rpmb commands, ioctl by ioctl; implements `RpmbStore` | `RpmbProofs` |
| `Storage` | the arrangement of the storages at boot and its plan | `StorageProofs` |
| `MCRilEvent` | symmetry set for `RilEvent` | |
| `MCRilDispatch` | names of the strings of an array for `RilDispatch` | |
| `MCMmcExtCsd` | command lines and cards for `MmcExtCsd` | |
| `MCRpmb` | command lines for `Rpmb` | |

### RilEvent

State.  `watch_table`, `index`, `fd`, `readFds` and `nfds` are the variables of
the same names; `timer_list` and `pending_list` are sequences of the objects
linked in the intrusive lists; `timeout` is a timer's absolute time.  The loop
thread has a program counter `pc` and the locals `rfds`, `n`, `i`, `tv`; `cb` is
the event whose callback runs.  `pipe` counts the bytes in the wakeup pipe, -1
before it exists.  Every other thread has a program counter `tpc`.

Steps.  The loop is split where other threads can observe or change what it
reads: `CopyReadFds` (the `memcpy`), `calcNextTimeout`, `EnterSelect` (which
reads `nfds`), the returns of select, `processTimeouts` (one critical section),
`processReadReadies` (one step per slot; `listMutex` is held throughout, and
`Unlocked` keeps the others out), `firePending`.  `ril_event_add` on another
thread is split before the update of `nfds`, because the loop reads `readFds`
and `nfds` without the mutex.  Callbacks may set, add and delete events and add
timers in any order before they return; `processWakeupCallback` drains the pipe.
`SelectInterrupted`, `SelectFails` and `OpenPipeFails` are the error paths;
`Restart` is the new process after `kill(0, SIGKILL)`.

Use of the interface.  `CanSet`, `CanAdd`, `CanDel` and `CanStart` state how `ril.cpp`
uses the interface: an event is set up or added only while it is in no list, and a
callback deletes its own event, or one of the set `Disposable`.  That
`RilDaemon`'s callbacks obey this is its invariant `EventDiscipline`.

Time is a bounded counter; its last instant stands for every later one.

### RilDaemon

Descriptors are numbers: `accept` returns the lowest free one, `file` says what
an open number refers to, and `close` frees it for the next `accept`.  RequestInfo
objects are heap addresses: `free` makes an address available to the next
`calloc`.  A thread inside `RIL_onRequestComplete` or `sendResponseRaw` keeps its
place in `worker`: "dequeued" (off the list), "send" (before `s_fdCommand` is
read), "lock" (before `s_writeMutex`), "body" (header written, mutex held).  The
event loop is reduced to one `Poll` per turn that collects the ready events in
the order of their slots and takes the one-shot listening event out.  `stream`
records what each peer was sent.

A request is a number; its payload does not matter here.  `dispatch` has the
outcomes the dispatch functions have: the vendor keeps the token, completes it
before `onRequest` returns, `invalidCommandBlock` drops it, or the two
backward-compatibility dispatchers complete it twice.  The debug options are
reduced to "local" (0, 3, 4, 6-10), "poweroff" (1), "unsol" (2), "radioon" (5)
and "invalid".

### RilUnsol

`wakelock` is the kernel's uncounted lock.  `info[a]` is `userParam` of the
UserCallbackInfo at address `a`, -1 when freed; `malloc` may return any freed
address or the next fresh one.  Reading `s_last_wake_timeout_info`, writing
through it, `malloc` with `ril_timer_add`, and the final assignment are separate
steps, since nothing protects them.  A write through a pointer whose object has
been freed and not yet reused changes nothing the program reads; if the address
was reused it cancels the new timer, and the model does that.  All wake timers
have the same delay, so they fire in the order in which they were added.

A radio state change calls `processRadioState` from inside
`RIL_onUnsolicitedResponse`, and that raises up to three messages by calling
`RIL_onUnsolicitedResponse` again, on the same thread.  `step[t]` is the place in
`processRadioState` ("none" outside), so that a thread with `step[t] # "none"` and
`pc[t] = "send"` is in the inner call; `Caller` says where it returns to.  The
voice technology travels in the parcel as the value the static has when the
parcel is filled (`data`).  The test of a static and its assignment are one step:
a thread that gets between the two can only make this one raise a message more.
The loop thread takes part through its greeting and through the two requests
that a client may send for the technology and the subscription source.
`owed` remembers that the stored technology changed while a client was connected and
that no message or answer with the stored value reached this client since.  A send
without a connection reaches nobody, an answer with an error tells nothing, and what
changed before a client connected is not owed to it.

### RilDispatch

A dispatch function is the set of its paths, a path a sequence of the calls that
matter: reads of integers, of strings, of raw bytes, tests of `status`, the log,
`onRequest`, `free`.  Which path is taken depends on the payload and on the version
of the vendor library.  `s_commands` is the union over the table
(`ril_commands.h`), whose commands share 20 functions.  The Parcel (external) is
what the client sent: a read finds data or the end, a read past the end fails and
leaves the position, so every later read fails too.  `unread` collects the integer fields
that were not read, `heap` the strings that are allocated.  A negative count passes the
tests of the five functions that read one (`negative`): the array gets a wrapped size, no
element is read, and the process dies of it or hands the array over; `Elements` in
`unread` stands for it.  The vendor library may
complete the request, which frees `pRI`, from the moment it has it.  A string field
may be null or empty whenever the client wishes; the functions pass that on.

### MmcExtCsd

`card` is the writable part of EXT_CSD at the addresses of `mmc.h`; a byte is the
set of its bits.  A command line is a record.  `Invoke` is a command up to its
first write: the arguments and the snapshot that `read_extcsd` returned either
make it exit (`Refused`) or determine all register writes (`Program`), since the
code computes every value from the arguments and that one snapshot.  Then each
`write_extcsd_value` is a step; `CheckLimits` and
`set_partitioning_setting_completed` follow.  An ioctl may fail after the card
has taken the byte or before; the card may refuse a byte while the ioctl succeeds
(`write_extcsd_value_Ignored`), which the program could see in the status and looks for
after PARTITION_SETTING_COMPLETED only; the process may be killed, and `PowerCycle` loses
volatile registers and partition settings that were not completed.  What the card
does is modelled from what the tool's messages say of it.  `sealedBy`, `dryWritten`,
`missed` (a byte of the running partitioning command was refused silently) and `before` (the
extended attribute it found) are history variables.  Partition 0, which the range test lets
through, addresses ENH_SIZE_MULT and the high half of the first extended attribute byte,
as in the code.

### Rpmb and RpmbStore

`RpmbStore` is the promise: a command takes effect in one step between its start
and its end, at most once; exit status 0 means that it did, and what a read reports
was in the card at that step; a failed command may have taken effect.  `Rpmb` has one
step per ioctl of `do_rpmb_op`: the write request, on which the card acts, the
request for the result, the response.  `write-block` runs the operation
`read-counter` first (`phase`).  Addresses and block counts are the integers of the
command line cut to `uint16_t` (`addr`, `blocks_cnt`; `Short` is 2^16), in `Rpmb` as the code
cuts them and in `RpmbStore` as the meaning of a command line.  The card's acceptance rules are modelled from how
the tool uses them (key programmed once, counter equal, address in range, MAC of
the right key, counter expired); a MAC is the key it was computed with.  `Abort` is
a failing ioctl, a short file or a signal, before or after the card has acted.
The refinement mapping computes `progress` and `seen` from where the answer of the
operation is (`Answer`): in the result register, waiting, or read.

### Storage

`init_msm_properties` in its order, a step per file it reads or writes: the plan
(`init_prop_forced_list` and `planned_swap`), the arrangement in memory (`arrange`:
controller swap, planned swap, removable flag, descriptions), the partition numbers,
`/fstab.storages`, `storage_list.xml`.  The ram disk and the memory are new at each
boot, `/data` is not.  The USB disk, the third entry, never changes and is left out.
A boot may find another card, another boot argument and another plan.

## 3. Runs

| run | checks |
|---|---|
| `ril_event_safety` | types, consistency of the watch table, one-shot events, integrity of the lists, order of the timers, no lost wakeup |
| `ril_event_live` | armed timers fire and the callbacks of ready descriptors run, with a second thread and a pipe that fills up |
| `daemon_safety` | pending list, at most one response, cancelled and local requests stay silent, one connection at a time, event discipline, whole frames |
| `daemon_live` | the daemon listens again after its client has gone; the pending list with two heap addresses and the other debug options |
| `unsol_wake` | the wake lock always has a timer and is released, nested messages included; timers are freed once; a voice technology that changes under a client is told to it |
| `dispatch` | no integer whose read failed reaches the vendor library; a request is not used after it may be gone; strings are freed once and after their use |
| `mmc_extcsd` | what the card keeps for ever is what was asked for and checked, if it refused nothing silently; it stays; partitions do not disturb each other; boot area and reset function |
| `rpmb` | the rpmb commands implement `RpmbStore` |
| `storage` | what vold mounts is right; vold, the framework and the property agree; the last plan is applied |
| `daemon_stale`, `unsol_nitz`, `mmc_dryrun` | counterexamples, see section 5 |

Bounds and why they suffice.

* `RilEvent`: two slots for three events, so that the table can be full; two
  timers with delays 0 and 1, so that ties, overtaking and already expired timers
  happen; one byte of pipe, so that a writer can block; one fault, enough to
  interrupt, fail and restart the loop once.  The liveness run has one timer, and three
  slots for the wakeup event, a one-shot and a persistent event, none `Disposable`: their
  descriptors come and go in every order, so that `nfds` is lowered and raised, and each
  must get its own callback.
* `RilDaemon`: two clients (the second sees what the first left behind), one
  vendor thread next to the loop thread, two descriptor numbers (the command
  connection and one that takes its number), one or two heap addresses (one
  forces reuse), two requests, one failing system call.
* `RilUnsol`: one vendor thread and the loop thread, so that two threads race; two
  messages of the vendor, the first of which may change the radio state, and one
  connection, whose greeting raises two more, the second of them a radio state
  change.  States 4 (SIM) and 9 (NV) decode to different technologies, sources and SIM
  states; from the unavailable state both change all of them.  So a radio state
  change raises its three inner messages next to messages of the other thread, and
  up to ten timers exist.  More threads are covered by the theorems.  The
  configuration for `unsol_nitz` uses the state 10 (on), which is not decoded.
* `RilDispatch`: the versions 2, 3 and 4 of the vendor library (the tests that change
  what is read are at 3 and 4), arrays and loops of up to three elements and of a negative
  number.
* `Rpmb`: two keys of which the card takes one, two blocks and an address beyond
  them, `Short` = 4 in place of 2^16 with addresses and counts at and beyond it and below 0, reads with the right, a wrong and no key, a counter that expires after two
  writes, six commands and two failures: enough to program the key, use the counter
  up, and fail in between.  One process: see the hazards.
* `Storage`: three boots with two changes of the plan and two failing calls; boot
  arguments without, with and beyond a controller swap; partitions with two
  different numbers, or none.
* `MmcExtCsd`: three commands (two that leave something behind and one that makes
  it permanent), one failure or silent refusal, one power cycle; partition 0 and extended
  attributes that meet those of an earlier run; sizes of one and two bytes, sizes
  that exceed the capacity or the enhanced maximum only together, a length that
  is rounded.  `Word` is 2^30 in place of 2^32, which TLC's integers do not hold;
  no size comes near it, so that the wrap of the sums is not exercised.  `Procs`
  has one process: nothing in the tool excludes two, and with two
  `SealedFrozen` is false (see the hazards).

Deadlock is checked in `dispatch`, where the next request can always come.  In the
other runs it is not: when the bounds on messages and faults are used up, and
no peer does anything, the system rightly waits.

Fairness.  `RilEvent`: the loop thread takes its steps whenever it can, callbacks
return, threads inside a call finish it, and time advances; nothing is assumed
about who calls the library or which descriptors become ready.  `RilDaemon`: the
loop thread, the registering thread and threads inside a send run; vendors need
not complete requests and clients need not do anything.  `RilUnsol`: threads
inside a call go on and timers fire; vendors need not raise messages and clients
need not connect, ask or leave.  In each case this is what the operating
system's scheduler gives a runnable thread; the code's waits (select, the two
mutexes, the full pipe) are guards of the actions.

## 4. Proofs

`RilEventProofs` proves `Spec => []P` for `TypeOK`, `WatchConsistent`, `OneShot`,
`ListIntegrity`, `TimersInOrder` and `NoLostWakeup`, for every set of events,
timers and threads and every table size, from the assumptions named in
`RilEvent`.  The inductive invariant `IInv` adds to them:

* `Adding`: a thread between the two halves of `ril_event_add` owns an event that
  is in the table with its descriptor in `readFds`; at most one thread is there,
  since it holds the mutex (without it `nfds` would look wrong);
* `FdsOwned`: two events never share a descriptor, so `FD_CLR` for one does not
  blind the other;
* `PipeOpen`: once the loop runs, the pipe exists and its event is set up;
* `Scanned`: during `processReadReadies`, the slots before `i` have been handled,
  so that no event enters the pending list twice.

There is one lemma per action and part that it can disturb (`...Keeps`), a type
lemma per group of actions, and lemmas on the insertion into and the cutting of a
sequence (`InsertFacts`, `CutFacts`).

`RilUnsolProofs` proves `TypeOK`, `LockHasTimer` and `TimersLive` for any number
of threads.  `IInv` adds `Pointers`: a thread's pointer local is set where it is
dereferenced, and the object the loop thread is about to free is its own.
A thread inside `processRadioState` is inside a message that holds the lock, which
is why the nested messages cannot leave it without a timer.  The interesting step is `MarkCancelled`: it may cancel any timer, even one it
does not mean to, but the thread that does so is `Scheduling`, so the lock still
has somebody who will arm a timer.

`RilDaemonProofs` proves all eight invariants of `daemon_safety` for any number of
clients, debug sessions, vendor threads, descriptors, heap addresses and requests.
`IInv` has four parts besides `TypeOK`, each about another piece of the daemon:

* `HeapInv`: the RequestInfo objects.  `PendingIntegrity` itself, that the loop thread
  sends only inside the callbacks that wait for it (`LoopQuiet`), that a thread between
  unlinking and answering has an address, and that the flag `local` marks exactly the
  requests no client sent.
* `EventInv`: where the listening and the command event are.  Exactly one of: the
  listening event watched, waiting to be called, `listenCallback` running up to its
  decision, the command event watched.  Two one-shot events and four places are the
  reason why `OneConnection` and `EventDiscipline` alone are not inductive.
* `FrameInv`: a peer is accepted once and has one descriptor; a header at the end of
  its stream is being completed by the holder of `s_writeMutex`, or nothing can be
  written to that peer any more (`HeadersFollowed`).  That a body goes to the
  descriptor's number, which may belong to another peer by then, does not matter: the
  first peer is dead.
* `AnswerInv`: a request is in one place: in the socket, in one RequestInfo, or done
  with.  A sender owns the RequestInfo of what it sends until it is written.

`CancelledSilent` is two statements: while no connection is served, all client requests
in the list are flagged (the list is walked before the next accept, and only a served
connection adds to it), and a flagged request stays silent.  It does not cover a
request that a thread takes off the list before the walk; `daemon_stale` shows what
becomes of it.

The actions are first reduced to what they do: to the heap (`ThreadStep`: begin a
send, enqueue, dequeue, ...) and to the sockets (`SocketStep`: close, accept, send a
header, send a body, ...).  Each part of the invariant is then proved once per kind of
step instead of once per action.

`StorageProofs` proves `TypeOK`, `FstabTrue`, `ViewsAgree` and `PlanApplied`.  The
invariant says, for each place in `init_msm_properties`, which of its outputs can
already be relied on (`BootInv`: before `arrange` the list is the default, after it
`Arranged`, and the fstab is always that of the list), that a list written in this boot
is the one in memory (`ListInv`) and that the plan cannot change before the device is up
(`PlanInv`).  The lemmas on `swap_sdcc`, the planned swap and the descriptions show
that the arrangement comes out right for every boot argument.

`MmcExtCsdProofs` proves all seven properties of `mmc_extcsd` for every set of command
lines, every geometry, word size and bound.  Its invariants build on each other:

* `BaseInv`, for any number of processes: the types, that the writes a command still
  has to do are those its operation may do (`AllowedWrites`), that a boot area which is
  written is one the card knows, and what the card holds after a power cycle.  It gives
  `TypeOK` and `BootAreaValid`.
* `OtpInv`, under the hypothesis `OneProcess`: a partitioning command past its test runs
  on a card that is not completed, a reset command past its test on one without a
  choice (`TestInv`).  It gives `SealedFrozen` and `HwResetOnce`.  With two processes
  `SealedFrozen` is false.
* `AskedInv`, under `OneProcess` and `AttributesFit` (extended attributes from 0 to 15):
  the card together with the writes still to do reaches a target (`Reaches`) that
  holds what the command line asks for (`Holds`) and spares the other partitions
  (`Spares`), unless a byte was refused silently; a failed, refused or lost write leaves the
  card between the two (`Between`).  It
  gives `SealedAsRequested` and `OthersUntouched`.  The lemmas below it are about digits
  (`DigitsTyped`, `ThreeWrites`, `FourWrites`): a size cut into bytes and read back is the
  size.
* `SmallInv` and `LimitInv`, under `OneProcess` and `Moderate`: every size register
  holds digits of some command line, even when the digits of several interrupted runs
  are mixed; so the sums of `check_enhanced_area_total_limit` do not wrap, and what
  passed the check still passes it when the card is completed.  It gives
  `SealedWithinLimits`.  `Moderate(h, k)` says that the command lines' size digits are at
  most h and k and that five areas with such digits fit in a word; the instance of the
  run satisfies it with h = 0 and k = 2.

Every action is one of eight kinds of step (`Kinds`: start, store, skip a refused byte, pass
the check, complete, quit, power cycle, nothing) and the invariants are proved per kind.

`RpmbProofs` proves `TypeOK` and the refinement `Spec => Implements`, for every area,
set of keys, values and command lines with any integers, counter limit and bound, under the hypothesis
`Alone`: there is one process.  `TypeOK` is the only invariant it needs, because the
mapping reads the state: `Performed` and `Seen` follow the answer from the result
register (`st` = "result") to the waiting frame to `frame_out`, so that moving it
(`TransferStep`) shows nothing.  The core is `RequestStep`: a request that the card
accepts is `Perform`, with the card's checks giving the guards of `RpmbStore`, and one
that it refuses, or that only reads the counter for a write, is a stutter.  The
checks at the end are `Succeed` or `Fail` (`CommandStep`, `CounterStep`), an abort is
`Fail`.  With two processes `TransferStep` fails: the register may hold the answer to
another operation.

`RilDispatchProofs` proves `TypeOK`, `FieldsRead`, `RequestAlive` and `StringsFreed` for
every set of versions of the vendor library, every Parcel and arrays of any length.  The
proof has two halves.

* About the paths alone: each path of `s_commands` fits (`Fits`).  Its reads are checked
  before the hand-over (`Guarded`), nothing after the hand-over or an answer uses the
  request (`LetsGo`), it frees each string once, after it was copied and handed over, and
  frees what it copied except smsc (`FreesOnce`, `Returns`, `HandsOver`, `CopiesBefore`).
  There is one lemma per dispatch function (`dispatchX_Fits`), most of them through the
  common form "decode, check, call, free" (`Shape`, `StringsFit`, `ShapeFits`); `PrefixShape`,
  `PartOpens` and `CopiesShape` build the paths that are put together of parts.
* About the steps: what is left of a fitting path agrees with what has been done.  Once a
  field is unread the Parcel has ended, the status is bad, nothing was handed over and a
  check is ahead of every hand-over (`ReadInv`): the sticky end of the Parcel keeps a later
  read from making the status good again.  The elements of an array with a negative count
  are the exception (`failed` leaves them out), and `FieldsRead` names it.  A string still to be freed has been copied or
  will be (`FreeInv`), what is on the heap will be freed (`HeapInv`), and bytes of the
  Parcel itself are never freed (`RawInv`).

Assumptions.  The proofs use the named ASSUMEs of the modules and nothing else.  Those
that are about the program: `SizesAssumption` of `MmcExtCsd` (the two group sizes are
bytes that are not 0, the word holds the alignment and has at most 32 bits) and
`CommandsAssumption` (numbers are what `strtol` returns).  Those that are about the
model: the strings of an array are different variables, `NONE` is no address, peer or event, clients are not debug sessions, the loop
thread is not a vendor thread, bounds are natural numbers.

Only model-checked: the liveness properties (`TimerFires`, `ReadyServed`, `ListensAgain`,
`LockReleased`, `TechAnnounced`), since the prover does not handle fairness, and the three
counterexamples of section 5.  Every invariant and every action property that a passing
run checks is proved.

## 5. Findings

Each is a run that is expected to fail.

* `daemon_stale`: "mark pending requests as "cancelled" so we dont report
  responses" does not cover a request that a vendor thread has already taken off
  the list; its response is written to the next client.  For the same reason the
  body of a message whose header went to the previous connection can reach the
  next one: `FramesWhole` says what follows a header, not what precedes a body.
* `unsol_nitz`: a NITZ message whose send fails while a client is connecting is
  stored too late to be delivered to it.

* `mmc_dryrun`: a run with `-n` writes every size and attribute register and skips
  only PARTITION_SETTING_COMPLETED; the next command with `-y`, even
  `write_reliability set`, which checks no sizes, makes them permanent.  The extended
  attribute is or-ed into the old one (801): after a dry run with 1, a run with 2 for
  the same partition seals 3.

Met while modelling, without a run:

* A failed write closes the command socket and leaves `s_fdCommand` and its event; a
  debug connection takes the number and is leaked by a failed `recv` (3208-3211): the
  daemon watches it for ever and never listens again.  `daemon_live` has no injected
  failures, one phone and one request, and shows that the daemon listens again after
  this client has gone in any of the three ways: end of stream, a write to it after it
  left, the restart.
* The timer of the previous message is cancelled only after the send, so that it can
  release the wake lock a message has just grabbed before the message is sent.
* A client that connects before `RIL_register` adds the debug event moves the debug
  event in front of the command event, and a debug power-off in the same batch makes
  `assert(fd == s_fdCommand)` fail.
* The loop's greeting may read an old radio state and store its technology after a
  vendor thread has stored that of a newer one; and of two messages that carry a
  technology the later one may carry the older value.  `TechAnnounced` says what
  holds: the value stored last is told to the client under which it was stored.
* A change of the technology while no client is connected is lost: its message is not kept
  (3868-3882 keep NITZ only), and when the next client is greeted the static is equal, so
  that `processRadioState` raises nothing, although its comment says "notify telephony".
* Of the bytes that `gp create`, `enh_area set` and `write_reliability set` write, the card
  may refuse one with R1_SWITCH_ERROR although the ioctl succeeds; the status is read only
  after PARTITION_SETTING_COMPLETED (581-592), so that a setting without that byte is
  made permanent and the message says SUCCESS (594).
* `gp create` accepts partition 0 (721), although its message says "[1-4]": it writes the
  size of the user area and its enhanced bit and, with attribute 0, clears the extended
  attribute of partition 2 (803).  `Holds` and `OthersUntouched` speak of it too.
* `rpmb read-block` and `write-block` cut the address to `uint16_t` (1800, 1957): 65536 is
  block 0, which is then overwritten with exit status 0; a count of 65536 is refused as 0
  (1815).  `RpmbStore` gives the numbers this meaning.
* `dispatchInts` refuses the count 0 but no negative one (544): `alloca` gets a wrapped size
  and the vendor library integers that were never read; `dispatchStrings` and
  `dispatchImsGsmSms` (below -1) and the two broadcast configurations do the same.
* Of two `mmc rpmb` processes one may read the response to an operation of the other;
  nobody looks at `req_resp`, as the comment at `mmc_cmds.c` 1568-1569 asks.  A write
  that uses up the counter is reported as failed, since the expired bit is in the
  result.
* The exit status of the three partitioning commands is inverted (`mmc_cmds.c` 816,
  958, 1020).
* `gp create` does not look at the range of the extended attribute (718, 801): one above
  15 spills into the half byte of the neighbour or is cut off.  `PartitionsIndependent`
  and `CompletedAsAsked` therefore assume `AttributesFit`.
* The sums of sizes in KiB (686) wrap at 32 bits, so that sizes near 4 TiB can pass the
  check of the limits; `CompletedWithinLimits` assumes `Moderate`, under which they do not.
* `dispatchSmsWrite` leaks `smsc`, `dispatchCallForward` an empty number, every
  function its strings when the payload is invalid; `dispatchImsSms` does not answer a
  message of unknown format; `dispatchRaw` may pass NULL with a length.
* With a boot argument outside 0..2, `swap_sdcc` is ignored.

## 6. Not modelled, and the plan

Next, in this order:

1. The response functions (`ril.cpp` 1685-2980): what each writes for short, over-long
   and null payloads, next to `RilDispatch`.
2. A refinement: an abstract daemon (connections and a set of outstanding
   requests) implemented by `RilDaemon`.  `AnswerInv`, which says where each request is,
   is the invariant it needs.
3. `Lights`: which of battery, notification and attention owns the LED, against
   an abstract specification by priority.  The state is small and guarded by one
   mutex.
4. `KeyHandler`: short and long presses, handler messages, sensor and wake lock.  Most
   of its state is in the framework's services, which are not in the repository.

Left out for good: `3rdparty/hmac_sha` (vendored), `cmhw` and `viewmem` (single
reads or writes of a file), configuration data, build files, patches to other
repositories, scripts that run once in sequence, the mmc commands that only print,
`extcsd write` (any byte anywhere) and the command line parser.  Logging and the debug dumps
of the event loop are not modelled.
