# A TLA+ model of px-fuse

px-fuse is a Linux kernel module that exports block devices (`/dev/pxd/pxd<id>`)
whose IO is served by a storage daemon in user space. The daemon talks to the
module through a control file in the style of FUSE: it reads requests, works on
them and writes replies. This directory holds a model of the module's core in
TLA+, the configurations that check it with TLC, and proofs checked by TLAPS.

`PROJECT.json` is the index: which definition models which lines, which run
checks which property, and the hazards the properties are for.

## 1. The system

| Component | State | Operations | Correct when |
|---|---|---|---|
| Request ids (`dev.c`) | global stack `free_ids`, one small stack per CPU, `request_map` | `fuse_get_unique`, `fuse_put_unique`, `request_find` | an id has one owner at a time; none is lost; a reply finds its request; neither `BUG_ON` fires |
| Control file and abort work (`pxd.c`) | `fc->connected`, `fc->allow_disconnected`, the devices' `connected`, the delayed work `abort_work` | `pxd_control_open`, `pxd_control_release`, `pxd_timeout_store`, `pxd_abort_context` | a disconnect is ended by a new daemon or by the timeout; the work never runs on a live connection |
| Transport, slow path (`dev.c`, `pxd.c`) | lists `pending` and `processing`, requests embedded in blk-mq tags | `pxd_queue_rq`, `fuse_request_send_nowait`, `fuse_dev_do_read`, `fuse_dev_do_write`, `request_end`, `fuse_restart_requests`, `fuse_end_queued_requests` | every accepted IO completes exactly once, with the daemon's answer or with an error; order survives a restart |
| Notifications (`dev.c`) | device list | `fuse_notify_*`, the copy of write data to the daemon | the daemon gets the bytes it asks for; operations on devices act on the device named |
| Device life cycle (`pxd.c`) | `ctx->list`, minor numbers, `open_count`, `exported`, `removing`, references | `pxd_init`, `pxd_exit`, `pxd_add`, `pxd_export`, `pxd_open`, `pxd_release`, `pxd_remove`, `pxd_finish_remove`, `pxd_ioc_update_size` | a device in use is not freed; a minor has one device; a removal ends |
| Path switching and suspend (`pxd.c`, `pxd_fastpath.c`, both `pxd_bio_*.c`) | suspend counter, the gate it closes, `app_suspend`, `ioswitch_active`, `active_failover`, `failQ`, `switch_uid`, fast or slow path | `pxd_request_suspend`, `pxd_request_resume`, `pxd_request_ioswitch`, `pxd_initiate_*`, `pxd_process_ioswitch_complete`, `enableFastPath`, `disableFastPath`, cleanup, reset | files change only behind the gate; every suspension is released once; failed IO is reissued or ended |
| Flush of a suspend (`pxd_fastpath.c`) | `sync_done`, `sync_complete`, the works `syncwi` | `pxd_request_suspend_internal`, `pxd_request_resume_internal`, `__pxd_syncer` | a late syncer is never taken for one of a later call; a flush that is reported has happened |
| Fast path cloning (`pxd_bio_blkmq.c`) | per request: clones, `nactive`, status; `ncount`; references of the files | `clone_and_map`, `_end_clone_bio`, `reconcile_status`, `pxd_io_failover` | the original ends after its last clone, with a status that hides no failure; counts balance |
| `make_request` variant (`pxd_bio_makereq.c`) | as above, for kernels without blk-mq; sleepers on `suspend_wq` | `pxd_bio_make_request_entryfn`, `pxd_process_io`, `pxd_complete_io` | as above; a sleeping submitter is woken |
| File backed IO (`kiolib.c`) | the backing file | `__do_bio_filebacked`, `pxd_send`, `pxd_receive`, `_pxd_flush`, `_pxd_bio_discard` | what was acknowledged is read back, and survives a crash when it was flushed |
| `iov_iter` backport, headers, build, test | none of their own | | |

**How they interact.** A block request carries its fuse request in its own
memory (the blk-mq payload). `pxd_queue_rq` fills it and hands it to
`fuse_request_send_nowait`, which takes an id, enters the request in
`request_map` and puts it on `pending` under `fc->lock`. A reader of the control
file cuts a batch from `pending`, appends it to `processing` and copies it out.
A reply names an id; `request_find` maps it back; the request is unlinked,
filled and ended: `request_end` calls the callback, which completes the block
request, and then returns the id. When the daemon closes the file (or dies)
`pxd_control_release` arms `abort_work`; a daemon that comes back in time gets
the content of `processing` again, in front of what is pending; otherwise the
work stops new IO and fails everything on both lists.

A device with backing files on the same machine bypasses the daemon: its IO is
cloned to each file and carried out by the block layer below or by `kiolib.c`.
When a file fails, the IO waits on `failQ` while the device is suspended, the
daemon is asked to take over (through the same transport) and its answer closes
the files and sends the waiting IO down the slow path. The daemon, the abort
work, sysfs and removal suspend, resume, re-path and reset the device meanwhile.

**What is hard.** (a) blk-mq reuses a request's memory as soon as the callback
has run, while `request_end` is still working for the former IO; (b) the check
of `allow_disconnected` and the queueing are not one section: only RCU relates
them to the abort; (c) `end_requests` releases the lock for each callback;
(d) ids migrate between CPUs in blocks; (e) the control file's open, close, the
sysfs timeout and the abort work share flags that no common lock protects;
(f) wake-ups are exclusive; (g) path switching runs against all of this while
the device is quiesced by counters, any step of it may fail half way, and
several callers release suspensions they did not take; (h) a device is looked up
without a reference while a work queue frees it; (i) replicas end in any order
and disagree about the status; (j) durability shows only after a crash. Section "hazards" of `PROJECT.json` lists
each with its line.

## 2. Modules

| Module | Models | Role |
|---|---|---|
| `IdPool` | what the id allocator promises | abstract |
| `FuseIds` | the allocator of `dev.c`, per CPU | implements `IdPool` |
| `ControlFile` | open, close, timeout, abort work of `pxd.c` | component |
| `BlockIO` | what the slow path promises the block layer | abstract |
| `FuseConn` | the request's life in `dev.c` and `pxd.c` | extends `ControlFile`, allocates through `IdPool`, implements `BlockIO` |
| `PxdSync` | the flush of a suspend in `pxd_fastpath.c` | component |
| `PxdSwitch` | suspend, resume, failover, fallback, path updates and reset of one device, both builds | component; takes the flush from `PxdSync` and the end of an IO from `FastIO` as outcomes |
| `FastIO` | cloning and completion of fast IO, congestion, both builds | component |
| `PxdDevice` | load, unload and the life of the devices in `pxd.c` | component |
| `DataPath` | what IO does to the data: `kiolib.c`, splitting and conversion in `pxd.c` and `dev.c`, `PXD_READ_DATA` | component |
| `MCFuseIds`, `MCControlFile`, `MCFuseConn`, `MCPxdSync`, `MCPxdSwitch`, `MCFastIO`, `MCPxdDevice`, `MCDataPath` | | instances for TLC |
| `Counting` | | lemmas on the sizes of sets and on `Min` and `Max` that the proofs use |
| `FuseIdsProofs`, `FuseConnProofs`, `PxdSyncProofs`, `FastIOProofs`, `PxdDeviceProofs`, `DataPathProofs`, `PxdSwitchProofs` | | theorems |

Definitions whose comment begins "Mutant" are not part of any specification.
They are variants of the definition that follows them, each a plausible bug;
put in its place, each makes TLC violate the property named in `PROJECT.json`.

### FuseIds

An id is a record of the slot it indexes and a generation: the code's 64-bit
number, split at `FUSE_MAX_REQUEST_IDS`. `NextUid` is the addition that wraps at
2^64 and skips zero. One step is what happens between two points another CPU
can see: `fuse_get_unique` runs with preemption off and touches shared state
only under `fc->lock`, so it is one step (`GetUnique`); the store into the map
by its caller is another (`MapRequest`). `fuse_put_unique` pushes the id and
then clears the map slot with preemption still off: `PutUnique` and `ClearMap`,
and in between its CPU runs nothing else (`clearing`). `EndCallback` is
`request_end` up to the callback: the id is kept (`ending`) and the request is
free for another IO. The stacks, refill by half and spill by half, are modelled
entry by entry. Where the code has a `BUG_ON` the action is not enabled.
`ExhaustedInUse` says what an empty pool means: the ids in use and what the other
CPUs hoard are all there are. That the pool is never empty (`NeverExhausted`) is
false for the size the code gives it (Section 4). `SpillFits`, which is proved,
says that a spill never overruns.

### ControlFile

`pxd_control_open` is six steps (check, cancel and wait for the work, restart
the requests, connect, allow, set up the devices); `pxd_control_release`
disconnects and arms under `ctx->lock` and is one; `pxd_timeout_store` is a
look at `connected` without the lock, a cancel, and a reschedule under the lock;
`pxd_abort_context` is five. The delayed work follows the workqueue API:
scheduling a pending work does nothing; `cancel_delayed_work_sync` disarms and
waits. The length of the timeout is abstracted: an armed work may fire at any
moment, so everything shown holds for every timeout.

### FuseConn

`spc[s]` is where the IO of tag `s` is: `idle`, `started` (initialised),
`mapped` (id taken and entered in the map), `rcu` (has found the connection
allowed and is inside `rcu_read_lock`), `refused`, `sent`, `ending` (unlinked by
`request_end`, callback not yet run). `ends` holds the calls of `request_end`
that are past `list_del`: the tag may be idle, or even in use again, while the
record still has to return its id. A daemon thread's `tpc` is the system call it
is in; `batch` is the part of a read that has still to be copied; `hands` are
the ids the daemon holds. A fault may be met on copying a request out (it ends
with `-EIO`) or on copying a reply in (`-EFAULT`, the request is left as it
is). `RequestsSound` joins what must hold of every request at once: it is on one
list or in one call, has completed at most once, owns the id it was given, and is
found by the id the daemon holds. `synchronize_rcu` waits for `grace`, the sections under way when it began.
A section under `fc->lock` is one step. `order` and `load` are history variables
for the properties.

The daemon is modelled from what the module's interface expects of it: one
process (`OneDaemon`), whose threads answer what they have read, one thread per
request, retry a reply that was refused with a fault, and are out of all calls
on a file when it is released (the VFS guarantees this). Two processes opening
at once and concurrent sysfs writes break the properties `FuseConn` builds on;
the second is explored in `ControlFile` on its own (Section 4).

### PxdSync

A caller's `pc` is its place in `pxd_request_suspend_internal`: the check for an
earlier sync and `pxd_suspend_io` (`CheckPending`), the store of the count, the
`reinit_completion`, one `queue_work` per backing file, the wait that ends with
the completion or the timeout, the reading of the results (`Consolidate`, a step
of its own: a caller that has been woken may be overtaken), and the way out: `held` (flushed and suspended),
`coe` (suspended although the flush failed), `unsynced` (`skip_flush`, or the
device is on the slow path). A syncer begins, returns from `vfs_fsync` with or
without an error, and counts itself down. A work queued while it runs is run
again afterwards, as the workqueue API has it. The timeout's length is
abstracted: a wait may time out whenever the completion has not been signalled.
A refusal with `-EBUSY` changes nothing and is a stutter; `suspend` stands for
what `pxd_suspend_io` counts. Any number of callers may be inside: the daemon's
suspend and a failover share nothing but the check. Three history variables serve
the properties: `fresh`, what became of each file's fsync that began while the call
was under way; `shared`, two calls have passed the check before either set the
count; `erased`, a syncer has begun while a call had its results still to read.
Where the code has its `BUG_ON`, `bug` is set and the model stops.

### PxdSwitch

The functions of path switching call each other and interleave with other
threads between any two atomic operations. `todo[t]` is what thread `t` has still
to do, one name per atomic step; a step that calls a function puts the callee's
steps in front. The look at `fastpath_active` and the claim of `ioswitch_active`
are two steps (`InitiateFailover` and `ClaimFailover`, likewise for a fallback), and
the debug switch `r` resumes whether or not anything is suspended. An IO given to
the daemon leaves the model: its further life is `FuseConn`'s, its status on the
fast path `FastIO`'s. A controller is a thread of the daemon, the abort work or a
writer of sysfs; each IO has a thread of its own, the work that fails it over.
`build` chooses between the two `pxd_bio_*.c`: in the blk-mq build the gate is
the quiesced queue, in the other it is the write lock of `suspend_lock`.

Suspensions that the code leaves behind on purpose or by mistake (a path that
cannot be opened, a failover that cannot be sent, a switch forgotten by a reset)
are counted in `owed`, those released by somebody who does not hold them in
`lent`. Two threads that meet in sections the code does not guard
(`pxd_suspend_io` against `pxd_resume_io`, a resume against a suspend that is not
finished, a reset against a switch that is not settled) set `racy`; calls that
give up a switch on which failed IOs rely set `dropped`, until the queue of failed
IOs is next emptied. The properties hold up
to such an event, and `Explored` ends a behaviour at `racy` and `lent`: what the
code does after it is not claimed to be right. `mixed` records two more meetings
that leave the count right and only the gate in doubt, so that they do not end a
behaviour: a path update that begins while another thread closes the files or
sets up others (`pxd_init_fastpath_target` tests `fastpath` and then goes on
without a lock), and, in the make_request build, a suspend that passes on the
strength of a write lock which its holder is about to release to the thread that
waits for it. `GateHolds` and `SwitchBehindGate` speak of the time before.

### FastIO

An IO goes from `queued` through `cloned` to its end, or fails over: `failing`
(its work is queued), then `failed` (on the queue of failed IOs, until it is
aborted or reissued), or straight to the slow path when the fast path is off by
then. `PathOff` switches the path off; IO that comes in on a slow device, or finds
the path gone when it is mapped, goes to the daemon (`SubmitSlow`, `RouteSlow`,
`Unmap`). Each clone is `ready`, in `flight`, `ended` and handled. `Submit` and
`Recheck` model the sleep in `pxd_check_q_congested` of the make_request build,
whose waiters are woken where the code wakes them: the end of an IO and of its
failover do, a reissue does not. The two builds differ in who
puts the references, when an IO that fails over is counted down, and how errors
of replicas are reconciled; each difference is a condition on `build`.
`uncounted` and `leaked` record what error paths leave behind, so that
`CountsSound` states both counters exactly.

### PxdDevice

A struct has its fields, its references (`struct device`) and the state of its
removal work. A handler of the daemon runs in steps that end where it drops the
locks, and keeps only the pointer it found (`ptr`). An add goes on after it has
listed its device: it reads the struct (`Added`), which an export of another thread
that fails may have freed; and a resize reaches for the disk after its lock, when
the removal work may have dropped it (`ResizeDiskGone`). `UseFreed` is a handler that
goes on with a struct that has been freed; it, an export that races another, a
`device_add_disk` that fails and a resize before the export set `fault`, and the
behaviour ends there. Loading is a walk through the stages of `pxd_init`, any of
which may fail; `Residue` is what its labels leave.

### DataPath

A block's content is the IO that wrote it and what it wrote. `vol` is what reads
get, `dur` what a crash leaves; write-back moves blocks at any time. `path` is a
backing file, its variant for kernels before 4.8, or the daemon. On a file a bio
is carried out segment by segment, with its flushes before and after; to the
daemon it is split into tiles of the queue's limit, writes of zeroes become
discards, when they are prepared or when they are read, while an administrator
turns the detection on and off (`DetectStore`), and the daemon fetches the data of
a write with `PXD_READ_DATA`, in one or two calls and with iovecs of any length
that are copied in by parts. A block fetched across a part that ended inside a
segment has the content `shifted`. A read that meets the end of the file is `cut`:
`zero_fill_bio` clears all of it. What the daemon does with a request is external:
it carries it out. `DaemonKeeps` is an assumption on it, for which `pxd.h` only has
the names of the flags: a request with one of `PXD_FLAGS_SYNC` is answered after
everything is durable.

## 3. Runs

| Run | Instance | Shows |
|---|---|---|
| `ids_stacks` | 2 CPUs, 3 requests, the 4 ids of one device with a queue depth of 2, stacks of 2, 2 generations, 1 end | `TypeOK`, `IdsDisjoint`, `NoIdLost`, `FindsInFlight`, `NeverZero`, `ExhaustedInUse` |
| `control_admin` | 1 daemon, 2 sysfs writers | `TimerNotLost`, `DisconnectEnds` |
| `control_timeout_race` | 1 daemon, 1 writer | finding |
| `conn_safety` | 3 tags, 4 ids, 2 daemon threads that both read and reply, faults | `RequestsSound`, `OrderKept`, `AbortLeavesNothing`, `NoLostWake`, `AbortNeverConnected`, `AbortQuietWhileOpen`, `OpenIsUp`, `ImplementsBlockIO` |
| `conn_live` | 2 tags, 1 reader, 1 replier | `IOCompletes` |
| `conn_reply_fault` | 2 tags, 1 thread, faults | finding |
| `sync_flush` | 2 callers, 2 files | `TypeOK`, `LateCounted`, `SyncedWhenHeld`, `SyncSettles` |
| `switch_paths` | both builds, 2 IOs, 1 controller | `SuspensionsSound`, `GateHolds`, `FailedIOServed`, `SwitchBehindGate` |
| `switch_reissue` | blk-mq build, 1 IO, 1 controller | finding |
| `fast_clones` | both builds, 2 IOs, 2 files, depths 0 and 1 | `CountsSound`, `SleeperIsWoken`, `NoCloneOutlives`, `SuccessOnEveryFile`, `EioFailsOver` |
| `device_life` | 2 threads, 2 device ids, 2 structs, 1 opener | `DevicesSound`, `StructKept`, `HoldersSafe`, `RemovalEnds` |
| `data_paths` | 3 paths, 2 blocks, 2 IOs, 1 crash | `StorageSound`, `FlushDurable`, `PreflushOrder`, `AckedVisible`, `ReadsLatest` |

Seven more configurations show what does *not* hold, each with one invariant that
TLC refutes; Section 4 says what each means.

| Configuration | Module | Refutes |
|---|---|---|
| `Ids_exhausted.cfg` | `MCFuseIds` | `NeverExhausted` |
| `Sync_two.cfg` | `MCPxdSync` | `SyncerCounted` |
| `Sync_results.cfg` | `MCPxdSync` | `FailureCaptured` |
| `Device_too_many.cfg` | `MCPxdDevice` | `LimitKept` |
| `Data_iovecs.cfg` | `MCDataPath` | `IovecsContinue` |
| `Data_eof.cfg` | `MCDataPath` | `ReadsWhole` |
| `Data_legacy.cfg` | `MCDataPath` | `PreflushAlways` |

**Why the bounds are enough.** With two CPUs and stacks of two, an id can be
taken on one CPU, returned on the other, spilled and refilled; half a stack is
one id, so every branch of refill and spill is taken with the smallest even
size the code allows; with two generations each id wraps. Three tags are needed
for a batch of two with another request behind it, and for a tag reused while
two other requests move; four ids let a tag have an id not yet returned while
all tags are in flight. Two threads let a read, a reply and a close overlap.
`MaxWakes` bounds senders between queueing and `wake_up`; at the bound the next
sender waits, and two such senders already allow a wake-up to be spent on the
wrong thread. `MaxEnders` bounds the threads inside `request_end`.
`PxdSync` has no bound of its own. Two callers are the daemon's suspend and a
failover; with two files one syncer can be late or fail while the other has ended.

The pool of `ids_stacks` has the code's size, `2 * PXD_MAX_DEVICES *
PXD_MAX_QDEPTH`; three of the requests that its four hardware queues allow are
enough to empty it against an id that is still to be returned or a hoarding CPU.
In `switch_paths` the two IOs' failover works and the controller are three
threads inside the switching code at once. There is one controller because two
of them with two IOs are too many states; all four properties are proved for any
number of either (Section 5). With one controller `mixed` is set only together
with `racy`, so that it takes nothing from what the run shows. `MaxSent` = 1 is
one outstanding switch request per kind, which `ioswitch_active` allows, and one
more stays possible after a reset has forgotten it; `MaxOwed` = 1 leaves one
suspension behind for a cleanup. In `fast_clones` two files give a head and a
replica, two IOs a sleeper and the one that wakes it. In `device_life` two
threads race for one device id and a third struct is never needed to see a
duplicate; `PXD_MAX_DEVICES` is 1 so that the limit is met, and passed when both
threads have made the check. In `data_paths` the zeroes a device starts with act
as a third, oldest writer, so that two IOs are enough for an acknowledged write
to be followed by a flush, an overlapping write or a read, before or after the
crash.

`control_admin` does not check for deadlock because the system really stops in
it: a sysfs write can make the work fire on a live connection, and a kernel that
has hit a `BUG_ON` goes no further (the same race as the finding below). So do
`sync_flush` (the `BUG_ON` of a syncer), `switch_paths` and `switch_reissue` (a
`BUG_ON`, or an event `Explored` stops at), `device_life` (an unloaded module,
or a `fault`) and `data_paths` (the bounded IOs have ended).

**Fairness.** `KernelFairness`: code that has begun runs on, the timer fires. It
is weak fairness, apart from taking an id and queueing, which the model's bounds
can disable for a moment; the code waits for nothing there. `DaemonFairness`: a
daemon that has the file open keeps reading, and answers what it has read; this
is an assumption on the user-space process. Nothing forces a daemon to open,
close or return. `IOCompletes` is claimed for behaviours in which the daemon in
the end stays or stays away: one that comes and goes for ever may neither answer
nor be away for the length of the timeout. `ControlFairness` is the kernel part
for `ControlFile` alone. In `PxdSync` a call that has begun runs on, its wait
ends by the timeout if not before, and `vfs_fsync` returns (an assumption on the
backing file system); nobody is made to suspend or resume. In `PxdDevice` queued
work runs and a handler that has begun goes on, its waits being bounded; nobody
is made to close a device, so `RemovalEnds` promises the end of the struct only
when the last opener is gone. `conn_live` has no copy faults: `ReplyFault` for ever
would be a daemon whose buffers never can be read.

## 4. Findings

* **`control_timeout_race`** (`pxd.c:1946`). A sysfs write that finds the
  connection down re-arms the abort work between the cancel and the connect of
  an open; the work's own `BUG_ON(fc->connected)` then fires.
* **`conn_reply_fault`** (`dev.c:1064`). A reply is unlinked before its data is
  copied. If the copy faults and the daemon then goes away, the request is on no
  list: neither the restart nor the abort finishes it.
* **`switch_reissue`** (`pxd_bio_blkmq.c:215`). The completion of a failover
  moves the failed IOs to a local list and empties `fp.failQ`; `pxd_reissuefailQ`
  of the blk-mq build loops over the former and takes its entries from the
  latter. Its `BUG_ON` on the magic is reached by the first failover that
  completes with an IO waiting. The make_request build takes them from the list.

The further configurations refute what the code asserts or its comments say. The
passing runs check the strongest statement that is left, and name the event that
it excepts.

* **`Ids_exhausted.cfg`** (`dev.c:144`). The pool holds `2 * PXD_MAX_DEVICES *
  PXD_MAX_QDEPTH` ids, while a device has `queue_depth` tags on each of
  `num_online_nodes() * pxd_num_fpthreads` hardware queues, four or more by default
  (`pxd.c:1239-1242`): with enough devices whose queues are full `fuse_get_unique`
  meets its `BUG_ON`. `ExhaustedInUse` holds instead.
* **`Sync_two.cfg`** (`pxd_fastpath.c:296`). A suspend of the daemon and a failover
  both pass "check if previous sync instance is still active" and share one count;
  a syncer then meets `BUG_ON(!atomic_read(&fp->sync_done))` (line 231).
  `LateCounted`: nothing but this makes it fire.
* **`Sync_results.cfg`** (`pxd_fastpath.c:322`). A caller that has been woken reads the
  results when nothing is pending any more, so that another may have queued the
  works again, and a syncer begins by clearing its result: the first suspend
  succeeds although an fsync of its own failed. `SyncedWhenHeld` excepts the two
  events and nothing else.
* **`Device_too_many.cfg`** (`pxd.c:1433`). Adds compare `num_devices` with
  `PXD_MAX_DEVICES` without the lock, and pass together. The theorem `LimitSafe`
  bounds the excess by the number of other threads.
* **`Data_iovecs.cfg`** (`dev.c:686`, `753`). When a part of the iovecs ends inside a
  segment the copy goes on for the length it had before the part ended, beyond the
  segment, and shifts what follows. `StorageSound` holds of all other blocks.
* **`Data_eof.cfg`** (`kiolib.c:189`). A later segment that meets the end of the file
  clears the segments already read, and the read succeeds. `ReadsLatest` leaves
  such reads out.
* **`Data_legacy.cfg`** (`kiolib.c:296`). Before kernel 4.8 the flush of a
  `REQ_FLUSH` write follows its data, under a comment that says the opposite.
  `PreflushOrder` is about the other paths.

Other places where the properties are stated around the code, rather than of it,
are hazards of `PROJECT.json` with a note:

* Two processes that open the control file together both pass the check
  (`pxd.c:2378`). `FuseConn` assumes one daemon (`OneDaemon`).
* A failover that cannot be sent releases the wrong suspension (`pxd.c:955`); a
  reset does not find its switch request (`pxd.c:929`); a completing fallback
  does not serve the fail queue (`pxd.c:944`).
* `ncount` of the blk-mq build is never counted down for an IO that is refused
  or fails over; the make_request build drops references when memory is short.
* A bad queue depth loses a minor (`pxd.c:1489`); handlers that hold no reference
  can use a freed device (`pxd.c:1420`), among them an add that reads its struct
  after it has listed it (`pxd.c:1528`), and a resize a disk that the removal has
  dropped (`pxd.c:1767-1773`); a failed load leaves registrations (`pxd.c:2545`).

## 5. Proofs

`FuseIdsProofs` proves, for every number of CPUs, ids, requests and generations
and every even stack size (`IdsAssumption`), that `Spec` implies `[]TypeOK`,
`[]IdsDisjoint`, `[]NoIdLost`, `[]FindsInFlight`, `[]NeverZero` and
`[]SpillFits`, and that it implements `IdPool`. The inductive invariant is

    IdsInv == TypeOK /\ IdsDisjoint /\ NoIdLost
              /\ ClearingIsMine /\ MapExact /\ NeverZero

`IdsDisjoint` alone is not inductive with respect to the map: the slot of an id
is cleared after the id is already on a stack, so that `FindsInFlight` needs
`ClearingIsMine` (the id whose slot is being cleared is still on the stack of
the CPU that clears it, which runs nothing else) and `MapExact` (the slot of
every request in flight holds that request). The
lemmas on `TopIds` and `Below` say what a cut of a stack keeps; one lemma per
action shows that it preserves the invariant. `SpillFits` counts: the global
stack and a held id are disjoint sets of slots, of which there are `NumIds`.
`ExhaustionSafe` proves `[]ExhaustedInUse` by counting too: when the global stack and
that of the calling CPU are empty every slot is in use or on the stack of another
CPU, and those hold `PerCpu` ids at most.
`ImplementsPool` maps each step to `Get`, `Pass`, `Put` or a stutter.

`FuseConnProofs` proves of `FuseConn`, for any number of tags, ids, readers and
repliers, from `OneDaemon`, every safety property of the run `conn_safety`
and the refinement:

* `[]AbortNeverConnected`, `[]AbortQuietWhileOpen`, `[]OpenIsUp`. `StepIsControl`
  reduces a step of the composition to a step of the control file or to one that
  leaves its state alone; `ControlInv` adds to the three properties that the
  connection is up exactly while an opener is between its connect and its close.
  Without that, nothing would say that a firing work finds the connection down.
* `[]AbortLeavesNothing`. `AbortInv` follows the abort through RCU: from the
  clearing of `allow_disconnected` no sender enters a section, while
  `synchronize_rcu` waits every sender inside is one it waits for, and when it
  drains there is none.
* `[]NoLostWake`. `WakeInv` adds that nobody sleeps while the file is closed, so
  that a restart of the requests needs no `wake_up`; it needs that the daemon has
  a reader (`Readers # {}`).
* `[]RequestsSound`. `IdInv` states `IdsAccounted` member by member and adds that
  the map has every request in flight under its id (`MapExact`); `ListInv` says
  that a request is waiting, being copied, in the daemon's hands or being
  answered, one of these and with one thread (`OneHolder`), and that a closed file
  has no thread in a call (`QuietWhenClosed`). The second is what an abort and a
  restart rest on: neither looks at what a read or a reply might be holding.
* `[]OrderKept`. `OrderInv` says that the history has exactly the queued requests
  and that any two on the lists are in its order (`Before`), which speaks of pairs
  and so survives cuts, splices and deletions by the lemmas on lists alone.
* `ImplementsBlockIO`. Each action is shown to be one step of `BlockIO` or to
  leave `IOState` alone. A kernel error is `Fail`, which needs that no daemon
  holds the request: for a failed copy that follows from `OneHolder`, for the abort
  from `QuietWhenClosed` and `ControlInv`.

Their conjunction `ConnInv` is the inductive invariant of the composition. The
module also proves `[]TimerNotLost` of `ControlSpec`, where any number of threads
write the sysfs timeout: `AbortNeverConnected` is false there, so that `TimerInv`
is an invariant of its own, which says who will arm the work again when IO is
admitted behind a running abort.

`PxdSyncProofs` proves `[]TypeOK`, `[]LateCounted` and `[]SyncedWhenHeld` of `PxdSync`
for any number of callers and of backing files (`SyncAssumption`). `SyncInv` says,
until two calls have passed the check together, that one call at most is starting
its works (`OneStarts`), that the count is the number of works that are to be
queued, queued or running (`Counted`) and that, while a call waits, the completion
and the results are its own (`Answered`): neither property says what a syncer left
behind by a timeout still owes.

`FastIOProofs` proves `[]CountsSound`, `[]SleeperIsWoken` and the action
properties `NoCloneOutlives`, `SuccessOnEveryFile` and `EioFailsOver` of `FastIO`,
in both builds, for any number of backing files and any finite set of IOs
(`FastAssumption`). `FastInv` adds to the properties who holds a reference: an IO
has clones exactly for its files and only while it is on the fast path (none on
the queue of failed IOs or with the daemon),
`nactive` is the number of clones not yet handled (`ClonesCounted`), and a file's
references are the IOs that hold it, which differ between the builds, plus the
leaked ones (`RefsCounted`). The action properties follow because an IO ends
only in the step that takes `nactive` to zero. They are about the counters as
sets of IOs, so the lemmas of `Counting` (a member more or less changes a
cardinality by one) carry the arithmetic.

`PxdDeviceProofs` proves `[]DevicesSound`, `[]StructKept`, `[]HoldersSafe` and
`[]LimitOvershot` of `PxdDevice` for any number of device ids, structs and
openers and any finite set of threads (`DeviceAssumption`). `DeviceInv` says that a
live struct's references are its openers, the threads that hold it and its
registration, which the removal work puts last; that a freed one is known only to
threads that looked it up without a reference; and which stages of export and
removal can meet. `Only(s)` is the frame: a step works on one struct and the
threads that point to it, so that the rest of the invariant is kept by one lemma.
`HoldersSafe` covers the calls that hold a reference, and an add until its device is
listed; from then on the struct may go, and the theorem does not speak of it.
`LimitOvershot` counts the devices together with the threads that have still to
list theirs.
As in the run, `StructKept` and the parts of `DevicesSound` on the list say
nothing after `fault`: a handler that has used freed memory may have written
anything.

`DataPathProofs` proves `[]FlushDurable`, `[]PreflushOrder`, `[]AckedVisible`,
`[]ReadsLatest` and `[]StorageSound` of `DataPath` for devices of any size and any
number of IOs and crashes, on all three paths (`DataAssumption`; `PreflushOrder` excludes `legacy`,
where it is false; `ReadsLatest` leaves out the reads that met the end of the file;
that the daemon makes a request with a flag of `PXD_FLAGS_SYNC` durable is
`DaemonKeeps`). `DataInv` says how far each IO has come: the blocks a write
has passed are `Settled` and those it has still to write are in a request not yet
answered (`WriteSoFar`), likewise for a read (`ReadSoFar`), and a write past its
preflush finds what it follows on the medium (`PreflushDone`). A block that is
settled for a write stays so in every step but a crash, since whoever writes it
next has not ended, while `before` of that write holds only IOs that have; after
a crash the properties speak of what was flushed (`Kept`). The tiles of a split
bio cover its blocks (`pxd_handle_device_limits`), so that the last answer
settles the last block.

`StorageSound` says what the bytes are, so its proof goes through the daemon's
fetch. `FetchedAll` is about `pxd_read_data` alone: for every number of segments
and every fetch of `Fetched` (one call copied in one or two parts, or two calls), the
daemon gets the units of the write in order, each once, provided that no part ends
inside a segment (`Data_iovecs.cfg` shows that the proviso is needed). The copy is a
recursive function over the segments; the argument shows what one segment adds
(`Segment...`), gives the closed form of the fold as a function that satisfies the
recursion, and has no first segment where it goes wrong (`MinIn` of `Counting`),
instead of the induction theorems the provers cannot instantiate. `SoundInv` then
says of every request that it is a part of its bio and of every block, in the page
cache *and* on the medium, that its content is what its writer carried there: a
crash brings the medium's content back, so the property of the cache alone is not
inductive. A discard only ever leaves zeroes. The blocks that a part ending
inside a segment has reached are `shifted`, and nothing more is claimed of them.

`PxdSwitchProofs` proves `[]FailedIOServed` of `PxdSwitch` for any number of IOs
and of controllers, where the run has one. A pending failover of a controller
does not serve the queue (off the fast path it does nothing), and a thread that
clears the switch might leave the queue behind; `SwitchInv` therefore says that
`active_failover` is set only while `failQ` has an entry, that the work of a
failed IO ends in a failover, a request to the daemon or an abort, and aborts
if it clears the switch (`IOShape`), and names the threads that count
(`SomeoneServes`).

The module also proves `[]SuspensionsSound`, again for any number of threads.
`SuspendBalanced` speaks only of the moments when no call is under way; the
inductive `BalanceInv` counts what the threads have still to do. A step ahead
that will raise `suspend`, or clear a flag that stands for a suspension, counts
for one (`Taking`), a step that will lower it, or give one up as owed, against
one (`Giving`), and `suspend` plus this net is what is held (`Balanced`). A thread
about to undo a claim (`OfApp`, `OfSwitch`) must find the flag still set, and there
is at most one such step ahead: this is what `racy` excludes losing. The
steps are counted by thread and by distance from the end of its `todo`
(`Marks`), which neither a step done nor a call pushed in front changes for the
others. `Vals` and `Worths` are the table of what each step and each call counts
for, so that an action's proof only adds numbers.

On top of the balance the module proves `[]GateHolds` and `SwitchBehindGate`. What
has to be shown is that a thread at the files is behind a closed gate, however
many others suspend and resume around it. The argument has four parts, which
`SafeInv` joins:

* *Forms.* `Shape` and `Order` say what a list of steps ahead looks like: a step
  that suspends, or that is done in a section, is followed by one that gives the
  suspension back or hands it on (`Kept`) before the next suspend; a step at the
  gate is the next one; flush, close and switch-off follow each other. A thread
  with such a step before any suspend is inside a section (`Holding`). Every call
  keeps the forms (`Calls`, `Onward`), whoever races (`FormsKept`).
* *The count covers the sections.* Mapping each suspend ahead, and each thread
  that is inside a section, to the step of `Kept` it belongs to is an injection
  (`MoreKept`); with `Balanced` it follows that `suspend` is at least the number of
  threads inside sections (`SuspendCovers`). A thread that has counted itself out
  cannot be the last while another is inside.
* *The gate.* `GateOK` gives, for the step at which a thread stands at the gate,
  the count and the state of the gate: in the blk-mq build one thread at a time is
  there, in the make_request build one may wait to close while another has still
  to open. `Behind` then says that a thread inside a section which is not itself at
  the gate finds it closed and nobody at it.
* *The files.* `FilesOK`: files are set up off the fast path, by one thread, and not
  while others are closed; `fastpath` and `nfd` differ only between the steps that
  change them one after the other; no IO is left with a worker once the files are
  closed. An IO that comes in finds the gate open, hence (`InSection`) nobody in the
  middle of closing, hence files.

`SpillFits`, `ImplementsPool` and `LimitOvershot` are proved for every size and have no
run.

**Only model-checked.**

* Liveness (`IOCompletes`, `DisconnectEnds`, `SyncSettles`, `RemovalEnds`), which
  is out of the prover's reach.

## 6. Not modelled

* Splice, poll, fasync and the ioctls that only report: entry points that change
  none of the state above.
* `pxd_read_init`'s walk along the device list without the lock, and the order of
  its steps with the notifications of the same daemon; its resume of suspended
  devices is `RequestResume`.
* `REQ_OP_WRITE_SAME` and `REQ_OP_WRITE_ZEROES`: the queue's limits for them are zero
  (by default, and `pxd_fastpath.c:668`), so that the block layer sends none.
* The start of a request inside a block (`iov_iter_advance`, `dev.c:656-659`): the
  queue's logical block size is `PXD_LBS` (`pxd.c:1326`), so that requests begin at a
  block.
* `pxd_req_misc` before kernel 4.8 (`pxd.c:618-620`): it sets other flags of
  `PXD_FLAGS_SYNC` in the same cases.
* What a failed load leaves is modelled (`Residue`) and has no property: one could
  only repeat the labels of `pxd_init`.
* Which worker runs a work (`balanceIO`, `fastpath_queue_work`), CPU and node
  affinity: every interleaving of the works is explored instead.
* The strings of the sysfs files (`__strtok_r`, `__strip_nl`) and the arithmetic
  of the timeout: parsing and units; what they deliver is any of the values the
  models let an administrator choose.
* Behaviour after a `BUG_ON`, after memory was used that was freed, and after the
  events `racy` and `lent` of `PxdSwitch`; of the gate, also after `mixed`.
* `iov_iter.c` is kernel code copied for old kernels; headers only declare.

`PxdSync`, `PxdSwitch`, `FastIO`, `PxdDevice` and `DataPath` are modelled side by
side rather than as one composition:
`PxdSwitch` takes "the flush may fail" from `PxdSync` and "the IO ends well or
with -EIO" from `FastIO`. The product of their interleavings is out of TLC's
reach, and each takes from the other only the outcomes named.

## 7. Plan

Every safety invariant of the passing runs that the prover can reach is proved.
What would extend the project next:

1. Two controllers with two IOs of `PxdSwitch` under TLC: the theorems cover any
   number of each, the run has one controller because two are too many states for
   it.
2. A composition of `PxdSwitch` with `PxdSync` and `FastIO`, so that the flush of a
   suspend runs against the IOs it is meant to make durable.
3. The fields of the wire format (`fuse.h`, `pxd.h`) as far as the parsers of
   `ControlFile` and `FuseConn` depend on their sizes.
