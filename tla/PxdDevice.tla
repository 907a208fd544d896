------------------------------- MODULE PxdDevice -------------------------------
(***************************************************************************)
(* The life of the driver and of its block devices: loading the module,    *)
(* adding, exporting, opening, resizing and removing a device of one       *)
(* context, and unloading.  A thread of the daemon runs one handler at a   *)
(* time, in steps that end where it drops its locks; pxd_finish_remove     *)
(* runs on a work queue.  What these handlers do to the fast path is       *)
(* PxdSwitch's.                                                            *)
(***************************************************************************)
EXTENDS Naturals, FiniteSets, FiniteSetsExt

CONSTANTS
  Threads,     \* threads of the daemon
  DevIds,
  NStructs,    \* bound: pxd_device structs ever allocated
  MaxDevices,  \* PXD_MAX_DEVICES
  MaxOpens     \* bound: open_count of a device

ASSUME DeviceAssumption ==
  /\ NStructs \in Nat /\ MaxDevices \in Nat \ {0} /\ MaxOpens \in Nat
  /\ IsFiniteSet(Threads) /\ Threads # {}

Structs == 1 .. NStructs
Minors == 1 .. NStructs
NoDev == "no device"

VARIABLES
  load,        \* the stage pxd_init has reached, "ready", "failed" or "unloaded"
  held,        \* what pxd_init has registered or allocated
  dev,         \* per struct pxd_device, its fields
  list,        \* the structs on ctx->list
  num_devices,
  minors,      \* pxd_minor_ida
  mod,         \* references that exported devices have on the module
  pc, ptr,     \* per thread: what it does next, and to which struct
  fault,       \* the handler that has used freed or missing memory, or "none"
  lost         \* history: minors that no struct owns any more

load_vars == <<load, held>>
thread_vars == <<pc, ptr>>
vars == <<load_vars, dev, list, num_devices, minors, mod, thread_vars, fault, lost>>

\* the fields of a struct that is not allocated
Blank ==
  [mem |-> "none", id |-> NoDev, minor |-> 0, exported |-> FALSE, removing |-> FALSE,
   connected |-> FALSE, opens |-> 0, refs |-> 0, disk |-> "none", work |-> "none"]
Freed == [Blank EXCEPT !.mem = "freed"]

Init ==
  /\ load = "fuse" /\ held = {}
  /\ dev = [s \in Structs |-> Blank]
  /\ list = {} /\ num_devices = 0 /\ minors = {} /\ mod = 0
  /\ pc = [t \in Threads |-> "idle"] /\ ptr = [t \in Threads |-> 0]
  /\ fault = "none" /\ lost = {}

\* Freed memory has not been used: past that anything may happen.
Explored == fault = "none"

--------------------------------------------------------------------------------
(***************************************************************************)
(* pxd_init and pxd_exit                                                   *)
(***************************************************************************)
device_vars == <<dev, list, num_devices, minors, mod, thread_vars, fault, lost>>

Stages == [fuse |-> "contexts", contexts |-> "misc", misc |-> "blkdev", blkdev |-> "sysfs",
           sysfs |-> "fastpath", fastpath |-> "ready"]
Loading == load \in DOMAIN Stages

\* A step of pxd_init succeeds.
LoadStep ==
  /\ Loading
  /\ held' = held \union {load} /\ load' = Stages[load]
  /\ UNCHANGED device_vars

\* dev_t is unsigned: the test for an error of register_blkdev never holds.
BlkdevUnnoticed ==
  /\ load = "blkdev"
  /\ load' = Stages[load] /\ UNCHANGED held
  /\ UNCHANGED device_vars

\* What an error at this stage leaves behind.  The context whose misc_register
\* failed keeps its connection; out_blkdev unregisters major 0, not pxd_major,
\* and skips pxd_sysfs_exit.
Residue(stage) ==
  CASE stage = "contexts" -> {"conn"}
    [] stage = "sysfs" -> held \intersect {"blkdev"}
    [] stage = "fastpath" -> held \intersect {"blkdev", "sysfs"}
    [] OTHER -> {}

LoadFails ==
  /\ Loading /\ load # "blkdev"
  /\ held' = Residue(load) /\ load' = "failed"
  /\ UNCHANGED device_vars

\* pxd_exit, which runs with no reference on the module: no control file is
\* open, so no handler runs, no disk is open, and no exported device is left.
Unload ==
  /\ load = "ready" /\ mod = 0
  /\ \A t \in Threads : pc[t] = "idle"
  /\ \A s \in Structs : dev[s].opens = 0
  /\ load' = "unloaded" /\ held' = {}
  /\ UNCHANGED device_vars

--------------------------------------------------------------------------------
(***************************************************************************)
(* References                                                              *)
(***************************************************************************)

\* put_device on s, whose fields are r by now: pxd_dev_device_release gives the
\* minor back and frees the struct.
Put(s, r) ==
  /\ dev' = [dev EXCEPT ![s] = IF r.refs = 1 THEN [Freed EXCEPT !.opens = r.opens] ELSE [r EXCEPT !.refs = @ - 1]]
  /\ minors' = IF r.refs = 1 THEN minors \ {r.minor} ELSE minors

\* find_pxd_device, which takes no reference
Found(d) == {s \in list : dev[s].id = d}

Goto(t, where, s) ==
  /\ pc' = [pc EXCEPT ![t] = where]
  /\ ptr' = [ptr EXCEPT ![t] = s]

Return(t) == Goto(t, "idle", 0)

\* t uses its pointer, and the struct has been freed.
UseFreed(t) ==
  /\ ptr[t] # 0 /\ dev[ptr[t]].mem = "freed"
  /\ fault' = pc[t]
  /\ UNCHANGED <<load_vars, dev, list, num_devices, minors, mod, thread_vars, lost>>

--------------------------------------------------------------------------------
(***************************************************************************)
(* pxd_add                                                                 *)
(***************************************************************************)

\* A handler that looks a device up and works on it: suspend, resume, switch,
\* clean up, or add it again (fuse_notify_suspend, pxd_ioctl_fp_cleanup, ...).
Lookup(t, d) ==
  /\ pc[t] = "idle" /\ \E s \in Found(d) : Goto(t, "use", s)
  /\ UNCHANGED <<load_vars, dev, list, num_devices, minors, mod, fault, lost>>

Use(t) ==
  /\ pc[t] = "use" /\ dev[ptr[t]].mem = "live"
  /\ Return(t)
  /\ UNCHANGED <<load_vars, dev, list, num_devices, minors, mod, fault, lost>>

\* the check of PXD_MAX_DEVICES, made before the lock is taken
Room == num_devices < MaxDevices

\* A device that is not found is allocated, and gets a minor.
AddAlloc(t, d) ==
  /\ pc[t] = "idle" /\ Room /\ Found(d) = {}
  /\ \E s \in Structs :
       /\ dev[s].mem = "none" /\ \A r \in 1 .. s - 1 : dev[r].mem # "none"
       /\ LET m == Min(Minors \ minors)
          IN /\ dev' = [dev EXCEPT ![s] = [Blank EXCEPT !.mem = "live", !.id = d, !.minor = m, !.connected = TRUE]]
             /\ minors' = minors \union {m}
       /\ Goto(t, "add", s)
  /\ UNCHANGED <<load_vars, list, num_devices, mod, fault, lost>>

\* Mutant: the duplicate is not looked for again under the lock.
AddLinkBlindly(t) ==
  /\ pc[t] = "add"
  /\ list' = list \union {ptr[t]} /\ num_devices' = num_devices + 1
  /\ Goto(t, "added", ptr[t])
  /\ UNCHANGED <<load_vars, dev, minors, mod, fault, lost>>

\* The device is listed, unless another thread has added it meanwhile.
AddLink(t) ==
  /\ pc[t] = "add" /\ Found(dev[ptr[t]].id) = {}
  /\ list' = list \union {ptr[t]} /\ num_devices' = num_devices + 1
  /\ Goto(t, "added", ptr[t])
  /\ UNCHANGED <<load_vars, dev, minors, mod, fault, lost>>

\* The minor and the path are read from the struct after the unlock.
Added(t) ==
  /\ pc[t] = "added" /\ dev[ptr[t]].mem = "live"
  /\ Return(t)
  /\ UNCHANGED <<load_vars, dev, list, num_devices, minors, mod, fault, lost>>

\* The labels out_fp and out_id: the fast path cannot be set up, or the device
\* is listed by now.
AddFails(t) ==
  LET s == ptr[t]
  IN /\ pc[t] = "add"
     /\ dev' = [dev EXCEPT ![s] = Freed] /\ minors' = minors \ {dev[s].minor}
     /\ Return(t)
     /\ UNCHANGED <<load_vars, list, num_devices, mod, fault, lost>>

\* A queue depth out of range: the struct is freed and the minor is not.
AddBadDepth(t) ==
  LET s == ptr[t]
  IN /\ pc[t] = "add"
     /\ dev' = [dev EXCEPT ![s] = Freed] /\ lost' = lost \union {dev[s].minor}
     /\ Return(t)
     /\ UNCHANGED <<load_vars, list, num_devices, minors, mod, fault>>

--------------------------------------------------------------------------------
(***************************************************************************)
(* pxd_export                                                              *)
(***************************************************************************)
ExportLookup(t, d) ==
  /\ pc[t] = "idle" /\ \E s \in Found(d) : Goto(t, "export check", s)
  /\ UNCHANGED <<load_vars, dev, list, num_devices, minors, mod, fault, lost>>

\* Where export goes on: exported is read and set under the lock, but the lock
\* is not held between.
ExportCheck(t) ==
  /\ pc[t] = "export check" /\ dev[ptr[t]].mem = "live"
  /\ IF dev[ptr[t]].exported THEN Return(t) ELSE Goto(t, "export disk", ptr[t])
  /\ UNCHANGED <<load_vars, dev, list, num_devices, minors, mod, fault, lost>>

\* Another thread has exported s, or is about to.
Raced(s) == dev[s].disk # "none" \/ dev[s].refs > 0

\* try_module_get and pxd_init_disk; a second thread would make a second disk.
ExportDisk(t) ==
  LET s == ptr[t]
  IN /\ pc[t] = "export disk" /\ dev[s].mem = "live"
     /\ IF Raced(s)
        THEN fault' = "export twice" /\ UNCHANGED <<dev, mod, thread_vars>>
        ELSE /\ dev' = [dev EXCEPT ![s].disk = "made"] /\ mod' = mod + 1
             /\ Goto(t, "export bus", s) /\ UNCHANGED fault
     /\ UNCHANGED <<load_vars, list, num_devices, minors, lost>>

\* pxd_bus_add_dev: the device is registered, with one reference.
ExportBus(t) ==
  LET s == ptr[t]
  IN /\ pc[t] = "export bus" /\ dev[s].mem = "live"
     /\ dev' = [dev EXCEPT ![s].refs = 1]
     /\ Goto(t, "export add", s)
     /\ UNCHANGED <<load_vars, list, num_devices, minors, mod, fault, lost>>

\* device_add_disk: the disk can be opened
ExportAdd(t) ==
  LET s == ptr[t]
  IN /\ pc[t] = "export add" /\ dev[s].mem = "live"
     /\ dev' = [dev EXCEPT ![s].disk = "added"]
     /\ Goto(t, "export done", s)
     /\ UNCHANGED <<load_vars, list, num_devices, minors, mod, fault, lost>>

ExportDone(t) ==
  LET s == ptr[t]
  IN /\ pc[t] = "export done" /\ dev[s].mem = "live"
     /\ dev' = [dev EXCEPT ![s].exported = TRUE]
     /\ Return(t)
     /\ UNCHANGED <<load_vars, list, num_devices, minors, mod, fault, lost>>

\* The label cleanup, after pxd_init_disk or pxd_bus_add_dev has failed
ExportFails(t) ==
  LET s == ptr[t]
  IN /\ pc[t] \in {"export disk", "export bus"} /\ dev[s].mem = "live"
     /\ pc[t] = "export disk" => ~Raced(s)
     /\ dev' = [dev EXCEPT ![s] = Freed] /\ minors' = minors \ {dev[s].minor}
     /\ list' = list \ {s} /\ num_devices' = num_devices - 1
     /\ mod' = IF pc[t] = "export bus" THEN mod - 1 ELSE mod
     /\ Return(t)
     /\ UNCHANGED <<load_vars, fault, lost>>

\* device_add_disk has failed: device_unregister puts the only reference, and
\* the rest of the error path works on freed memory.
ExportAddFails(t) ==
  /\ pc[t] = "export add" /\ dev[ptr[t]].mem = "live"
  /\ Put(ptr[t], dev[ptr[t]])
  /\ fault' = "export add"
  /\ UNCHANGED <<load_vars, list, num_devices, mod, thread_vars, lost>>

--------------------------------------------------------------------------------
(***************************************************************************)
(* Openers, resize, connection                                             *)
(***************************************************************************)

\* Mutant: an opener takes no reference.
OpenUnreferenced(s) ==
  /\ dev[s].disk = "added" /\ dev[s].connected /\ ~dev[s].removing /\ dev[s].opens < MaxOpens
  /\ dev' = [dev EXCEPT ![s].opens = @ + 1]
  /\ UNCHANGED <<load_vars, list, num_devices, minors, mod, thread_vars, fault, lost>>

\* pxd_open; it fails with no change otherwise
Open(s) ==
  /\ dev[s].disk = "added" /\ dev[s].connected /\ ~dev[s].removing /\ dev[s].opens < MaxOpens
  /\ dev' = [dev EXCEPT ![s].opens = @ + 1, ![s].refs = @ + 1]
  /\ UNCHANGED <<load_vars, list, num_devices, minors, mod, thread_vars, fault, lost>>

\* pxd_release
Close(s) ==
  /\ dev[s].opens > 0
  /\ Put(s, [dev[s] EXCEPT !.opens = @ - 1])
  /\ UNCHANGED <<load_vars, list, num_devices, mod, thread_vars, fault, lost>>

\* pxd_ioc_update_size up to the unlock: a device that is not exported has no
\* disk to resize, and no reference to take.
ResizeLookup(t, d) ==
  /\ pc[t] = "idle"
  /\ \E s \in Found(d) :
       /\ ~dev[s].removing
       /\ IF dev[s].disk = "none" \/ dev[s].refs = 0
          THEN fault' = "no disk" /\ UNCHANGED <<dev, thread_vars>>
          ELSE /\ dev' = [dev EXCEPT ![s].refs = @ + 1]
               /\ Goto(t, "resize", s) /\ UNCHANGED fault
  /\ UNCHANGED <<load_vars, list, num_devices, minors, mod, lost>>

\* The reference that was taken is put.
ResizeEnds(t) ==
  /\ pc[t] = "resize" /\ dev[ptr[t]].mem = "live" /\ Put(ptr[t], dev[ptr[t]])
  /\ Return(t)
  /\ UNCHANGED <<load_vars, list, num_devices, mod, fault, lost>>

\* Kernels before 5.11 revalidate the disk first, without the lock: the work of
\* a removal may have freed it.
ResizeDiskGone(t) ==
  /\ pc[t] = "resize" /\ dev[ptr[t]].mem = "live" /\ dev[ptr[t]].disk = "none"
  /\ fault' = "resize disk"
  /\ UNCHANGED <<load_vars, dev, list, num_devices, minors, mod, thread_vars, lost>>

\* pxdctx_set_connected, from the open of the control file and the abort work
SetConnected(enable) ==
  /\ \E s \in list : dev[s].connected # enable
  /\ dev' = [s \in Structs |-> IF s \in list THEN [dev[s] EXCEPT !.connected = enable] ELSE dev[s]]
  /\ UNCHANGED <<load_vars, list, num_devices, minors, mod, thread_vars, fault, lost>>

--------------------------------------------------------------------------------
(***************************************************************************)
(* pxd_remove and pxd_finish_remove                                        *)
(***************************************************************************)

\* Mutant: the removal of an open device is not queued, forced or not.
RemoveUnqueued(t, d, force) ==
  /\ pc[t] = "idle"
  /\ \E s \in Found(d) :
       /\ dev[s].exported
       /\ dev[s].opens > 0 => force
       /\ dev' = [dev EXCEPT ![s].removing = TRUE, ![s].refs = @ + 1,
                             ![s].work = IF dev[s].removing \/ dev[s].opens > 0 THEN @ ELSE "queued"]
       /\ Goto(t, "remove", s)
  /\ UNCHANGED <<load_vars, list, num_devices, minors, mod, fault, lost>>

\* Under both locks; the waiter keeps the struct with a reference.
Remove(t, d, force) ==
  /\ pc[t] = "idle"
  /\ \E s \in Found(d) :
       /\ dev[s].exported
       /\ dev[s].opens > 0 => force
       /\ dev' = [dev EXCEPT ![s].removing = TRUE, ![s].refs = @ + 1,
                             ![s].work = IF dev[s].removing THEN @ ELSE "queued"]
       /\ Goto(t, "remove", s)
  /\ UNCHANGED <<load_vars, list, num_devices, minors, mod, fault, lost>>

\* Woken up, or 500 ms are over: the work may not have run yet.
RemoveEnds(t) ==
  /\ pc[t] = "remove" /\ dev[ptr[t]].mem = "live"
  /\ Put(ptr[t], dev[ptr[t]])
  /\ Return(t)
  /\ UNCHANGED <<load_vars, list, num_devices, mod, fault, lost>>

\* pxd_free_disk, after which the disk cannot be opened, and device_unregister
\* with the extra reference of the work
WorkFreeDisk(s) ==
  /\ dev[s].work = "queued"
  /\ dev' = [dev EXCEPT ![s].disk = "none", ![s].work = "unlink"]
  /\ UNCHANGED <<load_vars, list, num_devices, minors, mod, thread_vars, fault, lost>>

\* Under both locks again: the waiters are woken.
WorkUnlink(s) ==
  /\ dev[s].work = "unlink"
  /\ list' = list \ {s} /\ num_devices' = num_devices - 1
  /\ dev' = [dev EXCEPT ![s].exported = FALSE, ![s].work = "put"]
  /\ UNCHANGED <<load_vars, minors, mod, thread_vars, fault, lost>>

\* Mutant: device_unregister is not preceded by get_device.
WorkPutTwice(s) ==
  /\ dev[s].work = "put"
  /\ IF dev[s].refs <= 2
     THEN dev' = [dev EXCEPT ![s] = Freed] /\ minors' = minors \ {dev[s].minor}
     ELSE dev' = [dev EXCEPT ![s].refs = @ - 2, ![s].work = "none"] /\ UNCHANGED minors
  /\ mod' = mod - 1
  /\ UNCHANGED <<load_vars, list, num_devices, thread_vars, fault, lost>>

\* The extra reference is put last, then the module's.
WorkPut(s) ==
  /\ dev[s].work = "put"
  /\ Put(s, [dev[s] EXCEPT !.work = "none"])
  /\ mod' = mod - 1
  /\ UNCHANGED <<load_vars, list, num_devices, thread_vars, fault, lost>>

Work(s) == Explored /\ (WorkFreeDisk(s) \/ WorkUnlink(s) \/ WorkPut(s))

--------------------------------------------------------------------------------
Handler(t) ==
  \/ Use(t) \/ UseFreed(t) \/ AddLink(t) \/ Added(t) \/ AddFails(t) \/ AddBadDepth(t)
  \/ ExportCheck(t) \/ ExportDisk(t) \/ ExportBus(t) \/ ExportAdd(t) \/ ExportDone(t)
  \/ ExportFails(t) \/ ExportAddFails(t)
  \/ ResizeEnds(t) \/ ResizeDiskGone(t) \/ RemoveEnds(t)

Start(t) == \E d \in DevIds :
  \/ Lookup(t, d) \/ AddAlloc(t, d) \/ ExportLookup(t, d) \/ ResizeLookup(t, d)
  \/ \E force \in BOOLEAN : Remove(t, d, force)

Next ==
  \/ LoadStep \/ BlkdevUnnoticed \/ LoadFails
  \/ \E s \in Structs : Work(s)
  \/ /\ load = "ready" /\ Explored
     /\ \/ Unload
        \/ \E t \in Threads : Handler(t) \/ Start(t)
        \/ \E s \in Structs : Open(s) \/ Close(s)
        \/ \E enable \in BOOLEAN : SetConnected(enable)

\* The kernel runs queued work, and a handler that has begun goes on: its waits
\* are bounded (500 ms in pxd_remove).
Fairness ==
  /\ \A s \in Structs : WF_vars(Work(s))
  /\ \A t \in Threads : WF_vars(load = "ready" /\ Explored /\ Handler(t))

Spec == Init /\ [][Next]_vars /\ Fairness

--------------------------------------------------------------------------------
(***************************************************************************)
(* Properties                                                              *)
(***************************************************************************)
Live == {s \in Structs : dev[s].mem = "live"}
Owned == {dev[s].minor : s \in Live}

TypeOK ==
  /\ held \subseteq DOMAIN Stages \union {"conn"}
  /\ \A s \in Structs : /\ dev[s].refs \in Nat /\ dev[s].opens \in 0 .. MaxOpens
                        /\ dev[s].disk \in {"none", "made", "added"}
                        /\ dev[s].work \in {"none", "queued", "unlink", "put"}
  /\ list \subseteq Structs /\ num_devices \in Nat
  /\ minors \subseteq Minors /\ lost \subseteq Minors
  /\ ptr \in [Threads -> Structs \union {0}]

\* ctx->list holds each device once and num_devices is its length, through races of add with add and with the
\* removal of the device, and through the error paths of export.
ListSound ==
  Explored =>
    /\ num_devices = Cardinality(list)
    /\ \A r, s \in list : dev[r].id = dev[s].id => r = s

\* A minor belongs to one struct at a time and goes back to pxd_minor_ida once,
\* when the struct is freed.  Only a bad queue depth loses one.
MinorsOwned ==
  Explored =>
  /\ minors = Owned \union lost
  /\ \A r, s \in Live : dev[r].minor = dev[s].minor => r = s
  /\ lost \intersect Owned = {}

\* A device that is listed or open keeps its struct, whatever the daemon removes.
StructKept ==
  Explored => \A s \in Structs : s \in list \/ dev[s].opens > 0 => dev[s].mem = "live"

\* A remove or a resize, which hold a reference, and an add that has not yet
\* listed its struct never find the struct freed.  The others may: an add once
\* its device is listed ("added"), the handlers that only look a device up, an
\* export that races another, and a resize that reaches for the disk.
HoldersSafe == fault \notin {"add", "remove", "resize"}

\* "maximum number of devices supported" (pxd.h:47).  It does not hold: see
\* Device_too_many.cfg.
LimitKept == num_devices <= MaxDevices

\* pxd_add checks the limit before it takes the lock, so that threads may pass
\* the check together: the list exceeds PXD_MAX_DEVICES by no more than one
\* device for every other thread.
LimitOvershot == Explored => num_devices <= MaxDevices + Cardinality(Threads) - 1

\* The module is not unloaded under a device that has a disk, is open, or is
\* being removed: try_module_get and module_put are paired.
UnloadedIsIdle ==
  load = "unloaded" =>
    \A s \in Structs : dev[s].disk = "none" /\ dev[s].opens = 0 /\ dev[s].work = "none" /\ ~dev[s].exported

\* The list, the count, the minors and the module's references agree on which
\* devices there are, through races of add, export, removal and unload.
DevicesSound == TypeOK /\ ListSound /\ MinorsOwned /\ UnloadedIsIdle

\* A removal that was accepted ends: the device leaves the list, also when it
\* is still open and when the daemon no longer waits, and it is freed by the
\* last that uses it.
RemovalEnds ==
  \A s \in Structs :
    dev[s].removing ~> \/ dev[s].mem = "freed"
                       \/ s \notin list /\ dev[s].opens > 0
                       \/ ~Explored

================================================================================
