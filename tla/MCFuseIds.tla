------------------------------- MODULE MCFuseIds -------------------------------
(***************************************************************************)
(* Model-checking instances of FuseIds.  Requests are tags of the block    *)
(* devices: pxd_init_disk gives every hardware queue of a device its own   *)
(* queue_depth tags (pxd.c:1239-1242), and there are pxd_num_fpthreads     *)
(* hardware queues, four by default, for every memory node.                *)
(***************************************************************************)
EXTENDS FuseIds, TLC

CONSTANTS MaxDevices, MaxQDepth, HwQueues

Tags == (1 .. MaxDevices) \X (1 .. HwQueues) \X (1 .. MaxQDepth)

\* FUSE_MAX_REQUEST_IDS (dev.c:38-41)
PoolSize == 2 * MaxDevices * MaxQDepth

Symmetry == Permutations(CPUs) \union Permutations(Reqs)

================================================================================
