------------------------------ MODULE ControlFile ------------------------------
(***************************************************************************)
(* The control file of a px-fuse context (pxd.c): a storage daemon opens   *)
(* it, and while it is open the connection is up.  Closing it (a daemon    *)
(* that dies closes it too) arms the abort work; unless a daemon opens the *)
(* file before the timeout, the work fails every queued request.           *)
(*                                                                         *)
(* Each step is what the code does between two points where another        *)
(* thread can see it; a section under ctx->lock is one step.  The delayed  *)
(* work follows the workqueue API: scheduling a work that is already       *)
(* pending does nothing, cancel_delayed_work_sync disarms it and returns   *)
(* when it is not running.  Time is abstracted: an armed work may fire at  *)
(* any moment.                                                             *)
(***************************************************************************)

CONSTANTS
  Openers,     \* processes that open the control file
  Admins       \* threads that write the sysfs attribute "timeout"

VARIABLES
  connected,           \* fc->connected
  allow_disconnected,  \* fc->allow_disconnected
  devs_connected,      \* pxd_dev->connected of the context's devices
  armed,               \* abort_work is pending
  stage,               \* where abort_work is; "bug": it hit its BUG_ON
  opc,                 \* per opener: where its open is
  apc,                 \* per admin: where its pxd_timeout_store is
  opened               \* ctx->open_seq > 0

conn_vars == <<connected, allow_disconnected, devs_connected>>
work_vars == <<armed, stage>>
control_vars == <<conn_vars, work_vars, opc, apc, opened>>

\* pxd_context_init; a device is born with connected = true (pxd_add).
ControlInit ==
  /\ connected = FALSE
  /\ allow_disconnected = TRUE
  /\ devs_connected = TRUE
  /\ armed = FALSE
  /\ stage = "idle"
  /\ opc = [p \in Openers |-> "closed"]
  /\ apc = [a \in Admins |-> "idle"]
  /\ opened = FALSE

OpenStep(p, from, to) ==
  /\ opc[p] = from
  /\ opc' = [opc EXCEPT ![p] = to]

--------------------------------------------------------------------------------
(***************************************************************************)
(* pxd_control_open                                                        *)
(***************************************************************************)

\* Returns -EINVAL, and changes nothing, while the connection is up.
OpenCheck(p) ==
  /\ ~connected
  /\ OpenStep(p, "closed", "cancel")
  /\ UNCHANGED <<conn_vars, work_vars, apc, opened>>

\* Mutant: cancel_delayed_work, which does not wait for a running work.
OpenCancelAsync(p) ==
  /\ OpenStep(p, "cancel", "restart")
  /\ armed' = FALSE
  /\ UNCHANGED <<conn_vars, stage, apc, opened>>

\* cancel_delayed_work_sync
OpenCancel(p) ==
  /\ stage = "idle"
  /\ OpenStep(p, "cancel", "restart")
  /\ armed' = FALSE
  /\ UNCHANGED <<conn_vars, stage, apc, opened>>

\* fuse_restart_requests; the lists are FuseConn's.
OpenRestart(p) ==
  /\ OpenStep(p, "restart", "connect")
  /\ UNCHANGED <<conn_vars, work_vars, apc, opened>>

OpenConnect(p) ==
  /\ OpenStep(p, "connect", "allow")
  /\ connected' = TRUE
  /\ UNCHANGED <<allow_disconnected, devs_connected, work_vars, apc, opened>>

\* Mutant: a flag that an abort cleared stays cleared.
OpenAllowForgotten(p) ==
  /\ OpenStep(p, "allow", "setup")
  /\ UNCHANGED <<conn_vars, work_vars, apc, opened>>

OpenAllow(p) ==
  /\ OpenStep(p, "allow", "setup")
  /\ allow_disconnected' = TRUE
  /\ UNCHANGED <<connected, devs_connected, work_vars, apc, opened>>

\* pxdctx_set_connected(ctx, true), ++open_seq
OpenSetup(p) ==
  /\ OpenStep(p, "setup", "open")
  /\ devs_connected' = TRUE
  /\ opened' = TRUE
  /\ UNCHANGED <<connected, allow_disconnected, work_vars, apc>>

\* Mutant: the work is scheduled and the connection left up.
ReleaseConnected(p) ==
  /\ OpenStep(p, "open", "closed")
  /\ armed' = TRUE
  /\ UNCHANGED <<conn_vars, stage, apc, opened>>

\* pxd_control_release, on the last close of the file
Release(p) ==
  /\ OpenStep(p, "open", "closed")
  /\ connected' = FALSE
  /\ armed' = TRUE
  /\ UNCHANGED <<allow_disconnected, devs_connected, stage, apc, opened>>

--------------------------------------------------------------------------------
(***************************************************************************)
(* pxd_timeout_store                                                       *)
(***************************************************************************)
AdminStep(a, from, to) ==
  /\ apc[a] = from
  /\ apc' = [apc EXCEPT ![a] = to]

TimeoutStore(a) ==
  /\ AdminStep(a, "idle", IF connected THEN "schedule" ELSE "cancel")
  /\ UNCHANGED <<conn_vars, work_vars, opc, opened>>

TimeoutCancel(a) ==
  /\ stage = "idle"
  /\ AdminStep(a, "cancel", "schedule")
  /\ armed' = FALSE
  /\ UNCHANGED <<conn_vars, stage, opc, opened>>

\* Mutant: the work that was cancelled is not scheduled again.
TimeoutNotRescheduled(a) ==
  /\ AdminStep(a, "schedule", "idle")
  /\ UNCHANGED <<conn_vars, work_vars, opc, opened>>

\* Under ctx->lock.
TimeoutSchedule(a) ==
  /\ AdminStep(a, "schedule", "idle")
  /\ armed' = (armed \/ ~connected)
  /\ UNCHANGED <<conn_vars, stage, opc, opened>>

--------------------------------------------------------------------------------
(***************************************************************************)
(* pxd_abort_context, run by the workqueue                                 *)
(***************************************************************************)
WorkStep(from, to) ==
  /\ stage = from
  /\ stage' = to
  /\ UNCHANGED <<opc, apc, opened>>

\* BUG_ON(READ_ONCE(fc->connected))
AbortFire ==
  /\ armed
  /\ armed' = FALSE
  /\ WorkStep("idle", IF connected THEN "bug" ELSE "disallow")
  /\ UNCHANGED conn_vars

\* Mutant: the work puts itself off.
AbortPutOff ==
  /\ WorkStep("disallow", "idle")
  /\ armed' = TRUE
  /\ UNCHANGED conn_vars

AbortDisallow ==
  /\ WorkStep("disallow", "sync")
  /\ allow_disconnected' = FALSE
  /\ UNCHANGED <<connected, devs_connected, armed>>

\* synchronize_rcu; the sections it waits for are FuseConn's.
AbortSync ==
  /\ WorkStep("sync", "drain")
  /\ UNCHANGED <<conn_vars, armed>>

\* fuse_end_queued_requests found both lists empty
AbortDrained ==
  /\ WorkStep("drain", "setup")
  /\ UNCHANGED <<conn_vars, armed>>

\* pxdctx_set_connected(ctx, false)
AbortSetup ==
  /\ WorkStep("setup", "idle")
  /\ devs_connected' = FALSE
  /\ UNCHANGED <<connected, allow_disconnected, armed>>

--------------------------------------------------------------------------------
OpenerNext(p) ==
  \/ OpenCheck(p) \/ OpenCancel(p) \/ OpenRestart(p)
  \/ OpenConnect(p) \/ OpenAllow(p) \/ OpenSetup(p)
  \/ Release(p)

AdminNext(a) == TimeoutStore(a) \/ TimeoutCancel(a) \/ TimeoutSchedule(a)

AbortNext == AbortFire \/ AbortDisallow \/ AbortSync \/ AbortDrained \/ AbortSetup

ControlNext ==
  \/ \E p \in Openers : OpenerNext(p)
  \/ \E a \in Admins : AdminNext(a)
  \/ AbortNext

\* System calls and works that have begun run on; the timer fires in the end.
\* Nothing makes a process open or close the file, or an admin write sysfs.
ControlFairness ==
  /\ \A p \in Openers : WF_control_vars(\/ OpenCancel(p) \/ OpenRestart(p) \/ OpenConnect(p)
                                        \/ OpenAllow(p) \/ OpenSetup(p))
  /\ \A a \in Admins : WF_control_vars(TimeoutCancel(a) \/ TimeoutSchedule(a))
  /\ WF_control_vars(AbortNext)

ControlSpec == ControlInit /\ [][ControlNext]_control_vars /\ ControlFairness

--------------------------------------------------------------------------------
OpenStages == {"closed", "cancel", "restart", "connect", "allow", "setup", "open"}
Stages == {"idle", "disallow", "sync", "drain", "setup", "bug"}

ControlTypeOK ==
  /\ {connected, allow_disconnected, devs_connected, armed, opened} \subseteq BOOLEAN
  /\ stage \in Stages
  /\ opc \in [Openers -> OpenStages]
  /\ apc \in [Admins -> {"idle", "cancel", "schedule"}]

Opening(p) == opc[p] \in OpenStages \ {"closed", "open"}

\* The abort work never finds the connection up: the BUG_ON of
\* pxd_abort_context (pxd.c:2447) does not fire.
AbortNeverConnected == stage # "bug"

\* "abort work cannot be active while restarting requests" (pxd.c:2384):
\* from the moment open has cancelled the work until the file is closed
\* again, the work neither runs nor waits to run.
AbortQuietWhileOpen ==
  \A p \in Openers : opc[p] \notin {"closed", "cancel"} => stage = "idle" /\ ~armed

\* Once open has returned, IO is accepted and the devices can be opened,
\* however the previous session ended.
OpenIsUp ==
  \A p \in Openers : opc[p] = "open" => connected /\ allow_disconnected /\ devs_connected

\* A disconnect that still holds IO back always has somebody who will end
\* it: the timer or the running work, an open under way, or a sysfs write
\* that took the timer down and has yet to put it back.
TimerNotLost ==
  (opened /\ ~connected /\ allow_disconnected) =>
    \/ armed
    \/ stage # "idle"
    \/ \E p \in Openers : Opening(p)
    \/ \E a \in Admins : apc[a] = "schedule"

\* IO held back by a disconnect is not held for ever: a daemon comes back
\* or the work stops admitting it, unless sysfs writes keep postponing the
\* timer or the work has hit its BUG_ON.
DisconnectEnds ==
  <>[](\A a \in Admins : apc[a] = "idle") =>
    ((opened /\ ~connected) ~> (connected \/ ~allow_disconnected \/ stage = "bug"))

================================================================================
