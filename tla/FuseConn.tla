-------------------------------- MODULE FuseConn --------------------------------
(***************************************************************************)
(* The life of an IO request on the slow path (dev.c, pxd.c): submitted    *)
(* through blk-mq, queued on fc->pending, read in batches by the threads   *)
(* of the storage daemon, answered or failed, its id returned.  The        *)
(* control file (ControlFile) is opened and closed by one daemon, which    *)
(* may die and come back at any time; writes of the sysfs timeout are not  *)
(* part of this composition.                                               *)
(*                                                                         *)
(* A tag's request lives in memory that blk-mq uses again as soon as the   *)
(* end callback has completed the IO, while request_end still has to       *)
(* return the id.  A section under fc->lock is one step.                   *)
(***************************************************************************)
EXTENDS ControlFile, Naturals, Sequences, FiniteSets

CONSTANTS
  Slots,        \* tags: each carries one IO after another
  NoReq,        \* NULL in request_map
  Idx,          \* indexes of request_map; IdPool hands them out
  NoId,         \* the unique id zero
  Readers,      \* threads of the storage daemon that read requests
  Repliers,     \* threads of the storage daemon that write replies
  Worker,       \* the thread that runs abort_work
  Sender,       \* the thread of a submitter whose request was refused
  ReadFaults,   \* may copying a request to the daemon fail?
  ReplyFaults,  \* may copying a reply from the daemon fail?
  MaxWakes      \* bound: senders between queueing a request and wake_up

Threads == Readers \union Repliers

ASSUME ConnAssumption ==
  /\ NoReq \notin Slots /\ NoId \notin Idx
  /\ Readers # {}
  /\ Worker \notin Threads /\ Sender \notin Threads /\ Worker # Sender
  /\ ReadFaults \in BOOLEAN /\ ReplyFaults \in BOOLEAN
  /\ MaxWakes \in Nat \ {0}

\* The storage daemon is one process: it opens the control file again only
\* after its last file is gone.
ASSUME OneDaemon == \A p, q \in Openers : p = q

VARIABLES
  spc,          \* per tag: where its IO is
  unique,       \* in.h.unique of the tag's request
  request_map,
  holders,      \* IdPool: the request an index was handed out to
  pending,      \* fc->pending
  processing,   \* fc->processing
  ends,         \* calls of request_end that are past list_del
  tpc,          \* per daemon thread: which system call it is in
  batch,        \* per daemon thread: requests its read has still to copy
  target,       \* per daemon thread: the request its write answers
  hands,        \* ids the daemon has read and not yet answered
  wakes,        \* senders that have queued and not yet called wake_up
  grace,        \* RCU readers that synchronize_rcu waits for
  order,        \* history: unfinished requests in the order they were queued
  load          \* history: per tag, IOs accepted and not completed

slot_vars == <<spc, unique>>
id_vars == <<request_map, holders>>
list_vars == <<pending, processing, order>>
daemon_vars == <<tpc, batch, target, hands>>
request_vars == <<slot_vars, id_vars, list_vars, daemon_vars, load, ends, wakes, grace>>
vars == <<control_vars, request_vars>>

Pool == INSTANCE IdPool WITH Holders <- Slots

Errors == {"ENOTCONN", "EIO", "ECONNABORTED"}

Init ==
  /\ ControlInit
  /\ spc = [s \in Slots |-> "idle"]
  /\ unique = [s \in Slots |-> NoId]
  /\ request_map = [i \in Idx |-> NoReq]
  /\ Pool!Init
  /\ pending = <<>> /\ processing = <<>> /\ order = <<>>
  /\ ends = {}
  /\ tpc = [t \in Threads |-> "run"]
  /\ batch = [t \in Threads |-> <<>>]
  /\ target = [t \in Threads |-> NoReq]
  /\ hands = {}
  /\ wakes = 0
  /\ grace = {}
  /\ load = [s \in Slots |-> 0]

(***************************************************************************)
(* Lists                                                                   *)
(***************************************************************************)
On(list) == {list[k] : k \in DOMAIN list}

\* list_del of a request that may or may not be on the list
Without(list, s) ==
  IF s \in On(list)
    THEN LET k == CHOOSE j \in DOMAIN list : list[j] = s
         IN  SubSeq(list, 1, k - 1) \o SubSeq(list, k + 1, Len(list))
    ELSE list

Unlink(s) ==
  /\ pending' = Without(pending, s)
  /\ processing' = Without(processing, s)

SlotStep(s, from, to) ==
  /\ spc[s] = from
  /\ spc' = [spc EXCEPT ![s] = to]

--------------------------------------------------------------------------------
(***************************************************************************)
(* pxd_queue_rq and fuse_request_send_nowait                               *)
(***************************************************************************)

\* An IO is taken unless the connection has been aborted: then pxd_queue_rq
\* returns BLK_STS_IOERR and nothing changes.  fuse_request_init clears the
\* request, whose memory a former IO's request_end may still be working for.
\* There are disks to submit to once a daemon has added them.
Submit(s) ==
  /\ opened
  /\ allow_disconnected
  /\ SlotStep(s, "idle", "started")
  /\ unique' = [unique EXCEPT ![s] = NoId]
  /\ load' = [load EXCEPT ![s] = @ + 1]
  /\ UNCHANGED <<control_vars, id_vars, list_vars, daemon_vars, ends, wakes, grace>>

\* fuse_get_unique, request_map[unique] = req
AssignUnique(s) ==
  /\ SlotStep(s, "started", "mapped")
  /\ \E i \in Idx :
       /\ Pool!Get(i, s)
       /\ unique' = [unique EXCEPT ![s] = i]
       /\ request_map' = [request_map EXCEPT ![i] = s]
  /\ UNCHANGED <<control_vars, list_vars, daemon_vars, load, ends, wakes, grace>>

\* rcu_read_lock, fc->connected || fc->allow_disconnected.  The two reads are
\* one step: whatever they return, some moment between them has both values.
SendCheck(s) ==
  /\ SlotStep(s, "mapped", IF connected \/ allow_disconnected THEN "rcu" ELSE "refused")
  /\ UNCHANGED <<control_vars, unique, id_vars, list_vars, daemon_vars, load,
                 ends, wakes, grace>>

\* Mutant: fuse_conn_wakeup is not called.
EnqueueNoWake(s) ==
  /\ SlotStep(s, "rcu", "sent")
  /\ pending' = Append(pending, s)
  /\ order' = Append(order, s)
  /\ grace' = grace \ {s}
  /\ UNCHANGED <<control_vars, unique, id_vars, processing, daemon_vars, load, ends, wakes>>

\* queue_request under fc->lock, then rcu_read_unlock
Enqueue(s) ==
  /\ wakes < MaxWakes
  /\ SlotStep(s, "rcu", "sent")
  /\ pending' = Append(pending, s)
  /\ order' = Append(order, s)
  /\ grace' = grace \ {s}
  /\ wakes' = wakes + 1
  /\ UNCHANGED <<control_vars, unique, id_vars, processing, daemon_vars, load, ends>>

\* fuse_conn_wakeup: readers wait exclusively, so one of them is woken.
Wake ==
  /\ wakes > 0
  /\ wakes' = wakes - 1
  /\ LET asleep == {t \in Threads : tpc[t] = "sleep"}
     IN  \/ asleep = {} /\ UNCHANGED tpc
         \/ \E t \in asleep : tpc' = [tpc EXCEPT ![t] = "run"]
  /\ UNCHANGED <<control_vars, slot_vars, id_vars, list_vars, batch, target, hands, load,
                 ends, grace>>

--------------------------------------------------------------------------------
(***************************************************************************)
(* request_end.  BeginEnd is its list_del; the caller has set the error    *)
(* and chosen the lists.  The callback completes the IO, which frees the   *)
(* tag; the id, read before the callback, is returned after it.            *)
(***************************************************************************)
BeginEnd(by, s, err) ==
  /\ spc' = [spc EXCEPT ![s] = "ending"]
  /\ ends' = ends \union {[by |-> by, req |-> s, uid |-> unique[s], err |-> err,
                         called |-> FALSE]}
  /\ order' = Without(order, s)
  /\ UNCHANGED unique

Ending(by) == \E e \in ends : e.by = by

EndCallback(e) ==
  /\ ~e.called
  /\ spc' = [spc EXCEPT ![e.req] = "idle"]
  /\ load' = [load EXCEPT ![e.req] = @ - 1]
  /\ ends' = (ends \ {e}) \union {[e EXCEPT !.called = TRUE]}
  /\ UNCHANGED <<control_vars, unique, id_vars, list_vars, daemon_vars, wakes, grace>>

\* Mutant: the slot to clear is that of the id the request has after the callback.
PutUniqueClearLate(e) ==
  /\ e.called
  /\ Pool!Put(e.uid)
  /\ request_map' = [i \in Idx |-> IF i = unique[e.req] THEN NoReq ELSE request_map[i]]
  /\ ends' = ends \ {e}
  /\ UNCHANGED <<control_vars, slot_vars, list_vars, daemon_vars, load, wakes, grace>>

\* fuse_put_unique
PutUnique(e) ==
  /\ e.called
  /\ Pool!Put(e.uid)
  /\ request_map' = [request_map EXCEPT ![e.uid] = NoReq]
  /\ ends' = ends \ {e}
  /\ UNCHANGED <<control_vars, slot_vars, list_vars, daemon_vars, load, wakes, grace>>

\* Mutant: out.h.error is left at zero.
SendRefusedQuietly(s) ==
  /\ spc[s] = "refused"
  /\ BeginEnd(Sender, s, "answer")
  /\ UNCHANGED <<control_vars, id_vars, pending, processing, daemon_vars, load, wakes, grace>>

\* The connection was aborted: fuse_request_send_nowait ends the request.
SendRefused(s) ==
  /\ spc[s] = "refused"
  /\ BeginEnd(Sender, s, "ENOTCONN")
  /\ UNCHANGED <<control_vars, id_vars, pending, processing, daemon_vars, load, wakes, grace>>

--------------------------------------------------------------------------------
(***************************************************************************)
(* fuse_dev_do_read, by thread t of the daemon.  A thread in the middle of *)
(* a system call keeps the file open.                                      *)
(***************************************************************************)
SessionOpen == \E p \in Openers : opc[p] = "open"

InCall(t, call) == SessionOpen /\ tpc[t] = call /\ ~Ending(t)

\* request_wait: nothing pending, sleep until a wake_up or a signal.
ReadSleep(t) ==
  /\ InCall(t, "run")
  /\ pending = <<>>
  /\ tpc' = [tpc EXCEPT ![t] = "sleep"]
  /\ UNCHANGED <<control_vars, slot_vars, id_vars, list_vars, batch, target, hands, load,
                 ends, wakes, grace>>

\* -ERESTARTSYS
ReadInterrupted(t) ==
  /\ InCall(t, "sleep")
  /\ tpc' = [tpc EXCEPT ![t] = "run"]
  /\ UNCHANGED <<control_vars, slot_vars, id_vars, list_vars, batch, target, hands, load,
                 ends, wakes, grace>>

\* The requests that fit the daemon's buffer go to the tail of processing.
ReadCut(t) ==
  /\ InCall(t, "run")
  /\ \E n \in 1 .. Len(pending) :
       /\ batch' = [batch EXCEPT ![t] = SubSeq(pending, 1, n)]
       /\ processing' = processing \o SubSeq(pending, 1, n)
       /\ pending' = SubSeq(pending, n + 1, Len(pending))
  /\ tpc' = [tpc EXCEPT ![t] = "copy"]
  /\ UNCHANGED <<control_vars, slot_vars, id_vars, order, target, hands, load, ends, wakes,
                 grace>>

NextCopy(t) ==
  /\ batch' = [batch EXCEPT ![t] = Tail(@)]
  /\ tpc' = [tpc EXCEPT ![t] = IF Len(batch[t]) = 1 THEN "run" ELSE "copy"]

CopyOk(t) ==
  /\ InCall(t, "copy")
  /\ hands' = hands \union {unique[Head(batch[t])]}
  /\ NextCopy(t)
  /\ UNCHANGED <<control_vars, slot_vars, id_vars, list_vars, target, load, ends, wakes,
                 grace>>

\* fuse_copy_req_read fails: request_end takes the request off processing.
CopyFault(t) ==
  /\ ReadFaults
  /\ InCall(t, "copy")
  /\ Unlink(Head(batch[t]))
  /\ BeginEnd(t, Head(batch[t]), "EIO")
  /\ NextCopy(t)
  /\ UNCHANGED <<control_vars, id_vars, target, hands, load, wakes, grace>>

--------------------------------------------------------------------------------
(***************************************************************************)
(* fuse_dev_do_write of a reply.  The daemon answers what it has read, one *)
(* thread per request, and may try again when the kernel reports a fault.  *)
(***************************************************************************)
RequestFind(u) ==
  LET s == request_map[u]
  IN  IF s # NoReq /\ unique[s] = u THEN s ELSE NoReq

ReplyFind(t, u) ==
  /\ InCall(t, "run")
  /\ u \in hands
  /\ RequestFind(u) # NoReq                     \* else -ENOENT
  /\ target' = [target EXCEPT ![t] = RequestFind(u)]
  /\ hands' = hands \ {u}
  /\ tpc' = [tpc EXCEPT ![t] = "found"]
  /\ UNCHANGED <<control_vars, slot_vars, id_vars, list_vars, batch, load, ends, wakes, grace>>

\* list_del_init under fc->lock
ReplyUnlink(t) ==
  /\ InCall(t, "found")
  /\ connected                                  \* else -ENOENT
  /\ Unlink(target[t])
  /\ tpc' = [tpc EXCEPT ![t] = "fill"]
  /\ UNCHANGED <<control_vars, slot_vars, id_vars, order, batch, target, hands, load, ends,
                 wakes, grace>>

\* __fuse_dev_do_write: copy the data and end the request.
ReplyFill(t) ==
  /\ InCall(t, "fill")
  /\ BeginEnd(t, target[t], "answer")
  /\ target' = [target EXCEPT ![t] = NoReq]
  /\ tpc' = [tpc EXCEPT ![t] = "run"]
  /\ UNCHANGED <<control_vars, id_vars, pending, processing, batch, hands, load, wakes, grace>>

\* copy_page_from_iter fails: -EFAULT, and the request stays off the lists.
ReplyFault(t) ==
  /\ ReplyFaults
  /\ InCall(t, "fill")
  /\ hands' = hands \union {unique[target[t]]}
  /\ target' = [target EXCEPT ![t] = NoReq]
  /\ tpc' = [tpc EXCEPT ![t] = "run"]
  /\ UNCHANGED <<control_vars, spc, unique, id_vars, list_vars, batch, load, ends, wakes,
                 grace>>

--------------------------------------------------------------------------------
(***************************************************************************)
(* The control file and the abort work, with what they do to requests      *)
(***************************************************************************)

\* Mutant: list_splice at the tail.
RestartBehind(p) ==
  /\ OpenRestart(p)
  /\ pending' = pending \o processing
  /\ processing' = <<>>
  /\ UNCHANGED <<slot_vars, id_vars, order, daemon_vars, load, ends, wakes, grace>>

\* fuse_restart_requests: what was being processed goes back in front.  The
\* file is not open yet, so its wake_up finds nobody asleep.
Restart(p) ==
  /\ OpenRestart(p)
  /\ pending' = processing \o pending
  /\ processing' = <<>>
  /\ UNCHANGED <<slot_vars, id_vars, order, daemon_vars, load, ends, wakes, grace>>

OpenOther(p) ==
  /\ \/ OpenCheck(p) \/ OpenCancel(p) \/ OpenConnect(p) \/ OpenAllow(p) \/ OpenSetup(p)
  /\ UNCHANGED request_vars

\* The daemon closes the file or dies; no thread is in a call on the file.
Close(p) ==
  /\ Release(p)
  /\ \A t \in Threads : tpc[t] = "run" /\ ~Ending(t)
  /\ hands' = {}
  /\ UNCHANGED <<slot_vars, id_vars, list_vars, tpc, batch, target, load, ends, wakes, grace>>

AbortOther ==
  /\ AbortFire \/ AbortSetup
  /\ UNCHANGED request_vars

\* allow_disconnected = 0, and synchronize_rcu begins: it waits for the
\* sections that are under way now, not for later ones.
AbortBegin ==
  /\ AbortDisallow
  /\ grace' = {s \in Slots : spc[s] = "rcu"}
  /\ UNCHANGED <<slot_vars, id_vars, list_vars, daemon_vars, load, ends, wakes>>

\* Mutant: no synchronize_rcu.
AbortNoGrace ==
  /\ AbortSync
  /\ UNCHANGED request_vars

AbortGrace ==
  /\ AbortSync
  /\ grace = {}
  /\ UNCHANGED request_vars

\* end_requests: the head of pending, then of processing; the lock is
\* released for the callback, and the worker goes on when it has returned.
AbortOne ==
  /\ stage = "drain" /\ ~Ending(Worker)
  /\ \/ /\ pending # <<>>
        /\ pending' = Tail(pending)
        /\ UNCHANGED processing
        /\ BeginEnd(Worker, Head(pending), "ECONNABORTED")
     \/ /\ pending = <<>> /\ processing # <<>>
        /\ processing' = Tail(processing)
        /\ UNCHANGED pending
        /\ BeginEnd(Worker, Head(processing), "ECONNABORTED")
  /\ UNCHANGED <<control_vars, id_vars, daemon_vars, load, wakes, grace>>

AbortDone ==
  /\ AbortDrained
  /\ ~Ending(Worker)
  /\ pending = <<>> /\ processing = <<>>
  /\ UNCHANGED request_vars

--------------------------------------------------------------------------------
SubmitNext(s) ==
  \/ Submit(s) \/ AssignUnique(s) \/ SendCheck(s)
  \/ Enqueue(s) \/ SendRefused(s)

EndNext(e) == EndCallback(e) \/ PutUnique(e)

ReadNext(t) ==
  \/ ReadSleep(t) \/ ReadInterrupted(t) \/ ReadCut(t) \/ CopyOk(t) \/ CopyFault(t)

ReplyNext(t) ==
  \/ \E u \in hands : ReplyFind(t, u)
  \/ ReplyUnlink(t) \/ ReplyFill(t) \/ ReplyFault(t)

ControlFileNext(p) == Restart(p) \/ OpenOther(p) \/ Close(p)

AbortWorkNext == AbortOther \/ AbortBegin \/ AbortGrace \/ AbortOne \/ AbortDone

Next ==
  \/ \E s \in Slots : SubmitNext(s)
  \/ \E e \in ends : EndNext(e)
  \/ Wake
  \/ \E t \in Readers : ReadNext(t)
  \/ \E t \in Repliers : ReplyNext(t)
  \/ \E p \in Openers : ControlFileNext(p)
  \/ AbortWorkNext

Spec == Init /\ [][Next]_vars

--------------------------------------------------------------------------------
(***************************************************************************)
(* Fairness.  Code that has begun to run runs on, and the abort timer      *)
(* fires; this is the kernel's scheduling.  The daemon, while it has the   *)
(* file open, keeps reading and answers everything it has read; it may     *)
(* close the file or die at any moment, or never.  Taking an id and        *)
(* queueing are strongly fair because the model's bounds on ids and on     *)
(* wake-ups may disable them for a moment; in the code they do not wait.   *)
(***************************************************************************)
KernelFairness ==
  /\ \A s \in Slots : /\ WF_vars(SendCheck(s) \/ SendRefused(s))
                      /\ SF_vars(AssignUnique(s)) /\ SF_vars(Enqueue(s))
  /\ \A i \in Idx : WF_vars(\E e \in ends : e.uid = i /\ EndNext(e))
  /\ WF_vars(Wake)
  /\ \A t \in Threads : WF_vars(CopyOk(t) \/ ReplyUnlink(t) \/ ReplyFill(t))
  /\ \A p \in Openers : WF_vars(Restart(p) \/ (Opening(p) /\ OpenOther(p)))
  /\ WF_vars(AbortWorkNext)

DaemonFairness ==
  /\ SF_vars(\E t \in Readers : ReadCut(t))
  /\ \A u \in Idx : SF_vars(\E t \in Repliers : ReplyFind(t, u))

LiveSpec == Spec /\ KernelFairness /\ DaemonFairness

--------------------------------------------------------------------------------
(***************************************************************************)
(* Properties                                                              *)
(***************************************************************************)
SlotStages == {"idle", "started", "mapped", "rcu", "refused", "sent", "ending"}

TypeOK ==
  /\ ControlTypeOK
  /\ spc \in [Slots -> SlotStages]
  /\ unique \in [Slots -> Idx \union {NoId}]
  /\ request_map \in [Idx -> Slots \union {NoReq}]
  /\ holders \in [Idx -> SUBSET Slots]
  /\ pending \in Seq(Slots) /\ processing \in Seq(Slots) /\ order \in Seq(Slots)
  /\ ends \subseteq [by : Threads \union {Worker, Sender}, req : Slots, uid : Idx,
                     err : Errors \union {"answer"}, called : BOOLEAN]
  /\ tpc \in [Threads -> {"run", "sleep", "copy", "found", "fill"}]
  /\ batch \in [Threads -> Seq(Slots)]
  /\ target \in [Threads -> Slots \union {NoReq}]
  /\ hands \subseteq Idx
  /\ wakes \in 0 .. MaxWakes
  /\ grace \subseteq Slots
  /\ load \in [Slots -> 0 .. 1]

NoRepeats(list) == \A j, k \in DOMAIN list : list[j] = list[k] => j = k

\* A request is on one list at most, once, and only while it is in flight:
\* the list_del of request_end, of a reply and of the abort never meet on
\* the same request.
ListsSound ==
  /\ NoRepeats(pending) /\ NoRepeats(processing)
  /\ On(pending) \intersect On(processing) = {}
  /\ \A s \in On(pending) \union On(processing) : spc[s] = "sent"

\* Each submitted IO is completed once: a request_end about to call back is
\* the only one for its tag, and finds the IO it was begun for.
CompletedOnce ==
  /\ \A e \in ends : ~e.called =>
       /\ spc[e.req] = "ending" /\ unique[e.req] = e.uid
       /\ \A f \in ends : (~f.called /\ f.req = e.req) => f = e
  /\ \A s \in Slots : load[s] = IF spc[s] = "idle" THEN 0 ELSE 1

InFlight == {s \in Slots : spc[s] \in SlotStages \ {"idle", "started"}}

\* The ids handed out are those of the requests in flight and of the
\* request_end calls that have still to return theirs, each once: an id is
\* neither leaked nor returned twice, although the tag may be in use again.
IdsAccounted ==
  /\ \A i \in Idx : holders[i] = {s \in InFlight : unique[s] = i}
                                  \union {e.req : e \in {f \in ends : f.uid = i}}
  /\ \A r, s \in InFlight : unique[r] = unique[s] => r = s
  /\ \A e, f \in ends : e.uid = f.uid => e = f
  /\ \A e \in ends, s \in InFlight : unique[s] = e.uid => e.req = s /\ ~e.called

\* What the daemon has read and not answered is in flight and is found by
\* its id: no reply is bounced with -ENOENT or reaches a finished request.
HandsFound ==
  \A u \in hands : RequestFind(u) # NoReq /\ spc[RequestFind(u)] = "sent"

\* The lists, the completions, the ids and the replies agree on every request,
\* whatever readers, replies, senders, restarts and the abort do in between.
RequestsSound == TypeOK /\ ListsSound /\ CompletedOnce /\ IdsAccounted /\ HandsFound

\* Requests are handed to the daemon in the order they were queued, and a
\* restarted daemon gets those of its predecessor before newer ones.
OrderKept ==
  LET handed == processing \o pending
      Pos(s) == CHOOSE k \in DOMAIN order : order[k] = s
  IN  \A j, k \in DOMAIN handed : j < k => Pos(handed[j]) < Pos(handed[k])

\* When the abort has run and no daemon is back, no request is left on a
\* list and none can still get there: a sender that found the connection
\* allowed was waited for.
AbortLeavesNothing ==
  (~connected /\ ~allow_disconnected /\ stage \in {"setup", "idle"}) =>
    /\ pending = <<>> /\ processing = <<>>
    /\ \A s \in Slots : spc[s] # "rcu"

\* While requests wait, some reader of the daemon is awake or about to be woken.
NoLostWake ==
  (SessionOpen /\ pending # <<>>) => (wakes > 0 \/ \E t \in Readers : tpc[t] # "sleep")

\* "The request is finished by calling request_end()" (dev.c:947): a request
\* in flight is on a list, in the hands of the daemon or being answered, so
\* that a reply, a restart or the abort can finish it.
NotStranded ==
  \A s \in Slots : spc[s] = "sent" =>
    \/ s \in On(pending) \union On(processing)
    \/ unique[s] \in hands
    \/ \E t \in Threads : target[t] = s

\* What the block layer sees of a tag: BlockIO's view.
Served(s) == spc[s] = "sent" /\ (unique[s] \in hands \/ \E t \in Threads : target[t] = s)
Completing(s, errs) == \E e \in ends : e.req = s /\ ~e.called /\ e.err \in errs

IOState == [s \in Slots |-> CASE load[s] = 0 -> "idle"
                              [] load[s] # 0 /\ Completing(s, {"answer"}) -> "answered"
                              [] load[s] # 0 /\ Completing(s, Errors) -> "failed"
                              [] OTHER -> IF Served(s) THEN "served" ELSE "queued"]

Abstract == INSTANCE BlockIO WITH st <- IOState

\* Accepted IO is completed once, answered only by a daemon that holds it
\* and failed by the kernel only while none does.
ImplementsBlockIO == Abstract!Spec

\* Every IO completes, provided the daemon in the end stays or stays away.
DaemonStays == SessionOpen
DaemonAway == \A p \in Openers : opc[p] = "closed"

IOCompletes ==
  (<>[]DaemonStays \/ <>[]DaemonAway) =>
    \A s \in Slots : (spc[s] # "idle") ~> (spc[s] = "idle")

================================================================================
