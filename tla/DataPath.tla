-------------------------------- MODULE DataPath -------------------------------
(***************************************************************************)
(* What the IOs of one device do to its data.  On the fast path a bio is   *)
(* carried out on a backing file (kiolib.c, with a variant for kernels     *)
(* before 4.8); on the slow path it becomes requests to the daemon, which  *)
(* may be split, and a write of zeroes may become a discard.  What has     *)
(* been written is volatile until it is flushed or written back; a crash   *)
(* of the machine loses the rest.                                          *)
(***************************************************************************)
EXTENDS Naturals, Sequences, FiniteSets

CONSTANTS
  NBlocks,     \* blocks of the device
  NIOs,        \* bound: IOs ever submitted
  Paths,       \* of {"file", "legacy", "daemon"}
  MaxCrashes   \* bound

ASSUME DataAssumption ==
  /\ {NBlocks, NIOs} \subseteq Nat \ {0} /\ MaxCrashes \in Nat
  /\ Paths \subseteq {"file", "legacy", "daemon"}

Blocks == 0 .. NBlocks - 1
Ids == 1 .. NIOs

VARIABLES
  path,        \* how this device is served
  sync,        \* pxd_dev->mode & O_SYNC
  detect,      \* pxd_detect_zero_writes, which can be changed at run time
  limit,       \* max_sectors of the queue, in blocks; 0 when bios are not split
  io,          \* per IO: the bio and how far it is
  pieces,      \* per IO: requests that the daemon has not answered
  vol, dur,    \* per block: its content in the page cache, and on the medium
  eof,         \* blocks in the backing file
  crashes,
  before,      \* history: per IO, the IOs that had ended when it was submitted
  base,        \* history: per IO, the writes acknowledged when it was submitted
  acked,       \* history: writes acknowledged since the last crash
  safe         \* history: writes that must survive a crash

conf == <<path, sync, detect, limit>>
store == <<vol, dur, eof>>
history == <<before, base, acked, safe>>
vars == <<conf, io, pieces, store, crashes, history>>

\* a content is its writer and what it wrote: "data", "zero", "torn" data, or
\* "shifted" data, which a part of an iovec array caused that ends inside a segment
Zero == <<0, "zero">>
NoData == [b \in Blocks |-> Zero]

Idle == [st |-> "none", op |-> "none", off |-> 0, len |-> 0, fl |-> {}, zs |-> {},
         k |-> 0, bad |-> FALSE, got |-> NoData, cut |-> FALSE]

Span(r) == r.off .. r.off + r.len - 1

\* The bios that are submitted: a flush carries no data.
Bios ==
  [op : {"read", "discard"}, off : Blocks, len : 1 .. NBlocks, fl : {{}}, zs : {{}}]
  \union [op : {"write"}, off : Blocks, len : 1 .. NBlocks, fl : {{}, {"pre"}, {"fua"}},
          zs : IF path = "daemon" THEN SUBSET Blocks ELSE {{}}]
  \union {[op |-> "flush", off |-> 0, len |-> 0, fl |-> {}, zs |-> {}]}

Init ==
  /\ path \in Paths
  /\ sync \in IF path = "daemon" THEN {FALSE} ELSE BOOLEAN
  /\ detect = FALSE
  /\ limit \in IF path = "daemon" THEN 0 .. NBlocks - 1 ELSE {0}
  /\ io = [i \in Ids |-> Idle] /\ pieces = [i \in Ids |-> {}]
  /\ vol = NoData /\ dur = NoData /\ eof \in IF path = "daemon" THEN {0} ELSE {0, NBlocks}
  /\ crashes = 0
  /\ before = [i \in Ids |-> {}] /\ base = [i \in Ids |-> {}]
  /\ acked = {} /\ safe = {}

Ended == {i \in Ids : io[i].st \in {"ok", "err", "gone"}}

\* a write that is acknowledged, and what its acknowledgement promises
Promise(i, r) ==
  (IF r.op = "flush" \/ "pre" \in r.fl THEN base[i] ELSE {})
  \union (IF r.op = "write" /\ ("fua" \in r.fl \/ sync) THEN {i} ELSE {})

\* IO i goes to r; history follows when it ends with success.
Goes(i, r) ==
  /\ io' = [io EXCEPT ![i] = r]
  /\ acked' = IF r.st = "ok" /\ r.op = "write" THEN acked \union {i} ELSE acked
  /\ safe' = IF r.st = "ok" THEN safe \union Promise(i, r) ELSE safe
  /\ UNCHANGED <<before, base>>

Fails(i) == Goes(i, [io[i] EXCEPT !.st = "err"])

\* Mutant: the data goes out before the flush on every kernel.
FlushFollowsAlways == TRUE

\* Before kernel 4.8 the flush of REQ_FLUSH follows the data.
FlushFollows == path = "legacy"

\* __do_bio_filebacked: a write with REQ_PREFLUSH is preceded by a flush.
FirstStep(b) ==
  CASE path = "daemon" -> "send"
    [] path # "daemon" /\ b.op = "flush" -> "flush"
    [] path # "daemon" /\ b.op = "write" /\ "pre" \in b.fl /\ ~FlushFollows -> "preflush"
    [] OTHER -> "data"

Submit(i, b) ==
  /\ io[i] = Idle /\ \A j \in 1 .. i - 1 : io[j] # Idle
  /\ b.off + b.len <= NBlocks /\ b.zs \subseteq Span(b)
  /\ io' = [io EXCEPT ![i] = [Idle EXCEPT !.st = FirstStep(b), !.op = b.op, !.off = b.off, !.len = b.len,
                                          !.fl = b.fl, !.zs = b.zs]]
  /\ before' = [before EXCEPT ![i] = Ended] /\ base' = [base EXCEPT ![i] = acked]
  /\ UNCHANGED <<conf, pieces, store, crashes, acked, safe>>

--------------------------------------------------------------------------------
(***************************************************************************)
(* A backing file                                                          *)
(***************************************************************************)

\* the step after the data of a write: REQ_FUA, and REQ_FLUSH before kernel 4.8
AfterData(r) ==
  IF "fua" \in r.fl \/ (FlushFollows /\ "pre" \in r.fl) THEN "flush" ELSE "ok"

\* _pxd_flush, nothing to do with O_SYNC.  An error leaves some blocks volatile.
Flush(i) ==
  /\ io[i].st \in {"preflush", "flush"}
  /\ \/ /\ dur' = IF sync THEN dur ELSE vol
        /\ Goes(i, [io[i] EXCEPT !.st = IF @ = "preflush" THEN "data" ELSE "ok"])
     \/ /\ ~sync
        /\ \E bs \in SUBSET Blocks : dur' = [b \in Blocks |-> IF b \in bs THEN vol[b] ELSE dur[b]]
        /\ Fails(i)
  /\ UNCHANGED <<conf, pieces, vol, eof, crashes>>

\* Mutant: a short write is not an error.
WriteShort(i) == Goes(i, [io[i] EXCEPT !.k = @ + 1, !.st = IF io[i].k + 1 = io[i].len THEN AfterData(io[i]) ELSE @])

\* _pxd_write: an error, or fewer bytes than asked, ends the bio with an error.
WriteFails(i) == Fails(i)

\* pxd_send, one segment at a time; a file opened with O_SYNC writes through.
WriteSegment(i) ==
  LET r == io[i]
      b == r.off + r.k
  IN /\ r.st = "data" /\ r.op = "write"
     /\ \/ /\ vol' = [vol EXCEPT ![b] = <<i, "data">>]
           /\ dur' = IF sync THEN [dur EXCEPT ![b] = <<i, "data">>] ELSE dur
           /\ eof' = IF b < eof THEN eof ELSE b + 1
           /\ Goes(i, [r EXCEPT !.k = @ + 1, !.st = IF r.k + 1 = r.len THEN AfterData(r) ELSE @])
        \/ WriteFails(i) /\ UNCHANGED store
     /\ UNCHANGED <<conf, pieces, crashes>>

\* Mutant: every segment is read from where the bio begins.
ReadPosStuck(r) == r.off

\* the file position, which _pxd_read advances
ReadPos(r) == r.off + r.k

\* zero_fill_bio clears the whole bio, what has been read before included.
ZeroFill(r) == [r EXCEPT !.st = "ok", !.cut = TRUE, !.got = NoData]

\* pxd_receive, one segment at a time
ReadSegment(i) ==
  LET r == io[i]
      b == r.off + r.k
  IN /\ r.st = "data" /\ r.op = "read"
     /\ \/ b < eof /\ Goes(i, [r EXCEPT !.k = @ + 1, !.got[b] = vol[ReadPos(r)], !.st = IF r.k + 1 = r.len THEN "ok" ELSE @])
        \/ b >= eof /\ Goes(i, ZeroFill(r))
        \/ Fails(i)
     /\ UNCHANGED <<conf, pieces, store, crashes>>

\* _pxd_bio_discard punches a hole; a file system that cannot is no error.  No
\* REQ_OP_WRITE_ZEROES arrives: the queue's limit for it is zero.
Discard(i) ==
  LET r == io[i]
  IN /\ r.st = "data" /\ r.op = "discard"
     /\ \/ vol' = [b \in Blocks |-> IF b \in Span(r) THEN <<i, "zero">> ELSE vol[b]] /\ Goes(i, [r EXCEPT !.st = "ok"])
        \/ UNCHANGED vol /\ Goes(i, [r EXCEPT !.st = "ok"])
        \/ UNCHANGED vol /\ Fails(i)
     /\ UNCHANGED <<conf, pieces, dur, eof, crashes>>

--------------------------------------------------------------------------------
(***************************************************************************)
(* The daemon                                                              *)
(***************************************************************************)

\* pxd_handle_device_limits: bio_split cuts pieces of max_sectors off the head;
\* what remains is the request itself.
Tiles(r) ==
  LET n == IF limit = 0 \/ r.len <= limit THEN 0 ELSE (r.len - 1) \div limit
  IN {[off |-> r.off + k * limit, len |-> limit, last |-> FALSE] : k \in 0 .. n - 1}
     \union {[off |-> r.off + n * limit, len |-> r.len - n * limit, last |-> TRUE]}

\* pxd_detect_zero_writes is a writable module parameter; files do not look at it.
DetectStore ==
  /\ path = "daemon" /\ detect' = ~detect
  /\ UNCHANGED <<path, sync, limit, io, pieces, store, crashes, history>>

\* Mutant: the flag of a FUA write is not translated.
ReqMiscNoFua(op, fl) == "pre" \in fl

\* pxd_req_misc: whether the request has one of PXD_FLAGS_SYNC; both flags become
\* PXD_FLAGS_FLUSH, before kernel 4.8 one of them PXD_FLAGS_FUA.  pxd_request
\* makes a flush a write of no bytes with REQ_FUA.
ReqMisc(op, fl) == fl # {} \/ op = "flush"

\* fuse_convert_zero_writes: a write becomes a discard when every segment is zero.
Convert(t, r) == detect /\ r.op = "write" /\ Span(t) \subseteq r.zs

\* pxd_request for one piece of a bio
Request(t, r) ==
  [off |-> t.off, len |-> t.len, flush |-> ReqMisc(r.op, r.fl),
   op |-> IF Convert(t, r) THEN "discard" ELSE IF r.op = "flush" THEN "write" ELSE r.op]

\* The bio is sent; a split that fails to allocate leaves out what follows it.
Send(i) ==
  LET r == io[i]
      ts == Tiles(r)
  IN /\ r.st = "send"
     /\ \/ /\ pieces' = [pieces EXCEPT ![i] = {Request(t, r) : t \in ts}]
           /\ Goes(i, [r EXCEPT !.st = "sent"])
        \/ \E t \in ts :
             LET sent == {u \in ts : u.off < t.off}
             IN /\ Cardinality(ts) > 1
                /\ pieces' = [pieces EXCEPT ![i] = {Request(u, r) : u \in sent}]
                /\ Goes(i, [r EXCEPT !.st = IF sent = {} THEN "err" ELSE "sent", !.bad = TRUE])
     /\ UNCHANGED <<conf, store, crashes>>

--------------------------------------------------------------------------------
(* The daemon fetches the data of a write with PXD_READ_DATA, in units of half a block. *)

Unit == 2

\* what the memory behind a segment has, no unit of the request
Junk == NBlocks * Unit

\* the state of a copy: units already skipped, room in the current iovecs, the
\* iovecs not copied in yet, the units that were copied, and whether it goes on
Copying(off, skipped, room, more, out, st) ==
  [off |-> off, skipped |-> skipped, room |-> room, more |-> more, out |-> out, st |-> st]

Start(off, parts) == Copying(off, 0, Head(parts), Tail(parts), <<>>, "copy")

Units(first, n) == [k \in 1 .. n |-> first + k - 1]
Junks(n) == [k \in 1 .. n |-> Junk]

\* what of the next segment comes before the offset that was asked for
Skip(c) ==
  IF c.skipped >= c.off THEN 0 ELSE IF c.off - c.skipped < Unit THEN c.off - c.skipped ELSE Unit

\* Mutant: a segment that is skipped in part is copied from its beginning.
CopySegmentWhole(c, s) ==
  LET skip == Skip(c)
      len == Unit - skip
      n == IF c.room < len THEN c.room ELSE len
  IN IF c.st # "copy" THEN c
     ELSE [c EXCEPT !.skipped = @ + skip, !.room = @ - n, !.out = @ \o Units(s * Unit, n),
                    !.st = IF n = len THEN "copy" ELSE IF c.more = <<>> THEN "done" ELSE "fault"]

\* __fuse_notify_read_data, one segment of a request that starts on a logical
\* block.  Out of room, it stops when no iovec is left; else it takes more of
\* them and copies len units, not len - n, from where the first copy ended: the
\* last n lie behind the segment.  When they do not fit, or the kernel refuses
\* to leave the page, it fails.
CopySegment(c, s) ==
  LET skip == Skip(c)
      first == s * Unit + skip
      len == Unit - skip
      n == IF c.room < len THEN c.room ELSE len
      out == c.out \o Units(first, n)
      Onward(room, more, all, st) == Copying(c.off, c.skipped + skip, room, more, all, st)
  IN CASE c.st # "copy" -> c
       [] c.st = "copy" /\ n = len -> Onward(c.room - n, c.more, out, "copy")
       [] c.st = "copy" /\ n < len /\ c.more = <<>> -> Onward(c.room - n, c.more, out, "done")
       [] c.st = "copy" /\ n < len /\ c.more # <<>> ->
            IF Head(c.more) < len THEN Onward(c.room - n, c.more, out, "fault")
            ELSE Onward(Head(c.more) - len, Tail(c.more), (out \o Units(first + n, len - n)) \o Junks(n), "copy")

\* one PXD_READ_DATA for n segments, and what it has copied after each of them
Copies(n, off, parts) ==
  LET copy[k \in 0 .. n] == IF k = 0 THEN Start(off, parts) ELSE CopySegment(copy[k - 1], k - 1)
  IN copy

\* The iovecs of a call are copied in at once or, when there are more than
\* IOV_BUF_SIZE, in parts (two of them here) of any lengths.
Parts(size) == {<<size>>} \union {<<p, size - p>> : p \in 1 .. size - 1}

\* a part ends inside a segment, and another follows
Midway(off, parts) == Tail(parts) # <<>> /\ (off + Head(parts)) % Unit # 0

\* what a call for size units from off on gets, unless it fails
Calls(n, off, size) ==
  {[data |-> Copies(n, off, ps)[n].out, mid |-> Midway(off, ps)] :
     ps \in {q \in Parts(size) : Copies(n, off, q)[n].st # "fault"}}

\* two calls, the second of which goes on where the first ended
Both(f, g) == [data |-> f.data \o g.data, mid |-> f.mid \/ g.mid]
TwoCalls(n, cut) == {Both(fg[1], fg[2]) : fg \in Calls(n, 0, cut) \X Calls(n, cut, n * Unit - cut)}

\* What the daemon has after it fetched n segments, in one call or in two.
Fetched ==
  [n \in 1 .. NBlocks |->
     Calls(n, 0, n * Unit) \union UNION {TwoCalls(n, cut) : cut \in 1 .. n * Unit - 1}]

NoFetch == [data |-> <<>>, mid |-> FALSE]

\* what the daemon writes to block b for request p of IO i, when it fetched f
Written(i, p, f, b) ==
  LET k == (b - p.off) * Unit
  IN CASE p.op = "discard" -> <<i, "zero">>
       [] p.op # "discard" /\ SubSeq(f.data, k + 1, k + Unit) = Units(k, Unit) ->
            <<i, IF b \in io[i].zs THEN "zero" ELSE "data">>
       [] OTHER -> <<i, IF f.mid THEN "shifted" ELSE "torn">>

\* What is on the medium after the daemon has made v of the device: an
\* assumption on the daemon, that PXD_FLAGS_SYNC makes all of it durable.
DaemonKeeps(p, v) == IF p.flush THEN v ELSE dur

\* fuse_dev_do_read looks for zeroes again when the daemon reads the request, but
\* not in one with PXD_FLAGS_SYNC.
AsRead(p, r) ==
  IF detect /\ p.op = "write" /\ p.len > 0 /\ ~p.flush /\ Span(p) \subseteq r.zs
  THEN [p EXCEPT !.op = "discard"] ELSE p

\* The daemon reads request q of IO i and carries it out.  The last answer ends
\* the bio, with the error of any piece.
Serve(i, q) ==
  LET r == io[i]
      p == AsRead(q, r)
      left == pieces[i] \ {q}
      EndsWith(bad, got) ==
        Goes(i, [r EXCEPT !.bad = bad, !.got = got, !.st = IF left # {} THEN @ ELSE IF bad THEN "err" ELSE "ok"])
  IN /\ q \in pieces[i]
     /\ pieces' = [pieces EXCEPT ![i] = left]
     /\ \/ /\ p.op = "read" /\ UNCHANGED <<vol, dur>>
           /\ EndsWith(r.bad, [b \in Blocks |-> IF b \in Span(p) THEN vol[b] ELSE r.got[b]])
        \/ /\ p.op # "read"
           /\ \E f \in IF p.op = "write" /\ p.len > 0 THEN Fetched[p.len] ELSE {NoFetch} :
                vol' = [b \in Blocks |-> IF b \in Span(p) THEN Written(i, p, f, b) ELSE vol[b]]
           /\ dur' = DaemonKeeps(p, vol')
           /\ EndsWith(r.bad, r.got)
        \/ UNCHANGED <<vol, dur>> /\ EndsWith(TRUE, r.got)
     /\ UNCHANGED <<conf, eof, crashes>>

--------------------------------------------------------------------------------
(***************************************************************************)
(* The machine                                                             *)
(***************************************************************************)

Writeback(b) ==
  /\ dur[b] # vol[b] /\ dur' = [dur EXCEPT ![b] = vol[b]]
  /\ UNCHANGED <<conf, io, pieces, vol, eof, crashes, history>>

\* A crash loses what is volatile and the IOs under way; what is safe is still
\* acknowledged to those who ask afterwards.
Crash ==
  /\ crashes < MaxCrashes /\ crashes' = crashes + 1
  /\ vol' = dur /\ acked' = safe
  /\ io' = [i \in Ids |-> IF io[i] = Idle \/ i \in Ended THEN io[i] ELSE [io[i] EXCEPT !.st = "gone"]]
  /\ pieces' = [i \in Ids |-> {}]
  /\ UNCHANGED <<conf, dur, eof, before, base, safe>>

Next ==
  \/ \E i \in Ids : \E b \in Bios : Submit(i, b)
  \/ \E i \in Ids : Flush(i) \/ WriteSegment(i) \/ ReadSegment(i) \/ Discard(i) \/ Send(i)
  \/ \E i \in Ids : \E q \in pieces[i] : Serve(i, q)
  \/ DetectStore
  \/ \E b \in Blocks : Writeback(b)
  \/ Crash

Spec == Init /\ [][Next]_vars

--------------------------------------------------------------------------------
(***************************************************************************)
(* Properties                                                              *)
(***************************************************************************)

Contents == (0 .. NIOs) \X {"data", "zero", "torn", "shifted"}

\* Types: a bio never goes beyond the device, its file or its own segments
\* (kiolib.c, pxd_handle_device_limits).
TypeOK ==
  /\ vol \in [Blocks -> Contents] /\ dur \in [Blocks -> Contents] /\ eof \in 0 .. NBlocks
  /\ \A i \in Ids :
       /\ io[i].st \in {"none", "preflush", "data", "flush", "send", "sent", "ok", "err", "gone"}
       /\ io[i].k \in 0 .. io[i].len
       /\ \A p \in pieces[i] : p.len <= io[i].len /\ Span(p) \subseteq Span(io[i])
       /\ pieces[i] # {} => io[i].st = "sent"
  /\ safe \subseteq Ids /\ acked \subseteq Ids

\* storage s has, for each block of write w, w or something newer
NotOlder(s, w) == \A b \in Span(io[w]) : s[b][1] \notin before[w] \union {0}

\* A write that was acknowledged before a flush was submitted, a FUA write and a
\* write to an O_SYNC file survive every crash once the flush, or the write, has
\* been acknowledged (_pxd_flush, REQ_FUA and O_SYNC; PXD_FLAGS_FLUSH).
FlushDurable == \A w \in safe : NotOlder(dur, w)

\* the medium has part of w only if it has all that was acknowledged before w
After(w) == (\E b \in Blocks : dur[b][1] = w) => \A u \in base[w] : NotOlder(dur, u)

\* No part of a write with REQ_PREFLUSH is on the medium while a write that was
\* acknowledged before it is not: a journal commits in that order.  The variant
\* for kernels before 4.8 flushes after the data and does not give this.
PreflushOrder == path # "legacy" => \A w \in Ids : "pre" \in io[w].fl => After(w)

\* The same of every variant: "Before any newer writes happen, make sure previous
\* write/sync complete" (kiolib.c:294).  It does not hold: see Data_legacy.cfg.
PreflushAlways == \A w \in Ids : "pre" \in io[w].fl => After(w)

\* An acknowledged write is what a later read gets, whole: no segment of it was
\* skipped, written short or cut out by the split of a bio (pxd_send,
\* pxd_handle_device_limits).
AckedVisible == \A w \in acked : NotOlder(vol, w)

\* The device holds what the bios carried: a write becomes a discard only when
\* all of it is zero, at both places that look for it, and the daemon fetches
\* each byte of a write once and in place, whatever it asks for in one call or in
\* two (fuse_convert_zero_writes, __fuse_notify_read_data).  The exception is a
\* part of a long iovec array that ends inside a segment.
ContentRight ==
  \A b \in Blocks :
    LET w == vol[b][1]
    IN w # 0 => vol[b][2] \in {IF io[w].op = "discard" \/ b \in io[w].zs THEN "zero" ELSE "data", "shifted"}

\* The same without the exception: "out of space in destination, copy more iovec"
\* (dev.c:681) is to go on where the copy stopped.  It does not: see Data_iovecs.cfg.
IovecsContinue == \A b \in Blocks : vol[b][2] # "shifted"

\* No bio reaches beyond its blocks, and the blocks hold what the bios carried.
StorageSound == TypeOK /\ ContentRight

\* read i got nothing older than the writes acknowledged before it was submitted
GotNew(i) ==
  \A w \in base[i] : \A b \in Span(io[w]) \intersect Span(io[i]) : io[i].got[b][1] \notin before[w] \union {0}

\* A read that succeeded and did not meet the end of the file has nothing older
\* than the writes acknowledged before it was submitted, whatever overlaps it and
\* however it was cut into segments or requests (pxd_receive, the daemon).
ReadsLatest ==
  \A i \in Ids : io[i].st = "ok" /\ io[i].op = "read" /\ ~io[i].cut => GotNew(i)

\* The same of every read that succeeded: each segment is to have what _pxd_read
\* did, "read from file at offset pos into the buffer" (kiolib.c:139).  It does not
\* hold: see Data_eof.cfg.
ReadsWhole == \A i \in Ids : io[i].st = "ok" /\ io[i].op = "read" => GotNew(i)

================================================================================
