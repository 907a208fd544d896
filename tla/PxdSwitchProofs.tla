---------------------------- MODULE PxdSwitchProofs ----------------------------
(***************************************************************************)
(* For any number of IOs and of controller threads: a failed IO never      *)
(* waits on failQ with nobody to serve it, the suspend count is what its   *)
(* holders hold, the gate follows the count, and the path and the files    *)
(* change only behind a closed gate.                                       *)
(***************************************************************************)
EXTENDS PxdSwitch, Counting, SequenceTheorems, FunctionTheorems, TLAPS

\* all the steps
Steps ==
  {"abort", "app_resume", "check", "claim", "claim_fallback", "clear_app", "clear_switch", "close", "close_files",
   "dec", "disable", "enable", "failover", "fast_off", "flush", "freeze", "inc", "left", "no_files", "open", "open_files", "reissue",
   "release", "release_all", "reset_switch", "send_failover", "send_fallback", "set_paths", "synced", "take",
   "thaw"}

\* step is among the steps s
Has(s, step) == \E k \in DOMAIN s : s[k] = step

\* The work that fails an IO over ends in one of four ways, and when it is
\* going to clear the switch it aborts failQ afterwards.
Ends == {"failover", "claim", "send_failover", "abort"}
IOShape(s) ==
  s # <<>> => /\ s[Len(s)] \in Ends
              /\ \A k \in 1 .. Len(s) - 1 : s[k] \notin Ends /\ (s[k] = "clear_switch" => s[Len(s)] = "abort")

\* Somebody will take or abort the failed IOs.  A failover that a controller has
\* still to begin is not enough: it does nothing off the fast path.
SomeoneServes ==
  \/ \E i \in IOs : Has(todo[i], "failover") \/ Has(todo[i], "claim")
  \/ \E t \in Threads : Has(todo[t], "take") \/ Has(todo[t], "abort")

SwitchInv ==
  /\ todo \in [Threads -> Seq(Steps)]
  /\ ioswitch_active \in {0, 1} /\ dropped \in BOOLEAN /\ active_failover \in BOOLEAN
  /\ active_failover => failQ # {}
  /\ \A i \in IOs : IOShape(todo[i])
  /\ failQ # {} /\ ~dropped => ioswitch_active = 1 \/ SomeoneServes

--------------------------------------------------------------------------------
\* What is left of the steps s after the first, with steps in front.
LEMMA Pushed ==
  ASSUME NEW s \in Seq(Steps), s # <<>>, NEW steps \in Seq(Steps)
  PROVE  /\ steps \o Tail(s) \in Seq(Steps)
         /\ \A x : Has(s, x) /\ x # Head(s) => Has(steps \o Tail(s), x)
         /\ \A x : Has(steps, x) => Has(steps \o Tail(s), x)
<1> DEFINE r == steps \o Tail(s)
<1>1. r \in Seq(Steps) /\ Len(r) = Len(steps) + (Len(s) - 1) /\ Len(s) \in Nat \ {0} /\ Len(steps) \in Nat
  OBVIOUS
<1>2. \A k \in 2 .. Len(s) : Len(steps) + k - 1 \in DOMAIN r /\ r[Len(steps) + k - 1] = s[k]
  OBVIOUS
<1>3. \A k \in DOMAIN steps : k \in DOMAIN r /\ r[k] = steps[k]
  OBVIOUS
<1>4. \A k \in DOMAIN s : k = 1 \/ k \in 2 .. Len(s)
  OBVIOUS
<1>5. Head(s) = s[1]
  OBVIOUS
<1> HIDE DEF r
<1>6. ASSUME NEW x, Has(s, x), x # Head(s) PROVE Has(r, x)
  BY <1>2, <1>4, <1>5, <1>6 DEF Has
<1>7. ASSUME NEW x, Has(steps, x) PROVE Has(r, x)
  BY <1>3, <1>7 DEF Has
<1> QED BY <1>1, <1>6, <1>7 DEF r

LEMMA AtLeastTwo ==
  ASSUME NEW n \in Nat, n # 0, n # 1, NEW m \in Nat
  PROVE  1 \in 1 .. n - 1 /\ n \in 2 .. n /\ m + (n - 1) \in Nat \ {0}
  OBVIOUS

\* A step that is not one of the last keeps the shape.
LEMMA ShapeKept ==
  ASSUME NEW s \in Seq(Steps), s # <<>>, IOShape(s), Head(s) \notin Ends, NEW steps \in Seq(Steps),
         \A k \in DOMAIN steps : steps[k] \notin Ends \union {"clear_switch"}
  PROVE  IOShape(steps \o Tail(s)) /\ (Head(s) = "clear_switch" => Has(steps \o Tail(s), "abort"))
<1> DEFINE r == steps \o Tail(s)
<1>0. Len(s) \in Nat /\ Len(s) # 0 /\ Len(steps) \in Nat
  OBVIOUS
<1>1. Head(s) = s[1] /\ s[Len(s)] \in Ends
  BY DEF IOShape
<1>2. Len(s) # 1
  BY <1>1
<1>3. r \in Seq(Steps) /\ Len(r) = Len(steps) + (Len(s) - 1) 
  OBVIOUS
<1>4. \A k \in 2 .. Len(s) : r[Len(steps) + k - 1] = s[k]
  OBVIOUS
<1>5. \A k \in DOMAIN steps : r[k] = steps[k]
  OBVIOUS
<1>6. Len(s) \in 2 .. Len(s) /\ Len(r) = Len(steps) + Len(s) - 1
  BY <1>0, <1>2, <1>3, AtLeastTwo
<1>7. r[Len(r)] = s[Len(s)]
  BY <1>4, <1>6
<1>8. ASSUME NEW k \in 1 .. Len(r) - 1
      PROVE  r[k] \notin Ends /\ (r[k] = "clear_switch" => s[Len(s)] = "abort")
  <2>1. CASE k <= Len(steps)
    <3>1. k \in DOMAIN steps
      BY <2>1
    <3> QED BY <1>5, <3>1
  <2>2. CASE ~(k <= Len(steps))
    <3> DEFINE m == k - Len(steps) + 1
    <3>1. m \in 2 .. Len(s) /\ m \in 1 .. Len(s) - 1 /\ k = Len(steps) + m - 1
      BY ONLY <1>0, <1>6, <2>2, k \in 1 .. Len(r) - 1
    <3> HIDE DEF m
    <3>2. r[k] = s[m]
      BY <1>4, <3>1
    <3> QED BY <3>1, <3>2 DEF IOShape
  <2> QED BY <2>1, <2>2
<1>9. Head(s) = "clear_switch" => s[Len(s)] = "abort"
  <2>1. 1 \in 1 .. Len(s) - 1
    BY <1>0, <1>2, AtLeastTwo
  <2> QED BY <1>1, <2>1 DEF IOShape
<1>10. Len(r) \in DOMAIN r
  <2>1. Len(steps) + (Len(s) - 1) \in Nat \ {0}
    BY <1>0, <1>2, AtLeastTwo
  <2>2. Len(r) \in Nat /\ Len(r) # 0
    BY <1>3, <2>1
  <2>3. DOMAIN r = 1 .. Len(r)
    BY <1>3
  <2> HIDE DEF r
  <2> QED BY <2>2, <2>3
<1> HIDE DEF r
<1> QED BY <1>1, <1>7, <1>8, <1>9, <1>10 DEF IOShape, Has, r

\* A last step is the last.
LEMMA ShapeEnds ==
  ASSUME NEW s \in Seq(Steps), s # <<>>, IOShape(s), Head(s) \in Ends, NEW steps \in Seq(Steps)
  PROVE  steps \o Tail(s) = steps
<1>0. Len(s) \in Nat /\ Len(s) # 0
  OBVIOUS
<1>1. Head(s) = s[1]
  OBVIOUS
<1>2. Len(s) = 1
  <2>1. SUFFICES ASSUME Len(s) # 1 PROVE FALSE
    OBVIOUS
  <2>2. 1 \in 1 .. Len(s) - 1
    BY <1>0, <2>1, AtLeastTwo
  <2> QED BY <1>1, <2>2 DEF IOShape
<1>3. Tail(s) \in Seq(Steps) /\ Len(Tail(s)) = 0
  BY <1>2
<1>4. Tail(s) = <<>>
  BY <1>3, EmptySeq
<1> QED BY <1>4, ConcatEmptySeq

\* What Do does to the steps of a thread, and leaves of the others.
LEMMA DoSteps ==
  ASSUME SwitchInv, NEW t \in Threads, NEW step, NEW steps \in Seq(Steps), Do(t, step, steps)
  PROVE  /\ todo' \in [Threads -> Seq(Steps)]
         /\ todo[t] \in Seq(Steps) /\ todo[t] # <<>> /\ Head(todo[t]) = step /\ todo'[t] = steps \o Tail(todo[t])
         /\ \A u \in Threads \ {t} : todo'[u] = todo[u]
         /\ \A u \in Threads : \A x : Has(todo[u], x) /\ (u = t => x # step) => Has(todo'[u], x)
         /\ \A x : Has(steps, x) => Has(todo'[t], x)
<1>1. /\ todo \in [Threads -> Seq(Steps)] /\ todo[t] \in Seq(Steps) /\ todo[t] # <<>> /\ Head(todo[t]) = step
      /\ todo' = [todo EXCEPT ![t] = steps \o Tail(todo[t])]
  BY DEF SwitchInv, Do
<1>2. steps \o Tail(todo[t]) \in Seq(Steps)
  BY <1>1, Pushed
<1>3. todo' \in [Threads -> Seq(Steps)] /\ todo'[t] = steps \o Tail(todo[t]) /\ \A u \in Threads \ {t} : todo'[u] = todo[u]
  BY <1>1, <1>2
<1>4. ASSUME NEW u \in Threads, NEW x, Has(todo[u], x), u = t => x # step PROVE Has(todo'[u], x)
  BY <1>1, <1>3, <1>4, Pushed
<1>5. \A x : Has(steps, x) => Has(todo'[t], x)
  BY <1>1, <1>3, Pushed
<1> QED BY <1>1, <1>3, <1>4, <1>5

LEMMA SwitchInitial == Init => SwitchInv
<1> SUFFICES ASSUME Init PROVE SwitchInv
  OBVIOUS
<1>1. todo = [t \in Threads |-> <<>>] /\ IOs \subseteq Threads
  BY DEF Init, Threads
<1>2. todo \in [Threads -> Seq(Steps)]
  BY <1>1
<1>3. \A i \in IOs : todo[i] = <<>>
  BY <1>1
<1> QED BY <1>2, <1>3 DEF Init, SwitchInv, IOShape

\* A step that is not a failover and does not empty failQ, and leaves the switch
\* and failQ alone.
LEMMA QuietStep ==
  ASSUME SwitchInv, NEW t \in Threads, NEW step, NEW steps \in Seq(Steps), Do(t, step, steps),
         step \notin {"failover", "claim", "take", "abort"}, t \in IOs => IOShape(todo'[t]),
         UNCHANGED <<failQ, ioswitch_active, dropped>>,
         active_failover' \in BOOLEAN, active_failover' => active_failover
  PROVE  SwitchInv'
<1>1. todo' \in [Threads -> Seq(Steps)] /\ \A i \in IOs : IOShape(todo'[i])
  BY DoSteps DEF SwitchInv, Threads
<1>2. \A u \in Threads : \A x : Has(todo[u], x) /\ (u = t => x # step) => Has(todo'[u], x)
  BY DoSteps
<1>3. SomeoneServes => SomeoneServes'
  <2>1. \A u \in Threads, x \in {"failover", "claim", "take", "abort"} : Has(todo[u], x) => Has(todo'[u], x)
    BY <1>2
  <2> QED BY <2>1 DEF SomeoneServes, Threads
<1> QED BY <1>1, <1>3 DEF SwitchInv

\* The same for a step that any thread may take: what it puts in front is none of
\* what the work of an IO may end with.
LEMMA PlainStep ==
  ASSUME SwitchInv, NEW t \in Threads, NEW step, NEW steps \in Seq(Steps), Do(t, step, steps),
         step \notin Ends \union {"take"}, \A k \in DOMAIN steps : steps[k] \notin Ends \union {"clear_switch"},
         UNCHANGED <<failQ, ioswitch_active, dropped>>,
         active_failover' \in BOOLEAN, active_failover' => active_failover
  PROVE  SwitchInv'
<1>1. t \in IOs => IOShape(todo'[t])
  <2>1. todo[t] \in Seq(Steps) /\ todo[t] # <<>> /\ Head(todo[t]) = step /\ todo'[t] = steps \o Tail(todo[t])
    BY DoSteps
  <2>2. t \in IOs => IOShape(todo[t])
    BY DEF SwitchInv
  <2> QED BY <2>1, <2>2, ShapeKept
<1>2. step \notin {"failover", "claim", "take", "abort"}
  BY DEF Ends
<1> QED BY <1>1, <1>2, QuietStep

\* An operation that begins.
LEMMA BeginKeeps ==
  ASSUME SwitchInv, NEW c \in Ctl, NEW steps \in Seq(Steps), Start(c, steps),
         UNCHANGED <<failQ, active_failover>>, ioswitch_active' \in {0, 1}, dropped' \in BOOLEAN, dropped => dropped',
         ioswitch_active = 1 /\ ioswitch_active' # 1 /\ failQ # {} => dropped' \/ Has(steps, "take")
  PROVE  SwitchInv'
<1>1. c \in Threads /\ c \notin IOs /\ IOs \subseteq Threads
  BY SwitchAssumption DEF Threads
<1>2. /\ todo \in [Threads -> Seq(Steps)] /\ todo' = [todo EXCEPT ![c] = steps] /\ todo[c] = <<>>
  BY DEF SwitchInv, Start
<1>3. todo' \in [Threads -> Seq(Steps)] /\ todo'[c] = steps /\ \A u \in Threads \ {c} : todo'[u] = todo[u]
  BY <1>1, <1>2
<1>4. \A i \in IOs : IOShape(todo'[i])
  BY <1>1, <1>3 DEF SwitchInv
<1>5. \A x : ~Has(todo[c], x)
  BY <1>2 DEF Has
<1>6. SomeoneServes => SomeoneServes'
  BY <1>1, <1>3, <1>5 DEF SomeoneServes
<1>7. Has(steps, "take") => SomeoneServes'
  BY <1>1, <1>3 DEF SomeoneServes
<1> QED BY <1>3, <1>4, <1>6, <1>7 DEF SwitchInv

--------------------------------------------------------------------------------
\* the steps that are nothing special to the work of an IO
Common == Steps \ (Ends \union {"clear_switch"})
Plain(steps) == steps \in Seq(Common)

LEMMA PlainIsSteps ==
  ASSUME NEW steps, Plain(steps)
  PROVE  steps \in Seq(Steps) /\ \A k \in DOMAIN steps : steps[k] \notin Ends \union {"clear_switch"}
<1>1. Common \subseteq Steps /\ \A x \in Common : x \notin Ends \union {"clear_switch"}
  BY DEF Common
<1>2. steps \in Seq(Steps)
  BY <1>1 DEF Plain
<1>3. \A k \in DOMAIN steps : steps[k] \in Common
  BY DEF Plain
<1> QED BY <1>1, <1>2, <1>3

LEMMA Tuples ==
  ASSUME NEW S, NEW a \in S, NEW b \in S, NEW c \in S, NEW d \in S, NEW e \in S
  PROVE  /\ <<>> \in Seq(S) /\ <<a>> \in Seq(S) /\ <<a, b>> \in Seq(S) /\ <<a, b, c>> \in Seq(S)
         /\ <<a, b, c, d>> \in Seq(S) /\ <<a, b, c, d, e>> \in Seq(S)
  OBVIOUS

LEMMA Joined ==
  ASSUME NEW S, NEW a \in S, NEW b \in S, NEW c \in S
  PROVE  <<a>> \o <<b>> = <<a, b>> /\ <<a, b>> \o <<c>> = <<a, b, c>>
<1>1. /\ <<a>> \in Seq(S) /\ <<b>> \in Seq(S) /\ <<c>> \in Seq(S) /\ <<a, b>> \in Seq(S) /\ <<a, b, c>> \in Seq(S)
  OBVIOUS
<1>2. ASSUME NEW s \in Seq(S), NEW t \in Seq(S), Len(t) = Len(s) + 1, NEW x \in S, t[Len(t)] = x,
             \A k \in 1 .. Len(s) : t[k] = s[k]
      PROVE  s \o <<x>> = t
  <2>1. <<x>> \in Seq(S) /\ Len(<<x>>) = 1 /\ <<x>>[1] = x
    OBVIOUS
  <2>2. s \o <<x>> \in Seq(S) /\ Len(s \o <<x>>) = Len(t)
    BY <1>2, <2>1
  <2>3. \A k \in 1 .. Len(s \o <<x>>) : (s \o <<x>>)[k] = t[k]
    BY <1>2, <2>1
  <2> QED BY <2>2, <2>3, SeqEqual
<1>3. <<a>> \o <<b>> = <<a, b>>
  <2> DEFINE s == <<a>>
             t == <<a, b>>
  <2>1. s \in Seq(S) /\ t \in Seq(S) /\ Len(t) = Len(s) + 1 /\ t[Len(t)] = b
    BY <1>1
  <2>2. \A k \in 1 .. Len(s) : t[k] = s[k]
    OBVIOUS
  <2> HIDE DEF s, t
  <2>3. s \o <<b>> = t
    BY <1>2, <2>1, <2>2
  <2> QED BY <2>3 DEF s, t
<1>4. <<a, b>> \o <<c>> = <<a, b, c>>
  <2> DEFINE s == <<a, b>>
             t == <<a, b, c>>
  <2>1. s \in Seq(S) /\ t \in Seq(S) /\ Len(t) = Len(s) + 1 /\ t[Len(t)] = c
    BY <1>1
  <2>2. \A k \in 1 .. Len(s) : t[k] = s[k]
    OBVIOUS
  <2> HIDE DEF s, t
  <2>3. s \o <<c>> = t
    BY <1>2, <2>1, <2>2
  <2> QED BY <2>3 DEF s, t
<1> QED BY <1>3, <1>4

LEMMA PlainSteps ==
  /\ Plain(<<>>) /\ Plain(<<"close">>) /\ Plain(<<"freeze">>) /\ Plain(<<"open">>) /\ Plain(<<"thaw">>)
  /\ Plain(<<"dec">>) /\ Plain(<<"inc", "flush", "close_files", "fast_off", "dec">>)
  /\ Plain(<<"dec", "clear_app">>) /\ Plain(<<"inc", "open_files">>)
  /\ Plain(<<"disable", "no_files">>) /\ Plain(<<"release", "release_all">>)
<1>1. {"close", "freeze", "open", "thaw", "dec", "inc", "flush", "close_files", "fast_off", "clear_app", "open_files",
       "disable", "no_files", "release", "release_all"} \subseteq Common
  BY DEF Common, Steps, Ends
<1> QED BY <1>1, Tuples DEF Plain

LEMMA GateSteps ==
  ASSUME SwitchInv, NEW t \in Threads,
         Inc(t) \/ Close(t) \/ Freeze(t) \/ Dec(t) \/ Open(t) \/ Thaw(t) \/ Release(t) \/ AppResume(t)
  PROVE  SwitchInv'
<1>1. PICK step, steps : /\ Do(t, step, steps) /\ Plain(steps) /\ UNCHANGED <<failQ, ioswitch_active, dropped, active_failover>>
                         /\ step \in {"inc", "close", "freeze", "dec", "open", "thaw", "release", "app_resume"}
  <2>1. CASE Inc(t)
    BY <2>1, PlainSteps DEF Inc, fail_vars, switch_vars
  <2>2. CASE Close(t)
    BY <2>2, PlainSteps DEF Close, fail_vars, switch_vars, history
  <2>3. CASE Freeze(t)
    BY <2>3, PlainSteps DEF Freeze, fail_vars, switch_vars, history
  <2>4. CASE Dec(t)
    BY <2>4, PlainSteps DEF Dec, fail_vars, switch_vars, history
  <2>5. CASE Open(t)
    BY <2>5, PlainSteps DEF Open, fail_vars, switch_vars, history
  <2>6. CASE Thaw(t)
    BY <2>6, PlainSteps DEF Thaw, fail_vars, switch_vars, history
  <2>7. CASE Release(t)
    BY <2>7, PlainSteps DEF Release, fail_vars, switch_vars
  <2>8. CASE AppResume(t)
    BY <2>8, PlainSteps DEF AppResume, fail_vars
  <2> QED BY <2>1, <2>2, <2>3, <2>4, <2>5, <2>6, <2>7, <2>8
<1>2. step \notin Ends \union {"take"} /\ active_failover' \in BOOLEAN
  BY <1>1 DEF Ends, SwitchInv
<1> QED BY <1>1, <1>2, PlainStep, PlainIsSteps

LEMMA FileSteps ==
  ASSUME SwitchInv, NEW t \in Threads, Disable(t) \/ FlushWork(t) \/ CloseFiles(t) \/ FastOff(t)
  PROVE  SwitchInv'
<1>1. PICK step, steps : /\ Do(t, step, steps) /\ Plain(steps) /\ UNCHANGED <<failQ, ioswitch_active, dropped>>
                         /\ active_failover' \in BOOLEAN /\ (active_failover' => active_failover)
                         /\ step \in {"disable", "flush", "close_files", "fast_off"}
  <2>1. CASE Disable(t)
    <3>1. active_failover' \in BOOLEAN /\ (active_failover' => active_failover)
      BY <2>1 DEF Disable
    <3> QED BY <2>1, <3>1, PlainSteps DEF Disable, switch_vars, history
  <2>2. CASE FlushWork(t)
    BY <2>2, PlainSteps DEF FlushWork, fail_vars, switch_vars, history, SwitchInv
  <2>3. CASE CloseFiles(t)
    BY <2>3, PlainSteps DEF CloseFiles, fail_vars, switch_vars, history, SwitchInv
  <2>4. CASE FastOff(t)
    BY <2>4, PlainSteps DEF FastOff, fail_vars, switch_vars, history, SwitchInv
  <2> QED BY <2>1, <2>2, <2>3, <2>4
<1>2. step \notin Ends \union {"take"}
  BY <1>1 DEF Ends
<1> QED BY <1>1, <1>2, PlainStep, PlainIsSteps

LEMMA PathSteps ==
  ASSUME SwitchInv, NEW c \in Ctl,
         Synced(c) \/ ClearApp(c) \/ SetPaths(c) \/ Enable(c) \/ OpenFiles(c) \/ CheckPaths(c) \/ NoFiles(c)
         \/ ReleaseAll(c) \/ ReissueFailQ(c) \/ Left(c)
  PROVE  SwitchInv'
<1>1. PICK step, steps : /\ Do(c, step, steps) /\ Plain(steps) /\ UNCHANGED <<failQ, ioswitch_active, dropped, active_failover>>
                         /\ step \in {"synced", "clear_app", "set_paths", "enable", "open_files", "check", "no_files",
                                      "release_all", "reissue", "left"}
  <2>1. CASE Synced(c)
    BY <2>1, PlainSteps DEF Synced, fail_vars, switch_vars, history
  <2>2. CASE ClearApp(c)
    BY <2>2, PlainSteps DEF ClearApp, fail_vars, history
  <2>3. CASE SetPaths(c)
    BY <2>3, PlainSteps DEF SetPaths, fail_vars, switch_vars, history
  <2>4. CASE Enable(c)
    BY <2>4, PlainSteps DEF Enable, fail_vars, switch_vars, history
  <2>5. CASE OpenFiles(c)
    BY <2>5, PlainSteps DEF OpenFiles, fail_vars, switch_vars
  <2>6. CASE CheckPaths(c)
    BY <2>6, PlainSteps DEF CheckPaths, fail_vars, switch_vars, history
  <2>7. CASE NoFiles(c)
    BY <2>7, PlainSteps DEF NoFiles, fail_vars, switch_vars, history
  <2>8. CASE ReleaseAll(c)
    BY <2>8, PlainSteps DEF ReleaseAll, fail_vars, switch_vars, history
  <2>9. CASE ReissueFailQ(c)
    BY <2>9, PlainSteps DEF ReissueFailQ, switch_vars, history
  <2>10. CASE Left(c)
    BY <2>10, PlainSteps DEF Left, fail_vars, switch_vars
  <2> QED BY <2>1, <2>2, <2>3, <2>4, <2>5, <2>6, <2>7, <2>8, <2>9, <2>10
<1>2. step \notin Ends \union {"take"} /\ active_failover' \in BOOLEAN /\ c \in Threads
  BY <1>1 DEF Ends, SwitchInv, Threads
<1> QED BY <1>1, <1>2, PlainStep, PlainIsSteps

--------------------------------------------------------------------------------
\* The steps with which the work of an IO goes on after its last one.
LEMMA IOSteps ==
  /\ <<"failover">> \in Seq(Steps) /\ IOShape(<<"failover">>) /\ Has(<<"failover">>, "failover")
  /\ <<"claim">> \in Seq(Steps) /\ IOShape(<<"claim">>) /\ Has(<<"claim">>, "claim")
  /\ <<"abort">> \in Seq(Steps) /\ IOShape(<<"abort">>) /\ Has(<<"abort">>, "abort")
  /\ <<"inc", "send_failover">> \in Seq(Steps) /\ IOShape(<<"inc", "send_failover">>)
  /\ <<"clear_switch", "abort">> \in Seq(Steps) /\ IOShape(<<"clear_switch", "abort">>)
  /\ <<"app_resume", "clear_switch", "abort">> \in Seq(Steps) /\ IOShape(<<"app_resume", "clear_switch", "abort">>)
  /\ <<>> \in Seq(Steps) /\ IOShape(<<>>)
<1>1. {"failover", "claim", "abort", "inc", "send_failover", "clear_switch", "app_resume"} \subseteq Steps
  BY DEF Steps
<1>2. /\ <<>> \in Seq(Steps) /\ <<"failover">> \in Seq(Steps) /\ <<"claim">> \in Seq(Steps) /\ <<"abort">> \in Seq(Steps)
      /\ <<"inc", "send_failover">> \in Seq(Steps) /\ <<"clear_switch", "abort">> \in Seq(Steps)
      /\ <<"app_resume", "clear_switch", "abort">> \in Seq(Steps)
  BY <1>1, Tuples
<1>3. ASSUME NEW a \in Ends PROVE IOShape(<<a>>) /\ Has(<<a>>, a)
  <2>1. Len(<<a>>) = 1 /\ <<a>>[1] = a /\ 1 \in DOMAIN <<a>> /\ 1 .. 1 - 1 = {}
    OBVIOUS
  <2> QED BY <2>1 DEF IOShape, Has
<1>4. ASSUME NEW a, NEW b \in Ends, a \notin Ends, a = "clear_switch" => b = "abort" PROVE IOShape(<<a, b>>)
  <2>1. Len(<<a, b>>) = 2 /\ <<a, b>>[1] = a /\ <<a, b>>[2] = b /\ 1 .. 2 - 1 = {1}
    OBVIOUS
  <2> QED BY <1>4, <2>1 DEF IOShape
<1>5. ASSUME NEW a, NEW b, NEW c \in Ends, a \notin Ends, b \notin Ends, c = "abort" PROVE IOShape(<<a, b, c>>)
  <2>1. Len(<<a, b, c>>) = 3 /\ <<a, b, c>>[1] = a /\ <<a, b, c>>[2] = b /\ <<a, b, c>>[3] = c /\ 1 .. 3 - 1 = {1, 2}
    OBVIOUS
  <2> QED BY <1>5, <2>1 DEF IOShape
<1>6. {"failover", "claim", "abort", "send_failover"} \subseteq Ends /\ \A x \in {"inc", "clear_switch", "app_resume"} : x \notin Ends
  BY DEF Ends
<1>7. IOShape(<<"inc", "send_failover">>) /\ IOShape(<<"clear_switch", "abort">>)
  BY <1>4, <1>6
<1>8. IOShape(<<"app_resume", "clear_switch", "abort">>)
  BY <1>5, <1>6
<1> QED BY <1>2, <1>3, <1>6, <1>7, <1>8 DEF IOShape

LEMMA ThreadKinds == Threads = IOs \union Ctl /\ IOs \intersect Ctl = {}
  BY SwitchAssumption DEF Threads

\* The last step of the work of an IO is followed by steps alone.
LEMMA LastStep ==
  ASSUME SwitchInv, NEW i \in IOs, NEW step \in Ends, NEW steps \in Seq(Steps), Do(i, step, steps)
  PROVE  todo'[i] = steps
<1>1. todo[i] \in Seq(Steps) /\ todo[i] # <<>> /\ Head(todo[i]) = step /\ todo'[i] = steps \o Tail(todo[i])
  BY DoSteps, ThreadKinds
<1>2. IOShape(todo[i])
  BY DEF SwitchInv
<1> QED BY <1>1, <1>2, ShapeEnds

\* A failover that is begun or claimed, by the thread of an IO or by a controller.
LEMMA FailoverGoesOn ==
  ASSUME SwitchInv, NEW t \in Threads, NEW step \in {"failover", "claim"}, NEW steps \in Seq(Steps),
         Do(t, step, steps), UNCHANGED <<failQ, dropped, active_failover>>,
         ioswitch_active' \in {0, 1}, ioswitch_active = 1 => ioswitch_active' = 1, t \in IOs => IOShape(steps),
         t \in IOs => ioswitch_active' = 1 \/ Has(steps, "claim") \/ Has(steps, "abort")
  PROVE  SwitchInv'
<1>1. /\ todo' \in [Threads -> Seq(Steps)] /\ (\A u \in Threads \ {t} : todo'[u] = todo[u])
      /\ \A x : Has(steps, x) => Has(todo'[t], x)
  BY DoSteps
<1>2. \A u \in Threads, x \in {"take", "abort"} : Has(todo[u], x) => Has(todo'[u], x)
  <2>1. \A u \in Threads : \A x : Has(todo[u], x) /\ (u = t => x # step) => Has(todo'[u], x)
    BY DoSteps
  <2> QED BY <2>1
<1>3. \A i \in IOs : IOShape(todo'[i])
  <2>1. t \in IOs => todo'[t] = steps
    BY LastStep DEF Ends
  <2> QED BY <1>1, <2>1, ThreadKinds DEF SwitchInv
<1>4. SomeoneServes => SomeoneServes' \/ ioswitch_active' = 1
  <2>1. CASE t \in IOs
    BY <1>1, <2>1 DEF SomeoneServes
  <2>2. CASE t \notin IOs
    BY <1>1, <1>2, <2>2, ThreadKinds DEF SomeoneServes
  <2> QED BY <2>1, <2>2
<1> QED BY <1>1, <1>3, <1>4 DEF SwitchInv

\* pxd_initiate_failover: the thread of an IO goes on to claim the switch, or
\* aborts failQ itself.
LEMMA InitiateFailoverKeeps ==
  ASSUME SwitchInv, NEW i \in IOs, InitiateFailover(i)
  PROVE  SwitchInv'
<1>1. UNCHANGED <<failQ, dropped, active_failover, ioswitch_active>> /\ ioswitch_active' \in {0, 1}
  BY DEF InitiateFailover, fail_vars, switch_vars, history, SwitchInv
<1>2. PICK steps \in {<<"claim">>, <<"abort">>} : Do(i, "failover", steps)
  BY DEF InitiateFailover
<1>3. steps \in Seq(Steps) /\ IOShape(steps) /\ (Has(steps, "claim") \/ Has(steps, "abort"))
  BY <1>2, IOSteps
<1> QED BY <1>1, <1>2, <1>3, FailoverGoesOn, ThreadKinds

\* The switch is claimed, or is another's, or cannot be kept: then the thread of
\* an IO aborts failQ itself.
LEMMA ClaimFailoverKeeps ==
  ASSUME SwitchInv, NEW t \in Threads, ClaimFailover(t)
  PROVE  SwitchInv'
<1>1. UNCHANGED <<failQ, dropped, active_failover>>
  BY DEF ClaimFailover, fail_vars, history
<1>2. ASSUME NEW steps \in Seq(Steps), Do(t, "claim", steps), ioswitch_active' = 1, t \in IOs => IOShape(steps)
      PROVE  SwitchInv'
  BY <1>1, <1>2, FailoverGoesOn
<1>3. OnError(t) \in Seq(Steps) /\ (t \in IOs => OnError(t) = <<"abort">>)
  BY IOSteps DEF OnError
<1>4. CASE ioswitch_active = 1 /\ Do(t, "claim", <<>>) /\ UNCHANGED ioswitch_active
  BY <1>2, <1>4, IOSteps
<1>5. CASE ioswitch_active' = 1 /\ Do(t, "claim", <<"inc", "send_failover">>)
  BY <1>2, <1>5, IOSteps
<1>6. CASE ioswitch_active' = 1 /\ Do(t, "claim", <<"clear_switch">> \o OnError(t))
  <2>1. <<"clear_switch">> \o <<"abort">> = <<"clear_switch", "abort">>
    <3>1. {"clear_switch", "abort"} \subseteq Steps
      BY DEF Steps
    <3> QED BY <3>1, Joined
  <2>2. <<"clear_switch">> \in Seq(Steps)
    BY Tuples DEF Steps
  <2>3. <<"clear_switch">> \o OnError(t) \in Seq(Steps)
    BY <1>3, <2>2
  <2> QED BY <1>2, <1>3, <1>6, <2>1, <2>3, IOSteps
<1> QED BY <1>4, <1>5, <1>6 DEF ClaimFailover

LEMMA SendFailoverKeeps ==
  ASSUME SwitchInv, NEW t \in Threads, SendFailover(t)
  PROVE  SwitchInv'
<1>1. UNCHANGED <<failQ, dropped, active_failover, ioswitch_active>> /\ active_failover' \in BOOLEAN
  BY DEF SendFailover, fail_vars, SwitchInv
<1>2. ASSUME NEW steps \in Seq(Steps), Do(t, "send_failover", steps), t \in IOs => IOShape(steps)
      PROVE  SwitchInv'
  <2>1. t \in IOs => IOShape(todo'[t])
    BY <1>2, LastStep DEF Ends
  <2> QED BY <1>1, <1>2, <2>1, QuietStep
<1>3. OnError(t) \in Seq(Steps) /\ (t \in IOs => OnError(t) = <<"abort">>)
  BY IOSteps DEF OnError
<1>4. <<"app_resume", "clear_switch">> \in Seq(Steps)
  BY Tuples DEF Steps
<1>5. <<"app_resume", "clear_switch">> \o OnError(t) \in Seq(Steps)
  BY <1>3, <1>4
<1>6. <<"app_resume", "clear_switch">> \o <<"abort">> = <<"app_resume", "clear_switch", "abort">>
  <2>1. {"app_resume", "clear_switch", "abort"} \subseteq Steps
    BY DEF Steps
  <2> QED BY <2>1, Joined
<1>7. CASE Do(t, "send_failover", <<>>)
  BY <1>2, <1>7, IOSteps
<1>8. CASE Do(t, "send_failover", <<"app_resume", "clear_switch">> \o OnError(t))
  BY <1>2, <1>3, <1>5, <1>6, <1>8, IOSteps
<1> QED BY <1>7, <1>8 DEF SendFailover

\* The flag of a switch that could not be sent is cleared; the thread of an IO
\* goes on to abort failQ, a controller does not.
LEMMA ClearSwitchKeeps ==
  ASSUME SwitchInv, NEW t \in Threads, ClearSwitch(t)
  PROVE  SwitchInv'
<1>1. /\ UNCHANGED <<failQ, active_failover>> /\ ioswitch_active' = 0 /\ dropped' \in BOOLEAN
      /\ (dropped => dropped') /\ (t \in Ctl /\ failQ # {} => dropped')
      /\ Do(t, "clear_switch", <<>>) /\ <<>> \in Seq(Steps)
  BY IOSteps DEF ClearSwitch, fail_vars, SwitchInv
<1>2. /\ todo' \in [Threads -> Seq(Steps)] /\ (\A u \in Threads \ {t} : todo'[u] = todo[u])
      /\ todo[t] \in Seq(Steps) /\ todo[t] # <<>> /\ Head(todo[t]) = "clear_switch" /\ todo'[t] = <<>> \o Tail(todo[t])
  BY <1>1, DoSteps
<1>3. t \in IOs => IOShape(todo'[t]) /\ Has(todo'[t], "abort")
  <2>1. t \in IOs => IOShape(todo[t])
    BY DEF SwitchInv
  <2>2. "clear_switch" \notin Ends
    BY DEF Ends
  <2>3. DOMAIN (<<>>) = {}
    OBVIOUS
  <2> QED BY <1>1, <1>2, <2>1, <2>2, <2>3, ShapeKept
<1>4. \A i \in IOs : IOShape(todo'[i])
  BY <1>2, <1>3, ThreadKinds DEF SwitchInv
<1>5. t \in IOs => SomeoneServes'
  BY <1>3, ThreadKinds DEF SomeoneServes
<1>6. failQ' # {} /\ ~dropped' => SomeoneServes'
  BY <1>1, <1>5, ThreadKinds
<1>7. active_failover' \in BOOLEAN /\ (active_failover' => failQ' # {}) /\ ioswitch_active' \in {0, 1}
  BY <1>1 DEF SwitchInv
<1> QED BY <1>1, <1>2, <1>4, <1>6, <1>7 DEF SwitchInv

LEMMA SendFallbackKeeps ==
  ASSUME SwitchInv, NEW c \in Ctl, SendFallback(c)
  PROVE  SwitchInv'
<1>1. UNCHANGED <<failQ, dropped, active_failover, ioswitch_active>> /\ active_failover' \in BOOLEAN
  BY DEF SendFallback, fail_vars, history, SwitchInv
<1>2. <<>> \in Seq(Steps) /\ <<"dec", "clear_switch">> \in Seq(Steps)
  BY Tuples DEF Steps
<1>3. c \in Threads /\ c \notin IOs
  BY ThreadKinds
<1>4. CASE Do(c, "send_fallback", <<>>)
  BY <1>1, <1>2, <1>3, <1>4, QuietStep
<1>5. CASE Do(c, "send_fallback", <<"dec", "clear_switch">>)
  <2> DEFINE steps == <<"dec", "clear_switch">>
  <2>1. steps \in Seq(Steps) /\ Do(c, "send_fallback", steps)
    BY <1>2, <1>5
  <2> HIDE DEF steps
  <2> QED BY <1>1, <1>3, <2>1, QuietStep
<1> QED BY <1>4, <1>5 DEF SendFallback

LEMMA ClaimFallbackKeeps ==
  ASSUME SwitchInv, NEW c \in Ctl, ClaimFallback(c)
  PROVE  SwitchInv'
<1>1. UNCHANGED <<failQ, dropped, active_failover>> /\ ioswitch_active' = 1
  BY DEF ClaimFallback, fail_vars, history
<1>2. PICK steps \in {<<>>, <<"inc", "send_fallback">>} : Do(c, "claim_fallback", steps)
  BY DEF ClaimFallback
<1>3. steps \in Seq(Steps)
  <2>1. {"inc", "send_fallback"} \subseteq Steps
    BY DEF Steps
  <2>2. <<>> \in Seq(Steps) /\ <<"inc", "send_fallback">> \in Seq(Steps)
    BY <2>1, Tuples
  <2> QED BY <1>2, <2>2
<1>4. c \in Threads /\ c \notin IOs
  BY ThreadKinds
<1>5. todo' \in [Threads -> Seq(Steps)] /\ \A u \in Threads \ {c} : todo'[u] = todo[u]
  BY <1>2, <1>3, <1>4, DoSteps
<1>6. \A i \in IOs : IOShape(todo'[i])
  BY <1>4, <1>5, ThreadKinds DEF SwitchInv
<1>7. active_failover' \in BOOLEAN /\ dropped' \in BOOLEAN /\ (active_failover' => failQ' # {}) /\ ioswitch_active' \in {0, 1}
  BY <1>1 DEF SwitchInv
<1> QED BY <1>1, <1>5, <1>6, <1>7 DEF SwitchInv

\* failQ is emptied, by the answer to a failover or by the thread of an IO.
LEMMA EmptiesKeeps ==
  ASSUME SwitchInv, NEW t \in Threads, NEW step, Do(t, step, <<>>), failQ' = {}, active_failover' = FALSE,
         UNCHANGED ioswitch_active, dropped' = FALSE, t \in IOs => step = "abort"
  PROVE  SwitchInv'
<1>1. <<>> \in Seq(Steps) /\ IOShape(<<>>)
  BY IOSteps
<1>2. todo' \in [Threads -> Seq(Steps)] /\ \A u \in Threads \ {t} : todo'[u] = todo[u]
  BY <1>1, DoSteps
<1>3. t \in IOs => todo'[t] = <<>>
  BY <1>1, LastStep DEF Ends
<1>4. \A i \in IOs : IOShape(todo'[i])
  BY <1>1, <1>2, <1>3, ThreadKinds DEF SwitchInv
<1> QED BY <1>2, <1>4 DEF SwitchInv

LEMMA ResetSwitchKeeps ==
  ASSUME SwitchInv, NEW c \in Ctl, ResetSwitch(c)
  PROVE  SwitchInv'
<1>1. /\ UNCHANGED <<failQ, active_failover>> /\ ioswitch_active' = 0 /\ dropped' \in BOOLEAN
      /\ (dropped => dropped') /\ (ioswitch_active = 1 /\ failQ # {} => dropped')
      /\ Do(c, "reset_switch", <<>>) /\ <<>> \in Seq(Steps)
  BY IOSteps DEF ResetSwitch, fail_vars, SwitchInv
<1>2. c \in Threads /\ c \notin IOs
  BY ThreadKinds
<1>3. /\ todo' \in [Threads -> Seq(Steps)] /\ (\A u \in Threads \ {c} : todo'[u] = todo[u])
      /\ \A u \in Threads : \A x : Has(todo[u], x) /\ (u = c => x # "reset_switch") => Has(todo'[u], x)
  <2>1. Do(c, "reset_switch", <<>>) /\ <<>> \in Seq(Steps)
    BY <1>1
  <2>2. \A u \in Threads : \A x : Has(todo[u], x) /\ (u = c => x # "reset_switch") => Has(todo'[u], x)
    <3> DEFINE step == "reset_switch"
               steps == <<>>
    <3>1. Do(c, step, steps) /\ steps \in Seq(Steps)
      BY <2>1
    <3> HIDE DEF step, steps
    <3>2. \A u \in Threads : \A x : Has(todo[u], x) /\ (u = c => x # step) => Has(todo'[u], x)
      BY <1>2, <3>1, DoSteps
    <3> QED BY <3>2 DEF step
  <2>3. todo' \in [Threads -> Seq(Steps)] /\ (\A u \in Threads \ {c} : todo'[u] = todo[u])
    BY <1>2, <2>1, DoSteps
  <2> QED BY <2>2, <2>3
<1>4. \A i \in IOs : IOShape(todo'[i])
  BY <1>2, <1>3, ThreadKinds DEF SwitchInv
<1>5. SomeoneServes => SomeoneServes'
  <2>1. \A u \in Threads, x \in {"failover", "claim", "take", "abort"} : Has(todo[u], x) => Has(todo'[u], x)
    BY <1>3
  <2> QED BY <2>1, ThreadKinds DEF SomeoneServes
<1>6. failQ' # {} /\ ~dropped' => SomeoneServes'
  BY <1>1, <1>5 DEF SwitchInv
<1>7. active_failover' \in BOOLEAN /\ (active_failover' => failQ' # {}) /\ ioswitch_active' \in {0, 1}
  BY <1>1 DEF SwitchInv
<1> QED BY <1>1, <1>3, <1>4, <1>6, <1>7 DEF SwitchInv

\* Only the first failed IO starts a failover: the others rely on it.
LEMMA IoFailoverKeeps ==
  ASSUME SwitchInv, NEW i \in IOs, IoFailover(i)
  PROVE  SwitchInv'
<1>1. UNCHANGED <<ioswitch_active, dropped>> /\ todo[i] = <<>> /\ todo \in [Threads -> Seq(Steps)]
  BY DEF IoFailover, switch_vars, history, SwitchInv
<1>2. CASE UNCHANGED <<active_failover, failQ, todo>>
  BY <1>1, <1>2 DEF SwitchInv, SomeoneServes
<1>3. CASE /\ failQ' = failQ \union {i} /\ active_failover' = TRUE
           /\ todo' = [todo EXCEPT ![i] = IF active_failover THEN <<>> ELSE <<"failover">>]
  <2>1. CASE active_failover
    <3>1. todo' = todo
      BY <1>1, <1>3, <2>1
    <3> QED BY <1>1, <1>3, <2>1, <3>1 DEF SwitchInv, SomeoneServes
  <2>2. CASE ~active_failover
    <3>1. todo' = [todo EXCEPT ![i] = <<"failover">>]
      BY <1>3, <2>2
    <3>2. /\ todo' \in [Threads -> Seq(Steps)] /\ todo'[i] = <<"failover">>
          /\ \A u \in Threads \ {i} : todo'[u] = todo[u]
      BY <1>1, <3>1, IOSteps, ThreadKinds
    <3>3. SomeoneServes'
      BY <3>2, IOSteps DEF SomeoneServes
    <3>4. \A j \in IOs : IOShape(todo'[j])
      BY <3>2, IOSteps, ThreadKinds DEF SwitchInv
    <3> QED BY <1>1, <1>3, <3>2, <3>3, <3>4 DEF SwitchInv
  <2> QED BY <2>1, <2>2
<1> QED BY <1>2, <1>3 DEF IoFailover

LEMMA RequestsKeep ==
  ASSUME SwitchInv, NEW c \in Ctl, Request(c)
  PROVE  SwitchInv'
<1> DEFINE Begun == {<<"inc", "synced">>, <<"clear_app">>, <<"dec">>, <<"claim">>, <<"claim_fallback">>,
                     <<"inc", "set_paths", "enable", "dec", "check">>, <<"disable", "no_files">>,
                     <<"disable", "release">>, <<"disable", "reset_switch", "app_resume", "release_all">>,
                     <<"disable">>, <<"inc", "left">>, <<"release">>}
<1>1. PICK steps \in Begun : Start(c, steps)
  <2>1. CASE RequestSuspend(c)
    BY <2>1 DEF RequestSuspend
  <2>2. CASE RequestResume(c)
    BY <2>2 DEF RequestResume
  <2>3. CASE RequestFailover(c)
    BY <2>3 DEF RequestFailover
  <2>4. CASE RequestFallback(c)
    BY <2>4 DEF RequestFallback
  <2>5. CASE UpdatePath(c)
    BY <2>5 DEF UpdatePath
  <2>6. CASE VolCleanup(c)
    BY <2>6 DEF VolCleanup
  <2>7. CASE ResetDevice(c)
    BY <2>7 DEF ResetDevice
  <2>8. CASE DebugStore(c)
    BY <2>8 DEF DebugStore
  <2> QED BY <2>1, <2>2, <2>3, <2>4, <2>5, <2>6, <2>7, <2>8 DEF Request
<1>2. Begun \subseteq Seq(Steps)
  <2>1. {"inc", "synced", "clear_app", "dec", "claim", "claim_fallback", "set_paths", "enable", "check", "disable",
         "no_files", "release", "reset_switch", "app_resume", "release_all", "left"} \subseteq Steps
    BY DEF Steps
  <2> QED BY <2>1, Tuples
<1>3. UNCHANGED <<failQ, active_failover, dropped, ioswitch_active>>
  BY DEF Request, RequestSuspend, RequestResume, RequestFailover, RequestFallback, UpdatePath, VolCleanup,
         ResetDevice, DebugStore, fail_vars, switch_vars, history
<1>4. ioswitch_active \in {0, 1} /\ dropped \in BOOLEAN
  BY DEF SwitchInv
<1> HIDE DEF Begun
<1> QED BY <1>1, <1>2, <1>3, <1>4, BeginKeeps

\* pxd_process_ioswitch_complete: a failover that completes takes the failed IOs.
LEMMA AnswerKeeps ==
  ASSUME SwitchInv, NEW c \in Ctl, NEW code \in Codes, IoswitchComplete(c, code)
  PROVE  SwitchInv'
<1>1. /\ UNCHANGED <<failQ, active_failover>> /\ ioswitch_active' = 0 /\ ioswitch_active \in {0, 1}
      /\ dropped' \in BOOLEAN /\ (dropped => dropped')
      /\ ioswitch_active = 1 /\ code = "fallback" /\ failQ # {} => dropped'
  BY DEF IoswitchComplete, fail_vars, SwitchInv
<1>2. CASE ioswitch_active = 0
  <2>1. Start(c, <<>>)
    BY <1>2 DEF IoswitchComplete
  <2> QED BY <1>1, <1>2, <2>1, IOSteps, BeginKeeps
<1>3. CASE ioswitch_active = 1 /\ code = "failover"
  <2> DEFINE steps == <<"disable", "take", "dec", "reissue">>
  <2>1. Start(c, steps)
    BY <1>3 DEF IoswitchComplete
  <2>2. steps \in Seq(Steps)
    <3>1. {"disable", "take", "dec", "reissue"} \subseteq Steps
      BY DEF Steps
    <3> QED BY <3>1, Tuples
  <2>3. Has(steps, "take")
    <3>1. 2 \in DOMAIN steps /\ steps[2] = "take"
      OBVIOUS
    <3> QED BY <3>1 DEF Has
  <2> HIDE DEF steps
  <2> QED BY <1>1, <2>1, <2>2, <2>3, BeginKeeps
<1>4. CASE ioswitch_active = 1 /\ code # "failover"
  <2>1. Start(c, <<"dec">>) /\ code = "fallback"
    BY <1>4 DEF IoswitchComplete, Codes
  <2>2. <<"dec">> \in Seq(Steps)
    BY Tuples DEF Steps
  <2> QED BY <1>1, <1>4, <2>1, <2>2, BeginKeeps
<1> QED BY <1>1, <1>2, <1>3, <1>4

LEMMA SwitchKept ==
  ASSUME SwitchInv, [Next]_vars
  PROVE  SwitchInv'
<1>1. ASSUME NEW t \in Threads, ThreadStep(t) PROVE SwitchInv'
  BY <1>1, GateSteps, ClaimFailoverKeeps, SendFailoverKeeps, ClearSwitchKeeps DEF ThreadStep
<1>2. ASSUME NEW c \in Ctl, ControllerStep(c) PROVE SwitchInv'
  <2>1. CASE TakeFailQ(c)
    <3>1. /\ Do(c, "take", <<>>) /\ failQ' = {} /\ active_failover' = FALSE
          /\ UNCHANGED ioswitch_active /\ dropped' = FALSE
      BY <2>1 DEF TakeFailQ, switch_vars, history
    <3> QED BY <3>1, EmptiesKeeps, ThreadKinds
  <2>2. CASE Release(c) \/ Disable(c) \/ FlushWork(c) \/ CloseFiles(c) \/ FastOff(c)
    BY <2>2, ThreadKinds, GateSteps, FileSteps
  <2> QED BY <1>1, <1>2, <2>1, <2>2, ThreadKinds, PathSteps, ClaimFallbackKeeps, SendFallbackKeeps, ResetSwitchKeeps
          DEF ControllerStep
<1>3. ASSUME NEW c \in Ctl, Request(c) \/ Answer(c) PROVE SwitchInv'
  BY <1>3, RequestsKeep, AnswerKeeps DEF Answer
<1>4. ASSUME NEW i \in IOs, IOStep(i) \/ Submit(i) PROVE SwitchInv'
  <2>1. CASE AbortFailQ(i)
    <3>1. /\ Do(i, "abort", <<>>) /\ failQ' = {} /\ active_failover' = FALSE
          /\ UNCHANGED ioswitch_active /\ dropped' = FALSE
      BY <2>1 DEF AbortFailQ, switch_vars, history
    <3> QED BY <3>1, EmptiesKeeps, ThreadKinds
  <2>2. CASE Map(i) \/ EndIO(i) \/ Reroute(i) \/ Submit(i)
    <3>1. UNCHANGED <<todo, ioswitch_active, dropped, active_failover, failQ>>
      BY <2>2 DEF Map, EndIO, Reroute, Submit, switch_vars, history
    <3> QED BY <3>1 DEF SwitchInv, SomeoneServes
  <2> QED BY <1>1, <1>4, <2>1, <2>2, ThreadKinds, InitiateFailoverKeeps, IoFailoverKeeps DEF IOStep
<1>5. CASE UNCHANGED vars
  BY <1>5 DEF vars, fail_vars, switch_vars, history, SwitchInv, SomeoneServes
<1> QED BY <1>2, <1>3, <1>4, <1>5 DEF Next

\* A failed IO never waits on failQ with nobody to take it off, whatever the
\* threads that fail over, fall back, reset and update the paths do between each
\* other's steps.
THEOREM FailedServed == Spec => []FailedIOServed
<1>1. SwitchInv => FailedIOServed
  <2>1. SomeoneServes => Ahead({"failover", "claim", "take", "abort"})
    BY ThreadKinds DEF SomeoneServes, Ahead, Has
  <2> QED BY <2>1 DEF SwitchInv, FailedIOServed, Serving
<1> QED BY <1>1, SwitchInitial, SwitchKept, PTL DEF Spec

--------------------------------------------------------------------------------
(***************************************************************************)
(* The balance of the suspensions.  A thread that is under way has some to *)
(* take and some to give back: the steps ahead of all threads are counted, *)
(* by their distance from the end of what a thread has to do, which stays  *)
(* the same when steps are done or pushed in front.                        *)
(***************************************************************************)
Lists == [Threads -> Seq(Steps)]

\* The steps of S that are ahead, as pairs of a thread and a distance.
MarkedAt(f, S, t, d) == d \in 1 .. Len(f[t]) /\ f[t][Len(f[t]) + 1 - d] \in S
Marks(f, S) == {p \in Threads \X Nat : MarkedAt(f, S, p[1], p[2])}

Push(f, t, steps) == [f EXCEPT ![t] = steps \o f[t]]

\* A step in front of the others.
LEMMA PushSeq ==
  ASSUME NEW s \in Seq(Steps), NEW x \in Steps
  PROVE  /\ <<x>> \o s \in Seq(Steps) /\ Len(<<x>> \o s) = Len(s) + 1 /\ Len(s) \in Nat
         /\ (<<x>> \o s)[1] = x /\ \A k \in 1 .. Len(s) : (<<x>> \o s)[k + 1] = s[k]
<1>1. <<x>> \in Seq(Steps) /\ Len(<<x>>) = 1 /\ <<x>>[1] = x
  OBVIOUS
<1> QED BY <1>1

\* It adds one mark, or none, and moves no other.
LEMMA PushMarks ==
  ASSUME NEW f \in Lists, NEW t \in Threads, NEW x \in Steps, NEW S
  PROVE  LET g == Push(f, t, <<x>>)
             p == <<t, Len(f[t]) + 1>>
         IN  /\ g \in Lists /\ Marks(g, S) \ {p} = Marks(f, S)
             /\ p \in Marks(g, S) <=> x \in S
<1> DEFINE n == Len(f[t])
           s == <<x>> \o f[t]
           g == Push(f, t, <<x>>)
           p == <<t, n + 1>>
<1>1. f[t] \in Seq(Steps) /\ n \in Nat
  BY DEF Lists
<1>2. s \in Seq(Steps) /\ Len(s) = n + 1 /\ s[1] = x /\ \A k \in 1 .. n : s[k + 1] = f[t][k]
  BY <1>1, PushSeq
<1>3. g \in Lists /\ g[t] = s /\ \A u \in Threads : u # t => g[u] = f[u]
  BY <1>2 DEF Push, Lists
<1> HIDE DEF s, g
<1>4. ASSUME NEW d \in Nat PROVE MarkedAt(g, S, t, d) <=> MarkedAt(f, S, t, d) \/ (d = n + 1 /\ x \in S)
  <2>1. CASE d \in 1 .. n
    <3>1. n + 1 - d \in 1 .. n /\ d # n + 1 /\ d \in 1 .. n + 1 /\ n + 1 + 1 - d = (n + 1 - d) + 1
      BY <1>1, <2>1
    <3> HIDE DEF n
    <3>2. s[n + 1 + 1 - d] = f[t][n + 1 - d]
      BY <1>2, <3>1
    <3> QED BY <1>2, <1>3, <2>1, <3>1, <3>2 DEF MarkedAt, n
  <2>2. CASE d = n + 1
    <3>1. n + 1 + 1 - d = 1 /\ d \notin 1 .. n /\ d \in 1 .. n + 1
      BY <1>1, <2>2
    <3> QED BY <1>2, <1>3, <2>2, <3>1 DEF MarkedAt
  <2>3. CASE d \notin 1 .. n /\ d # n + 1
    <3>1. d \notin 1 .. n + 1
      BY <1>1, <2>3
    <3> QED BY <1>2, <1>3, <2>3, <3>1 DEF MarkedAt
  <2> QED BY <2>1, <2>2, <2>3
<1>5. ~MarkedAt(f, S, t, n + 1)
  BY <1>1 DEF MarkedAt
<1>6. \A u \in Threads, d \in Nat : u # t => (MarkedAt(g, S, u, d) <=> MarkedAt(f, S, u, d))
  BY <1>3 DEF MarkedAt
<1>7. n + 1 \in Nat
  BY <1>1
<1> HIDE DEF n
<1>8. p \in Marks(g, S) <=> x \in S
  BY <1>4, <1>5, <1>7 DEF Marks
<1>9. ASSUME NEW q \in Threads \X Nat PROVE q \in Marks(g, S) \ {p} <=> q \in Marks(f, S)
  <2>1. PICK u \in Threads, d \in Nat : q = <<u, d>>
    OBVIOUS
  <2>2. q = p <=> u = t /\ d = n + 1
    BY <2>1
  <2>3. (q \in Marks(g, S) <=> MarkedAt(g, S, u, d)) /\ (q \in Marks(f, S) <=> MarkedAt(f, S, u, d))
    BY <2>1 DEF Marks
  <2> QED BY <1>4, <1>5, <1>6, <2>2, <2>3
<1>10. Marks(g, S) \subseteq Threads \X Nat /\ Marks(f, S) \subseteq Threads \X Nat
  BY DEF Marks
<1>11. Marks(g, S) \ {p} = Marks(f, S)
  BY <1>9, <1>10
<1> QED BY <1>3, <1>8, <1>11 DEF g, n

\* How many steps of S are ahead.
Cnt(f, S) == Cardinality(Marks(f, S))
Finite(f) == \A S : IsFiniteSet(Marks(f, S))

\* The counts after a push.
LEMMA PushCount ==
  ASSUME NEW f \in Lists, NEW t \in Threads, NEW x \in Steps
  PROVE  /\ Push(f, t, <<x>>) \in Lists
         /\ Finite(f) <=> Finite(Push(f, t, <<x>>))
         /\ Finite(f) => \A S : /\ Cnt(Push(f, t, <<x>>), S) = Cnt(f, S) + Share(x, S)
                                /\ Cnt(f, S) \in Nat
<1> DEFINE g == Push(f, t, <<x>>)
           p == <<t, Len(f[t]) + 1>>
<1>1. g \in Lists /\ \A S : Marks(g, S) \ {p} = Marks(f, S) /\ (p \in Marks(g, S) <=> x \in S)
  BY PushMarks
<1> HIDE DEF g, p
<1>2. ASSUME NEW S, IsFiniteSet(Marks(g, S)) PROVE IsFiniteSet(Marks(f, S))
  BY <1>1, <1>2, FS_RemoveElement
<1>3. ASSUME NEW S, IsFiniteSet(Marks(f, S)) PROVE IsFiniteSet(Marks(g, S))
  <2>1. IsFiniteSet(Marks(f, S) \union {p}) /\ Marks(g, S) \in SUBSET (Marks(f, S) \union {p})
    BY <1>1, <1>3, FS_AddElement
  <2> QED BY <2>1, FS_Subset
<1>4. Finite(f) <=> Finite(g)
  BY <1>2, <1>3 DEF Finite
<1>5. ASSUME NEW S, Finite(f) PROVE Cnt(g, S) = Cnt(f, S) + Share(x, S) /\ Cnt(f, S) \in Nat
  <2>1. IsFiniteSet(Marks(f, S)) /\ IsFiniteSet(Marks(g, S))
    BY <1>4, <1>5 DEF Finite
  <2>2. Marks(g, S) \ {p} = Marks(f, S) \ {p} /\ p \notin Marks(f, S)
    BY <1>1
  <2>3. /\ Cnt(f, S) \in Nat /\ Cnt(g, S) \in Nat
        /\ Cnt(f, S) + Share(p, Marks(g, S)) = Cnt(g, S) + Share(p, Marks(f, S))
    BY <2>1, <2>2, CountOne DEF Cnt
  <2>4. Share(p, Marks(g, S)) = Share(x, S) /\ Share(p, Marks(f, S)) = 0 /\ Share(x, S) \in Nat
    BY <1>1, <2>2 DEF Share
  <2> QED BY <2>3, <2>4
<1> QED BY <1>1, <1>4, <1>5 DEF g

\* A step in front of a list.
LEMMA ConsIs ==
  ASSUME NEW S, NEW s \in Seq(S), NEW t \in Seq(S), NEW x \in S, Len(t) = Len(s) + 1, t[1] = x,
         \A k \in 1 .. Len(s) : t[k + 1] = s[k]
  PROVE  <<x>> \o s = t
<1>1. <<x>> \in Seq(S) /\ Len(<<x>>) = 1 /\ <<x>>[1] = x
  OBVIOUS
<1>2. <<x>> \o s \in Seq(S) /\ Len(<<x>> \o s) = Len(t) /\ Len(s) \in Nat
  BY <1>1
<1>3. \A k \in 1 .. Len(s) + 1 : (<<x>> \o s)[k] = IF k = 1 THEN x ELSE s[k - 1]
  BY <1>1
<1>4. ASSUME NEW k \in 1 .. Len(s) + 1 PROVE (<<x>> \o s)[k] = t[k]
  <2>1. CASE k = 1
    BY <1>3, <2>1
  <2>2. CASE k # 1
    <3>1. k - 1 \in 1 .. Len(s) /\ (k - 1) + 1 = k
      BY <1>2, <2>2
    <3> QED BY <1>3, <2>2, <3>1
  <2> QED BY <2>1, <2>2
<1> QED BY <1>2, <1>4, SeqEqual

LEMMA Cons2 ==
  ASSUME NEW S, NEW a \in S, NEW b \in S
  PROVE  <<a>> \o <<b>> = <<a, b>>
<1> DEFINE s == <<b>>
           t == <<a, b>>
<1>1. s \in Seq(S) /\ t \in Seq(S) /\ Len(t) = Len(s) + 1 /\ t[1] = a
  OBVIOUS
<1>2. \A k \in 1 .. Len(s) : t[k + 1] = s[k]
  OBVIOUS
<1> HIDE DEF s, t
<1>3. <<a>> \o s = t
  BY <1>1, <1>2, ConsIs
<1> QED BY <1>3 DEF s, t

\* The literals of the model, one step at a time.
LEMMA Cons3 ==
  ASSUME NEW S, NEW a \in S, NEW b \in S, NEW c \in S
  PROVE  <<a>> \o <<b, c>> = <<a, b, c>>
<1> DEFINE s == <<b, c>>
           t == <<a, b, c>>
<1>1. s \in Seq(S) /\ t \in Seq(S) /\ Len(t) = Len(s) + 1 /\ t[1] = a
  OBVIOUS
<1>2. \A k \in 1 .. Len(s) : t[k + 1] = s[k]
  OBVIOUS
<1> HIDE DEF s, t
<1>3. <<a>> \o s = t
  BY <1>1, <1>2, ConsIs
<1> QED BY <1>3 DEF s, t

LEMMA Cons4 ==
  ASSUME NEW S, NEW a \in S, NEW b \in S, NEW c \in S, NEW d \in S
  PROVE  <<a>> \o <<b, c, d>> = <<a, b, c, d>>
<1> DEFINE s == <<b, c, d>>
           t == <<a, b, c, d>>
<1>1. s \in Seq(S) /\ t \in Seq(S) /\ Len(t) = Len(s) + 1 /\ t[1] = a
  OBVIOUS
<1>2. \A k \in 1 .. Len(s) : t[k + 1] = s[k]
  OBVIOUS
<1> HIDE DEF s, t
<1>3. <<a>> \o s = t
  BY <1>1, <1>2, ConsIs
<1> QED BY <1>3 DEF s, t

LEMMA Cons5 ==
  ASSUME NEW S, NEW a \in S, NEW b \in S, NEW c \in S, NEW d \in S, NEW e \in S
  PROVE  <<a>> \o <<b, c, d, e>> = <<a, b, c, d, e>>
<1> DEFINE s == <<b, c, d, e>>
           t == <<a, b, c, d, e>>
<1>1. s \in Seq(S) /\ t \in Seq(S) /\ Len(t) = Len(s) + 1 /\ t[1] = a
  OBVIOUS
<1>2. \A k \in 1 .. Len(s) : t[k + 1] = s[k]
  OBVIOUS
<1> HIDE DEF s, t
<1>3. <<a>> \o s = t
  BY <1>1, <1>2, ConsIs
<1> QED BY <1>3 DEF s, t

\* Steps are pushed together or one after the other.
LEMMA PushCons ==
  ASSUME NEW f \in Lists, NEW t \in Threads, NEW x \in Steps, NEW steps \in Seq(Steps)
  PROVE  Push(f, t, steps) \in Lists /\ Push(f, t, <<x>> \o steps) = Push(Push(f, t, steps), t, <<x>>)
<1>1. f[t] \in Seq(Steps) /\ <<x>> \in Seq(Steps)
  BY DEF Lists
<1>2. steps \o f[t] \in Seq(Steps)
  BY <1>1
<1>3. (<<x>> \o steps) \o f[t] = <<x>> \o (steps \o f[t])
  <2> DEFINE e == <<x>>
             s == f[t]
  <2>1. e \in Seq(Steps) /\ s \in Seq(Steps)
    BY <1>1
  <2> HIDE DEF e, s
  <2>2. (e \o steps) \o s = e \o (steps \o s)
    BY <2>1, ConcatAssociative
  <2> QED BY <2>2 DEF e, s
<1>4. Push(f, t, steps) \in Lists /\ Push(f, t, steps)[t] = steps \o f[t]
  BY <1>2 DEF Push, Lists
<1>5. Push(f, t, <<x>> \o steps) = [f EXCEPT ![t] = <<x>> \o (steps \o f[t])]
  BY <1>3 DEF Push
<1>6. Push(Push(f, t, steps), t, <<x>>) = [f EXCEPT ![t] = <<x>> \o (steps \o f[t])]
  BY <1>4 DEF Push, Lists
<1> QED BY <1>4, <1>5, <1>6

\* Thread t without its next step.
LEMMA PopIs ==
  ASSUME SwitchInv, Finite(todo), NEW t \in Threads, NEW step, NEW steps, Do(t, step, steps)
  PROVE  \E h \in Lists : /\ Finite(h) /\ todo' = Push(h, t, steps)
                          /\ \A S : Cnt(todo, S) = Cnt(h, S) + Share(step, S) /\ Cnt(h, S) \in Nat
<1> DEFINE h == [todo EXCEPT ![t] = Tail(todo[t])]
<1>1. /\ todo \in Lists /\ todo[t] \in Seq(Steps) /\ todo[t] # <<>> /\ Head(todo[t]) = step
      /\ todo' = [todo EXCEPT ![t] = steps \o Tail(todo[t])]
  BY DEF SwitchInv, Do, Lists
<1>2. Tail(todo[t]) \in Seq(Steps) /\ step \in Steps /\ todo[t] = <<step>> \o Tail(todo[t])
  <2> DEFINE s == todo[t]
             r == <<Head(s)>> \o Tail(s)
  <2>1. s \in Seq(Steps) /\ s # <<>>
    BY <1>1
  <2> HIDE DEF s
  <2>2. Tail(s) \in Seq(Steps) /\ Head(s) \in Steps /\ Len(s) \in Nat \ {0} /\ Len(Tail(s)) = Len(s) - 1
        /\ \A k \in 1 .. Len(s) - 1 : Tail(s)[k] = s[k + 1]
    BY <2>1
  <2>3. r \in Seq(Steps) /\ Len(r) = Len(Tail(s)) + 1 /\ r[1] = Head(s)
        /\ \A k \in 1 .. Len(Tail(s)) : r[k + 1] = Tail(s)[k]
    BY <2>2, PushSeq
  <2> HIDE DEF r
  <2>4. ASSUME NEW k \in 1 .. Len(s) PROVE r[k] = s[k]
    <3>1. CASE k = 1
      BY <2>1, <2>3, <3>1
    <3>2. CASE k # 1
      <4>1. k - 1 \in 1 .. Len(s) - 1 /\ (k - 1) + 1 = k
        BY <2>2, <3>2
      <4> QED BY <2>2, <2>3, <4>1
    <3> QED BY <3>1, <3>2
  <2>5. Len(r) = Len(s)
    BY <2>2, <2>3
  <2>6. r = s
    BY <2>1, <2>3, <2>4, <2>5, SeqEqual
  <2> QED BY <1>1, <2>2, <2>6 DEF s, r
<1>3. h \in Lists /\ h[t] = Tail(todo[t])
  BY <1>1, <1>2 DEF Lists
<1>4. todo = Push(h, t, <<step>>)
  BY <1>1, <1>2, <1>3 DEF Push, Lists
<1>5. todo' = Push(h, t, steps)
  BY <1>1, <1>3 DEF Push, Lists
<1> HIDE DEF h
<1>6. Finite(h) /\ \A S : Cnt(todo, S) = Cnt(h, S) + Share(step, S) /\ Cnt(h, S) \in Nat
  BY <1>2, <1>3, <1>4, PushCount
<1> QED BY <1>3, <1>5, <1>6

\* A step of Taking will raise suspend, or lower what it has to match; a step of
\* Giving the other way round.  Steps of OfApp are of a daemon's suspend that may
\* still fail, steps of OfSwitch of a switch that is claimed and not settled.
Taking == {"inc", "clear_app", "clear_switch"}
Giving == {"dec", "open_files", "left"}
OfApp == {"synced", "clear_app"}
OfSwitch == {"send_failover", "send_fallback", "clear_switch"}

Net(f) == Cnt(f, Taking) - Cnt(f, Giving)

\* What a step counts for.
Val(x, n, a, w) ==
  x \in Steps /\ Share(x, Taking) - Share(x, Giving) = n /\ Share(x, OfApp) = a /\ Share(x, OfSwitch) = w

\* What steps count for when they are pushed.
Worth(steps, n, a, w) ==
  /\ steps \in Seq(Steps)
  /\ \A f \in Lists, t \in Threads : Finite(f) =>
       LET g == Push(f, t, steps)
       IN  /\ Finite(g) /\ Net(g) = Net(f) + n
           /\ Cnt(g, OfApp) = Cnt(f, OfApp) + a /\ Cnt(g, OfSwitch) = Cnt(f, OfSwitch) + w

\* A step counts once or not at all.
LEMMA ShareIs == \A x, S : Share(x, S) \in {0, 1}
BY DEF Share

\* What each step of the model counts for.
LEMMA Vals ==
  /\ Val("abort", 0, 0, 0)
  /\ Val("app_resume", 0, 0, 0)
  /\ Val("check", 0, 0, 0)
  /\ Val("claim", 0, 0, 0)
  /\ Val("claim_fallback", 0, 0, 0)
  /\ Val("clear_app", 1, 1, 0)
  /\ Val("clear_switch", 1, 0, 1)
  /\ Val("close", 0, 0, 0)
  /\ Val("close_files", 0, 0, 0)
  /\ Val("dec", -1, 0, 0)
  /\ Val("disable", 0, 0, 0)
  /\ Val("enable", 0, 0, 0)
  /\ Val("failover", 0, 0, 0)
  /\ Val("fast_off", 0, 0, 0)
  /\ Val("flush", 0, 0, 0)
  /\ Val("freeze", 0, 0, 0)
  /\ Val("inc", 1, 0, 0)
  /\ Val("left", -1, 0, 0)
  /\ Val("no_files", 0, 0, 0)
  /\ Val("open", 0, 0, 0)
  /\ Val("open_files", -1, 0, 0)
  /\ Val("reissue", 0, 0, 0)
  /\ Val("release", 0, 0, 0)
  /\ Val("release_all", 0, 0, 0)
  /\ Val("reset_switch", 0, 0, 0)
  /\ Val("send_failover", 0, 0, 1)
  /\ Val("send_fallback", 0, 0, 1)
  /\ Val("set_paths", 0, 0, 0)
  /\ Val("synced", 0, 1, 0)
  /\ Val("take", 0, 0, 0)
  /\ Val("thaw", 0, 0, 0)
<1>1. ASSUME NEW x \in Steps, x \notin Taking \union Giving \union OfApp \union OfSwitch PROVE Val(x, 0, 0, 0)
  BY <1>1 DEF Val, Share
<1>2. /\ "inc" \in Taking \ (Giving \union OfApp \union OfSwitch)
      /\ "clear_app" \in (Taking \intersect OfApp) \ (Giving \union OfSwitch)
      /\ "clear_switch" \in (Taking \intersect OfSwitch) \ (Giving \union OfApp)
      /\ "dec" \in Giving \ (Taking \union OfApp \union OfSwitch)
      /\ "open_files" \in Giving \ (Taking \union OfApp \union OfSwitch)
      /\ "left" \in Giving \ (Taking \union OfApp \union OfSwitch)
      /\ "synced" \in OfApp \ (Taking \union Giving \union OfSwitch)
      /\ "send_failover" \in OfSwitch \ (Taking \union Giving \union OfApp)
      /\ "send_fallback" \in OfSwitch \ (Taking \union Giving \union OfApp)
  BY DEF Taking, Giving, OfApp, OfSwitch
<1>3. {"inc", "clear_app", "clear_switch", "dec", "open_files", "left", "synced", "send_failover", "send_fallback"} \subseteq Steps
  BY DEF Steps
<1>4. /\ Val("inc", 1, 0, 0) /\ Val("clear_app", 1, 1, 0) /\ Val("clear_switch", 1, 0, 1) /\ Val("dec", -1, 0, 0)
      /\ Val("open_files", -1, 0, 0) /\ Val("left", -1, 0, 0) /\ Val("synced", 0, 1, 0) /\ Val("send_failover", 0, 0, 1)
      /\ Val("send_fallback", 0, 0, 1)
  BY <1>2, <1>3 DEF Val, Share
<1>5. \A x \in {"close", "freeze", "open", "thaw", "failover", "claim", "claim_fallback", "abort", "disable", "release", "take", "reissue", "flush", "close_files", "fast_off", "set_paths", "enable", "check", "no_files", "app_resume", "reset_switch", "release_all"} :
        x \in Steps /\ x \notin Taking \union Giving \union OfApp \union OfSwitch
  BY DEF Steps, Taking, Giving, OfApp, OfSwitch
<1>6. \A x \in {"close", "freeze", "open", "thaw", "failover", "claim", "claim_fallback", "abort", "disable", "release", "take", "reissue", "flush", "close_files", "fast_off", "set_paths", "enable", "check", "no_files", "app_resume", "reset_switch", "release_all"} :
        Val(x, 0, 0, 0)
  BY <1>1, <1>5
<1> QED BY <1>4, <1>6

\* Arithmetic on the counts.
LEMMA Chain ==
  ASSUME NEW q \in Int, NEW i \in Int, NEW j \in Int, NEW p, NEW r, p = q + j, r = p + i
  PROVE  r = q + (i + j)
OBVIOUS

LEMMA Differ ==
  ASSUME NEW a \in Int, NEW b \in Int, NEW c \in Int, NEW d \in Int, NEW i \in Int, NEW j \in Int,
         c = a + i, d = b + j
  PROVE  c - d = (a - b) + (i - j) /\ c - d \in Int /\ a - b \in Int
OBVIOUS

\* The counts are natural numbers.
LEMMA CntNat == \A f, S : Finite(f) => Cnt(f, S) \in Nat
BY FS_CardinalityType DEF Finite, Cnt

\* One more step in front.
LEMMA WorthCons ==
  ASSUME NEW x, NEW n1 \in Int, NEW a1 \in Int, NEW w1 \in Int, Val(x, n1, a1, w1),
         NEW steps \in Seq(Steps), NEW n2 \in Int, NEW a2 \in Int, NEW w2 \in Int, Worth(steps, n2, a2, w2)
  PROVE  Worth(<<x>> \o steps, n1 + n2, a1 + a2, w1 + w2)
<1> SUFFICES ASSUME NEW f \in Lists, NEW t \in Threads, Finite(f)
             PROVE  LET g == Push(f, t, <<x>> \o steps)
                    IN  /\ Finite(g) /\ Net(g) = Net(f) + (n1 + n2)
                        /\ Cnt(g, OfApp) = Cnt(f, OfApp) + (a1 + a2)
                        /\ Cnt(g, OfSwitch) = Cnt(f, OfSwitch) + (w1 + w2)
  <2>1. x \in Steps
    BY DEF Val
  <2>2. <<x>> \in Seq(Steps)
    BY <2>1
  <2>3. <<x>> \o steps \in Seq(Steps)
    BY <2>2
  <2> QED BY <2>3 DEF Worth
<1> DEFINE h == Push(f, t, steps)
           g == Push(f, t, <<x>> \o steps)
<1>0. x \in Steps
  BY DEF Val
<1>1. h \in Lists /\ g = Push(h, t, <<x>>)
  BY <1>0, PushCons
<1>2. /\ Finite(h) /\ Net(h) = Net(f) + n2
      /\ Cnt(h, OfApp) = Cnt(f, OfApp) + a2 /\ Cnt(h, OfSwitch) = Cnt(f, OfSwitch) + w2
  BY DEF Worth
<1> HIDE DEF h, g
<1>3. Finite(g) /\ \A S : Cnt(g, S) = Cnt(h, S) + Share(x, S)
  BY <1>0, <1>1, <1>2, PushCount
<1>4. /\ Cnt(g, Taking) = Cnt(h, Taking) + Share(x, Taking) /\ Cnt(g, Giving) = Cnt(h, Giving) + Share(x, Giving)
      /\ Cnt(g, OfApp) = Cnt(h, OfApp) + Share(x, OfApp) /\ Cnt(g, OfSwitch) = Cnt(h, OfSwitch) + Share(x, OfSwitch)
  BY <1>3
<1>5. /\ Share(x, Taking) \in Nat /\ Share(x, Giving) \in Nat
      /\ Share(x, Taking) - Share(x, Giving) = n1 /\ Share(x, OfApp) = a1 /\ Share(x, OfSwitch) = w1
  BY ShareIs DEF Val
<1>6. /\ Cnt(h, Taking) \in Nat /\ Cnt(h, Giving) \in Nat /\ Cnt(f, Taking) \in Nat /\ Cnt(f, Giving) \in Nat
      /\ Cnt(f, OfApp) \in Nat /\ Cnt(f, OfSwitch) \in Nat
  BY <1>2, CntNat
<1>7. /\ Cnt(f, Taking) - Cnt(f, Giving) \in Int
      /\ Cnt(g, Taking) - Cnt(g, Giving) = (Cnt(h, Taking) - Cnt(h, Giving)) + (Share(x, Taking) - Share(x, Giving))
  BY <1>4, <1>5, <1>6, Differ
<1>8. Net(f) \in Int /\ Net(g) = Net(h) + n1
  BY <1>5, <1>7 DEF Net
<1>9. Net(g) = Net(f) + (n1 + n2)
  BY <1>2, <1>8, Chain
<1>10. Cnt(g, OfApp) = Cnt(h, OfApp) + a1 /\ Cnt(g, OfSwitch) = Cnt(h, OfSwitch) + w1
  BY <1>4, <1>5
<1>11. Cnt(f, OfApp) \in Int /\ Cnt(f, OfSwitch) \in Int
  BY <1>6
<1>12. Cnt(g, OfApp) = Cnt(f, OfApp) + (a1 + a2)
  BY <1>2, <1>10, <1>11, Chain
<1>13. Cnt(g, OfSwitch) = Cnt(f, OfSwitch) + (w1 + w2)
  BY <1>2, <1>10, <1>11, Chain
<1> QED BY <1>3, <1>9, <1>12, <1>13 DEF g

\* No step counts for nothing; up to four count for their sum.
LEMMA Worth0 == Worth(<<>>, 0, 0, 0)
<1>1. ASSUME NEW f \in Lists, NEW t \in Threads PROVE Push(f, t, <<>>) = f
  <2>1. f[t] \in Seq(Steps)
    BY <1>1 DEF Lists
  <2>2. <<>> \o f[t] = f[t]
    BY <2>1, ConcatEmptySeq
  <2> QED BY <1>1, <2>2 DEF Push, Lists
<1>2. ASSUME NEW f, Finite(f) PROVE Net(f) = Net(f) + 0 /\ Cnt(f, OfApp) = Cnt(f, OfApp) + 0 /\ Cnt(f, OfSwitch) = Cnt(f, OfSwitch) + 0
  <2>1. Cnt(f, Taking) \in Nat /\ Cnt(f, Giving) \in Nat /\ Cnt(f, OfApp) \in Nat /\ Cnt(f, OfSwitch) \in Nat
    BY <1>2, CntNat
  <2> QED BY <2>1 DEF Net
<1>3. <<>> \in Seq(Steps)
  OBVIOUS
<1> QED BY <1>1, <1>2, <1>3 DEF Worth

LEMMA Worth1 ==
  ASSUME NEW x, NEW n1 \in Int, NEW a1 \in Int, NEW w1 \in Int, Val(x, n1, a1, w1),
         NEW n, NEW a, NEW w, n = n1, a = a1, w = w1
  PROVE  Worth(<<x>>, n, a, w)
<1> DEFINE e == <<>>
<1>1. e \in Seq(Steps) /\ Worth(e, 0, 0, 0) /\ <<x>> \o e = <<x>>
  <2>1. e \in Seq(Steps) /\ <<x>> \in Seq({x})
    OBVIOUS
  <2> QED BY <2>1, Worth0, ConcatEmptySeq
<1> HIDE DEF e
<1>2. ASSUME NEW k \in Int, Worth(e, k, k, k) PROVE Worth(<<x>> \o e, n1 + k, a1 + k, w1 + k)
  BY <1>1, <1>2, WorthCons
<1>3. n1 + 0 = n1 /\ a1 + 0 = a1 /\ w1 + 0 = w1
  OBVIOUS
<1>4. Worth(<<x>> \o e, n1 + 0, a1 + 0, w1 + 0)
  BY <1>1, <1>2
<1> QED BY <1>1, <1>3, <1>4

LEMMA Worth2 ==
  ASSUME NEW x, NEW n1 \in Int, NEW a1 \in Int, NEW w1 \in Int, Val(x, n1, a1, w1),
         NEW y, NEW n2 \in Int, NEW a2 \in Int, NEW w2 \in Int, Val(y, n2, a2, w2),
         NEW n, NEW a, NEW w, n = n1 + n2, a = a1 + a2, w = w1 + w2
  PROVE  Worth(<<x, y>>, n, a, w)
<1> DEFINE r == <<y>>
           m == n2
           b == a2
           v == w2
<1>1. x \in Steps /\ y \in Steps
  BY DEF Val
<1>2. r \in Seq(Steps) /\ <<x>> \o r = <<x, y>>
  BY <1>1, Cons2
<1>3. Worth(r, m, b, v)
  BY Worth1
<1>4. m \in Int /\ b \in Int /\ v \in Int
  OBVIOUS
<1> HIDE DEF r, m, b, v
<1>5. Worth(<<x>> \o r, n1 + m, a1 + b, w1 + v)
  BY <1>2, <1>3, <1>4, WorthCons
<1> QED BY <1>2, <1>5 DEF m, b, v

LEMMA Worth3 ==
  ASSUME NEW x, NEW n1 \in Int, NEW a1 \in Int, NEW w1 \in Int, Val(x, n1, a1, w1),
         NEW y, NEW n2 \in Int, NEW a2 \in Int, NEW w2 \in Int, Val(y, n2, a2, w2),
         NEW z, NEW n3 \in Int, NEW a3 \in Int, NEW w3 \in Int, Val(z, n3, a3, w3),
         NEW n, NEW a, NEW w, n = n1 + (n2 + n3), a = a1 + (a2 + a3), w = w1 + (w2 + w3)
  PROVE  Worth(<<x, y, z>>, n, a, w)
<1> DEFINE r == <<y, z>>
           m == n2 + n3
           b == a2 + a3
           v == w2 + w3
<1>1. x \in Steps /\ y \in Steps /\ z \in Steps
  BY DEF Val
<1>2. r \in Seq(Steps) /\ <<x>> \o r = <<x, y, z>>
  BY <1>1, Cons3
<1>3. Worth(r, m, b, v)
  BY Worth2
<1>4. m \in Int /\ b \in Int /\ v \in Int
  OBVIOUS
<1> HIDE DEF r, m, b, v
<1>5. Worth(<<x>> \o r, n1 + m, a1 + b, w1 + v)
  BY <1>2, <1>3, <1>4, WorthCons
<1> QED BY <1>2, <1>5 DEF m, b, v

LEMMA Worth4 ==
  ASSUME NEW x, NEW n1 \in Int, NEW a1 \in Int, NEW w1 \in Int, Val(x, n1, a1, w1),
         NEW y, NEW n2 \in Int, NEW a2 \in Int, NEW w2 \in Int, Val(y, n2, a2, w2),
         NEW z, NEW n3 \in Int, NEW a3 \in Int, NEW w3 \in Int, Val(z, n3, a3, w3),
         NEW u, NEW n4 \in Int, NEW a4 \in Int, NEW w4 \in Int, Val(u, n4, a4, w4),
         NEW n, NEW a, NEW w, n = n1 + (n2 + (n3 + n4)), a = a1 + (a2 + (a3 + a4)), w = w1 + (w2 + (w3 + w4))
  PROVE  Worth(<<x, y, z, u>>, n, a, w)
<1> DEFINE r == <<y, z, u>>
           m == n2 + (n3 + n4)
           b == a2 + (a3 + a4)
           v == w2 + (w3 + w4)
<1>1. x \in Steps /\ y \in Steps /\ z \in Steps /\ u \in Steps
  BY DEF Val
<1>2. r \in Seq(Steps) /\ <<x>> \o r = <<x, y, z, u>>
  BY <1>1, Cons4
<1>3. Worth(r, m, b, v)
  BY Worth3
<1>4. m \in Int /\ b \in Int /\ v \in Int
  OBVIOUS
<1> HIDE DEF r, m, b, v
<1>5. Worth(<<x>> \o r, n1 + m, a1 + b, w1 + v)
  BY <1>2, <1>3, <1>4, WorthCons
<1> QED BY <1>2, <1>5 DEF m, b, v

\* What each call of the model counts for when it puts its steps in front.
LEMMA Worths ==
  /\ Worth(<<>>, 0, 0, 0)
  /\ Worth(<<"close">>, 0, 0, 0)
  /\ Worth(<<"freeze">>, 0, 0, 0)
  /\ Worth(<<"open">>, 0, 0, 0)
  /\ Worth(<<"thaw">>, 0, 0, 0)
  /\ Worth(<<"failover">>, 0, 0, 0)
  /\ Worth(<<"claim">>, 0, 0, 0)
  /\ Worth(<<"claim_fallback">>, 0, 0, 0)
  /\ Worth(<<"abort">>, 0, 0, 0)
  /\ Worth(<<"disable">>, 0, 0, 0)
  /\ Worth(<<"release">>, 0, 0, 0)
  /\ Worth(<<"dec">>, -1, 0, 0)
  /\ Worth(<<"inc", "left">>, 0, 0, 0)
  /\ Worth(<<"clear_app">>, 1, 1, 0)
  /\ Worth(<<"clear_switch">>, 1, 0, 1)
  /\ Worth(<<"inc", "synced">>, 1, 1, 0)
  /\ Worth(<<"dec", "clear_app">>, 0, 1, 0)
  /\ Worth(<<"inc", "send_failover">>, 1, 0, 1)
  /\ Worth(<<"inc", "send_fallback">>, 1, 0, 1)
  /\ Worth(<<"clear_switch", "abort">>, 1, 0, 1)
  /\ Worth(<<"app_resume", "clear_switch">>, 1, 0, 1)
  /\ Worth(<<"app_resume", "clear_switch", "abort">>, 1, 0, 1)
  /\ Worth(<<"dec", "clear_switch">>, 0, 0, 1)
  /\ Worth(<<"disable", "take", "dec", "reissue">>, -1, 0, 0)
  /\ Worth(<<"inc", "flush", "close_files", "fast_off", "dec">>, 0, 0, 0)
  /\ Worth(<<"inc", "set_paths", "enable", "dec", "check">>, 0, 0, 0)
  /\ Worth(<<"disable", "no_files">>, 0, 0, 0)
  /\ Worth(<<"inc", "open_files">>, 0, 0, 0)
  /\ Worth(<<"disable", "release">>, 0, 0, 0)
  /\ Worth(<<"disable", "reset_switch", "app_resume", "release_all">>, 0, 0, 0)
  /\ Worth(<<"release", "release_all">>, 0, 0, 0)
<1>0. Worth(<<>>, 0, 0, 0)
  BY Worth0
<1>1. Worth(<<"close">>, 0, 0, 0)
  BY Vals, Worth1
<1>2. Worth(<<"freeze">>, 0, 0, 0)
  BY Vals, Worth1
<1>3. Worth(<<"open">>, 0, 0, 0)
  BY Vals, Worth1
<1>4. Worth(<<"thaw">>, 0, 0, 0)
  BY Vals, Worth1
<1>5. Worth(<<"failover">>, 0, 0, 0)
  BY Vals, Worth1
<1>6. Worth(<<"abort">>, 0, 0, 0)
  BY Vals, Worth1
<1>7. Worth(<<"disable">>, 0, 0, 0)
  BY Vals, Worth1
<1>8. Worth(<<"release">>, 0, 0, 0)
  BY Vals, Worth1
<1>9. Worth(<<"dec">>, -1, 0, 0)
  BY Vals, Worth1
<1>10. Worth(<<"inc", "left">>, 0, 0, 0)
  <2>1. Val("inc", 1, 0, 0) /\ Val("left", -1, 0, 0)
    BY Vals
  <2>2. ASSUME NEW i \in Int, NEW j \in Int, NEW k \in Int, Val("inc", i, k, k), Val("left", j, k, k)
        PROVE  Worth(<<"inc", "left">>, i + j, k + k, k + k)
    BY <2>2, Worth2
  <2>3. Worth(<<"inc", "left">>, 1 + (-1), 0 + 0, 0 + 0)
    BY <2>1, <2>2
  <2>4. 1 + (-1) = 0 /\ 0 + 0 = 0
    OBVIOUS
  <2> QED BY <2>3, <2>4
<1>11. Worth(<<"clear_app">>, 1, 1, 0)
  BY Vals, Worth1
<1>12. Worth(<<"clear_switch">>, 1, 0, 1)
  BY Vals, Worth1
<1>13. Worth(<<"inc", "synced">>, 1, 1, 0)
  <2>1. Val("inc", 1, 0, 0) /\ Val("synced", 0, 1, 0)
    BY Vals
  <2> QED BY <2>1, Worth2
<1>14. Worth(<<"dec", "clear_app">>, 0, 1, 0)
  <2>1. Val("dec", -1, 0, 0) /\ Val("clear_app", 1, 1, 0)
    BY Vals
  <2> QED BY <2>1, Worth2
<1>15. Worth(<<"inc", "send_failover">>, 1, 0, 1)
  <2>1. Val("inc", 1, 0, 0) /\ Val("send_failover", 0, 0, 1)
    BY Vals
  <2> QED BY <2>1, Worth2
<1>16. Worth(<<"inc", "send_fallback">>, 1, 0, 1)
  <2>1. Val("inc", 1, 0, 0) /\ Val("send_fallback", 0, 0, 1)
    BY Vals
  <2> QED BY <2>1, Worth2
<1>17. Worth(<<"clear_switch", "abort">>, 1, 0, 1)
  <2>1. Val("clear_switch", 1, 0, 1) /\ Val("abort", 0, 0, 0)
    BY Vals
  <2> QED BY <2>1, Worth2
<1>18. Worth(<<"app_resume", "clear_switch">>, 1, 0, 1)
  <2>1. Val("app_resume", 0, 0, 0) /\ Val("clear_switch", 1, 0, 1)
    BY Vals
  <2> QED BY <2>1, Worth2
<1>19. Worth(<<"app_resume", "clear_switch", "abort">>, 1, 0, 1)
  <2>1. Val("app_resume", 0, 0, 0) /\ Val("clear_switch", 1, 0, 1) /\ Val("abort", 0, 0, 0)
    BY Vals
  <2> QED BY <2>1, Worth3
<1>20. Worth(<<"dec", "clear_switch">>, 0, 0, 1)
  <2>1. Val("dec", -1, 0, 0) /\ Val("clear_switch", 1, 0, 1)
    BY Vals
  <2> QED BY <2>1, Worth2
<1>21. Worth(<<"disable", "take", "dec", "reissue">>, -1, 0, 0)
  <2>1. Val("disable", 0, 0, 0) /\ Val("take", 0, 0, 0) /\ Val("dec", -1, 0, 0) /\ Val("reissue", 0, 0, 0)
    BY Vals
  <2> QED BY <2>1, Worth4
<1>22. Worth(<<"inc", "flush", "close_files", "fast_off", "dec">>, 0, 0, 0)
  <2> DEFINE r == <<"flush", "close_files", "fast_off", "dec">>
  <2>1. Val("inc", 1, 0, 0) /\ Val("flush", 0, 0, 0) /\ Val("close_files", 0, 0, 0) /\ Val("fast_off", 0, 0, 0) /\ Val("dec", -1, 0, 0)
    BY Vals
  <2>2. Worth(r, -1, 0, 0)
    <3>1. \A x, y, z, u : Val(x, 0, 0, 0) /\ Val(y, 0, 0, 0) /\ Val(z, 0, 0, 0) /\ Val(u, -1, 0, 0) => Worth(<<x, y, z, u>>, -1, 0, 0)
      BY Worth4
    <3> QED BY <2>1, <3>1
  <2>3. r \in Seq(Steps) /\ <<"inc">> \o r = <<"inc", "flush", "close_files", "fast_off", "dec">>
    <3>1. "inc" \in Steps /\ "flush" \in Steps /\ "close_files" \in Steps /\ "fast_off" \in Steps /\ "dec" \in Steps
      BY <2>1 DEF Val
    <3> QED BY <3>1, Cons5
  <2> HIDE DEF r
  <2>4. ASSUME NEW i \in Int, NEW j \in Int, NEW k \in Int, Worth(r, j, k, k), Val("inc", i, k, k)
        PROVE  Worth(<<"inc">> \o r, i + j, k + k, k + k)
    BY <2>3, <2>4, WorthCons
  <2>5. Worth(<<"inc">> \o r, 1 + (-1), 0 + 0, 0 + 0)
    BY <2>1, <2>2, <2>4
  <2>6. 1 + (-1) = 0 /\ 0 + 0 = 0
    OBVIOUS
  <2> QED BY <2>3, <2>5, <2>6
<1>23. Worth(<<"inc", "set_paths", "enable", "dec", "check">>, 0, 0, 0)
  <2> DEFINE r == <<"set_paths", "enable", "dec", "check">>
  <2>1. Val("inc", 1, 0, 0) /\ Val("set_paths", 0, 0, 0) /\ Val("enable", 0, 0, 0) /\ Val("dec", -1, 0, 0) /\ Val("check", 0, 0, 0)
    BY Vals
  <2>2. Worth(r, -1, 0, 0)
    <3>1. \A x, y, z, u : Val(x, 0, 0, 0) /\ Val(y, 0, 0, 0) /\ Val(z, -1, 0, 0) /\ Val(u, 0, 0, 0) => Worth(<<x, y, z, u>>, -1, 0, 0)
      BY Worth4
    <3> QED BY <2>1, <3>1
  <2>3. r \in Seq(Steps) /\ <<"inc">> \o r = <<"inc", "set_paths", "enable", "dec", "check">>
    <3>1. "inc" \in Steps /\ "set_paths" \in Steps /\ "enable" \in Steps /\ "dec" \in Steps /\ "check" \in Steps
      BY <2>1 DEF Val
    <3> QED BY <3>1, Cons5
  <2> HIDE DEF r
  <2>4. ASSUME NEW i \in Int, NEW j \in Int, NEW k \in Int, Worth(r, j, k, k), Val("inc", i, k, k)
        PROVE  Worth(<<"inc">> \o r, i + j, k + k, k + k)
    BY <2>3, <2>4, WorthCons
  <2>5. Worth(<<"inc">> \o r, 1 + (-1), 0 + 0, 0 + 0)
    BY <2>1, <2>2, <2>4
  <2>6. 1 + (-1) = 0 /\ 0 + 0 = 0
    OBVIOUS
  <2> QED BY <2>3, <2>5, <2>6
<1>24. Worth(<<"disable", "no_files">>, 0, 0, 0)
  <2>1. Val("disable", 0, 0, 0) /\ Val("no_files", 0, 0, 0)
    BY Vals
  <2> QED BY <2>1, Worth2
<1>25. Worth(<<"inc", "open_files">>, 0, 0, 0)
  <2>1. Val("inc", 1, 0, 0) /\ Val("open_files", -1, 0, 0)
    BY Vals
  <2>2. ASSUME NEW i \in Int, NEW j \in Int, NEW k \in Int, Val("inc", i, k, k), Val("open_files", j, k, k)
        PROVE  Worth(<<"inc", "open_files">>, i + j, k + k, k + k)
    BY <2>2, Worth2
  <2>3. Worth(<<"inc", "open_files">>, 1 + (-1), 0 + 0, 0 + 0)
    BY <2>1, <2>2
  <2>4. 1 + (-1) = 0 /\ 0 + 0 = 0
    OBVIOUS
  <2> QED BY <2>3, <2>4
<1>26. Worth(<<"disable", "release">>, 0, 0, 0)
  <2>1. Val("disable", 0, 0, 0) /\ Val("release", 0, 0, 0)
    BY Vals
  <2> QED BY <2>1, Worth2
<1>27. Worth(<<"disable", "reset_switch", "app_resume", "release_all">>, 0, 0, 0)
  <2>1. Val("disable", 0, 0, 0) /\ Val("reset_switch", 0, 0, 0) /\ Val("app_resume", 0, 0, 0) /\ Val("release_all", 0, 0, 0)
    BY Vals
  <2> QED BY <2>1, Worth4
<1>28. Worth(<<"release", "release_all">>, 0, 0, 0)
  <2>1. Val("release", 0, 0, 0) /\ Val("release_all", 0, 0, 0)
    BY Vals
  <2> QED BY <2>1, Worth2
<1>29. Worth(<<"claim">>, 0, 0, 0)
  BY Vals, Worth1
<1>30. Worth(<<"claim_fallback">>, 0, 0, 0)
  BY Vals, Worth1
<1> QED BY <1>0, <1>1, <1>2, <1>3, <1>4, <1>5, <1>6, <1>7, <1>8, <1>9, <1>10, <1>11, <1>12, <1>13, <1>14, <1>15, <1>16, <1>17, <1>18, <1>19, <1>20, <1>21, <1>22, <1>23, <1>24, <1>25, <1>26, <1>27, <1>28, <1>29, <1>30

\* What a step of the system does to the steps ahead.
Moved(n, a, w) ==
  /\ Finite(todo') /\ Net(todo') = Net(todo) + n
  /\ Cnt(todo', OfApp) = Cnt(todo, OfApp) + a /\ Cnt(todo', OfSwitch) = Cnt(todo, OfSwitch) + w

\* The net count is an integer.
LEMMA NetInt == \A f : Finite(f) => Net(f) \in Int /\ Cnt(f, OfApp) \in Int /\ Cnt(f, OfSwitch) \in Int
<1> SUFFICES ASSUME NEW f, Finite(f) PROVE Net(f) \in Int /\ Cnt(f, OfApp) \in Int /\ Cnt(f, OfSwitch) \in Int
  OBVIOUS
<1>1. Cnt(f, Taking) \in Nat /\ Cnt(f, Giving) \in Nat /\ Cnt(f, OfApp) \in Nat /\ Cnt(f, OfSwitch) \in Nat
  BY CntNat
<1> QED BY <1>1 DEF Net

LEMMA Shift ==
  ASSUME NEW h \in Int, NEW i \in Int, NEW j \in Int, NEW p, NEW q, p = h + i, q = h + j
  PROVE  q = p + (j - i)
OBVIOUS

\* A thread does its next step and pushes others.
LEMMA DoMoved ==
  ASSUME SwitchInv, Finite(todo), NEW t \in Threads, NEW step, NEW steps, Do(t, step, steps),
         NEW n1 \in Int, NEW a1 \in Int, NEW w1 \in Int, Val(step, n1, a1, w1),
         NEW n2 \in Int, NEW a2 \in Int, NEW w2 \in Int, Worth(steps, n2, a2, w2)
  PROVE  Moved(n2 - n1, a2 - a1, w2 - w1)
<1>1. PICK h \in Lists : /\ Finite(h) /\ todo' = Push(h, t, steps)
                         /\ \A S : Cnt(todo, S) = Cnt(h, S) + Share(step, S) /\ Cnt(h, S) \in Nat
  BY PopIs
<1>2. /\ Finite(todo') /\ Net(todo') = Net(h) + n2
      /\ Cnt(todo', OfApp) = Cnt(h, OfApp) + a2 /\ Cnt(todo', OfSwitch) = Cnt(h, OfSwitch) + w2
  BY <1>1 DEF Worth
<1>3. /\ Cnt(todo, Taking) = Cnt(h, Taking) + Share(step, Taking) /\ Cnt(todo, Giving) = Cnt(h, Giving) + Share(step, Giving)
      /\ Cnt(todo, OfApp) = Cnt(h, OfApp) + Share(step, OfApp) /\ Cnt(todo, OfSwitch) = Cnt(h, OfSwitch) + Share(step, OfSwitch)
  BY <1>1
<1>4. /\ Share(step, Taking) \in Nat /\ Share(step, Giving) \in Nat
      /\ Share(step, Taking) - Share(step, Giving) = n1 /\ Share(step, OfApp) = a1 /\ Share(step, OfSwitch) = w1
  BY ShareIs DEF Val
<1>5. /\ Cnt(todo, Taking) \in Nat /\ Cnt(todo, Giving) \in Nat /\ Cnt(h, Taking) \in Nat /\ Cnt(h, Giving) \in Nat
  BY <1>1, CntNat
<1>6. Cnt(todo, Taking) - Cnt(todo, Giving) = (Cnt(h, Taking) - Cnt(h, Giving)) + (Share(step, Taking) - Share(step, Giving))
  BY <1>3, <1>4, <1>5, Differ
<1>7. Net(todo) = Net(h) + n1 /\ Cnt(todo, OfApp) = Cnt(h, OfApp) + a1 /\ Cnt(todo, OfSwitch) = Cnt(h, OfSwitch) + w1
  BY <1>3, <1>4, <1>6 DEF Net
<1>8. Net(h) \in Int /\ Cnt(h, OfApp) \in Int /\ Cnt(h, OfSwitch) \in Int
  BY <1>1, NetInt
<1>9. Net(todo') = Net(todo) + (n2 - n1)
  BY <1>2, <1>7, <1>8, Shift
<1>10. Cnt(todo', OfApp) = Cnt(todo, OfApp) + (a2 - a1)
  BY <1>2, <1>7, <1>8, Shift
<1>11. Cnt(todo', OfSwitch) = Cnt(todo, OfSwitch) + (w2 - w1)
  BY <1>2, <1>7, <1>8, Shift
<1> QED BY <1>2, <1>9, <1>10, <1>11 DEF Moved

\* A thread begins an operation.
LEMMA StartMoved ==
  ASSUME SwitchInv, Finite(todo), NEW t \in Threads, NEW steps, Start(t, steps),
         NEW n, NEW a, NEW w, Worth(steps, n, a, w)
  PROVE  Moved(n, a, w)
<1>1. todo \in Lists /\ todo[t] = <<>> /\ todo' = [todo EXCEPT ![t] = steps] /\ steps \in Seq(Steps)
  BY DEF SwitchInv, Start, Lists, Worth
<1>2. steps \o <<>> = steps
  BY <1>1, ConcatEmptySeq
<1>3. todo' = Push(todo, t, steps)
  BY <1>1, <1>2 DEF Push
<1> QED BY <1>1, <1>3 DEF Worth, Moved

\* Nothing moves.
LEMMA StillMoved ==
  ASSUME Finite(todo), UNCHANGED todo
  PROVE  Moved(0, 0, 0)
<1>1. Net(todo) \in Int /\ Cnt(todo, OfApp) \in Int /\ Cnt(todo, OfSwitch) \in Int
  BY NetInt
<1>2. Net(todo) = Net(todo) + 0 /\ Cnt(todo, OfApp) = Cnt(todo, OfApp) + 0 /\ Cnt(todo, OfSwitch) = Cnt(todo, OfSwitch) + 0
  BY <1>1
<1> QED BY <1>2 DEF Moved

\* No step of S is ahead.
LEMMA NoneAhead ==
  ASSUME todo \in Lists, NEW S, ~Ahead(S)
  PROVE  Cnt(todo, S) = 0
<1>1. ASSUME NEW t \in Threads, NEW d \in Nat, MarkedAt(todo, S, t, d) PROVE FALSE
  <2>1. todo[t] \in Seq(Steps) /\ Len(todo[t]) \in Nat /\ DOMAIN todo[t] = 1 .. Len(todo[t])
    BY <1>1 DEF Lists
  <2>2. d \in 1 .. Len(todo[t]) /\ todo[t][Len(todo[t]) + 1 - d] \in S
    BY <1>1 DEF MarkedAt
  <2>3. Len(todo[t]) + 1 - d \in 1 .. Len(todo[t])
    BY <2>1, <2>2
  <2> QED BY <2>1, <2>2, <2>3 DEF Ahead
<1>2. Marks(todo, S) = {}
  BY <1>1 DEF Marks
<1> QED BY <1>2, FS_EmptySet DEF Cnt

\* What each step of a thread and each request does to the steps ahead.
LEMMA DoIs ==
  ASSUME SwitchInv, Finite(todo), NEW t \in Threads, NEW step, NEW steps, Do(t, step, steps),
         NEW n1 \in Int, NEW a1 \in Int, NEW w1 \in Int, Val(step, n1, a1, w1),
         NEW n2 \in Int, NEW a2 \in Int, NEW w2 \in Int, Worth(steps, n2, a2, w2),
         NEW n, NEW a, NEW w, n = n2 - n1, a = a2 - a1, w = w2 - w1
  PROVE  Moved(n, a, w)
BY DoMoved

\* The steps that count neither way.
LEMMA IdleMoved ==
  ASSUME SwitchInv, Finite(todo), NEW t \in Threads,
         Close(t) \/ Freeze(t) \/ Open(t) \/ Thaw(t) \/ Disable(t) \/ FlushWork(t) \/ CloseFiles(t)
         \/ FastOff(t) \/ TakeFailQ(t) \/ ReissueFailQ(t) \/ SetPaths(t) \/ Enable(t) \/ CheckPaths(t) \/ NoFiles(t)
         \/ ResetSwitch(t) \/ ReleaseAll(t) \/ AbortFailQ(t)
  PROVE  Moved(0, 0, 0)
<1>1. /\ Val("close", 0, 0, 0) /\ Val("freeze", 0, 0, 0) /\ Val("open", 0, 0, 0) /\ Val("thaw", 0, 0, 0)
      /\ Val("disable", 0, 0, 0) /\ Val("flush", 0, 0, 0) /\ Val("close_files", 0, 0, 0) /\ Val("fast_off", 0, 0, 0)
      /\ Val("take", 0, 0, 0) /\ Val("reissue", 0, 0, 0) /\ Val("set_paths", 0, 0, 0) /\ Val("enable", 0, 0, 0)
      /\ Val("check", 0, 0, 0) /\ Val("no_files", 0, 0, 0) /\ Val("reset_switch", 0, 0, 0) /\ Val("release_all", 0, 0, 0)
      /\ Val("abort", 0, 0, 0)
  BY Vals
<1>2. /\ Worth(<<"freeze">>, 0, 0, 0) /\ Worth(<<>>, 0, 0, 0)
      /\ Worth(<<"thaw">>, 0, 0, 0) /\ Worth(<<"inc", "flush", "close_files", "fast_off", "dec">>, 0, 0, 0)
      /\ Worth(<<"inc", "open_files">>, 0, 0, 0) /\ Worth(<<"disable", "no_files">>, 0, 0, 0)
      /\ Worth(<<"release", "release_all">>, 0, 0, 0)
  BY Worths
<1>3. ASSUME NEW step, NEW steps, Do(t, step, steps), Val(step, 0, 0, 0), Worth(steps, 0, 0, 0)
      PROVE  Moved(0, 0, 0)
  BY <1>3, DoIs
<1>4. CASE Close(t)
  <2>1. Do(t, "close", <<"freeze">>) \/ Do(t, "close", <<>>)
    BY <1>4 DEF Close
  <2> QED BY <1>1, <1>2, <1>3, <2>1
<1>5. CASE Freeze(t)
  BY <1>1, <1>2, <1>3, <1>5 DEF Freeze
<1>6. CASE Open(t)
  <2>1. Do(t, "open", <<"thaw">>) \/ Do(t, "open", <<>>)
    BY <1>6 DEF Open
  <2> QED BY <1>1, <1>2, <1>3, <2>1
<1>7. CASE Thaw(t)
  BY <1>1, <1>2, <1>3, <1>7 DEF Thaw
<1>8. CASE Disable(t)
  <2>1. Do(t, "disable", <<"inc", "flush", "close_files", "fast_off", "dec">>) \/ Do(t, "disable", <<>>)
    BY <1>8 DEF Disable
  <2> QED BY <1>1, <1>2, <1>3, <2>1
<1>9. CASE FlushWork(t)
  BY <1>1, <1>2, <1>3, <1>9 DEF FlushWork
<1>10. CASE CloseFiles(t)
  BY <1>1, <1>2, <1>3, <1>10 DEF CloseFiles
<1>11. CASE FastOff(t)
  BY <1>1, <1>2, <1>3, <1>11 DEF FastOff
<1>12. CASE TakeFailQ(t)
  BY <1>1, <1>2, <1>3, <1>12 DEF TakeFailQ
<1>13. CASE ReissueFailQ(t)
  BY <1>1, <1>2, <1>3, <1>13 DEF ReissueFailQ
<1>14. CASE SetPaths(t)
  BY <1>1, <1>2, <1>3, <1>14 DEF SetPaths
<1>15. CASE Enable(t)
  <2>1. Do(t, "enable", <<"inc", "open_files">>) \/ Do(t, "enable", <<>>)
    BY <1>15 DEF Enable
  <2> QED BY <1>1, <1>2, <1>3, <2>1
<1>16. CASE CheckPaths(t)
  <2>1. Do(t, "check", <<>>) \/ Do(t, "check", <<"disable", "no_files">>)
    BY <1>16 DEF CheckPaths
  <2> QED BY <1>1, <1>2, <1>3, <2>1
<1>17. CASE NoFiles(t)
  BY <1>1, <1>2, <1>3, <1>17 DEF NoFiles
<1>18. CASE ResetSwitch(t)
  BY <1>1, <1>2, <1>3, <1>18 DEF ResetSwitch
<1>19. CASE ReleaseAll(t)
  <2>1. Do(t, "release_all", <<"release", "release_all">>) \/ Do(t, "release_all", <<>>)
    BY <1>19 DEF ReleaseAll
  <2> QED BY <1>1, <1>2, <1>3, <2>1
<1>20. CASE AbortFailQ(t)
  BY <1>1, <1>2, <1>3, <1>20 DEF AbortFailQ
<1> QED BY <1>4, <1>5, <1>6, <1>7, <1>8, <1>9, <1>10, <1>11, <1>12, <1>13, <1>14, <1>15, <1>16, <1>17, <1>18, <1>19, <1>20

\* The requests that count neither way.
LEMMA IdleRequests ==
  ASSUME SwitchInv, Finite(todo), NEW c \in Threads,
         RequestFailover(c) \/ RequestFallback(c) \/ UpdatePath(c) \/ VolCleanup(c) \/ ResetDevice(c)
  PROVE  Moved(0, 0, 0)
<1>1. /\ Worth(<<"claim">>, 0, 0, 0) /\ Worth(<<"claim_fallback">>, 0, 0, 0) /\ Worth(<<"inc", "set_paths", "enable", "dec", "check">>, 0, 0, 0)
      /\ Worth(<<"disable", "no_files">>, 0, 0, 0) /\ Worth(<<"disable", "release">>, 0, 0, 0)
      /\ Worth(<<"disable", "reset_switch", "app_resume", "release_all">>, 0, 0, 0)
  BY Worths
<1>2. ASSUME NEW steps, Start(c, steps), Worth(steps, 0, 0, 0) PROVE Moved(0, 0, 0)
  BY <1>2, StartMoved
<1>3. \E steps \in {<<"claim">>,
                    <<"claim_fallback">>,
                    <<"inc", "set_paths", "enable", "dec", "check">>,
                    <<"disable", "no_files">>,
                    <<"disable", "release">>,
                    <<"disable", "reset_switch", "app_resume", "release_all">>} : Start(c, steps)
  BY DEF RequestFailover, RequestFallback, UpdatePath, VolCleanup, ResetDevice
<1> QED BY <1>1, <1>2, <1>3

\* The steps and requests that count.
LEMMA CountedMoved ==
  ASSUME SwitchInv, Finite(todo), NEW t \in Threads
  PROVE  /\ Inc(t) => Moved(-1, 0, 0)
         /\ Dec(t) => Moved(1, 0, 0)
         /\ Release(t) => Moved(-1, 0, 0)
         /\ ClearSwitch(t) => Moved(-1, 0, -1)
         /\ ClearApp(t) => Moved(-1, -1, 0)
         /\ RequestSuspend(t) => Moved(1, 1, 0)
         /\ RequestResume(t) => Moved(-1, 0, 0)
         /\ ClaimFallback(t) /\ ioswitch_active = 0 => Moved(1, 0, 1)
<1>1. ASSUME Inc(t) PROVE Moved(-1, 0, 0)
  <2>1. PICK steps \in {<<"close">>, <<>>} : Do(t, "inc", steps)
    BY <1>1 DEF Inc
  <2>2. Worth(<<"close">>, 0, 0, 0) /\ Worth(<<>>, 0, 0, 0) /\ Val("inc", 1, 0, 0)
    BY Worths, Vals
  <2>3. Worth(steps, 0, 0, 0)
    BY <2>2
  <2> QED BY <2>1, <2>2, <2>3, DoIs
<1>2. ASSUME Dec(t) PROVE Moved(1, 0, 0)
  <2>1. PICK steps \in {<<"open">>, <<>>} : Do(t, "dec", steps)
    BY <1>2 DEF Dec
  <2>2. Worth(<<"open">>, 0, 0, 0) /\ Worth(<<>>, 0, 0, 0) /\ Val("dec", -1, 0, 0)
    BY Worths, Vals
  <2>3. Worth(steps, 0, 0, 0)
    BY <2>2
  <2> QED BY <2>1, <2>2, <2>3, DoIs
<1>3. ASSUME Release(t) PROVE Moved(-1, 0, 0)
  <2>1. PICK steps \in {<<"dec">>} : Do(t, "release", steps)
    BY <1>3 DEF Release
  <2>2. Worth(<<"dec">>, -1, 0, 0) /\ Val("release", 0, 0, 0)
    BY Worths, Vals
  <2> QED BY <2>1, <2>2, DoIs
<1>4. ASSUME ClearSwitch(t) PROVE Moved(-1, 0, -1)
  <2>1. PICK steps \in {<<>>} : Do(t, "clear_switch", steps)
    BY <1>4 DEF ClearSwitch
  <2>2. Worth(<<>>, 0, 0, 0) /\ Val("clear_switch", 1, 0, 1)
    BY Worths, Vals
  <2> QED BY <2>1, <2>2, DoIs
<1>5. ASSUME ClearApp(t) PROVE Moved(-1, -1, 0)
  <2>1. PICK steps \in {<<>>} : Do(t, "clear_app", steps)
    BY <1>5 DEF ClearApp
  <2>2. Worth(<<>>, 0, 0, 0) /\ Val("clear_app", 1, 1, 0)
    BY Worths, Vals
  <2> QED BY <2>1, <2>2, DoIs
<1>6. ASSUME RequestSuspend(t) PROVE Moved(1, 1, 0)
  <2>1. PICK steps \in {<<"inc", "synced">>, <<"clear_app">>} : Start(t, steps)
    BY <1>6 DEF RequestSuspend
  <2>2. Worth(<<"inc", "synced">>, 1, 1, 0) /\ Worth(<<"clear_app">>, 1, 1, 0)
    BY Worths
  <2>3. Worth(steps, 1, 1, 0)
    BY <2>2
  <2> QED BY <2>1, <2>2, <2>3, StartMoved
<1>7. ASSUME RequestResume(t) PROVE Moved(-1, 0, 0)
  <2>1. PICK steps \in {<<"dec">>} : Start(t, steps)
    BY <1>7 DEF RequestResume
  <2>2. Worth(<<"dec">>, -1, 0, 0)
    BY Worths
  <2> QED BY <2>1, <2>2, StartMoved
<1>8. ASSUME ClaimFallback(t), ioswitch_active = 0 PROVE Moved(1, 0, 1)
  <2>1. PICK steps \in {<<"inc", "send_fallback">>} : Do(t, "claim_fallback", steps)
    BY <1>8 DEF ClaimFallback
  <2>2. Worth(<<"inc", "send_fallback">>, 1, 0, 1) /\ Val("claim_fallback", 0, 0, 0)
    BY Worths, Vals
  <2> QED BY <2>1, <2>2, DoIs
<1> QED BY <1>1, <1>2, <1>3, <1>4, <1>5, <1>6, <1>7, <1>8

--------------------------------------------------------------------------------
\* The types hold at the start.
LEMMA TypesInit == Init => TypeOK
<1> SUFFICES ASSUME Init PROVE TypeOK
  OBVIOUS
<1>1. {closed, frozen, fast, nfd, can_failover, active_failover, racy, mixed, dropped} \subseteq BOOLEAN
  BY DEF Init
<1>2. build \in Builds /\ suspend \in Int /\ owed \in Nat /\ lent \in Nat /\ app_suspend \in 0 .. 1 /\ ioswitch_active \in 0 .. 1
  BY DEF Init
<1>3. sent \in [Codes -> 0 .. MaxSent]
  BY SwitchAssumption DEF Init
<1>4. /\ st \in [IOs -> {"idle", "queued", "mapped", "failing", "failed", "reroute", "lost"}]
      /\ ios \in [Ctl -> SUBSET IOs]
      /\ bug \in {"none", "magic", "fastpath"} /\ failQ \subseteq IOs
  BY DEF Init
<1> QED BY <1>1, <1>2, <1>3, <1>4 DEF TypeOK

\* Every step keeps them.
LEMMA TypesKept == TypeOK /\ [Next]_vars => TypeOK'
<1> SUFFICES ASSUME TypeOK, [Next]_vars PROVE TypeOK'
  OBVIOUS
<1> USE DEF gate_vars, path_vars, fail_vars, switch_vars, history
<1>1. ASSUME NEW t \in Threads, ThreadStep(t) PROVE TypeOK'
  <2>1. CASE Inc(t)
    BY <2>1 DEF Inc, TypeOK
  <2>2. CASE Close(t) \/ Freeze(t) \/ Open(t) \/ Thaw(t)
    BY <2>2 DEF Close, Freeze, Open, Thaw, TypeOK
  <2>3. CASE Dec(t)
    BY <2>3 DEF Dec, TypeOK
  <2>5. CASE ClaimFailover(t)
    BY <2>5 DEF ClaimFailover, TypeOK
  <2>6. CASE SendFailover(t)
    BY <2>6, SwitchAssumption DEF SendFailover, TypeOK, Codes
  <2>7. CASE ClearSwitch(t)
    BY <2>7 DEF ClearSwitch, TypeOK
  <2>8. CASE AppResume(t)
    BY <2>8 DEF AppResume, TypeOK
  <2> QED BY <1>1, <2>1, <2>2, <2>3, <2>5, <2>6, <2>7, <2>8 DEF ThreadStep
<1>2. ASSUME NEW c \in Ctl, ControllerStep(c), ~ThreadStep(c) PROVE TypeOK'
  <2>1. CASE Synced(c) \/ SetPaths(c) \/ Enable(c) \/ CheckPaths(c) \/ NoFiles(c) \/ ReleaseAll(c)
    BY <2>1 DEF Synced, SetPaths, Enable, CheckPaths, NoFiles, ReleaseAll, TypeOK
  <2>2. CASE ClearApp(c)
    BY <2>2 DEF ClearApp, TypeOK
  <2>3. CASE SendFallback(c)
    BY <2>3, SwitchAssumption DEF SendFallback, TypeOK, Codes
  <2>4. CASE TakeFailQ(c)
    BY <2>4 DEF TakeFailQ, TypeOK
  <2>5. CASE ReissueFailQ(c)
    BY <2>5 DEF ReissueFailQ, TypeOK
  <2>6. CASE OpenFiles(c)
    <3>0. owed \in Nat /\ (owed' = owed \/ owed' = owed + 1)
      BY <2>6 DEF OpenFiles, TypeOK
    <3>1. owed' \in Nat
      BY <3>0
    <3>3. nfd' \in {nfd, FALSE} /\ fast' \in BOOLEAN
      BY <2>6 DEF OpenFiles
    <3>2. UNCHANGED <<build, gate_vars, can_failover, fail_vars, switch_vars, bug, lent, racy, mixed, dropped>>
      BY <2>6 DEF OpenFiles
    <3> QED BY <3>1, <3>2, <3>3 DEF TypeOK
  <2>7. CASE ResetSwitch(c)
    BY <2>7 DEF ResetSwitch, TypeOK
  <2>8. CASE Left(c)
    BY <2>8 DEF Left, TypeOK
  <2>9. CASE Disable(c) \/ FlushWork(c) \/ CloseFiles(c) \/ FastOff(c)
    BY <2>9 DEF Disable, FlushWork, CloseFiles, FastOff, TypeOK
  <2>10. CASE Release(c)
    BY <2>10 DEF Release, TypeOK
  <2>11. CASE ClaimFallback(c)
    BY <2>11 DEF ClaimFallback, TypeOK
  <2> QED BY <1>2, <2>1, <2>2, <2>3, <2>4, <2>5, <2>6, <2>7, <2>8, <2>9, <2>10, <2>11 DEF ControllerStep
<1>3. ASSUME NEW c \in Ctl, Request(c) PROVE TypeOK'
  <2>1. CASE RequestSuspend(c)
    BY <2>1 DEF RequestSuspend, TypeOK
  <2>2. CASE RequestResume(c)
    BY <2>2 DEF RequestResume, TypeOK
  <2>3. CASE RequestFailover(c) \/ UpdatePath(c) \/ VolCleanup(c) \/ ResetDevice(c)
    BY <2>3 DEF RequestFailover, UpdatePath, VolCleanup, ResetDevice, TypeOK
  <2>4. CASE RequestFallback(c)
    BY <2>4 DEF RequestFallback, TypeOK
  <2>5. CASE DebugStore(c)
    BY <2>5 DEF DebugStore, TypeOK
  <2> QED BY <1>3, <2>1, <2>2, <2>3, <2>4, <2>5 DEF Request
<1>4. ASSUME NEW c \in Ctl, NEW code \in Codes, IoswitchComplete(c, code) PROVE TypeOK'
  BY <1>4, SwitchAssumption DEF IoswitchComplete, TypeOK, Codes
<1>5. ASSUME NEW i \in IOs, InitiateFailover(i) \/ AbortFailQ(i) \/ Map(i) \/ EndIO(i) \/ Reroute(i) \/ Submit(i)
      PROVE  TypeOK'
  BY <1>5 DEF InitiateFailover, AbortFailQ, Map, EndIO, Reroute, Submit, TypeOK
<1>6. ASSUME NEW i \in IOs, IoFailover(i) PROVE TypeOK'
  BY <1>6 DEF IoFailover, TypeOK
<1>7. CASE UNCHANGED vars
  BY <1>7 DEF vars, TypeOK
<1> QED BY <1>1, <1>2, <1>3, <1>4, <1>5, <1>6, <1>7 DEF Next, IOStep, Answer, Threads, ControllerStep

--------------------------------------------------------------------------------
\* The suspensions that somebody holds.
Holds == app_suspend + ioswitch_active + owed - lent

\* What is counted and what is still ahead make up what is held.
Balanced ==
  /\ suspend + Net(todo) = Holds
  /\ Cnt(todo, OfApp) <= app_suspend /\ Cnt(todo, OfSwitch) <= ioswitch_active

BalanceInv == SwitchInv /\ TypeOK /\ Finite(todo) /\ (~racy => Balanced)

\* What a step leaves of it.
BalanceKept == Finite(todo') /\ (~racy' => Balanced')

\* The types of what is counted.
LEMMA Typed ==
  ASSUME TypeOK
  PROVE  /\ suspend \in Int /\ app_suspend \in {0, 1} /\ ioswitch_active \in {0, 1} /\ owed \in Nat /\ lent \in Nat
         /\ Holds \in Int
<1>1. /\ suspend \in Int /\ app_suspend \in {0, 1} /\ ioswitch_active \in {0, 1} /\ owed \in Nat /\ lent \in Nat
  BY DEF TypeOK
<1> QED BY <1>1 DEF Holds

\* What an action has to show: count and held change alike, and no step stays ahead of a flag that is cleared.
LEMMA Keeps ==
  ASSUME BalanceInv, ~racy, NEW n \in Int, NEW a, NEW w, Moved(n, a, w),
         NEW j \in Int, NEW k \in Int, suspend' = suspend + j, Holds' = Holds + k, j + n = k,
         racy' \/ (Cnt(todo, OfApp) + a <= app_suspend' /\ Cnt(todo, OfSwitch) + w <= ioswitch_active')
  PROVE  BalanceKept
<1>1. suspend + Net(todo) = Holds
  BY DEF BalanceInv, Balanced
<1>2. suspend \in Int
  BY Typed DEF BalanceInv
<1>4. Finite(todo') /\ Net(todo') = Net(todo) + n
  BY DEF Moved
<1>5. Net(todo) \in Int
  BY NetInt DEF BalanceInv
<1>6. suspend' + Net(todo') = Holds'
  <2>1. suspend' + Net(todo') = (suspend + j) + (Net(todo) + n)
    BY <1>4, Zenon
  <2>2. (suspend + j) + (Net(todo) + n) = (suspend + Net(todo)) + k
    BY ONLY <1>2, <1>5, n \in Int, j \in Int, k \in Int, j + n = k
  <2> QED BY <1>1, <2>1, <2>2, Zenon
<1>7. Cnt(todo', OfApp) = Cnt(todo, OfApp) + a /\ Cnt(todo', OfSwitch) = Cnt(todo, OfSwitch) + w
  BY DEF Moved
<1>8. ASSUME ~racy' PROVE Cnt(todo', OfApp) <= app_suspend' /\ Cnt(todo', OfSwitch) <= ioswitch_active'
  BY <1>7, <1>8
<1> QED BY <1>4, <1>6, <1>8 DEF BalanceKept, Balanced, Net, Cnt, Marks, MarkedAt, OfApp, OfSwitch, Taking, Giving

\* What is known of the steps ahead.
LEMMA Now ==
  ASSUME BalanceInv, ~racy
  PROVE  /\ Cnt(todo, OfApp) \in Nat /\ Cnt(todo, OfSwitch) \in Nat
         /\ Cnt(todo, OfApp) <= app_suspend /\ Cnt(todo, OfSwitch) <= ioswitch_active
         /\ suspend \in Int /\ app_suspend \in {0, 1} /\ ioswitch_active \in {0, 1} /\ owed \in Nat /\ lent \in Nat
         /\ Holds \in Int
BY CntNat, Typed DEF BalanceInv, Balanced

\* Steps that count neither way and change nothing that is counted.
LEMMA Uncounted ==
  ASSUME BalanceInv, ~racy, Moved(0, 0, 0), UNCHANGED <<suspend, app_suspend, ioswitch_active, owed, lent>>
  PROVE  BalanceKept
<1>1. suspend \in Int /\ Holds \in Int
  BY Now
<1>2. suspend' = suspend + 0 /\ Holds' = Holds + 0
  BY <1>1 DEF Holds
<1>4. Cnt(todo, OfApp) + 0 <= app_suspend' /\ Cnt(todo, OfSwitch) + 0 <= ioswitch_active'
  BY Now
<1>5. ASSUME NEW k \in Int, Moved(k, k, k), suspend' = suspend + k, Holds' = Holds + k, k + k = k,
        Cnt(todo, OfApp) + k <= app_suspend' /\ Cnt(todo, OfSwitch) + k <= ioswitch_active'
      PROVE  BalanceKept
  BY <1>5, Keeps
<1> QED BY <1>2, <1>4, <1>5

\* The ways a switch that fails goes on.
LEMMA AfterError ==
  ASSUME NEW t
  PROVE  /\ OnError(t) \in {<<"abort">>, <<>>}
         /\ <<"clear_switch">> \o OnError(t) \in {<<"clear_switch", "abort">>, <<"clear_switch">>}
         /\ <<"app_resume", "clear_switch">> \o OnError(t)
              \in {<<"app_resume", "clear_switch", "abort">>, <<"app_resume", "clear_switch">>}
<1>1. {"clear_switch", "abort", "app_resume"} \subseteq Steps
  BY DEF Steps
<1>2. <<"clear_switch">> \in Seq(Steps) /\ <<"app_resume", "clear_switch">> \in Seq(Steps)
  BY <1>1, Tuples
<1>3. /\ <<"clear_switch">> \o <<"abort">> = <<"clear_switch", "abort">>
      /\ <<"app_resume", "clear_switch">> \o <<"abort">> = <<"app_resume", "clear_switch", "abort">>
  BY <1>1, Joined
<1>4. /\ <<"clear_switch">> \o <<>> = <<"clear_switch">>
      /\ <<"app_resume", "clear_switch">> \o <<>> = <<"app_resume", "clear_switch">>
  BY <1>2, ConcatEmptySeq
<1>5. CASE OnError(t) = <<"abort">>
  BY <1>3, <1>5
<1>6. CASE OnError(t) = <<>>
  BY <1>4, <1>6
<1> QED BY <1>5, <1>6 DEF OnError

\* The steps any thread takes.
LEMMA ThreadBalance ==
  ASSUME BalanceInv, ~racy, NEW t \in Threads, ThreadStep(t)
  PROVE  BalanceKept
<1> USE DEF gate_vars, path_vars, fail_vars, switch_vars, history
<1>0. SwitchInv /\ Finite(todo)
  BY DEF BalanceInv
<1>1. CASE Inc(t)
  <2>1. Moved(-1, 0, 0)
    BY <1>0, <1>1, CountedMoved
  <2>2. suspend' = suspend + 1 /\ UNCHANGED <<app_suspend, ioswitch_active, owed, lent>>
    BY <1>1 DEF Inc
  <2>3. Holds' = Holds + 0
    BY <2>2, Now DEF Holds
  <2>4. Cnt(todo, OfApp) + 0 <= app_suspend' /\ Cnt(todo, OfSwitch) + 0 <= ioswitch_active'
    BY <2>2, Now
  <2> QED BY <2>1, <2>2, <2>3, <2>4, Keeps
<1>2. CASE Dec(t)
  <2>1. Moved(1, 0, 0)
    BY <1>0, <1>2, CountedMoved
  <2>2. suspend' = suspend - 1 /\ UNCHANGED <<app_suspend, ioswitch_active, owed, lent>>
    BY <1>2 DEF Dec
  <2>3. suspend' = suspend + (-1) /\ Holds' = Holds + 0
    BY <2>2, Now DEF Holds
  <2>4. Cnt(todo, OfApp) + 0 <= app_suspend' /\ Cnt(todo, OfSwitch) + 0 <= ioswitch_active'
    BY <2>2, Now
  <2> QED BY <2>1, <2>3, <2>4, Keeps
<1>3. CASE Close(t) \/ Freeze(t) \/ Open(t) \/ Thaw(t)
  <2>1. Moved(0, 0, 0)
    BY <1>0, <1>3, IdleMoved
  <2>2. UNCHANGED <<suspend, app_suspend, ioswitch_active, owed, lent>>
    BY <1>3 DEF Close, Freeze, Open, Thaw
  <2> QED BY <2>1, <2>2, Uncounted
<1>5. CASE ClearSwitch(t)
  <2>1. Moved(-1, 0, -1)
    BY <1>0, <1>5, CountedMoved
  <2>2. ioswitch_active' = 0 /\ UNCHANGED <<suspend, app_suspend, owed, lent>>
    BY <1>5 DEF ClearSwitch
  <2>3. ioswitch_active = 1
    <3>1. Cnt(todo', OfSwitch) = Cnt(todo, OfSwitch) + (-1) /\ Cnt(todo', OfSwitch) \in Nat
      BY <2>1, CntNat DEF Moved
    <3> QED BY <3>1, Now
  <2>4. suspend' = suspend + 0 /\ Holds' = Holds + (-1)
    BY <2>2, <2>3, Now DEF Holds
  <2>5. Cnt(todo, OfApp) + 0 <= app_suspend' /\ Cnt(todo, OfSwitch) + (-1) <= ioswitch_active'
    BY <2>2, <2>3, Now
  <2> QED BY <2>1, <2>4, <2>5, Keeps
<1>6. CASE AppResume(t)
  <2>1. CASE app_suspend = 0
    <3>1. Do(t, "app_resume", <<>>) /\ UNCHANGED <<suspend, app_suspend, ioswitch_active, owed, lent>>
      BY <1>6, <2>1 DEF AppResume
    <3>2. Worth(<<>>, 0, 0, 0) /\ Val("app_resume", 0, 0, 0)
      BY Worths, Vals
    <3>3. Moved(0, 0, 0)
      BY <1>0, <3>1, <3>2, DoIs
    <3> QED BY <3>1, <3>3, Uncounted
  <2>2. CASE app_suspend = 1
    <3>1. Do(t, "app_resume", <<"dec">>) /\ app_suspend' = 0 /\ UNCHANGED <<suspend, ioswitch_active, owed, lent>>
      BY <1>6, <2>2 DEF AppResume
    <3>2. Worth(<<"dec">>, -1, 0, 0) /\ Val("app_resume", 0, 0, 0)
      BY Worths, Vals
    <3>3. Moved(-1, 0, 0)
      BY <1>0, <3>1, <3>2, DoIs
    <3>4. suspend' = suspend + 0 /\ Holds' = Holds + (-1)
      BY <2>2, <3>1, Now DEF Holds
    <3>5. racy' \/ ~Ahead(OfApp)
      BY <1>6, <2>2 DEF AppResume, MidSuspend, OfApp
    <3>6. racy' \/ Cnt(todo, OfApp) = 0
      BY <1>0, <3>5, NoneAhead DEF SwitchInv, Lists
    <3>7. racy' \/ (Cnt(todo, OfApp) + 0 <= app_suspend' /\ Cnt(todo, OfSwitch) + 0 <= ioswitch_active')
      BY <3>1, <3>6, Now
    <3> QED BY <3>3, <3>4, <3>7, Keeps
  <2> QED BY <2>1, <2>2, Now
<1>7. CASE ClaimFailover(t)
  <2>1. CASE UNCHANGED ioswitch_active /\ Do(t, "claim", <<>>)
    <3>2. Worth(<<>>, 0, 0, 0) /\ Val("claim", 0, 0, 0)
      BY Worths, Vals
    <3>4. Moved(0, 0, 0)
      BY <1>0, <2>1, <3>2, DoIs
    <3>5. UNCHANGED <<suspend, app_suspend, ioswitch_active, owed, lent>>
      BY <1>7, <2>1 DEF ClaimFailover
    <3> QED BY <3>4, <3>5, Uncounted
  <2>2. CASE /\ ioswitch_active = 0 /\ ioswitch_active' = 1
             /\ \E steps \in {<<"inc", "send_failover">>, <<"clear_switch", "abort">>, <<"clear_switch">>} : Do(t, "claim", steps)
    <3>1. PICK steps \in {<<"inc", "send_failover">>, <<"clear_switch", "abort">>, <<"clear_switch">>} : Do(t, "claim", steps)
      BY <2>2
    <3>2. /\ Worth(<<"inc", "send_failover">>, 1, 0, 1) /\ Worth(<<"clear_switch", "abort">>, 1, 0, 1)
          /\ Worth(<<"clear_switch">>, 1, 0, 1) /\ Val("claim", 0, 0, 0)
      BY Worths, Vals
    <3>3. Worth(steps, 1, 0, 1)
      BY <3>2
    <3>4. Moved(1, 0, 1)
      BY <1>0, <3>1, <3>2, <3>3, DoIs
    <3>5. UNCHANGED <<suspend, app_suspend, owed, lent>>
      BY <1>7 DEF ClaimFailover
    <3>6. suspend' = suspend + 0 /\ Holds' = Holds + 1
      BY <2>2, <3>5, Now DEF Holds
    <3>7. Cnt(todo, OfApp) + 0 <= app_suspend' /\ Cnt(todo, OfSwitch) + 1 <= ioswitch_active'
      BY <2>2, <3>5, Now
    <3> QED BY <3>4, <3>6, <3>7, Keeps
  <2>3. /\ OnError(t) \in {<<"abort">>, <<>>}
        /\ <<"clear_switch">> \o OnError(t) \in {<<"clear_switch", "abort">>, <<"clear_switch">>}
    BY AfterError
  <2> QED BY <1>7, <2>1, <2>2, <2>3 DEF ClaimFailover
<1>8. CASE SendFailover(t)
  <2>1. CASE Do(t, "send_failover", <<>>) /\ UNCHANGED owed
    <3>1. Worth(<<>>, 0, 0, 0) /\ Val("send_failover", 0, 0, 1)
      BY Worths, Vals
    <3>2. Moved(0, 0, -1)
      BY <1>0, <2>1, <3>1, DoIs
    <3>3. UNCHANGED <<suspend, app_suspend, ioswitch_active, owed, lent>>
      BY <1>8, <2>1 DEF SendFailover
    <3>4. suspend' = suspend + 0 /\ Holds' = Holds + 0
      BY <3>3, Now DEF Holds
    <3>5. Cnt(todo, OfApp) + 0 <= app_suspend' /\ Cnt(todo, OfSwitch) + (-1) <= ioswitch_active'
      BY <3>3, Now
    <3> QED BY <3>2, <3>4, <3>5, Keeps
  <2>2. CASE owed' = owed + 1 /\ \E steps \in {<<"app_resume", "clear_switch", "abort">>, <<"app_resume", "clear_switch">>} : Do(t, "send_failover", steps)
    <3>1. PICK steps \in {<<"app_resume", "clear_switch", "abort">>, <<"app_resume", "clear_switch">>} : Do(t, "send_failover", steps)
      BY <2>2
    <3>2. /\ Worth(<<"app_resume", "clear_switch", "abort">>, 1, 0, 1) /\ Worth(<<"app_resume", "clear_switch">>, 1, 0, 1)
          /\ Val("send_failover", 0, 0, 1)
      BY Worths, Vals
    <3>3. Worth(steps, 1, 0, 1)
      BY <3>2
    <3>4. Moved(1, 0, 0)
      BY <1>0, <3>1, <3>2, <3>3, DoIs
    <3>5. UNCHANGED <<suspend, app_suspend, ioswitch_active, lent>>
      BY <1>8 DEF SendFailover
    <3>6. suspend' = suspend + 0 /\ Holds' = Holds + 1
      BY <2>2, <3>5, Now DEF Holds
    <3>7. Cnt(todo, OfApp) + 0 <= app_suspend' /\ Cnt(todo, OfSwitch) + 0 <= ioswitch_active'
      BY <3>5, Now
    <3> QED BY <3>4, <3>6, <3>7, Keeps
  <2>3. <<"app_resume", "clear_switch">> \o OnError(t) \in {<<"app_resume", "clear_switch", "abort">>, <<"app_resume", "clear_switch">>}
    BY AfterError
  <2> QED BY <1>8, <2>1, <2>2, <2>3 DEF SendFailover
<1> QED BY <1>1, <1>2, <1>3, <1>5, <1>6, <1>7, <1>8 DEF ThreadStep

\* The steps of the controllers.
LEMMA ControllerBalance ==
  ASSUME BalanceInv, ~racy, NEW c \in Ctl, ControllerStep(c), ~ThreadStep(c)
  PROVE  BalanceKept
<1> USE DEF gate_vars, path_vars, fail_vars, switch_vars, history
<1>0. SwitchInv /\ Finite(todo) /\ c \in Threads
  BY DEF BalanceInv, Threads
<1>1. CASE \/ Disable(c) \/ FlushWork(c) \/ CloseFiles(c) \/ FastOff(c)
           \/ TakeFailQ(c) \/ ReissueFailQ(c) \/ SetPaths(c) \/ Enable(c) \/ CheckPaths(c) \/ NoFiles(c) \/ ReleaseAll(c)
  <2>1. Moved(0, 0, 0)
    BY <1>0, <1>1, IdleMoved
  <2>2. UNCHANGED <<suspend, app_suspend, ioswitch_active, owed, lent>>
    BY <1>1 DEF Disable, FlushWork, CloseFiles, FastOff, TakeFailQ, ReissueFailQ, SetPaths, Enable, CheckPaths, NoFiles, ReleaseAll
  <2> QED BY <2>1, <2>2, Uncounted
<1>2. CASE Synced(c)
  <2>0. UNCHANGED <<suspend, app_suspend, ioswitch_active, owed, lent>>
    BY <1>2 DEF Synced
  <2>1. CASE Do(c, "synced", <<>>)
    <3>1. Worth(<<>>, 0, 0, 0) /\ Val("synced", 0, 1, 0)
      BY Worths, Vals
    <3>2. Moved(0, -1, 0)
      BY <1>0, <2>1, <3>1, DoIs
    <3>3. suspend' = suspend + 0 /\ Holds' = Holds + 0
      BY <2>0, Now DEF Holds
    <3>4. Cnt(todo, OfApp) + (-1) <= app_suspend' /\ Cnt(todo, OfSwitch) + 0 <= ioswitch_active'
      BY <2>0, Now
    <3> QED BY <3>2, <3>3, <3>4, Keeps
  <2>2. CASE Do(c, "synced", <<"dec", "clear_app">>)
    <3>1. Worth(<<"dec", "clear_app">>, 0, 1, 0) /\ Val("synced", 0, 1, 0)
      BY Worths, Vals
    <3>2. Moved(0, 0, 0)
      BY <1>0, <2>2, <3>1, DoIs
    <3> QED BY <2>0, <3>2, Uncounted
  <2> QED BY <1>2, <2>1, <2>2 DEF Synced
<1>3. CASE ClearApp(c)
  <2>1. Moved(-1, -1, 0)
    BY <1>0, <1>3, CountedMoved
  <2>2. app_suspend' = 0 /\ UNCHANGED <<suspend, ioswitch_active, owed, lent>>
    BY <1>3 DEF ClearApp
  <2>3. app_suspend = 1
    <3>1. Cnt(todo', OfApp) = Cnt(todo, OfApp) + (-1) /\ Cnt(todo', OfApp) \in Nat
      BY <2>1, CntNat DEF Moved
    <3> QED BY <3>1, Now
  <2>4. suspend' = suspend + 0 /\ Holds' = Holds + (-1)
    BY <2>2, <2>3, Now DEF Holds
  <2>5. Cnt(todo, OfApp) + (-1) <= app_suspend' /\ Cnt(todo, OfSwitch) + 0 <= ioswitch_active'
    BY <2>2, <2>3, Now
  <2> QED BY <2>1, <2>4, <2>5, Keeps
<1>4. CASE SendFallback(c)
  <2>0. UNCHANGED <<suspend, app_suspend, ioswitch_active, owed, lent>>
    BY <1>4 DEF SendFallback
  <2>1. CASE Do(c, "send_fallback", <<>>)
    <3>1. Worth(<<>>, 0, 0, 0) /\ Val("send_fallback", 0, 0, 1)
      BY Worths, Vals
    <3>2. Moved(0, 0, -1)
      BY <1>0, <2>1, <3>1, DoIs
    <3>3. suspend' = suspend + 0 /\ Holds' = Holds + 0
      BY <2>0, Now DEF Holds
    <3>4. Cnt(todo, OfApp) + 0 <= app_suspend' /\ Cnt(todo, OfSwitch) + (-1) <= ioswitch_active'
      BY <2>0, Now
    <3> QED BY <3>2, <3>3, <3>4, Keeps
  <2>2. CASE Do(c, "send_fallback", <<"dec", "clear_switch">>)
    <3>1. Worth(<<"dec", "clear_switch">>, 0, 0, 1) /\ Val("send_fallback", 0, 0, 1)
      BY Worths, Vals
    <3>2. Moved(0, 0, 0)
      BY <1>0, <2>2, <3>1, DoIs
    <3> QED BY <2>0, <3>2, Uncounted
  <2> QED BY <1>4, <2>1, <2>2 DEF SendFallback
<1>5. CASE OpenFiles(c)
  <2>1. CASE Do(c, "open_files", <<"dec">>) /\ UNCHANGED owed
    <3>1. Worth(<<"dec">>, -1, 0, 0) /\ Val("open_files", -1, 0, 0)
      BY Worths, Vals
    <3>2. Moved(0, 0, 0)
      BY <1>0, <2>1, <3>1, DoIs
    <3>3. UNCHANGED <<suspend, app_suspend, ioswitch_active, owed, lent>>
      BY <1>5, <2>1 DEF OpenFiles
    <3> QED BY <3>2, <3>3, Uncounted
  <2>2. CASE Do(c, "open_files", <<>>) /\ owed' = owed + 1
    <3>1. Worth(<<>>, 0, 0, 0) /\ Val("open_files", -1, 0, 0)
      BY Worths, Vals
    <3>2. Moved(1, 0, 0)
      BY <1>0, <2>2, <3>1, DoIs
    <3>3. UNCHANGED <<suspend, app_suspend, ioswitch_active, lent>>
      BY <1>5 DEF OpenFiles
    <3>4. suspend' = suspend + 0 /\ Holds' = Holds + 1
      BY <2>2, <3>3, Now DEF Holds
    <3>5. Cnt(todo, OfApp) + 0 <= app_suspend' /\ Cnt(todo, OfSwitch) + 0 <= ioswitch_active'
      BY <3>3, Now
    <3> QED BY <3>2, <3>4, <3>5, Keeps
  <2> QED BY <1>5, <2>1, <2>2 DEF OpenFiles
<1>6. CASE ResetSwitch(c)
  <2>1. Moved(0, 0, 0)
    BY <1>0, <1>6, IdleMoved
  <2>2. ioswitch_active' = 0 /\ owed' = owed + ioswitch_active /\ UNCHANGED <<suspend, app_suspend, lent>>
    BY <1>6 DEF ResetSwitch
  <2>3. suspend' = suspend + 0 /\ Holds' = Holds + 0
    BY <2>2, Now DEF Holds
  <2>4. racy' \/ ioswitch_active = 0 \/ ~Ahead(OfSwitch)
    BY <1>6, Now DEF ResetSwitch, MidSwitch, OfSwitch
  <2>5. racy' \/ ioswitch_active = 0 \/ Cnt(todo, OfSwitch) = 0
    BY <1>0, <2>4, NoneAhead DEF SwitchInv, Lists
  <2>6. racy' \/ (Cnt(todo, OfApp) + 0 <= app_suspend' /\ Cnt(todo, OfSwitch) + 0 <= ioswitch_active')
    BY <2>2, <2>5, Now
  <2> QED BY <2>1, <2>3, <2>6, Keeps
<1>7. CASE Left(c)
  <2>1. Do(c, "left", <<>>) /\ owed' = owed + 1 /\ UNCHANGED <<suspend, app_suspend, ioswitch_active, lent>>
    BY <1>7 DEF Left
  <2>2. Worth(<<>>, 0, 0, 0) /\ Val("left", -1, 0, 0)
    BY Worths, Vals
  <2>3. Moved(1, 0, 0)
    BY <1>0, <2>1, <2>2, DoIs
  <2>4. suspend' = suspend + 0 /\ Holds' = Holds + 1
    BY <2>1, Now DEF Holds
  <2>5. Cnt(todo, OfApp) + 0 <= app_suspend' /\ Cnt(todo, OfSwitch) + 0 <= ioswitch_active'
    BY <2>1, Now
  <2> QED BY <2>3, <2>4, <2>5, Keeps
<1>8. CASE Release(c)
  <2>1. Moved(-1, 0, 0)
    BY <1>0, <1>8, CountedMoved
  <2>2. /\ UNCHANGED <<suspend, app_suspend, ioswitch_active>>
        /\ (owed' = owed - 1 /\ lent' = lent) \/ (owed' = owed /\ lent' = lent + 1)
    BY <1>8 DEF Release
  <2>3. suspend' = suspend + 0 /\ Holds' = Holds + (-1)
    BY <2>2, Now DEF Holds
  <2>4. Cnt(todo, OfApp) + 0 <= app_suspend' /\ Cnt(todo, OfSwitch) + 0 <= ioswitch_active'
    BY <2>2, Now
  <2> QED BY <2>1, <2>3, <2>4, Keeps
<1>9. CASE ClaimFallback(c)
  <2>0. UNCHANGED <<suspend, app_suspend, owed, lent>> /\ ioswitch_active' = 1
    BY <1>9 DEF ClaimFallback
  <2>1. CASE ioswitch_active = 0
    <3>1. Moved(1, 0, 1)
      BY <1>0, <1>9, <2>1, CountedMoved
    <3>2. suspend' = suspend + 0 /\ Holds' = Holds + 1
      BY <2>0, <2>1, Now DEF Holds
    <3>3. Cnt(todo, OfApp) + 0 <= app_suspend' /\ Cnt(todo, OfSwitch) + 1 <= ioswitch_active'
      BY <2>0, <2>1, Now
    <3> QED BY <3>1, <3>2, <3>3, Keeps
  <2>2. CASE ioswitch_active = 1
    <3>1. Do(c, "claim_fallback", <<>>)
      BY <1>9, <2>2 DEF ClaimFallback
    <3>2. Worth(<<>>, 0, 0, 0) /\ Val("claim_fallback", 0, 0, 0)
      BY Worths, Vals
    <3>3. Moved(0, 0, 0)
      BY <1>0, <3>1, <3>2, DoIs
    <3> QED BY <2>0, <2>2, <3>3, Uncounted
  <2> QED BY <2>1, <2>2, Now
<1> QED BY <1>1, <1>2, <1>3, <1>4, <1>5, <1>6, <1>7, <1>8, <1>9 DEF ControllerStep

\* The requests that begin an operation.
LEMMA RequestBalance ==
  ASSUME BalanceInv, ~racy, NEW c \in Ctl, Request(c)
  PROVE  BalanceKept
<1> USE DEF gate_vars, path_vars, fail_vars, switch_vars, history
<1>0. SwitchInv /\ Finite(todo) /\ c \in Threads
  BY DEF BalanceInv, Threads
<1>1. CASE RequestFailover(c) \/ RequestFallback(c) \/ UpdatePath(c) \/ VolCleanup(c) \/ ResetDevice(c)
  <2>1. Moved(0, 0, 0)
    BY <1>0, <1>1, IdleRequests
  <2>2. UNCHANGED <<suspend, app_suspend, ioswitch_active, owed, lent>>
    BY <1>1 DEF RequestFailover, RequestFallback, UpdatePath, VolCleanup, ResetDevice
  <2> QED BY <2>1, <2>2, Uncounted
<1>2. CASE RequestSuspend(c)
  <2>1. Moved(1, 1, 0)
    BY <1>0, <1>2, CountedMoved
  <2>2. app_suspend = 0 /\ app_suspend' = 1 /\ UNCHANGED <<suspend, ioswitch_active, owed, lent>>
    BY <1>2 DEF RequestSuspend
  <2>3. suspend' = suspend + 0 /\ Holds' = Holds + 1
    BY <2>2, Now DEF Holds
  <2>4. Cnt(todo, OfApp) + 1 <= app_suspend' /\ Cnt(todo, OfSwitch) + 0 <= ioswitch_active'
    BY <2>2, Now
  <2> QED BY <2>1, <2>3, <2>4, Keeps
<1>3. CASE RequestResume(c)
  <2>1. Moved(-1, 0, 0)
    BY <1>0, <1>3, CountedMoved
  <2>2. app_suspend = 1 /\ app_suspend' = 0 /\ UNCHANGED <<suspend, ioswitch_active, owed, lent>>
    BY <1>3 DEF RequestResume
  <2>3. suspend' = suspend + 0 /\ Holds' = Holds + (-1)
    BY <2>2, Now DEF Holds
  <2>4. racy' \/ ~Ahead(OfApp)
    BY <1>3 DEF RequestResume, MidSuspend, OfApp
  <2>5. racy' \/ Cnt(todo, OfApp) = 0
    BY <1>0, <2>4, NoneAhead DEF SwitchInv, Lists
  <2>6. racy' \/ (Cnt(todo, OfApp) + 0 <= app_suspend' /\ Cnt(todo, OfSwitch) + 0 <= ioswitch_active')
    BY <2>2, <2>5, Now
  <2> QED BY <2>1, <2>3, <2>6, Keeps
<1>5. CASE DebugStore(c)
  <2>0. UNCHANGED <<suspend, app_suspend, ioswitch_active, owed, lent>>
    BY <1>5 DEF DebugStore
  <2>1. PICK steps \in {<<"disable">>, <<"inc", "left">>, <<"release">>} : Start(c, steps)
    BY <1>5 DEF DebugStore
  <2>2. Worth(<<"disable">>, 0, 0, 0) /\ Worth(<<"inc", "left">>, 0, 0, 0) /\ Worth(<<"release">>, 0, 0, 0)
    BY Worths
  <2>3. Worth(steps, 0, 0, 0)
    BY <2>2
  <2>4. Moved(0, 0, 0)
    BY <1>0, <2>1, <2>3, StartMoved
  <2> QED BY <2>0, <2>4, Uncounted
<1> QED BY <1>1, <1>2, <1>3, <1>5 DEF Request

\* The daemon's answer to a switch.
LEMMA AnswerBalance ==
  ASSUME BalanceInv, ~racy, NEW c \in Ctl, NEW code \in Codes, IoswitchComplete(c, code)
  PROVE  BalanceKept
<1> USE DEF gate_vars, path_vars, fail_vars, switch_vars, history
<1>0. SwitchInv /\ Finite(todo) /\ c \in Threads
  BY DEF BalanceInv, Threads
<1>1. ioswitch_active' = 0 /\ UNCHANGED <<suspend, app_suspend, owed, lent>>
  BY DEF IoswitchComplete
<1>2. CASE ioswitch_active = 0
  <2>1. Start(c, <<>>)
    BY <1>2 DEF IoswitchComplete
  <2>2. Worth(<<>>, 0, 0, 0)
    BY Worths
  <2>3. Moved(0, 0, 0)
    BY <1>0, <2>1, <2>2, StartMoved
  <2> QED BY <1>1, <1>2, <2>3, Uncounted
<1>3. CASE ioswitch_active = 1
  <2>1. PICK steps \in {<<"disable", "take", "dec", "reissue">>, <<"dec">>} : Start(c, steps)
    BY <1>3 DEF IoswitchComplete
  <2>2. Worth(<<"disable", "take", "dec", "reissue">>, -1, 0, 0) /\ Worth(<<"dec">>, -1, 0, 0)
    BY Worths
  <2>3. Worth(steps, -1, 0, 0)
    BY <2>2
  <2>4. Moved(-1, 0, 0)
    BY <1>0, <2>1, <2>3, StartMoved
  <2>5. suspend' = suspend + 0 /\ Holds' = Holds + (-1)
    BY <1>1, <1>3, Now DEF Holds
  <2>6. racy' \/ ~Ahead(OfSwitch)
    BY <1>3 DEF IoswitchComplete, MidSwitch, OfSwitch
  <2>7. racy' \/ Cnt(todo, OfSwitch) = 0
    BY <1>0, <2>6, NoneAhead DEF SwitchInv, Lists
  <2>8. racy' \/ (Cnt(todo, OfApp) + 0 <= app_suspend' /\ Cnt(todo, OfSwitch) + 0 <= ioswitch_active')
    BY <1>1, <2>7, Now
  <2> QED BY <2>4, <2>5, <2>8, Keeps
<1> QED BY <1>2, <1>3, Now

\* What happens to an IO.
LEMMA IOBalance ==
  ASSUME BalanceInv, ~racy, NEW i \in IOs,
         InitiateFailover(i) \/ AbortFailQ(i) \/ Map(i) \/ EndIO(i) \/ IoFailover(i) \/ Reroute(i) \/ Submit(i)
  PROVE  BalanceKept
<1> USE DEF gate_vars, path_vars, fail_vars, switch_vars, history
<1>0. SwitchInv /\ Finite(todo) /\ i \in Threads
  BY DEF BalanceInv, Threads
<1>1. UNCHANGED <<suspend, app_suspend, ioswitch_active, owed, lent>>
  BY DEF InitiateFailover, AbortFailQ, Map, EndIO, IoFailover, Reroute, Submit
<1>2. ASSUME AbortFailQ(i) PROVE Moved(0, 0, 0)
  BY <1>0, <1>2, IdleMoved
<1>3. ASSUME UNCHANGED todo PROVE Moved(0, 0, 0)
  BY <1>0, <1>3, StillMoved
<1>4. ASSUME IoFailover(i), todo' # todo PROVE Moved(0, 0, 0)
  <2>1. PICK steps \in {<<>>, <<"failover">>} : Start(i, steps)
    BY <1>4 DEF IoFailover, Start
  <2>2. Worth(<<>>, 0, 0, 0) /\ Worth(<<"failover">>, 0, 0, 0)
    BY Worths
  <2>3. Worth(steps, 0, 0, 0)
    BY <2>2
  <2> QED BY <1>0, <2>1, <2>3, StartMoved
<1>5. ASSUME InitiateFailover(i) PROVE Moved(0, 0, 0)
  <2>1. PICK steps \in {<<"claim">>, <<"abort">>} : Do(i, "failover", steps)
    BY <1>5 DEF InitiateFailover
  <2>2. Worth(<<"claim">>, 0, 0, 0) /\ Worth(<<"abort">>, 0, 0, 0) /\ Val("failover", 0, 0, 0)
    BY Worths, Vals
  <2>3. Worth(steps, 0, 0, 0)
    BY <2>2
  <2> QED BY <1>0, <2>1, <2>2, <2>3, DoIs
<1>6. Moved(0, 0, 0)
  BY <1>2, <1>3, <1>4, <1>5 DEF Map, EndIO, Reroute, Submit
<1> QED BY <1>1, <1>6, Uncounted

\* Every step keeps the balance.
LEMMA BalanceStep == BalanceInv /\ [Next]_vars => BalanceInv'
<1> SUFFICES ASSUME BalanceInv, [Next]_vars PROVE BalanceInv'
  OBVIOUS
<1>1. SwitchInv' /\ TypeOK'
  BY SwitchKept, TypesKept DEF BalanceInv
<1>2. CASE Next
  <2>1. ~racy
    BY <1>2 DEF Next, Explored
  <2>2. \A c \in Ctl : ControllerStep(c) \/ Request(c) \/ Answer(c) => BalanceKept
    BY <2>1, ThreadBalance, ControllerBalance, RequestBalance, AnswerBalance DEF Answer, Threads
  <2>3. \A i \in IOs : IOStep(i) \/ Submit(i) => BalanceKept
    BY <2>1, ThreadBalance, IOBalance DEF IOStep, Threads
  <2>4. BalanceKept
    BY <1>2, <2>2, <2>3 DEF Next
  <2>5. Finite(todo)'
    BY <2>4 DEF BalanceKept, Finite, Marks, MarkedAt
  <2> QED BY <1>1, <2>4, <2>5 DEF BalanceInv, BalanceKept
<1>3. CASE UNCHANGED vars
  <2>1. UNCHANGED <<todo, suspend, app_suspend, ioswitch_active, owed, lent, racy>>
    BY <1>3 DEF vars, gate_vars, switch_vars, history
  <2>2. Finite(todo)' /\ (~racy => Balanced)'
    BY <2>1 DEF BalanceInv, Balanced, Holds, Net, Cnt, Finite, Marks, MarkedAt, OfApp, OfSwitch, Taking, Giving
  <2> QED BY <1>1, <2>2 DEF BalanceInv
<1> QED BY <1>2, <1>3

\* Nothing is suspended and nothing is ahead at the start.
LEMMA BalanceInitial == Init => BalanceInv
<1> SUFFICES ASSUME Init PROVE BalanceInv
  OBVIOUS
<1>1. SwitchInv /\ TypeOK
  BY SwitchInitial, TypesInit
<1>2. \A S : Marks(todo, S) = {}
  BY DEF Init, Marks, MarkedAt
<1>3. Finite(todo) /\ \A S : Cnt(todo, S) = 0
  BY <1>2, FS_EmptySet DEF Finite, Cnt
<1>4. Cnt(todo, Taking) = 0 /\ Cnt(todo, Giving) = 0 /\ Cnt(todo, OfApp) = 0 /\ Cnt(todo, OfSwitch) = 0
  BY <1>3
<1>5. suspend = 0 /\ app_suspend = 0 /\ ioswitch_active = 0 /\ owed = 0 /\ lent = 0
  BY DEF Init
<1>6. Balanced
  BY <1>4, <1>5 DEF Balanced, Net, Holds
<1> QED BY <1>1, <1>3, <1>6 DEF BalanceInv

\* pxd_suspend_io and pxd_resume_io are balanced over every caller: when no call is
\* under way fp->suspend is what the daemon, a switch and the failed calls hold, for
\* any number of controllers and IOs and wherever a call fails, as long as no two
\* threads have met in the flags that the code reads and clears without a lock.
THEOREM SuspensionsSafe == Spec => []SuspensionsSound
<1>1. BalanceInv => SuspensionsSound
  <2> SUFFICES ASSUME BalanceInv, AtRest, ~racy PROVE suspend = app_suspend + ioswitch_active + owed - lent
    BY DEF SuspensionsSound, SuspendBalanced, BalanceInv
  <2>1. \A S : ~Ahead(S)
    BY DEF AtRest, Ahead
  <2>2. Cnt(todo, Taking) = 0 /\ Cnt(todo, Giving) = 0
    BY <2>1, NoneAhead DEF BalanceInv, SwitchInv, Lists
  <2>3. suspend + Net(todo) = Holds /\ suspend \in Int
    BY Now DEF BalanceInv, Balanced
  <2>4. Net(todo) = 0
    BY <2>2 DEF Net
  <2>5. suspend = Holds
    BY <2>3, <2>4
  <2> QED BY <2>5 DEF Holds
<1> QED BY <1>1, BalanceInitial, BalanceStep, PTL DEF Spec

--------------------------------------------------------------------------------
(***************************************************************************)
(* The gate.  What a thread has still to do tells whether it is inside a   *)
(* section that it has suspended the device for: there is a step ahead     *)
(* that gives a suspension back, or hands it on, and no suspend before it. *)
(***************************************************************************)
Gates == {"close", "freeze", "open", "thaw"}

\* The steps with which a suspension that was taken is given back or handed on.
Kept == {"synced", "send_failover", "send_fallback", "left", "dec", "open_files"}

\* The steps that take a suspension, and those done under one.
Linked == {"inc", "close", "freeze", "flush", "close_files", "fast_off", "set_paths", "enable"}

\* Behind the k-th step of s one of Kept is reached before the next suspend.
Covered(s, k) ==
  \E j \in DOMAIN s : j > k /\ s[j] \in Kept /\ \A i \in DOMAIN s : k < i /\ i <= j => s[i] # "inc"

\* A thread with the steps s ahead is inside a section.
Holding(s) == Covered(s, 0)

\* Steps that follow each other.
Adjacent(x, y) ==
  /\ x = "flush" <=> y = "close_files"
  /\ x = "close_files" <=> y = "fast_off"
  /\ x = "set_paths" <=> y = "enable"

\* What the steps of a thread look like.
Shape(s) ==
  /\ \A k \in DOMAIN s : s[k] \in Linked => Covered(s, k)
  /\ \A k \in DOMAIN s : s[k] \in Gates => k = 1
  /\ \A k \in DOMAIN s : s[k] \in {"check", "no_files"} => k = Len(s)
  /\ \A k \in DOMAIN s : k + 1 \in DOMAIN s => Adjacent(s[k], s[k + 1])

Shaped == \A t \in Threads : Shape(todo[t])

\* A step of Kept at a distance e below d, and no suspend between.
Below(f, t, d, e) ==
  /\ e < d /\ MarkedAt(f, Kept, t, e)
  /\ \A c \in Nat : e <= c /\ c < d => ~MarkedAt(f, {"inc"}, t, c)

\* The same by distances.
LEMMA CoveredBelow ==
  ASSUME NEW f \in Lists, NEW t \in Threads, NEW k \in 0 .. Len(f[t]), Covered(f[t], k)
  PROVE  Len(f[t]) + 1 - k \in Nat /\ \E e \in Nat : Below(f, t, Len(f[t]) + 1 - k, e)
<1> DEFINE s == f[t]
           n == Len(f[t])
           d == n + 1 - k
<1>1. s \in Seq(Steps) /\ n \in Nat /\ DOMAIN s = 1 .. n /\ d \in Nat
  BY DEF Lists
<1>2. PICK j \in DOMAIN s : j > k /\ s[j] \in Kept /\ \A i \in DOMAIN s : k < i /\ i <= j => s[i] # "inc"
  BY DEF Covered
<1> DEFINE e == n + 1 - j
<1>3. j \in 1 .. n /\ k \in Nat
  BY <1>1, <1>2
<1> HIDE DEF s, n
<1>4. e \in Nat /\ e \in 1 .. n /\ e < d /\ n + 1 - e = j
  BY ONLY <1>1, <1>2, <1>3
<1>5. MarkedAt(f, Kept, t, e)
  BY <1>2, <1>4 DEF MarkedAt, s, n
<1>6. ASSUME NEW c \in Nat, e <= c, c < d PROVE ~MarkedAt(f, {"inc"}, t, c)
  <2>1. CASE c \in 1 .. n
    <3>1. n + 1 - c \in 1 .. n /\ k < n + 1 - c /\ n + 1 - c <= j
      BY ONLY <1>1, <1>3, <1>6, <2>1, c \in Nat
    <3>2. s[n + 1 - c] # "inc"
      BY <1>1, <1>2, <3>1
    <3> QED BY <3>2 DEF MarkedAt, s, n
  <2>2. CASE c \notin 1 .. n
    BY <2>2 DEF MarkedAt, n
  <2> QED BY <2>1, <2>2
<1>7. Below(f, t, d, e)
  BY <1>4, <1>5, <1>6 DEF Below
<1> QED BY <1>1, <1>4, <1>7 DEF n

\* There are at least as many steps of Kept ahead as suspends, and one more for
\* each thread of D that is inside a section.
Inside(f, D) == {<<t, Len(f[t]) + 1>> : t \in D}

LEMMA InsideType ==
  ASSUME NEW f \in Lists, NEW D \in SUBSET Threads
  PROVE  /\ Inside(f, D) \subseteq Threads \X Nat
         /\ \A t \in Threads, d \in Nat : <<t, d>> \in Inside(f, D) <=> t \in D /\ d = Len(f[t]) + 1
<1>1. \A t \in Threads : Len(f[t]) \in Nat
  BY DEF Lists
<1> QED BY <1>1 DEF Inside

LEMMA MoreKept ==
  ASSUME NEW f \in Lists, Finite(f), \A t \in Threads : Shape(f[t]),
         NEW D \in SUBSET Threads, \A t \in D : Holding(f[t])
  PROVE  /\ IsFiniteSet(Marks(f, {"inc"}) \union Inside(f, D))
         /\ Cardinality(Marks(f, {"inc"}) \union Inside(f, D)) <= Cnt(f, Kept)
<1> DEFINE M == Marks(f, {"inc"}) \union Inside(f, D)
           K == Marks(f, Kept)
           h == [p \in M |-> <<p[1], CHOOSE e \in Nat : Below(f, p[1], p[2], e)>>]
<1>0. \A t \in Threads : f[t] \in Seq(Steps) /\ Len(f[t]) \in Nat /\ DOMAIN f[t] = 1 .. Len(f[t])
  BY DEF Lists
<1>1. M \subseteq Threads \X Nat
  BY InsideType DEF Marks
<1>2. ASSUME NEW t \in Threads, NEW d \in Nat, <<t, d>> \in M
      PROVE  d <= Len(f[t]) + 1 /\ \E e \in Nat : Below(f, t, d, e)
  <2>1. CASE MarkedAt(f, {"inc"}, t, d)
    <3> DEFINE k == Len(f[t]) + 1 - d
    <3>1. d \in 1 .. Len(f[t]) /\ f[t][k] = "inc"
      BY <2>1 DEF MarkedAt
    <3>2. k \in 1 .. Len(f[t]) /\ k \in 0 .. Len(f[t]) /\ Len(f[t]) + 1 - k = d
      BY <1>0, <3>1
    <3>3. k \in DOMAIN f[t]
      BY <1>0, <3>2
    <3> HIDE DEF k
    <3>4. Covered(f[t], k)
      <4>1. "inc" \in Linked
        BY DEF Linked
      <4> QED BY <3>1, <3>3, <4>1 DEF Shape, k
    <3>5. \E e \in Nat : Below(f, t, Len(f[t]) + 1 - k, e)
      BY <3>2, <3>4, CoveredBelow
    <3> QED BY <1>0, <3>1, <3>2, <3>5
  <2>2. CASE <<t, d>> \in Inside(f, D)
    <3>1. t \in D /\ d = Len(f[t]) + 1
      BY <2>2, InsideType
    <3>2. 0 \in 0 .. Len(f[t]) /\ Len(f[t]) + 1 - 0 = d /\ d <= Len(f[t]) + 1
      BY <1>0, <3>1
    <3>3. Covered(f[t], 0)
      BY <3>1 DEF Holding
    <3>4. \E e \in Nat : Below(f, t, Len(f[t]) + 1 - 0, e)
      BY <3>2, <3>3, CoveredBelow
    <3> QED BY <3>2, <3>4
  <2>3. <<t, d>> \in Marks(f, {"inc"}) => MarkedAt(f, {"inc"}, t, d)
    BY DEF Marks
  <2> QED BY <1>2, <2>1, <2>2, <2>3
<1>3. ASSUME NEW p \in M
      PROVE  /\ p[1] \in Threads /\ p[2] \in Nat /\ p = <<p[1], p[2]>> /\ p[2] <= Len(f[p[1]]) + 1
             /\ h[p] = <<p[1], h[p][2]>> /\ h[p][2] \in Nat /\ Below(f, p[1], p[2], h[p][2])
  <2>1. p[1] \in Threads /\ p[2] \in Nat /\ p = <<p[1], p[2]>>
    BY <1>1
  <2>2. p[2] <= Len(f[p[1]]) + 1 /\ \E e \in Nat : Below(f, p[1], p[2], e)
    BY <1>2, <2>1
  <2> DEFINE c == CHOOSE e \in Nat : Below(f, p[1], p[2], e)
  <2>3. c \in Nat /\ Below(f, p[1], p[2], c)
    BY <2>2
  <2>4. h[p] = <<p[1], c>>
    OBVIOUS
  <2> HIDE DEF c, h, M
  <2> QED BY <2>1, <2>2, <2>3, <2>4
<1>4. h \in [M -> K]
  <2>1. ASSUME NEW p \in M PROVE h[p] \in K
    BY <1>3 DEF Below, Marks
  <2> QED BY <2>1
<1>5. ASSUME NEW p \in M, NEW q \in M, p[1] = q[1], p[2] < q[2] PROVE h[p] # h[q]
  <2>1. SUFFICES ASSUME h[p] = h[q] PROVE FALSE
    OBVIOUS
  <2> DEFINE e == h[p][2]
             t == p[1]
  <2>2. e \in Nat /\ e < p[2] /\ p[2] \in Nat /\ q[2] \in Nat /\ q[2] <= Len(f[t]) + 1 /\ t \in Threads /\ p = <<t, p[2]>>
    BY <1>3, <1>5 DEF Below
  <2>3. Below(f, t, q[2], e)
    BY <1>3, <1>5, <2>1
  <2> HIDE DEF h, e, M
  <2>4. ~MarkedAt(f, {"inc"}, t, p[2])
    BY <1>5, <2>2, <2>3 DEF Below
  <2>5. p \notin Marks(f, {"inc"})
    BY <2>2, <2>4 DEF Marks
  <2>6. p[2] = Len(f[t]) + 1
    <3>1. <<t, p[2]>> \in Inside(f, D)
      BY <2>2, <2>5 DEF M
    <3> QED BY <2>2, <3>1, InsideType
  <2> QED BY <1>0, <1>5, <2>2, <2>6
<1>6. ASSUME NEW p \in M, NEW q \in M, h[p] = h[q] PROVE p = q
  <2>0. /\ p[2] \in Nat /\ q[2] \in Nat /\ p = <<p[1], p[2]>> /\ q = <<q[1], q[2]>>
        /\ h[p] = <<p[1], h[p][2]>> /\ h[q] = <<q[1], h[q][2]>>
    BY <1>3
  <2> HIDE DEF h
  <2>1. p[1] = q[1] /\ p[2] \in Nat /\ q[2] \in Nat /\ p = <<p[1], p[2]>> /\ q = <<q[1], q[2]>>
    BY <1>6, <2>0
  <2>2. ~(p[2] < q[2]) /\ ~(q[2] < p[2])
    BY <1>5, <1>6, <2>1
  <2>3. p[2] = q[2]
    BY <2>1, <2>2
  <2> QED BY <2>1, <2>3
<1> HIDE DEF h, M
<1>7. h \in Injection(M, K)
  BY <1>4, <1>6, Fun_IsInj
<1>8. IsFiniteSet(K)
  BY DEF Finite
<1> HIDE DEF K
<1>9. IsFiniteSet(M) /\ Cardinality(M) <= Cardinality(K)
  BY <1>7, <1>8, FS_Injection
<1> QED BY <1>9 DEF M, K, Cnt

\* Steps of either of two disjoint sets.
LEMMA CntUnion ==
  ASSUME NEW f, Finite(f), NEW S, NEW T, S \intersect T = {}
  PROVE  Cnt(f, S \union T) = Cnt(f, S) + Cnt(f, T)
<1>1. Marks(f, S \union T) = Marks(f, S) \union Marks(f, T) /\ Marks(f, S) \intersect Marks(f, T) = {}
  BY DEF Marks, MarkedAt
<1>2. IsFiniteSet(Marks(f, S)) /\ IsFiniteSet(Marks(f, T))
  BY DEF Finite
<1>3. Cardinality(Marks(f, S) \intersect Marks(f, T)) = 0
  BY <1>1, FS_EmptySet
<1>4. Cnt(f, S \union T) = Cnt(f, S) + Cnt(f, T) - 0
  BY <1>1, <1>2, <1>3, FS_Union DEF Cnt
<1>5. Cnt(f, S) \in Nat /\ Cnt(f, T) \in Nat
  BY CntNat
<1> QED BY <1>4, <1>5

\* What is given back or handed on, less the suspends, in the terms of Balanced.
LEMMA KeptIs ==
  ASSUME NEW f, Finite(f)
  PROVE  /\ Cnt(f, Kept) - Cnt(f, {"inc"}) = Cnt(f, OfApp) + Cnt(f, OfSwitch) - Net(f)
         /\ Cnt(f, Kept) \in Nat /\ Cnt(f, {"inc"}) \in Nat
<1> DEFINE A == {"clear_app"}
           W == {"clear_switch"}
           I == {"inc"}
           Y == {"synced"}
           Z == {"send_failover", "send_fallback"}
<1>1. Taking = I \union (A \union W) /\ I \intersect (A \union W) = {} /\ A \intersect W = {}
  BY DEF Taking
<1>2. OfApp = Y \union A /\ Y \intersect A = {}
  BY DEF OfApp
<1>3. OfSwitch = Z \union W /\ Z \intersect W = {}
  BY DEF OfSwitch
<1>4. Kept = Giving \union (Y \union Z) /\ Giving \intersect (Y \union Z) = {} /\ Y \intersect Z = {}
  BY DEF Kept, Giving
<1> HIDE DEF A, W, I, Y, Z
<1>5. Cnt(f, Taking) = Cnt(f, I) + Cnt(f, A \union W) /\ Cnt(f, A \union W) = Cnt(f, A) + Cnt(f, W)
  BY <1>1, CntUnion
<1>6. Cnt(f, OfApp) = Cnt(f, Y) + Cnt(f, A)
  BY <1>2, CntUnion
<1>7. Cnt(f, OfSwitch) = Cnt(f, Z) + Cnt(f, W)
  BY <1>3, CntUnion
<1>8. Cnt(f, Kept) = Cnt(f, Giving) + Cnt(f, Y \union Z) /\ Cnt(f, Y \union Z) = Cnt(f, Y) + Cnt(f, Z)
  BY <1>4, CntUnion
<1>9. /\ Cnt(f, Kept) \in Nat /\ Cnt(f, I) \in Nat /\ Cnt(f, A) \in Nat /\ Cnt(f, W) \in Nat /\ Cnt(f, Y) \in Nat
      /\ Cnt(f, Z) \in Nat /\ Cnt(f, Giving) \in Nat
  BY CntNat
<1>10. Cnt(f, Kept) - Cnt(f, I) = Cnt(f, OfApp) + Cnt(f, OfSwitch) - (Cnt(f, Taking) - Cnt(f, Giving))
  BY ONLY <1>5, <1>6, <1>7, <1>8, <1>9
<1> QED BY <1>9, <1>10 DEF I, Net

\* The suspend count covers every thread that is inside a section, as long as
\* nobody has released what others hold.
LEMMA SuspendCovers ==
  ASSUME BalanceInv, ~racy, lent = 0, Shaped
  PROVE  /\ suspend \in Nat
         /\ \A t \in Threads : Holding(todo[t]) => suspend >= 1
         /\ \A t, u \in Threads : t # u /\ Holding(todo[t]) /\ Holding(todo[u]) => suspend >= 2
<1> DEFINE I == Cnt(todo, {"inc"})
           K == Cnt(todo, Kept)
           A == Cnt(todo, OfApp)
           W == Cnt(todo, OfSwitch)
<1>0. todo \in Lists /\ Finite(todo) /\ \A t \in Threads : Shape(todo[t])
  BY DEF BalanceInv, SwitchInv, Lists, Shaped
<1>1. K - I = A + W - Net(todo) /\ K \in Nat /\ I \in Nat
  BY <1>0, KeptIs
<1>2. suspend + Net(todo) = app_suspend + ioswitch_active + owed - lent /\ A <= app_suspend /\ W <= ioswitch_active
  BY DEF BalanceInv, Balanced, Holds
<1>3. suspend \in Int /\ app_suspend \in Int /\ ioswitch_active \in Int /\ owed \in Nat /\ A \in Nat /\ W \in Nat
  BY Now
<1>4. Net(todo) \in Int
  BY <1>0, NetInt
<1> HIDE DEF I, K, A, W
<1>5. suspend >= K - I
  BY ONLY <1>1, <1>2, <1>3, <1>4, lent = 0
<1> DEFINE M == Marks(todo, {"inc"})
<1>6. IsFiniteSet(M) /\ Cardinality(M) = I
  BY <1>0 DEF Finite, Cnt, I
<1> HIDE DEF M
<1>7. ASSUME NEW t \in Threads PROVE <<t, Len(todo[t]) + 1>> \notin M
  <2>1. Len(todo[t]) \in Nat
    BY <1>0 DEF Lists
  <2> QED BY <2>1 DEF M, Marks, MarkedAt
<1>8. suspend \in Nat
  <2>1. Inside(todo, {}) = {} /\ {} \in SUBSET Threads
    BY DEF Inside
  <2>2. Cardinality(M) <= K
    <3>1. Cardinality(M \union Inside(todo, {})) <= K
      BY <1>0, <2>1, MoreKept DEF M, K
    <3> QED BY <2>1, <3>1
  <2> QED BY <1>1, <1>3, <1>5, <1>6, <2>2
<1>9. ASSUME NEW t \in Threads, Holding(todo[t]) PROVE suspend >= 1
  <2> DEFINE p == <<t, Len(todo[t]) + 1>>
  <2>1. Inside(todo, {t}) = {p} /\ {t} \in SUBSET Threads
    BY DEF Inside
  <2>2. Cardinality(M \union {p}) <= K
    BY <1>0, <1>9, <2>1, MoreKept DEF M, K
  <2>3. p \notin M
    BY <1>7
  <2> HIDE DEF p
  <2>4. Cardinality(M \union {p}) = I + 1
    BY <1>6, <2>3, FS_AddElement
  <2> QED BY <1>1, <1>3, <1>5, <2>2, <2>4
<1>10. ASSUME NEW t \in Threads, NEW u \in Threads, t # u, Holding(todo[t]), Holding(todo[u]) PROVE suspend >= 2
  <2> DEFINE p == <<t, Len(todo[t]) + 1>>
             q == <<u, Len(todo[u]) + 1>>
  <2>1. Inside(todo, {t, u}) = {p, q} /\ {t, u} \in SUBSET Threads
    BY DEF Inside
  <2>2. Cardinality(M \union {p, q}) <= K
    BY <1>0, <1>10, <2>1, MoreKept DEF M, K
  <2>3. p \notin M /\ q \notin M /\ p # q
    BY <1>7, <1>10
  <2> HIDE DEF p, q
  <2>4. IsFiniteSet(M \union {p}) /\ Cardinality(M \union {p}) = I + 1
    BY <1>6, <2>3, FS_AddElement
  <2>5. Cardinality((M \union {p}) \union {q}) = (I + 1) + 1
    BY <2>3, <2>4, FS_AddElement
  <2>6. (M \union {p}) \union {q} = M \union {p, q}
    OBVIOUS
  <2>7. (I + 1) + 1 <= K
    BY <2>2, <2>5, <2>6
  <2> QED BY ONLY <1>1, <1>3, <1>5, <2>7
<1> QED BY <1>8, <1>9, <1>10

Seconds == {"close_files", "fast_off", "enable"}

\* The rest of the steps of a thread.
LEMMA TailShape ==
  ASSUME NEW s \in Seq(Steps), s # <<>>, Shape(s)
  PROVE  /\ Tail(s) \in Seq(Steps) /\ Shape(Tail(s)) /\ \A k \in DOMAIN Tail(s) : Tail(s)[k] \notin Gates
         /\ Head(s) \notin {"flush", "close_files", "set_paths"} => (Tail(s) # <<>> => Tail(s)[1] \notin Seconds)
         /\ Head(s) \in Linked => Holding(Tail(s))
         /\ Head(s) = "flush" => Head(Tail(s)) = "close_files"
         /\ Head(s) = "close_files" => Head(Tail(s)) = "fast_off"
         /\ Head(s) = "set_paths" => Head(Tail(s)) = "enable"
         /\ Head(s) \in {"check", "no_files"} => Tail(s) = <<>>
<1> DEFINE r == Tail(s)
           n == Len(s)
<1>1. /\ r \in Seq(Steps) /\ n \in Nat /\ n # 0 /\ Len(r) = n - 1 /\ Head(s) = s[1]
      /\ DOMAIN s = 1 .. n /\ DOMAIN r = 1 .. n - 1 /\ 1 \in DOMAIN s
  OBVIOUS
<1>2. \A k \in 1 .. n - 1 : r[k] = s[k + 1]
  OBVIOUS
<1> HIDE DEF r, n
<1>3. ASSUME NEW k \in 0 .. n - 1, Covered(s, k + 1) PROVE Covered(r, k)
  <2>1. PICK j \in DOMAIN s : j > k + 1 /\ s[j] \in Kept /\ \A i \in DOMAIN s : k + 1 < i /\ i <= j => s[i] # "inc"
    BY <1>3 DEF Covered
  <2> DEFINE m == j - 1
  <2>2. m \in 1 .. n - 1 /\ m > k /\ m + 1 = j
    BY <1>1, <2>1
  <2> HIDE DEF m
  <2>3. m \in DOMAIN r /\ r[m] \in Kept
    BY <1>1, <1>2, <2>1, <2>2
  <2>4. ASSUME NEW i \in DOMAIN r, k < i, i <= m PROVE r[i] # "inc"
    <3>1. i \in 1 .. n - 1
      BY <1>1
    <3>2. i + 1 \in 1 .. n /\ k + 1 < i + 1 /\ i + 1 <= j
      BY ONLY <1>1, <2>2, <2>4, <3>1, k \in 0 .. n - 1
    <3> QED BY <1>1, <1>2, <2>1, <3>1, <3>2
  <2> QED BY <2>2, <2>3, <2>4 DEF Covered
<1>4. ASSUME NEW k \in DOMAIN r
      PROVE  k + 1 \in DOMAIN s /\ k + 1 # 1 /\ r[k] = s[k + 1] /\ (k + 1 = n => k = Len(r)) /\ k \in 0 .. n - 1
  <2>1. k \in 1 .. n - 1
    BY <1>1
  <2>2. k + 1 \in 1 .. n /\ k + 1 # 1 /\ (k + 1 = n => k = n - 1) /\ k \in 0 .. n - 1
    BY <1>1, <2>1
  <2> QED BY <1>1, <1>2, <2>1, <2>2
<1>5. \A k \in DOMAIN r : r[k] \in Linked => Covered(r, k)
  BY <1>3, <1>4 DEF Shape
<1>6. \A k \in DOMAIN r : r[k] \notin Gates
  BY <1>4 DEF Shape
<1>7. \A k \in DOMAIN r : r[k] \in {"check", "no_files"} => k = Len(r)
  BY <1>4 DEF Shape, n
<1>8. ASSUME NEW k \in DOMAIN r, k + 1 \in DOMAIN r PROVE Adjacent(r[k], r[k + 1])
  <2>1. k + 1 \in DOMAIN s /\ (k + 1) + 1 \in DOMAIN s /\ r[k] = s[k + 1] /\ r[k + 1] = s[(k + 1) + 1]
    BY <1>4, <1>8
  <2> QED BY <2>1 DEF Shape
<1>9. Shape(r)
  BY <1>5, <1>6, <1>7, <1>8 DEF Shape
<1>10. ASSUME r # <<>> PROVE Head(r) = s[2] /\ r[1] = s[2] /\ Adjacent(s[1], s[2])
  <2>1. Len(r) # 0
    BY <1>1, <1>10, EmptySeq
  <2>2. 1 \in 1 .. n - 1 /\ 2 \in 1 .. n /\ 1 + 1 = 2
    BY <1>1, <2>1
  <2>3. Head(r) = r[1]
    BY <1>1, <1>10
  <2> QED BY <1>1, <1>2, <2>2, <2>3 DEF Shape
<1>11. Head(s) \in Linked => Holding(r)
  <2>1. SUFFICES ASSUME Head(s) \in Linked PROVE Holding(r)
    OBVIOUS
  <2>2. Covered(s, 1) /\ 0 \in 0 .. n - 1 /\ 0 + 1 = 1
    BY <1>1, <2>1 DEF Shape
  <2> QED BY <1>3, <2>2 DEF Holding
<1>12. Head(s) \in {"flush", "close_files", "set_paths"} => r # <<>>
  <2>1. SUFFICES ASSUME Head(s) \in {"flush", "close_files", "set_paths"}, r = <<>> PROVE FALSE
    OBVIOUS
  <2>2. Holding(r)
    BY <1>11, <2>1 DEF Linked
  <2>3. DOMAIN r = {}
    BY <2>1
  <2> QED BY <2>2, <2>3 DEF Holding, Covered
<1>13. Head(s) \notin {"flush", "close_files", "set_paths"} => (r # <<>> => r[1] \notin Seconds)
  BY <1>1, <1>10 DEF Adjacent, Seconds
<1>14. /\ Head(s) = "flush" => Head(r) = "close_files"
       /\ Head(s) = "close_files" => Head(r) = "fast_off"
       /\ Head(s) = "set_paths" => Head(r) = "enable"
  BY <1>1, <1>10, <1>12 DEF Adjacent
<1>15. Head(s) \in {"check", "no_files"} => r = <<>>
  <2>1. SUFFICES ASSUME Head(s) \in {"check", "no_files"} PROVE r = <<>>
    OBVIOUS
  <2>2. n = 1
    BY <1>1, <2>1 DEF Shape, n
  <2> QED BY <1>1, <2>2, EmptySeq
<1> QED BY <1>1, <1>6, <1>9, <1>11, <1>13, <1>14, <1>15 DEF r

\* What a call may put in front of the steps r.
Fits(steps, r) ==
  /\ steps \in Seq(Steps)
  /\ \A k \in DOMAIN steps : steps[k] \in Linked => Covered(steps, k) \/ (k = Len(steps) /\ Holding(r))
  /\ \A k \in DOMAIN steps : steps[k] \in Gates => k = 1
  /\ \A k \in DOMAIN steps : k + 1 \in DOMAIN steps => Adjacent(steps[k], steps[k + 1])
  /\ \A k \in DOMAIN steps : steps[k] \in {"check", "no_files"} => r = <<>> /\ k = Len(steps)
  /\ \A k \in DOMAIN steps : steps[k] \notin {"flush", "close_files", "set_paths"} \/ k # Len(steps)
  /\ steps # <<>> /\ r # <<>> => r[1] \notin Seconds

\* A call keeps the shape.
LEMMA PushShape ==
  ASSUME NEW r \in Seq(Steps), Shape(r), \A k \in DOMAIN r : r[k] \notin Gates, NEW steps, Fits(steps, r)
  PROVE  steps \o r \in Seq(Steps) /\ Shape(steps \o r)
<1> DEFINE s == steps \o r
           m == Len(steps)
           n == Len(r)
<1>1. /\ steps \in Seq(Steps) /\ m \in Nat /\ n \in Nat /\ s \in Seq(Steps) /\ Len(s) = m + n
      /\ DOMAIN s = 1 .. m + n /\ DOMAIN steps = 1 .. m /\ DOMAIN r = 1 .. n
  BY DEF Fits
<1>2. /\ \A k \in 1 .. m : s[k] = steps[k]
      /\ \A k \in 1 .. n : s[m + k] = r[k]
  BY <1>1
<1> HIDE DEF s, m, n
<1>3. ASSUME NEW k \in DOMAIN s PROVE k \in 1 .. m \/ \E i \in 1 .. n : k = m + i
  <2>1. CASE k <= m
    BY <1>1, <2>1
  <2>2. CASE ~(k <= m)
    <3>1. k - m \in 1 .. n /\ k = m + (k - m)
      BY <1>1, <2>2
    <3> QED BY <3>1
  <2> QED BY <2>1, <2>2
<1>4. \A k \in 1 .. m : k \in DOMAIN s
  BY <1>1
<1>5. \A k \in 1 .. n : m + k \in DOMAIN s
  BY <1>1
<1>6. ASSUME NEW k \in DOMAIN steps, Covered(steps, k) PROVE Covered(s, k)
  <2>1. PICK j \in DOMAIN steps : j > k /\ steps[j] \in Kept /\ \A i \in DOMAIN steps : k < i /\ i <= j => steps[i] # "inc"
    BY <1>6 DEF Covered
  <2>2. j \in DOMAIN s /\ s[j] \in Kept
    BY <1>1, <1>2, <1>4, <2>1
  <2>3. ASSUME NEW i \in DOMAIN s, k < i, i <= j PROVE s[i] # "inc"
    <3>1. i \in 1 .. m
      BY ONLY <1>1, <2>1, <2>3, i \in DOMAIN s, k \in DOMAIN steps
    <3> QED BY <1>1, <1>2, <2>1, <2>3, <3>1
  <2> QED BY <2>1, <2>2, <2>3 DEF Covered
<1>7. ASSUME NEW k \in 0 .. n, Covered(r, k) PROVE Covered(s, m + k)
  <2>1. PICK j \in DOMAIN r : j > k /\ r[j] \in Kept /\ \A i \in DOMAIN r : k < i /\ i <= j => r[i] # "inc"
    BY <1>7 DEF Covered
  <2>2. m + j \in DOMAIN s /\ s[m + j] \in Kept /\ m + j > m + k
    BY <1>1, <1>2, <1>5, <2>1
  <2>3. ASSUME NEW i \in DOMAIN s, m + k < i, i <= m + j PROVE s[i] # "inc"
    <3>1. i - m \in 1 .. n /\ k < i - m /\ i - m <= j /\ i = m + (i - m)
      BY ONLY <1>1, <2>1, <2>3, i \in DOMAIN s, k \in 0 .. n
    <3> QED BY <1>1, <1>2, <2>1, <3>1
  <2> QED BY <2>2, <2>3 DEF Covered
<1>8. ASSUME NEW k \in DOMAIN s, s[k] \in Linked PROVE Covered(s, k)
  <2>1. CASE k \in 1 .. m
    <3>1. Covered(steps, k) \/ (k = m /\ Holding(r))
      BY <1>1, <1>2, <1>8, <2>1 DEF Fits, m
    <3>2. CASE Covered(steps, k)
      BY <1>1, <1>6, <2>1, <3>2
    <3>3. CASE k = m /\ Holding(r)
      <4>1. Covered(r, 0) /\ 0 \in 0 .. n /\ m + 0 = k
        BY <1>1, <3>3 DEF Holding
      <4> QED BY <1>7, <4>1
    <3> QED BY <3>1, <3>2, <3>3
  <2>2. ASSUME NEW i \in 1 .. n, k = m + i PROVE Covered(s, k)
    <3>1. i \in 0 .. n /\ i \in DOMAIN r /\ r[i] \in Linked
      BY <1>1, <1>2, <1>8, <2>2
    <3> QED BY <1>7, <2>2, <3>1 DEF Shape
  <2> QED BY <1>3, <2>1, <2>2
<1>9. ASSUME NEW k \in DOMAIN s, s[k] \in Gates PROVE k = 1
  <2>1. CASE k \in 1 .. m
    BY <1>1, <1>2, <1>9, <2>1 DEF Fits
  <2>2. ASSUME NEW i \in 1 .. n, k = m + i PROVE FALSE
    BY <1>1, <1>2, <1>9, <2>2
  <2> QED BY <1>3, <2>1, <2>2
<1>10. ASSUME NEW k \in DOMAIN s, s[k] \in {"check", "no_files"} PROVE k = Len(s)
  <2>1. CASE k \in 1 .. m
    <3>1. r = <<>> /\ k = m
      BY <1>1, <1>2, <1>10, <2>1 DEF Fits, m
    <3>2. n = 0
      BY <3>1 DEF n
    <3> QED BY <1>1, <3>1, <3>2
  <2>2. ASSUME NEW i \in 1 .. n, k = m + i PROVE k = Len(s)
    <3>1. i \in DOMAIN r /\ r[i] \in {"check", "no_files"}
      BY <1>1, <1>2, <1>10, <2>2
    <3>2. i = n
      BY <3>1 DEF Shape, n
    <3> QED BY <1>1, <2>2, <3>2
  <2> QED BY <1>3, <2>1, <2>2
<1>11. ASSUME NEW k \in DOMAIN s, k + 1 \in DOMAIN s PROVE Adjacent(s[k], s[k + 1])
  <2>1. CASE k \in 1 .. m /\ k # m
    <3>1. k \in DOMAIN steps /\ k + 1 \in DOMAIN steps /\ k \in 1 .. m /\ k + 1 \in 1 .. m
      BY <1>1, <2>1
    <3> QED BY <1>2, <3>1 DEF Fits
  <2>2. CASE k \in 1 .. m /\ k = m
    <3>1. m + 1 \in 1 .. m + n /\ k \in DOMAIN steps
      BY <1>1, <1>11, <2>2
    <3>2. 1 \in 1 .. n
      BY <1>1, <3>1
    <3>3. r # <<>> /\ steps # <<>>
      BY <1>1, <3>1, <3>2
    <3>4. s[k + 1] = r[1] /\ s[k] = steps[k]
      BY <1>2, <2>2, <3>2
    <3>5. steps[k] \notin {"flush", "close_files", "set_paths"} /\ r[1] \notin Seconds
      BY <2>2, <3>1, <3>3 DEF Fits, m
    <3> QED BY <3>4, <3>5 DEF Adjacent, Seconds
  <2>3. ASSUME NEW i \in 1 .. n, k = m + i PROVE Adjacent(s[k], s[k + 1])
    <3>1. i + 1 \in 1 .. n /\ k + 1 = m + (i + 1)
      BY <1>1, <1>11, <2>3
    <3>2. i \in DOMAIN r /\ i + 1 \in DOMAIN r /\ s[k] = r[i] /\ s[k + 1] = r[i + 1]
      BY <1>1, <1>2, <2>3, <3>1
    <3> QED BY <3>2 DEF Shape
  <2> QED BY <1>3, <2>1, <2>2, <2>3
<1>12. Shape(s)
  BY <1>8, <1>9, <1>10, <1>11 DEF Shape
<1> QED BY <1>1, <1>12 DEF s

\* The steps that set the files up, or say that there are none.  A thread that has
\* two of them ahead has the paths to set and then to open the files.
Updates == {"set_paths", "enable", "open_files", "no_files"}
NoUpdate(s) == \A k \in DOMAIN s : s[k] \notin Updates
Order(s) ==
  \A j, k \in DOMAIN s : j < k /\ s[j] \in Updates /\ s[k] \in Updates => s[j] = "set_paths" /\ s[k] = "enable"

\* The next step of a thread, and those that follow it.
Hd(s) == IF s = <<>> THEN "end" ELSE Head(s)
Rest(s) == IF s = <<>> THEN <<>> ELSE Tail(s)

\* A thread with the steps s ahead may go on with steps.
Calls(s, steps) == Fits(steps, Rest(s)) /\ Order(steps) /\ (NoUpdate(steps) \/ NoUpdate(Rest(s)))

\* q is what it then has ahead.
Onto(s, steps, q) == q = steps \o Rest(s)

LEMMA OrderRest ==
  ASSUME NEW s \in Seq(Steps), s # <<>>, Order(s)
  PROVE  /\ Order(Tail(s))
         /\ Head(s) \in Updates => \A k \in DOMAIN Tail(s) : Tail(s)[k] \in Updates => Head(s) = "set_paths" /\ Tail(s)[k] = "enable"
<1> DEFINE r == Tail(s)
           n == Len(s)
<1>1. /\ r \in Seq(Steps) /\ n \in Nat /\ n # 0 /\ Head(s) = s[1] /\ DOMAIN s = 1 .. n /\ DOMAIN r = 1 .. n - 1 /\ 1 \in DOMAIN s
  OBVIOUS
<1>2. \A k \in 1 .. n - 1 : r[k] = s[k + 1]
  OBVIOUS
<1> HIDE DEF r, n
<1>3. \A k \in DOMAIN r : k + 1 \in DOMAIN s /\ r[k] = s[k + 1] /\ 1 < k + 1
  BY <1>1, <1>2
<1>4. \A j, k \in DOMAIN r : j < k => j + 1 < k + 1
  BY <1>1
<1>5. Order(r)
  BY <1>3, <1>4 DEF Order
<1>6. \A k \in DOMAIN r : s[1] \in Updates /\ r[k] \in Updates => s[1] = "set_paths" /\ r[k] = "enable"
  BY <1>1, <1>3 DEF Order
<1> QED BY <1>1, <1>5, <1>6 DEF r

LEMMA OrderPush ==
  ASSUME NEW r \in Seq(Steps), NEW steps \in Seq(Steps), Order(r), Order(steps), NoUpdate(steps) \/ NoUpdate(r)
  PROVE  Order(steps \o r)
<1> DEFINE s == steps \o r
           m == Len(steps)
           n == Len(r)
<1>1. /\ m \in Nat /\ n \in Nat /\ DOMAIN s = 1 .. m + n /\ DOMAIN steps = 1 .. m /\ DOMAIN r = 1 .. n
  OBVIOUS
<1>2. \A k \in DOMAIN s : (k \in DOMAIN steps /\ s[k] = steps[k]) \/ (k - m \in DOMAIN r /\ s[k] = r[k - m])
  OBVIOUS
<1> HIDE DEF s, m, n
<1>3. ASSUME NEW j \in DOMAIN s, NEW k \in DOMAIN s, j < k, s[j] \in Updates, s[k] \in Updates
      PROVE  s[j] = "set_paths" /\ s[k] = "enable"
  <2>1. CASE NoUpdate(steps)
    <3>1. j - m \in DOMAIN r /\ s[j] = r[j - m] /\ k - m \in DOMAIN r /\ s[k] = r[k - m]
      BY <1>2, <1>3, <2>1 DEF NoUpdate
    <3>2. j - m < k - m
      BY <1>1, <1>3
    <3> QED BY <1>3, <3>1, <3>2 DEF Order
  <2>2. CASE NoUpdate(r)
    <3>1. j \in DOMAIN steps /\ s[j] = steps[j] /\ k \in DOMAIN steps /\ s[k] = steps[k]
      BY <1>2, <1>3, <2>2 DEF NoUpdate
    <3> QED BY <1>3, <3>1 DEF Order
  <2> QED BY <2>1, <2>2
<1>4. Order(s)
  BY <1>3 DEF Order
<1> QED BY <1>4 DEF s

\* What the steps of a thread are after a step that puts others in front.
LEMMA Onward ==
  ASSUME NEW s \in Seq(Steps), Shape(s), Order(s), NEW steps, Calls(s, steps), NEW q, Onto(s, steps, q)
  PROVE  /\ q \in Seq(Steps) /\ Shape(q) /\ Order(q)
         /\ steps # <<>> => Hd(q) = steps[1]
         /\ steps = <<>> => Hd(q) \notin Gates
         /\ steps = <<>> => (Hd(q) \in Seconds => Hd(s) \in {"flush", "close_files", "set_paths"})
         /\ \A y : Has(q, y) => Has(steps, y) \/ Has(s, y)
         /\ \A y : Has(s, y) /\ y # Hd(s) => Has(q, y)
         /\ \A y : Has(steps, y) => Has(q, y)
         /\ Hd(s) \in Updates => \A y \in Updates : Has(q, y) => Has(steps, y) \/ (Hd(s) = "set_paths" /\ y = "enable")
         /\ Hd(s) \in {"check", "no_files"} => \A y : Has(q, y) => Has(steps, y)
         /\ steps = <<>> /\ Hd(s) = "flush" => Hd(q) = "close_files"
         /\ steps = <<>> /\ Hd(s) = "close_files" => Hd(q) = "fast_off"
         /\ steps = <<>> /\ Hd(s) = "set_paths" => Hd(q) = "enable"
<1> DEFINE r == Rest(s)
<1>1. Fits(steps, r) /\ steps \in Seq(Steps) /\ Order(steps) /\ (NoUpdate(steps) \/ NoUpdate(r))
  BY DEF Calls, Fits
<1>2. r \in Seq(Steps) /\ Shape(r) /\ Order(r) /\ \A k \in DOMAIN r : r[k] \notin Gates
  <2>1. CASE s = <<>>
    <3>1. r = <<>> /\ DOMAIN r = {} /\ r \in Seq(Steps)
      BY <2>1 DEF Rest
    <3> QED BY <3>1 DEF Shape, Order
  <2>2. CASE s # <<>>
    <3>1. r = Tail(s)
      BY <2>2 DEF Rest
    <3> QED BY <2>2, <3>1, TailShape, OrderRest
  <2> QED BY <2>1, <2>2
<1> HIDE DEF r
<1>3. q = steps \o r
  BY DEF r, Onto
<1>4. q \in Seq(Steps) /\ Shape(q)
  BY <1>1, <1>2, <1>3, PushShape
<1>5. Order(q)
  BY <1>1, <1>2, <1>3, OrderPush
<1>6. /\ \A y : Has(q, y) <=> Has(steps, y) \/ Has(r, y)
  <2> DEFINE m == Len(steps)
             n == Len(r)
  <2>1. /\ m \in Nat /\ n \in Nat /\ DOMAIN q = 1 .. m + n /\ DOMAIN steps = 1 .. m /\ DOMAIN r = 1 .. n
    BY <1>1, <1>2, <1>3
  <2>2. \A k \in DOMAIN q : (k \in DOMAIN steps /\ q[k] = steps[k]) \/ (k - m \in DOMAIN r /\ q[k] = r[k - m])
    BY <1>1, <1>2, <1>3
  <2>3. \A k \in DOMAIN steps : k \in DOMAIN q /\ q[k] = steps[k]
    BY <1>1, <1>2, <1>3
  <2>4. \A k \in DOMAIN r : m + k \in DOMAIN q /\ q[m + k] = r[k]
    BY <1>1, <1>2, <1>3
  <2> HIDE DEF m, n
  <2> QED BY <2>2, <2>3, <2>4 DEF Has
<1>7. steps = <<>> => q = r
  BY <1>2, <1>3, ConcatEmptySeq
<1>8. steps # <<>> => Hd(q) = steps[1]
  <2>1. SUFFICES ASSUME steps # <<>> PROVE Hd(q) = steps[1]
    OBVIOUS
  <2>2. q # <<>> /\ Head(q) = steps[1]
    BY <1>1, <1>2, <1>3, <2>1
  <2> QED BY <2>2 DEF Hd
<1>9. r # <<>> => Hd(r) = r[1] /\ 1 \in DOMAIN r
  BY <1>2 DEF Hd
<1>10. "end" \notin Gates /\ "end" \notin Seconds
  BY DEF Gates, Seconds
<1>11. Hd(r) \notin Gates
  BY <1>2, <1>9, <1>10 DEF Hd
<1>12. CASE s = <<>>
  <2>1. r = <<>> /\ Hd(s) = "end" /\ Hd(r) = "end" /\ \A y : ~Has(s, y) /\ ~Has(r, y)
    BY <1>12 DEF r, Rest, Hd, Has
  <2>2. Hd(s) \notin Updates /\ Hd(s) \notin {"check", "no_files"} /\ Hd(s) # "flush" /\ Hd(s) # "close_files" /\ Hd(s) # "set_paths"
    BY <2>1 DEF Updates
  <2> QED BY <1>4, <1>5, <1>6, <1>7, <1>8, <1>10, <2>1, <2>2
<1>13. CASE s # <<>>
  <2>1. r = Tail(s) /\ Hd(s) = Head(s)
    BY <1>13 DEF r, Rest, Hd
  <2>2. \A y : Has(r, y) => Has(s, y)
    BY <1>13, <2>1 DEF Has
  <2>3. \A y : Has(s, y) /\ y # Head(s) => Has(r, y)
    <3>1. /\ s \in Seq(Steps) /\ Head(s) = s[1]
          /\ \A k \in DOMAIN s : k = 1 \/ (k - 1 \in DOMAIN Tail(s) /\ Tail(s)[k - 1] = s[k])
      BY <1>13
    <3> QED BY <2>1, <3>1 DEF Has
  <2>4. Hd(s) \notin {"flush", "close_files", "set_paths"} => Hd(r) \notin Seconds
    BY <1>9, <1>10, <1>13, <2>1, TailShape DEF Hd
  <2>5. Hd(s) \in Updates => \A y \in Updates : Has(r, y) => Hd(s) = "set_paths" /\ y = "enable"
    BY <1>13, <2>1, OrderRest DEF Has
  <2>6. Hd(s) \in {"check", "no_files"} => \A y : ~Has(r, y)
    <3>1. Hd(s) \in {"check", "no_files"} => r = <<>>
      BY <1>13, <2>1, TailShape
    <3> QED BY <3>1 DEF Has
  <2>7. Hd(s) \in {"flush", "close_files", "set_paths"} => r # <<>>
    <3>1. SUFFICES ASSUME Hd(s) \in {"flush", "close_files", "set_paths"}, r = <<>> PROVE FALSE
      OBVIOUS
    <3>2. Head(s) \in Linked
      BY <2>1, <3>1 DEF Linked
    <3>3. Holding(r)
      BY <1>13, <2>1, <3>2, TailShape
    <3> QED BY <3>1, <3>3 DEF Holding, Covered
  <2>8. /\ Hd(s) = "flush" => Hd(r) = "close_files"
        /\ Hd(s) = "close_files" => Hd(r) = "fast_off"
        /\ Hd(s) = "set_paths" => Hd(r) = "enable"
    BY <1>13, <2>1, <2>7, TailShape DEF Hd
  <2> QED BY <1>4, <1>5, <1>6, <1>7, <1>8, <1>11, <2>1, <2>2, <2>3, <2>4, <2>5, <2>6, <2>8
<1> QED BY <1>12, <1>13

\* The steps that are done outside of any section and that nothing is said of here.
Easy == {"abort", "app_resume", "claim", "claim_fallback", "clear_app", "clear_switch", "dec", "disable", "failover",
         "left", "reissue", "release", "release_all", "reset_switch", "send_failover", "send_fallback", "synced", "take"}

LEMMA EasyIs ==
  /\ Easy \subseteq Steps
  /\ \A x \in Easy : /\ x \notin Linked /\ x \notin Gates /\ x \notin Updates /\ x \notin Seconds
                     /\ x \notin {"check", "no_files"} /\ x \notin {"flush", "close_files", "set_paths"}
                     /\ x # "inc" /\ x # "enable" /\ x # "fast_off" /\ x # "open_files"
  BY DEF Easy, Steps, Linked, Gates, Updates, Seconds

\* What follows a step that has no fixed successor.
LEMMA RestFirst ==
  ASSUME NEW s \in Seq(Steps), Shape(s), Hd(s) \notin {"flush", "close_files", "set_paths"}
  PROVE  Rest(s) \in Seq(Steps) /\ (Rest(s) # <<>> => Rest(s)[1] \notin Seconds)
<1>1. CASE s = <<>>
  BY <1>1 DEF Rest
<1>2. CASE s # <<>>
  BY <1>2, TailShape DEF Rest, Hd
<1> QED BY <1>1, <1>2

LEMMA CallNone == ASSUME NEW s \in Seq(Steps) PROVE Calls(s, <<>>)
  BY DEF Calls, Fits, Order, NoUpdate

LEMMA CallEasy ==
  ASSUME NEW s \in Seq(Steps), Shape(s), Hd(s) \notin {"flush", "close_files", "set_paths"}, NEW steps \in Seq(Easy)
  PROVE  Calls(s, steps)
<1>1. steps \in Seq(Steps) /\ \A k \in DOMAIN steps : steps[k] \in Easy
  BY EasyIs
<1>2. NoUpdate(steps) /\ Order(steps)
  BY <1>1, EasyIs DEF NoUpdate, Order
<1>3. Fits(steps, Rest(s))
  BY <1>1, EasyIs, RestFirst DEF Fits, Adjacent
<1> QED BY <1>2, <1>3 DEF Calls

\* The gate.
LEMMA CallGate ==
  ASSUME NEW s \in Seq(Steps), Shape(s), s # <<>>, Head(s) \notin {"flush", "close_files", "set_paths"},
         NEW a \in Gates, a \in {"close", "freeze"} => Head(s) \in Linked
  PROVE  Calls(s, <<a>>)
<1> DEFINE g == <<a>>
<1>1. g \in Seq(Steps) /\ DOMAIN g = {1} /\ Len(g) = 1 /\ g[1] = a
  BY DEF Gates, Steps
<1>2. a \in Linked => a \in {"close", "freeze"}
  BY DEF Gates, Linked
<1>3. Rest(s) = Tail(s) /\ Hd(s) = Head(s)
  BY DEF Rest, Hd
<1>4. a \in Linked => Holding(Rest(s))
  BY <1>2, <1>3, TailShape
<1>5. a \notin Updates /\ a \notin {"check", "no_files"} /\ a \notin {"flush", "close_files", "set_paths"}
  BY DEF Gates, Updates
<1>6. Rest(s) \in Seq(Steps) /\ (Rest(s) # <<>> => Rest(s)[1] \notin Seconds)
  BY <1>3, RestFirst
<1>7. 1 + 1 \notin {1}
  OBVIOUS
<1> HIDE DEF g
<1>8. NoUpdate(g) /\ Order(g)
  BY <1>1, <1>5 DEF NoUpdate, Order
<1>9. Fits(g, Rest(s))
  BY <1>1, <1>4, <1>5, <1>6, <1>7 DEF Fits
<1> QED BY <1>8, <1>9 DEF Calls, g

\* A suspend for what comes next.
LEMMA CallInc ==
  ASSUME NEW s \in Seq(Steps), Shape(s), Hd(s) \notin {"flush", "close_files", "set_paths"},
         NEW a \in Kept, a # "open_files" \/ NoUpdate(Rest(s))
  PROVE  Calls(s, <<"inc", a>>)
<1> DEFINE g == <<"inc", a>>
<1>0. a \in Steps /\ a \notin Linked /\ a \notin Gates /\ a \notin {"check", "no_files"} /\ a \notin {"flush", "close_files", "set_paths"}
      /\ a # "inc" /\ (a # "open_files" => a \notin Updates) /\ a \notin Seconds
  BY DEF Kept, Steps, Linked, Gates, Updates, Seconds
<1>1. "inc" \in Steps /\ "inc" \notin Gates /\ "inc" \notin Updates /\ "inc" \notin {"check", "no_files"}
      /\ "inc" \notin {"flush", "close_files", "set_paths"}
  BY DEF Steps, Gates, Updates
<1>2. g \in Seq(Steps) /\ DOMAIN g = {1, 2} /\ Len(g) = 2 /\ g[1] = "inc" /\ g[2] = a
  BY <1>0, <1>1
<1>3. Rest(s) \in Seq(Steps) /\ (Rest(s) # <<>> => Rest(s)[1] \notin Seconds)
  BY RestFirst
<1>4. 1 + 1 = 2 /\ 2 + 1 \notin {1, 2} /\ 2 > 1 /\ ~(1 < 1) /\ ~(2 < 1) /\ ~(2 < 2)
  OBVIOUS
<1> HIDE DEF g
<1>5. Covered(g, 1)
  BY <1>0, <1>2, <1>4 DEF Covered
<1>6. Order(g) /\ (a # "open_files" => NoUpdate(g))
  BY <1>0, <1>1, <1>2, <1>4 DEF NoUpdate, Order
<1>7. Adjacent("inc", a)
  BY <1>0 DEF Adjacent, Seconds
<1>8. Fits(g, Rest(s))
  BY <1>0, <1>1, <1>2, <1>3, <1>4, <1>5, <1>7 DEF Fits
<1> QED BY <1>6, <1>8 DEF Calls, g

\* The section in which the files are closed.
LEMMA CallDisable ==
  ASSUME NEW s \in Seq(Steps), Shape(s), Hd(s) = "disable"
  PROVE  Calls(s, <<"inc", "flush", "close_files", "fast_off", "dec">>)
<1> DEFINE g == <<"inc", "flush", "close_files", "fast_off", "dec">>
<1>1. {"inc", "flush", "close_files", "fast_off", "dec"} \subseteq Steps
  BY DEF Steps
<1>2. g \in Seq(Steps)
  BY <1>1, Tuples
<1>3. /\ DOMAIN g = 1 .. 5 /\ Len(g) = 5 /\ g[1] = "inc" /\ g[2] = "flush" /\ g[3] = "close_files"
      /\ g[4] = "fast_off" /\ g[5] = "dec"
  OBVIOUS
<1>4. Rest(s) \in Seq(Steps) /\ (Rest(s) # <<>> => Rest(s)[1] \notin Seconds)
  BY RestFirst
<1> HIDE DEF g
<1>5. \A k \in DOMAIN g : k = 1 \/ k = 2 \/ k = 3 \/ k = 4 \/ k = 5
  BY <1>3
<1>6. \A k \in DOMAIN g : /\ g[k] \notin Updates /\ g[k] \notin {"check", "no_files"} /\ g[k] \notin Gates
                          /\ (g[k] = "inc" => k = 1) /\ (k = 5 => g[k] \notin {"flush", "close_files", "set_paths"})
  BY <1>3, <1>5 DEF Updates, Gates
<1>7. NoUpdate(g) /\ Order(g)
  BY <1>6 DEF NoUpdate, Order
<1>8. ASSUME NEW k \in DOMAIN g, g[k] \in Linked PROVE Covered(g, k)
  <2>1. k # 5
    BY <1>3, <1>8 DEF Linked
  <2>2. 5 \in DOMAIN g /\ 5 > k /\ g[5] \in Kept
    BY <1>3, <1>5, <2>1 DEF Kept
  <2>3. \A i \in DOMAIN g : k < i /\ i <= 5 => g[i] # "inc"
    BY <1>3, <1>5, <1>6
  <2> QED BY <2>2, <2>3 DEF Covered
<1>9. ASSUME NEW k \in DOMAIN g, k + 1 \in DOMAIN g PROVE Adjacent(g[k], g[k + 1])
  <2>1. k = 1 \/ k = 2 \/ k = 3 \/ k = 4
    BY <1>3, <1>9
  <2> QED BY <1>3, <2>1 DEF Adjacent
<1>10. Fits(g, Rest(s))
  BY <1>2, <1>3, <1>4, <1>6, <1>8, <1>9 DEF Fits
<1> QED BY <1>7, <1>10 DEF Calls, g

\* The section in which the paths are set.
LEMMA CallUpdate ==
  Calls(<<>>, <<"inc", "set_paths", "enable", "dec", "check">>)
<1> DEFINE g == <<"inc", "set_paths", "enable", "dec", "check">>
<1>1. {"inc", "set_paths", "enable", "dec", "check"} \subseteq Steps
  BY DEF Steps
<1>2. g \in Seq(Steps)
  BY <1>1, Tuples
<1>3. /\ DOMAIN g = 1 .. 5 /\ Len(g) = 5 /\ g[1] = "inc" /\ g[2] = "set_paths" /\ g[3] = "enable"
      /\ g[4] = "dec" /\ g[5] = "check"
  OBVIOUS
<1>4. Rest(<<>>) = <<>>
  BY DEF Rest
<1> HIDE DEF g
<1>5. \A k \in DOMAIN g : k = 1 \/ k = 2 \/ k = 3 \/ k = 4 \/ k = 5
  BY <1>3
<1>6. \A k \in DOMAIN g : /\ (g[k] \in Updates => k = 2 \/ k = 3) /\ (g[k] \in {"check", "no_files"} => k = 5) /\ g[k] \notin Gates
                          /\ (g[k] = "inc" => k = 1) /\ (k = 5 => g[k] \notin {"flush", "close_files", "set_paths"})
  BY <1>3, <1>5 DEF Updates, Gates
<1>7. Order(g)
  <2>1. ASSUME NEW j \in DOMAIN g, NEW k \in DOMAIN g, j < k, g[j] \in Updates, g[k] \in Updates
        PROVE  j = 2 /\ k = 3
    <3>1. (j = 2 \/ j = 3) /\ (k = 2 \/ k = 3)
      BY <1>6, <2>1
    <3> QED BY <2>1, <3>1
  <2> QED BY <1>3, <2>1 DEF Order
<1>8. ASSUME NEW k \in DOMAIN g, g[k] \in Linked PROVE Covered(g, k)
  <2>1. k # 4 /\ k # 5
    BY <1>3, <1>8 DEF Linked
  <2>2. 4 \in DOMAIN g /\ 4 > k /\ g[4] \in Kept
    BY <1>3, <1>5, <2>1 DEF Kept
  <2>3. \A i \in DOMAIN g : k < i /\ i <= 4 => g[i] # "inc"
    BY <1>3, <1>5, <1>6
  <2> QED BY <2>2, <2>3 DEF Covered
<1>9. ASSUME NEW k \in DOMAIN g, k + 1 \in DOMAIN g PROVE Adjacent(g[k], g[k + 1])
  <2>1. k = 1 \/ k = 2 \/ k = 3 \/ k = 4
    BY <1>3, <1>9
  <2> QED BY <1>3, <2>1 DEF Adjacent
<1>10. Fits(g, <<>>)
  BY <1>2, <1>3, <1>6, <1>8, <1>9 DEF Fits
<1>11. NoUpdate(<<>>)
  BY DEF NoUpdate
<1> QED BY <1>4, <1>7, <1>10, <1>11 DEF Calls, g

\* Without paths.
LEMMA CallNoFiles ==
  ASSUME NEW s \in Seq(Steps), Rest(s) = <<>>
  PROVE  Calls(s, <<"disable", "no_files">>)
<1> DEFINE g == <<"disable", "no_files">>
<1>1. "disable" \in Steps /\ "no_files" \in Steps
  BY DEF Steps
<1>2. g \in Seq(Steps) /\ DOMAIN g = {1, 2} /\ Len(g) = 2 /\ g[1] = "disable" /\ g[2] = "no_files"
  BY <1>1
<1>3. /\ "disable" \notin Linked /\ "disable" \notin Gates /\ "disable" \notin {"check", "no_files"} /\ "disable" \notin Updates
      /\ "no_files" \notin Linked /\ "no_files" \notin Gates /\ "no_files" \notin {"flush", "close_files", "set_paths"}
      /\ Adjacent("disable", "no_files")
  BY DEF Linked, Gates, Updates, Adjacent
<1>4. 1 + 1 = 2 /\ 2 + 1 \notin {1, 2} /\ 1 # 2 /\ ~(1 < 1) /\ ~(2 < 2) /\ ~(2 < 1)
  OBVIOUS
<1> HIDE DEF g
<1>5. Order(g) /\ NoUpdate(<<>>)
  BY <1>2, <1>3, <1>4 DEF Order, NoUpdate
<1>6. Fits(g, <<>>)
  BY <1>2, <1>3, <1>4 DEF Fits
<1> QED BY <1>5, <1>6 DEF Calls, g

\* The steps at the files (AtFiles).
Files == {"flush", "close_files", "fast_off", "set_paths", "enable", "open_files", "check", "no_files"}

Ordered == \A t \in Threads : Order(todo[t])
Formed == todo \in Lists /\ Shaped /\ Ordered

\* Thread t has done the step x and goes on with steps.
Went(t, x, steps) ==
  Hd(todo[t]) = x /\ todo' = [todo EXCEPT ![t] = steps \o Rest(todo[t])] /\ Calls(todo[t], steps)

\* The step is neither at the gate nor at the files, and calls nothing that is.
Quiet(x, steps) ==
  x \notin Gates /\ x \notin Files /\ (steps \in Seq(Easy) \/ \E a \in Kept \ {"open_files"} : steps = <<"inc", a>>)

LEMMA DoWent ==
  ASSUME NEW t \in Threads, NEW x, NEW steps, Do(t, x, steps), Calls(todo[t], steps)
  PROVE  Went(t, x, steps)
  BY DEF Do, Went, Hd, Rest

LEMMA StartWent ==
  ASSUME NEW t \in Threads, NEW steps, Start(t, steps), Calls(todo[t], steps)
  PROVE  Went(t, "end", steps)
<1>1. steps \in Seq(Steps) /\ Rest(todo[t]) = <<>> /\ Hd(todo[t]) = "end"
  BY DEF Calls, Fits, Start, Rest, Hd
<1>2. steps \o <<>> = steps
  BY <1>1, ConcatEmptySeq
<1> QED BY <1>1, <1>2 DEF Start, Went

\* A step keeps the forms, and nothing moves but the thread that takes it.
LEMMA WentForms ==
  ASSUME Formed, NEW t \in Threads, NEW x, NEW steps, Went(t, x, steps)
  PROVE  Formed' /\ todo'[t] = steps \o Rest(todo[t]) /\ \A u \in Threads : u # t => todo'[u] = todo[u]
<1>0. todo \in [Threads -> Seq(Steps)] /\ todo[t] \in Seq(Steps) /\ Shape(todo[t]) /\ Order(todo[t])
  BY DEF Formed, Lists, Shaped, Ordered
<1>1. PICK q : Onto(todo[t], steps, q)
  BY DEF Onto
<1>2. Calls(todo[t], steps) /\ todo' = [todo EXCEPT ![t] = q]
  BY <1>1 DEF Went, Onto
<1>3. q \in Seq(Steps) /\ Shape(q) /\ Order(q)
  BY <1>0, <1>1, <1>2, Onward
<1>4. todo' \in [Threads -> Seq(Steps)] /\ todo'[t] = q /\ \A u \in Threads : u # t => todo'[u] = todo[u]
  BY <1>0, <1>2, <1>3
<1>5. \A u \in Threads : Shape(todo'[u]) /\ Order(todo'[u])
  BY <1>3, <1>4 DEF Formed, Shaped, Ordered
<1>6. Shaped' /\ Ordered'
  BY <1>5 DEF Shaped, Ordered
<1>7. (todo \in Lists)'
  BY <1>4 DEF Lists
<1> QED BY <1>1, <1>4, <1>6, <1>7 DEF Formed, Onto

\* Nobody comes to the gate or leaves it.
GateKept == \A u \in Threads, a \in Gates : Hd(todo'[u]) = a <=> Hd(todo[u]) = a

LEMMA WentGate ==
  ASSUME Formed, NEW t \in Threads, NEW x, NEW steps, Went(t, x, steps), x \notin Gates, steps = <<>> \/ steps[1] \notin Gates
  PROVE  GateKept
<1>0. todo[t] \in Seq(Steps) /\ Shape(todo[t]) /\ Order(todo[t])
  BY DEF Formed, Lists, Shaped, Ordered
<1>1. PICK q : Onto(todo[t], steps, q)
  BY DEF Onto
<1>2. Calls(todo[t], steps) /\ Hd(todo[t]) = x
  BY DEF Went
<1>3. Hd(q) \notin Gates
  BY <1>0, <1>1, <1>2, Onward
<1>4. todo'[t] = q /\ \A u \in Threads : u # t => todo'[u] = todo[u]
  BY <1>1, WentForms DEF Onto
<1> QED BY <1>2, <1>3, <1>4 DEF GateKept

\* Nobody comes to the files or leaves them.
Heads == {"close_files", "fast_off"}
FilesKept ==
  /\ \A u \in Threads, y \in Files : Has(todo'[u], y) <=> Has(todo[u], y)
  /\ \A u \in Threads, y \in Heads : Hd(todo'[u]) = y <=> Hd(todo[u]) = y

LEMMA WentFiles ==
  ASSUME Formed, NEW t \in Threads, NEW x, NEW steps, Went(t, x, steps), x \notin Files, \A y \in Files : ~Has(steps, y)
  PROVE  FilesKept
<1>0. todo[t] \in Seq(Steps) /\ Shape(todo[t]) /\ Order(todo[t])
  BY DEF Formed, Lists, Shaped, Ordered
<1>1. PICK q : Onto(todo[t], steps, q)
  BY DEF Onto
<1>2. Calls(todo[t], steps) /\ Hd(todo[t]) = x /\ steps \in Seq(Steps)
  BY DEF Went, Calls, Fits
<1>3. todo'[t] = q /\ \A u \in Threads : u # t => todo'[u] = todo[u]
  BY <1>1, WentForms DEF Onto
<1>4. \A y \in Files : Has(q, y) <=> Has(todo[t], y)
  BY <1>0, <1>1, <1>2, Onward
<1>5. Heads \subseteq Seconds /\ Heads \subseteq Files /\ {"flush", "close_files", "set_paths"} \subseteq Files
  BY DEF Heads, Seconds, Files
<1>6. Hd(q) \notin Heads
  <2>1. CASE steps = <<>>
    BY <1>0, <1>1, <1>2, <1>5, <2>1, Onward
  <2>2. CASE steps # <<>>
    <3>1. Hd(q) = steps[1]
      BY <1>0, <1>1, <1>2, <2>2, Onward
    <3>2. Has(steps, steps[1])
      BY <1>2, <2>2 DEF Has
    <3> QED BY <1>5, <3>1, <3>2
  <2> QED BY <2>1, <2>2
<1>7. Hd(todo[t]) \notin Heads
  BY <1>2, <1>5
<1> QED BY <1>3, <1>4, <1>6, <1>7 DEF FilesKept

LEMMA QuietIs ==
  ASSUME NEW x, NEW steps, Quiet(x, steps)
  PROVE  /\ x \notin Gates /\ x \notin Files
         /\ steps = <<>> \/ steps[1] \notin Gates
         /\ \A y \in Files : ~Has(steps, y)
<1>0. x \notin Gates /\ x \notin Files
  BY DEF Quiet
<1>1. CASE steps \in Seq(Easy)
  <2>1. \A k \in DOMAIN steps : steps[k] \in Easy
    BY <1>1
  <2>2. steps = <<>> \/ 1 \in DOMAIN steps
    BY <1>1
  <2>3. \A y \in Easy : y \notin Gates /\ y \notin Files
    BY DEF Easy, Gates, Files
  <2> QED BY <1>0, <2>1, <2>2, <2>3 DEF Has
<1>2. ASSUME NEW a \in Kept \ {"open_files"}, steps = <<"inc", a>>
      PROVE  steps[1] \notin Gates /\ \A y \in Files : ~Has(steps, y)
  <2>1. DOMAIN steps = {1, 2} /\ steps[1] = "inc" /\ steps[2] = a
    BY <1>2
  <2>2. a \notin Files /\ "inc" \notin Files /\ "inc" \notin Gates
    BY <1>2 DEF Kept, Files, Gates
  <2> QED BY <2>1, <2>2 DEF Has
<1> QED BY <1>0, <1>1, <1>2 DEF Quiet

LEMMA QuietWent ==
  ASSUME Formed, NEW t \in Threads, NEW x, NEW steps, Quiet(x, steps), Do(t, x, steps) \/ (x = "end" /\ Start(t, steps))
  PROVE  Went(t, x, steps)
<1>0. todo[t] \in Seq(Steps) /\ Shape(todo[t])
  BY DEF Formed, Lists, Shaped
<1>1. x \notin Files /\ {"flush", "close_files", "set_paths"} \subseteq Files
  BY DEF Quiet, Files
<1>2. Hd(todo[t]) = x
  BY DEF Do, Start, Hd
<1>3. Hd(todo[t]) \notin {"flush", "close_files", "set_paths"}
  BY <1>1, <1>2
<1>4. Calls(todo[t], steps)
  <2>1. CASE steps \in Seq(Easy)
    BY <1>0, <1>3, <2>1, CallEasy
  <2>2. CASE \E a \in Kept \ {"open_files"} : steps = <<"inc", a>>
    BY <1>0, <1>3, <2>2, CallInc
  <2> QED BY <2>1, <2>2 DEF Quiet
<1> QED BY <1>4, DoWent, StartWent

\* Nothing that the gate or the files are about changes.
Still ==
  /\ UNCHANGED <<build, suspend, closed, frozen, fast, nfd, mixed>>
  /\ \A i \in IOs : st'[i] \in {"lost", "queued"} => st'[i] = st[i]

\* What a step that has nothing to do with the gate and the files leaves.
Undisturbed == Formed' /\ GateKept /\ FilesKept /\ Still

LEMMA Undisturbs ==
  ASSUME Formed, Still, NEW t \in Threads, NEW x, NEW steps, Quiet(x, steps), Do(t, x, steps) \/ (x = "end" /\ Start(t, steps))
  PROVE  Undisturbed
<1>1. Went(t, x, steps)
  BY QuietWent
<1>2. /\ x \notin Gates /\ x \notin Files /\ (steps = <<>> \/ steps[1] \notin Gates)
      /\ \A y \in Files : ~Has(steps, y)
  BY QuietIs
<1> QED BY <1>1, <1>2, WentForms, WentGate, WentFiles DEF Undisturbed

\* The names a quiet step may have, and what it may call.
Quiets == {"end", "release", "failover", "claim", "claim_fallback", "send_failover", "clear_switch", "app_resume", "synced",
           "clear_app", "send_fallback", "take", "reissue", "reset_switch", "release_all", "left", "abort"}

LEMMA EasySteps ==
  /\ <<>> \in Seq(Easy) /\ <<"dec">> \in Seq(Easy) /\ <<"abort">> \in Seq(Easy) /\ <<"clear_app">> \in Seq(Easy)
  /\ <<"dec", "clear_app">> \in Seq(Easy) /\ <<"failover">> \in Seq(Easy) /\ <<"claim">> \in Seq(Easy)
  /\ <<"claim_fallback">> \in Seq(Easy) /\ <<"clear_switch">> \in Seq(Easy)
  /\ <<"app_resume", "clear_switch">> \in Seq(Easy) /\ <<"dec", "clear_switch">> \in Seq(Easy)
  /\ <<"disable", "take", "dec", "reissue">> \in Seq(Easy) /\ <<"disable", "release">> \in Seq(Easy)
  /\ <<"disable", "reset_switch", "app_resume", "release_all">> \in Seq(Easy) /\ <<"release", "release_all">> \in Seq(Easy)
  /\ <<"disable">> \in Seq(Easy) /\ <<"release">> \in Seq(Easy)
<1>1. {"dec", "abort", "clear_app", "failover", "claim", "claim_fallback", "clear_switch", "app_resume", "disable", "take", "reissue", "release",
       "reset_switch", "release_all"} \subseteq Easy
  BY DEF Easy
<1> QED BY <1>1, Tuples

LEMMA QuietSteps ==
  ASSUME NEW x \in Quiets
  PROVE  /\ \A steps \in Seq(Easy) : Quiet(x, steps)
         /\ \A a \in {"synced", "send_failover", "send_fallback", "left"} : Quiet(x, <<"inc", a>>)
<1>1. x \notin Gates /\ x \notin Files
  BY DEF Quiets, Gates, Files
<1>2. {"synced", "send_failover", "send_fallback", "left"} \subseteq Kept \ {"open_files"}
  BY DEF Kept
<1> QED BY <1>1, <1>2 DEF Quiet

LEMMA ErrorEasy ==
  ASSUME NEW t
  PROVE  /\ OnError(t) \in Seq(Easy) /\ <<"clear_switch">> \o OnError(t) \in Seq(Easy)
         /\ <<"app_resume", "clear_switch">> \o OnError(t) \in Seq(Easy)
<1>1. OnError(t) \in Seq(Easy)
  BY EasySteps DEF OnError
<1> QED BY <1>1, EasySteps, ConcatProperties

\* The steps of any thread that are neither at the gate nor at the files.
LEMMA QuietThread ==
  ASSUME Formed, NEW t \in Threads,
         ClaimFailover(t) \/ SendFailover(t) \/ ClearSwitch(t) \/ AppResume(t)
  PROVE  Undisturbed
<1> USE DEF gate_vars, path_vars, fail_vars, switch_vars, history
<1>1. Still
  BY DEF ClaimFailover, SendFailover, ClearSwitch, AppResume, Still
<1>2. PICK x, steps : Quiet(x, steps) /\ Do(t, x, steps)
  <2>0. {"claim", "send_failover", "clear_switch", "app_resume"} \subseteq Quiets
    BY DEF Quiets
  <2>2. CASE ClaimFailover(t)
    <3>1. \/ Do(t, "claim", <<>>) \/ Do(t, "claim", <<"inc", "send_failover">>)
          \/ Do(t, "claim", <<"clear_switch">> \o OnError(t))
      BY <2>2 DEF ClaimFailover
    <3> QED BY <2>0, <3>1, EasySteps, ErrorEasy, QuietSteps
  <2>3. CASE SendFailover(t)
    <3>1. Do(t, "send_failover", <<>>) \/ Do(t, "send_failover", <<"app_resume", "clear_switch">> \o OnError(t))
      BY <2>3 DEF SendFailover
    <3> QED BY <2>0, <3>1, EasySteps, ErrorEasy, QuietSteps
  <2>4. CASE ClearSwitch(t)
    BY <2>0, <2>4, EasySteps, QuietSteps DEF ClearSwitch
  <2>5. CASE AppResume(t)
    <3>1. Do(t, "app_resume", <<"dec">>) \/ Do(t, "app_resume", <<>>)
      BY <2>5 DEF AppResume
    <3> QED BY <2>0, <3>1, EasySteps, QuietSteps
  <2> QED BY <2>2, <2>3, <2>4, <2>5
<1> QED BY <1>1, <1>2, Undisturbs

\* Those of a controller.
LEMMA QuietController ==
  ASSUME Formed, NEW c \in Ctl,
         \/ Release(c) \/ Synced(c) \/ ClearApp(c) \/ ClaimFallback(c) \/ SendFallback(c) \/ TakeFailQ(c) \/ ReissueFailQ(c)
         \/ ResetSwitch(c) \/ ReleaseAll(c) \/ Left(c)
  PROVE  Undisturbed
<1> USE DEF gate_vars, path_vars, fail_vars, switch_vars, history
<1>0. c \in Threads
  BY DEF Threads
<1>1. Still
  <2>1. CASE ReissueFailQ(c)
    <3>1. \A i \in IOs : st'[i] = st[i] \/ st'[i] = "idle"
      BY <2>1 DEF ReissueFailQ
    <3> QED BY <2>1, <3>1 DEF ReissueFailQ, Still
  <2>2. CASE ~ReissueFailQ(c)
    BY <2>2 DEF Release, Synced, ClearApp, ClaimFallback, SendFallback, TakeFailQ, ResetSwitch, ReleaseAll, Left, Still
  <2> QED BY <2>1, <2>2
<1>2. PICK x, steps : Quiet(x, steps) /\ Do(c, x, steps)
  <2>0. {"release", "claim_fallback", "synced", "clear_app", "send_fallback", "take", "reissue", "reset_switch", "release_all", "left"} \subseteq Quiets
    BY DEF Quiets
  <2>1. \/ Do(c, "release", <<"dec">>)
        \/ Do(c, "claim_fallback", <<>>) \/ Do(c, "claim_fallback", <<"inc", "send_fallback">>)
        \/ Do(c, "synced", <<>>) \/ Do(c, "synced", <<"dec", "clear_app">>) \/ Do(c, "clear_app", <<>>)
        \/ Do(c, "send_fallback", <<>>) \/ Do(c, "send_fallback", <<"dec", "clear_switch">>)
        \/ Do(c, "take", <<>>) \/ Do(c, "reissue", <<>>) \/ Do(c, "reset_switch", <<>>) \/ Do(c, "left", <<>>)
        \/ Do(c, "release_all", <<"release", "release_all">>) \/ Do(c, "release_all", <<>>)
    BY DEF Release, Synced, ClearApp, ClaimFallback, SendFallback, TakeFailQ, ReissueFailQ, ResetSwitch, ReleaseAll, Left
  <2> QED BY <2>0, <2>1, EasySteps, QuietSteps
<1> QED BY <1>0, <1>1, <1>2, Undisturbs

\* The requests, but for a path update, and the answers.
LEMMA QuietRequest ==
  ASSUME Formed, NEW c \in Ctl,
         \/ RequestSuspend(c) \/ RequestResume(c) \/ RequestFailover(c) \/ RequestFallback(c)
         \/ VolCleanup(c) \/ ResetDevice(c) \/ DebugStore(c) \/ Answer(c)
  PROVE  Undisturbed
<1> USE DEF gate_vars, path_vars, fail_vars, switch_vars, history
<1>0. c \in Threads /\ "end" \in Quiets
  BY DEF Threads, Quiets
<1>1. Still
  BY DEF RequestSuspend, RequestResume, RequestFailover, RequestFallback, VolCleanup, ResetDevice, DebugStore, Answer,
         IoswitchComplete, Still
<1>2. PICK steps : Quiet("end", steps) /\ Start(c, steps)
  <2>1. CASE Answer(c)
    <3>1. Start(c, <<>>) \/ Start(c, <<"disable", "take", "dec", "reissue">>) \/ Start(c, <<"dec">>)
      BY <2>1 DEF Answer, IoswitchComplete
    <3> QED BY <1>0, <3>1, EasySteps, QuietSteps
  <2>2. CASE ~Answer(c)
    <3>1. \/ Start(c, <<"inc", "synced">>) \/ Start(c, <<"clear_app">>) \/ Start(c, <<"dec">>) \/ Start(c, <<"claim">>)
          \/ Start(c, <<"claim_fallback">>) \/ Start(c, <<"disable", "release">>)
          \/ Start(c, <<"disable", "reset_switch", "app_resume", "release_all">>)
          \/ Start(c, <<"disable">>) \/ Start(c, <<"inc", "left">>) \/ Start(c, <<"release">>)
      BY <2>2 DEF RequestSuspend, RequestResume, RequestFailover, RequestFallback, VolCleanup, ResetDevice, DebugStore
    <3> QED BY <1>0, <3>1, EasySteps, QuietSteps
  <2> QED BY <2>1, <2>2
<1> QED BY <1>0, <1>1, <1>2, Undisturbs

\* What happens to an IO that has been mapped.
LEMMA QuietIO ==
  ASSUME Formed, TypeOK, NEW i \in IOs, InitiateFailover(i) \/ AbortFailQ(i) \/ EndIO(i) \/ IoFailover(i) \/ Reroute(i)
  PROVE  Undisturbed
<1> USE DEF gate_vars, path_vars, fail_vars, switch_vars, history
<1>0. i \in Threads /\ "end" \in Quiets /\ "failover" \in Quiets /\ "abort" \in Quiets
      /\ st \in [IOs -> {"idle", "queued", "mapped", "failing", "failed", "reroute", "lost"}]
  BY DEF Threads, Quiets, TypeOK
<1>1. Still
  <2>1. \A j \in IOs : st'[j] = st[j] \/ st'[j] = "idle" \/ st'[j] = "failing" \/ st'[j] = "reroute" \/ st'[j] = "failed"
    BY <1>0 DEF InitiateFailover, AbortFailQ, EndIO, IoFailover, Reroute
  <2> QED BY <2>1 DEF InitiateFailover, AbortFailQ, EndIO, IoFailover, Reroute, Still
<1>2. CASE AbortFailQ(i)
  <2>1. Do(i, "abort", <<>>) /\ Quiet("abort", <<>>)
    BY <1>0, <1>2, EasySteps, QuietSteps DEF AbortFailQ
  <2> QED BY <1>0, <1>1, <2>1, Undisturbs
<1>3. CASE UNCHANGED todo
  <2>1. GateKept /\ FilesKept
    BY <1>3 DEF GateKept, FilesKept
  <2>2. Formed'
    BY <1>3 DEF Formed, Lists, Shaped, Ordered
  <2> QED BY <1>1, <2>1, <2>2 DEF Undisturbed
<1>4. CASE IoFailover(i) /\ todo' # todo
  <2>1. Start(i, <<>>) \/ Start(i, <<"failover">>)
    BY <1>4 DEF IoFailover, Start
  <2>2. Quiet("end", <<>>) /\ Quiet("end", <<"failover">>)
    BY <1>0, EasySteps, QuietSteps
  <2> QED BY <1>0, <1>1, <2>1, <2>2, Undisturbs
<1>5. CASE InitiateFailover(i)
  <2>1. Do(i, "failover", <<"claim">>) \/ Do(i, "failover", <<"abort">>)
    BY <1>5 DEF InitiateFailover
  <2>2. Quiet("failover", <<"claim">>) /\ Quiet("failover", <<"abort">>)
    BY <1>0, EasySteps, QuietSteps
  <2> QED BY <1>0, <1>1, <2>1, <2>2, Undisturbs
<1> QED BY <1>2, <1>3, <1>4, <1>5 DEF EndIO, Reroute

--------------------------------------------------------------------------------
\* Nobody is closing the gate or opening it.
NoneAt == \A t \in Threads : Hd(todo[t]) \notin Gates

Up == suspend > 0
One == suspend = 1
Zero == suspend = 0

\* The gate of the blk-mq build: one thread at a time is at it, and the step it
\* is at tells what the count and the gate are.
GateBlkmq ==
  /\ \A t, u \in Threads : Hd(todo[t]) \in Gates /\ Hd(todo[u]) \in Gates => t = u
  /\ \A t \in Threads : Hd(todo[t]) = "close" => One /\ ~closed /\ ~frozen
  /\ \A t \in Threads : Hd(todo[t]) = "freeze" => One /\ closed /\ ~frozen
  /\ \A t \in Threads : Hd(todo[t]) = "open" => Zero /\ closed /\ frozen
  /\ \A t \in Threads : Hd(todo[t]) = "thaw" => Zero /\ ~closed /\ frozen
  /\ NoneAt => (closed <=> Up) /\ (frozen <=> Up)

\* The gate of the make_request build: the lock may still be with the thread that
\* opens the gate while another waits to close it again.
GateMakereq ==
  /\ \A t \in Threads : Hd(todo[t]) # "freeze" /\ Hd(todo[t]) # "thaw"
  /\ \A t, u \in Threads : Hd(todo[t]) = "close" /\ Hd(todo[u]) = "close" => t = u
  /\ \A t, u \in Threads : Hd(todo[t]) = "open" /\ Hd(todo[u]) = "open" => t = u
  /\ \A t \in Threads : Hd(todo[t]) = "close" => One /\ (closed <=> \E u \in Threads : Hd(todo[u]) = "open")
  /\ (\A t \in Threads : Hd(todo[t]) # "close") => \A u \in Threads : Hd(todo[u]) = "open" => Zero /\ closed
  /\ NoneAt => (closed <=> Up)

GateOK == IF build = "blkmq" THEN GateBlkmq ELSE GateMakereq

Guarded == BalanceInv /\ Formed /\ ~racy /\ lent = 0 /\ GateOK

\* A thread that is about to give a suspension back or hand it on, or that is in
\* the middle of a section.
LEMMA HeadHolds ==
  ASSUME Formed, NEW t \in Threads, Hd(todo[t]) \in Kept \/ Hd(todo[t]) \in Linked \ {"inc"}
  PROVE  Holding(todo[t])
<1> DEFINE s == todo[t]
<1>0. s \in Seq(Steps) /\ Shape(s)
  BY DEF Formed, Lists, Shaped
<1>1. s # <<>> /\ Hd(s) = s[1] /\ 1 \in DOMAIN s
  <2>1. "end" \notin Kept /\ "end" \notin Linked
    BY DEF Kept, Linked
  <2>2. s # <<>>
    BY <2>1 DEF Hd
  <2> QED BY <1>0, <2>2 DEF Hd
<1>2. DOMAIN s = 1 .. Len(s) /\ Len(s) \in Nat
  BY <1>0
<1> HIDE DEF s
<1>3. CASE Hd(s) \in Kept
  <2>1. s[1] # "inc" /\ s[1] \in Kept
    BY <1>1, <1>3 DEF Kept
  <2>2. \A i \in DOMAIN s : 0 < i /\ i <= 1 => i = 1
    BY <1>2
  <2> QED BY <1>1, <2>1, <2>2 DEF Holding, Covered, s
<1>4. CASE Hd(s) \in Linked \ {"inc"}
  <2>1. s[1] # "inc" /\ Covered(s, 1)
    BY <1>0, <1>1, <1>4 DEF Shape
  <2>2. PICK j \in DOMAIN s : j > 1 /\ s[j] \in Kept /\ \A i \in DOMAIN s : 1 < i /\ i <= j => s[i] # "inc"
    BY <2>1 DEF Covered
  <2>3. j > 0 /\ \A i \in DOMAIN s : i = 1 \/ 1 < i
    BY <1>2, <2>2
  <2>4. \A i \in DOMAIN s : 0 < i /\ i <= j => s[i] # "inc"
    BY <2>1, <2>2, <2>3
  <2> QED BY <2>2, <2>3, <2>4 DEF Holding, Covered, s
<1> QED BY <1>3, <1>4 DEF s

LEMMA GateStates == BalanceInv => closed \in BOOLEAN /\ frozen \in BOOLEAN /\ fast \in BOOLEAN /\ nfd \in BOOLEAN /\ mixed \in BOOLEAN
  BY DEF BalanceInv, TypeOK

\* The gate is closed, and nobody is at it, while a thread is inside a section.
LEMMA Behind ==
  ASSUME Guarded, NEW t \in Threads, Holding(todo[t]), Hd(todo[t]) \notin Gates
  PROVE  NoneAt /\ Up /\ ~Zero /\ closed /\ (build = "blkmq" => frozen)
<1>0. BalanceInv /\ Formed /\ ~racy /\ lent = 0 /\ Shaped /\ GateOK
  BY DEF Guarded, Formed
<1>1. /\ suspend \in Nat /\ suspend >= 1
      /\ \A u \in Threads : u # t /\ Holding(todo[u]) => suspend >= 2
  BY <1>0, SuspendCovers
<1>2. Up /\ ~Zero /\ \A u \in Threads : u # t /\ Holding(todo[u]) => ~One
  BY <1>1 DEF Up, Zero, One
<1>3. \A u \in Threads : Hd(todo[u]) \in {"close", "freeze"} => ~One
  <2>1. "close" \in Linked \ {"inc"} /\ "freeze" \in Linked \ {"inc"} /\ "close" \in Gates /\ "freeze" \in Gates
    BY DEF Linked, Gates
  <2> QED BY <1>0, <1>2, <2>1, HeadHolds
<1>4. NoneAt
  <2>1. SUFFICES ASSUME NEW u \in Threads, Hd(todo[u]) \in Gates PROVE FALSE
    BY DEF NoneAt
  <2>2. Hd(todo[u]) = "close" \/ Hd(todo[u]) = "freeze" \/ Hd(todo[u]) = "open" \/ Hd(todo[u]) = "thaw"
    BY <2>1 DEF Gates
  <2>3. CASE build = "blkmq"
    BY <1>0, <1>2, <1>3, <2>2, <2>3 DEF GateOK, GateBlkmq
  <2>4. CASE build # "blkmq"
    BY <1>0, <1>2, <1>3, <2>2, <2>4 DEF GateOK, GateMakereq
  <2> QED BY <2>3, <2>4
<1>5. CASE build = "blkmq"
  BY <1>0, <1>2, <1>4, <1>5 DEF GateOK, GateBlkmq
<1>6. CASE build # "blkmq"
  BY <1>0, <1>2, <1>4, <1>6 DEF GateOK, GateMakereq
<1> QED BY <1>2, <1>4, <1>5, <1>6

\* A step that leaves the gate and the count alone.
LEMMA GateFrame ==
  ASSUME Formed, GateOK, GateKept, UNCHANGED <<build, suspend, closed, frozen>>
  PROVE  GateOK'
<1>0. (Up <=> Up') /\ (One <=> One') /\ (Zero <=> Zero')
  BY DEF Up, One, Zero
<1>1. \A u \in Threads : /\ (Hd(todo'[u]) = "close" <=> Hd(todo[u]) = "close") /\ (Hd(todo'[u]) = "freeze" <=> Hd(todo[u]) = "freeze")
                         /\ (Hd(todo'[u]) = "open" <=> Hd(todo[u]) = "open") /\ (Hd(todo'[u]) = "thaw" <=> Hd(todo[u]) = "thaw")
                         /\ (Hd(todo'[u]) \in Gates <=> Hd(todo[u]) \in Gates)
  BY DEF GateKept, Gates
<1>2. NoneAt <=> NoneAt'
  BY <1>1 DEF NoneAt
<1>3. CASE build = "blkmq"
  <2>1. GateBlkmq
    BY <1>3 DEF GateOK
  <2>2. GateBlkmq'
    BY <1>0, <1>1, <1>2, <2>1 DEF GateBlkmq
  <2> QED BY <1>3, <2>2 DEF GateOK
<1>4. CASE build # "blkmq"
  <2>1. GateMakereq
    BY <1>4 DEF GateOK
  <2>2. GateMakereq'
    BY <1>0, <1>1, <1>2, <2>1 DEF GateMakereq
  <2> QED BY <1>4, <2>2 DEF GateOK
<1> QED BY <1>3, <1>4

\* Thread t has done a step at the gate, or counted, and is next at the step h.
Turned(t, h) == Formed' /\ FilesKept /\ Hd(todo'[t]) = h /\ \A u \in Threads : u # t => Hd(todo'[u]) = Hd(todo[u])

LEMMA Turns ==
  ASSUME Formed, NEW t \in Threads, NEW x, x \notin Files, NEW a \in Gates, Do(t, x, <<a>>),
         a \in {"close", "freeze"} => x \in Linked
  PROVE  Turned(t, a)
<1>0. todo[t] \in Seq(Steps) /\ Shape(todo[t]) /\ Order(todo[t]) /\ todo[t] # <<>> /\ Head(todo[t]) = x
  BY DEF Formed, Lists, Shaped, Ordered, Do
<1>1. Head(todo[t]) \notin {"flush", "close_files", "set_paths"}
  BY <1>0 DEF Files
<1>2. Calls(todo[t], <<a>>)
  BY <1>0, <1>1, CallGate
<1>3. Went(t, x, <<a>>)
  BY <1>2, DoWent
<1>4. \A y \in Files : ~Has(<<a>>, y)
  BY DEF Has, Files, Gates
<1>5. PICK q : Onto(todo[t], <<a>>, q)
  BY DEF Onto
<1>6. <<a>> # <<>> /\ <<a>>[1] = a
  OBVIOUS
<1>7. Hd(q) = a
  <2>1. <<a>> # <<>> => Hd(q) = <<a>>[1]
    BY <1>0, <1>2, <1>5, Onward
  <2> QED BY <1>6, <2>1
<1>8. Formed' /\ FilesKept /\ todo'[t] = q /\ \A u \in Threads : u # t => todo'[u] = todo[u]
  BY <1>3, <1>4, <1>5, WentForms, WentFiles DEF Onto
<1> QED BY <1>7, <1>8 DEF Turned

LEMMA Leaves ==
  ASSUME Formed, NEW t \in Threads, NEW x, x \notin Files, Do(t, x, <<>>)
  PROVE  \E h : h \notin Gates /\ Turned(t, h)
<1>0. todo[t] \in Seq(Steps) /\ Shape(todo[t]) /\ Order(todo[t])
  BY DEF Formed, Lists, Shaped, Ordered
<1>1. Calls(todo[t], <<>>)
  BY <1>0, CallNone
<1>2. Went(t, x, <<>>)
  BY <1>1, DoWent
<1>3. \A y \in Files : ~Has(<<>>, y)
  BY DEF Has
<1>4. PICK q : Onto(todo[t], <<>>, q)
  BY DEF Onto
<1>5. Hd(q) \notin Gates
  BY <1>0, <1>1, <1>4, Onward
<1>6. Formed' /\ FilesKept /\ todo'[t] = q /\ \A u \in Threads : u # t => todo'[u] = todo[u]
  BY <1>2, <1>3, <1>4, WentForms, WentFiles DEF Onto
<1> QED BY <1>5, <1>6 DEF Turned

LEMMA GateNames ==
  /\ "close" \in Gates /\ "freeze" \in Gates /\ "open" \in Gates /\ "thaw" \in Gates
  /\ \A a \in Gates : a = "close" \/ a = "freeze" \/ a = "open" \/ a = "thaw"
  /\ \A a \in Gates : a \notin Files
  /\ "inc" \notin Files /\ "dec" \notin Files /\ "inc" \notin Gates /\ "dec" \notin Gates
  /\ "inc" \in Linked /\ "close" \in Linked /\ "freeze" \in Linked
  BY DEF Gates, Files, Linked

\* Somebody is at the gate.
LEMMA AtIsAhead ==
  ASSUME Formed, NEW t \in Threads, NEW S, Hd(todo[t]) \in S, "end" \notin S
  PROVE  Ahead(S)
<1>1. todo[t] \in Seq(Steps) /\ todo[t] # <<>>
  BY DEF Formed, Lists, Hd
<1>2. 1 \in DOMAIN todo[t] /\ todo[t][1] \in S
  BY <1>1 DEF Hd
<1> QED BY <1>2 DEF Ahead

LEMMA IncGate ==
  ASSUME Guarded, NEW t \in Threads, Inc(t), ~racy', ~mixed'
  PROVE  Formed' /\ FilesKept /\ GateOK'
<1>0. Formed /\ GateOK /\ BalanceInv /\ Shaped /\ ~racy /\ lent = 0 /\ closed \in BOOLEAN /\ frozen \in BOOLEAN
  BY GateStates DEF Guarded, Formed
<1>1. suspend \in Nat
  BY <1>0, SuspendCovers
<1>2. UNCHANGED <<build, closed, frozen>> /\ suspend' = suspend + 1
  BY DEF Inc
<1>3. Up' /\ (Zero => One') /\ (Zero \/ Up) /\ (Up <=> ~Zero) /\ (One => Up) /\ (suspend # 0 <=> Up) /\ (suspend = 0 <=> Zero)
  BY <1>1, <1>2 DEF Up, Zero, One
<1>4. Hd(todo[t]) = "inc"
  BY DEF Inc, Do, Hd
<1>5. \E h : /\ Turned(t, h)
             /\ IF Zero THEN h = "close" ELSE h \notin Gates
  <2>1. CASE Zero
    <3>1. Do(t, "inc", <<"close">>)
      BY <1>3, <2>1 DEF Inc
    <3>2. Turned(t, "close")
      BY <1>0, <3>1, Turns, GateNames
    <3> QED BY <2>1, <3>2
  <2>2. CASE ~Zero
    <3>1. Do(t, "inc", <<>>)
      BY <1>3, <2>2 DEF Inc
    <3> QED BY <1>0, <2>2, <3>1, Leaves, GateNames
  <2> QED BY <2>1, <2>2
<1>6. PICK h : Turned(t, h) /\ IF Zero THEN h = "close" ELSE h \notin Gates
  BY <1>5
<1>7. Hd(todo'[t]) = h /\ \A u \in Threads : u # t => Hd(todo'[u]) = Hd(todo[u])
  BY <1>6 DEF Turned
<1>8. CASE build = "blkmq"
  <2>1. GateBlkmq
    BY <1>0, <1>8 DEF GateOK
  <2>2. NoneAt
    <3>1. ~Ahead(Gates)
      BY <1>8 DEF Inc, Gates
    <3>2. "end" \notin Gates
      BY DEF Gates
    <3> QED BY <1>0, <3>1, <3>2, AtIsAhead DEF NoneAt
  <2>3. \A u \in Threads : u # t => Hd(todo'[u]) \notin Gates
    BY <1>7, <2>2 DEF NoneAt
  <2>4. (closed <=> Up) /\ (frozen <=> Up)
    BY <2>1, <2>2 DEF GateBlkmq
  <2>5. CASE Zero
    <3>1. Hd(todo'[t]) = "close"
      BY <1>6, <1>7, <2>5
    <3>2. One' /\ ~closed' /\ ~frozen'
      BY <1>2, <1>3, <2>4, <2>5
    <3>3. GateBlkmq'
      BY <2>3, <3>1, <3>2, GateNames DEF GateBlkmq, NoneAt
    <3> QED BY <1>2, <1>6, <1>8, <3>3 DEF GateOK, Turned
  <2>6. CASE ~Zero
    <3>1. \A u \in Threads : Hd(todo'[u]) \notin Gates
      BY <1>6, <1>7, <2>3, <2>6
    <3>2. Up' /\ closed' /\ frozen'
      BY <1>2, <1>3, <2>4, <2>6
    <3>3. GateBlkmq'
      BY <3>1, <3>2, GateNames DEF GateBlkmq
    <3> QED BY <1>2, <1>6, <1>8, <3>3 DEF GateOK, Turned
  <2> QED BY <2>5, <2>6
<1>9. CASE build # "blkmq"
  <2>0. build = "makereq"
    BY <1>0, <1>9, SwitchAssumption DEF BalanceInv, TypeOK
  <2>1. GateMakereq
    BY <1>0, <1>9 DEF GateOK
  <2>2. CASE Zero
    <3>1. ~One /\ ~Up
      BY <1>3, <2>2
    <3>2. \A u \in Threads : Hd(todo[u]) # "close"
      BY <2>1, <3>1 DEF GateMakereq
    <3>3. Hd(todo'[t]) = "close" /\ One'
      BY <1>3, <1>6, <1>7, <2>2
    <3>4. \A u \in Threads : u # t => Hd(todo'[u]) # "close"
      BY <1>7, <3>2
    <3>5. closed <=> \E u \in Threads : Hd(todo[u]) = "open"
      <4>1. CASE \E u \in Threads : Hd(todo[u]) = "open"
        BY <2>1, <3>2, <4>1 DEF GateMakereq
      <4>2. CASE ~\E u \in Threads : Hd(todo[u]) = "open"
        <5>1. NoneAt
          BY <2>1, <3>2, <4>2, GateNames DEF NoneAt, GateMakereq
        <5> QED BY <2>1, <3>1, <4>2, <5>1 DEF GateMakereq
      <4> QED BY <4>1, <4>2
    <3>6. \A u \in Threads : Hd(todo'[u]) = "open" <=> Hd(todo[u]) = "open"
      BY <1>4, <1>7, <3>3
    <3>7. GateMakereq'
      <4>1. closed' <=> \E u \in Threads : Hd(todo'[u]) = "open"
        BY <1>2, <3>5, <3>6
      <4>2. \A u \in Threads : Hd(todo'[u]) # "freeze" /\ Hd(todo'[u]) # "thaw"
        BY <1>7, <2>1, <3>3 DEF GateMakereq
      <4>3. \A u, v \in Threads : Hd(todo'[u]) = "open" /\ Hd(todo'[v]) = "open" => u = v
        BY <2>1, <3>6 DEF GateMakereq
      <4> QED BY <3>3, <3>4, <4>1, <4>2, <4>3, GateNames DEF GateMakereq, NoneAt
    <3> QED BY <1>2, <1>6, <1>9, <3>7 DEF GateOK, Turned
  <2>3. CASE ~Zero
    <3> DEFINE S == {"close", "open"}
    <3>1. ~Ahead(S) /\ closed
      BY <1>3, <2>0, <2>3 DEF Inc
    <3>2. "end" \notin S
      OBVIOUS
    <3> HIDE DEF S
    <3>3. \A u \in Threads : Hd(todo[u]) \notin S
      BY <1>0, <3>1, <3>2, AtIsAhead
    <3>4. \A u \in Threads : Hd(todo[u]) \notin Gates
      BY <2>1, <3>3, GateNames DEF GateMakereq, S
    <3>5. \A u \in Threads : Hd(todo'[u]) \notin Gates
      BY <1>6, <1>7, <2>3, <3>4
    <3>6. Up' /\ closed'
      BY <1>2, <1>3, <3>1
    <3>7. GateMakereq'
      BY <3>5, <3>6, GateNames DEF GateMakereq
    <3> QED BY <1>2, <1>6, <1>9, <3>7 DEF GateOK, Turned
  <2> QED BY <2>2, <2>3
<1> QED BY <1>8, <1>9

LEMMA DecGate ==
  ASSUME Guarded, NEW t \in Threads, Dec(t)
  PROVE  Formed' /\ FilesKept /\ GateOK'
<1>0. Formed /\ GateOK /\ BalanceInv /\ Shaped /\ ~racy /\ lent = 0
  BY DEF Guarded, Formed
<1>1. Hd(todo[t]) = "dec"
  BY DEF Dec, Do, Hd
<1>2. Holding(todo[t])
  BY <1>0, <1>1, HeadHolds DEF Kept
<1>3. NoneAt /\ Up /\ ~Zero /\ closed /\ (build = "blkmq" => frozen)
  BY <1>1, <1>2, Behind, GateNames
<1>4. suspend \in Nat
  BY <1>0, SuspendCovers
<1>5. UNCHANGED <<build, closed, frozen>> /\ suspend' = suspend - 1
  BY DEF Dec
<1>6. IF One THEN Zero' ELSE Up'
  BY <1>3, <1>4, <1>5 DEF Up, Zero, One
<1>7. \E h : /\ Turned(t, h)
             /\ IF One THEN h = "open" ELSE h \notin Gates
  <2>1. CASE One
    <3>1. Do(t, "dec", <<"open">>)
      BY <2>1 DEF Dec, One
    <3>2. Turned(t, "open")
      BY <1>0, <3>1, Turns, GateNames
    <3> QED BY <2>1, <3>2
  <2>2. CASE ~One
    <3>1. Do(t, "dec", <<>>)
      BY <2>2 DEF Dec, One
    <3> QED BY <1>0, <2>2, <3>1, Leaves, GateNames
  <2> QED BY <2>1, <2>2
<1>8. PICK h : Turned(t, h) /\ IF One THEN h = "open" ELSE h \notin Gates
  BY <1>7
<1>9. Hd(todo'[t]) = h /\ \A u \in Threads : u # t => Hd(todo'[u]) \notin Gates
  BY <1>3, <1>8 DEF Turned, NoneAt
<1>10. Formed' /\ FilesKept /\ closed' /\ (build = "blkmq" => frozen') /\ build' = build
  BY <1>3, <1>5, <1>8 DEF Turned
<1>11. CASE One
  <2>1. Hd(todo'[t]) = "open" /\ Zero'
    BY <1>6, <1>8, <1>9, <1>11
  <2>2. CASE build = "blkmq"
    <3>1. GateBlkmq'
      BY <1>9, <1>10, <2>1, <2>2, GateNames DEF GateBlkmq, NoneAt
    <3> QED BY <1>10, <2>2, <3>1 DEF GateOK
  <2>3. CASE build # "blkmq"
    <3>1. GateMakereq'
      BY <1>9, <1>10, <2>1, GateNames DEF GateMakereq, NoneAt
    <3> QED BY <1>10, <2>3, <3>1 DEF GateOK
  <2> QED BY <2>2, <2>3
<1>12. CASE ~One
  <2>1. Up' /\ \A u \in Threads : Hd(todo'[u]) \notin Gates
    BY <1>6, <1>8, <1>9, <1>12
  <2>2. CASE build = "blkmq"
    <3>1. GateBlkmq'
      BY <1>10, <2>1, <2>2, GateNames DEF GateBlkmq
    <3> QED BY <1>10, <2>2, <3>1 DEF GateOK
  <2>3. CASE build # "blkmq"
    <3>1. GateMakereq'
      BY <1>10, <2>1, GateNames DEF GateMakereq
    <3> QED BY <1>10, <2>3, <3>1 DEF GateOK
  <2> QED BY <2>2, <2>3
<1> QED BY <1>11, <1>12

LEMMA CloseGate ==
  ASSUME Guarded, NEW t \in Threads, Close(t)
  PROVE  Formed' /\ FilesKept /\ GateOK'
<1>0. Formed /\ GateOK /\ BalanceInv /\ closed \in BOOLEAN /\ frozen \in BOOLEAN
  BY GateStates DEF Guarded
<1>1. Hd(todo[t]) = "close"
  BY DEF Close, Do, Hd
<1>2. UNCHANGED <<build, suspend, frozen>> /\ closed'
  BY DEF Close
<1>3. (One <=> One') /\ (Zero <=> Zero') /\ (Up <=> Up') /\ (One => Up)
  BY <1>2 DEF One, Zero, Up
<1>4. CASE build = "blkmq"
  <2>1. GateBlkmq
    BY <1>0, <1>4 DEF GateOK
  <2>2. One /\ ~frozen /\ \A u \in Threads : u # t => Hd(todo[u]) \notin Gates
    BY <1>1, <2>1, GateNames DEF GateBlkmq
  <2>3. Do(t, "close", <<"freeze">>)
    BY <1>4 DEF Close
  <2>4. Turned(t, "freeze")
    BY <1>0, <2>3, Turns, GateNames
  <2>5. Hd(todo'[t]) = "freeze" /\ \A u \in Threads : u # t => Hd(todo'[u]) \notin Gates
    BY <2>2, <2>4 DEF Turned
  <2>6. One' /\ ~frozen'
    BY <1>2, <1>3, <2>2
  <2>7. GateBlkmq'
    BY <1>2, <2>5, <2>6, GateNames DEF GateBlkmq, NoneAt
  <2> QED BY <1>2, <1>4, <2>4, <2>7 DEF GateOK, Turned
<1>5. CASE build # "blkmq"
  <2>0. build = "makereq"
    BY <1>0, <1>5, SwitchAssumption DEF BalanceInv, TypeOK
  <2>1. GateMakereq
    BY <1>0, <1>5 DEF GateOK
  <2>2. ~closed
    BY <2>0 DEF Close
  <2>3. One /\ \A u \in Threads : Hd(todo[u]) # "open"
    BY <1>1, <2>1, <2>2 DEF GateMakereq
  <2>4. \A u \in Threads : u # t => Hd(todo[u]) \notin Gates
    BY <1>1, <2>1, <2>3, GateNames DEF GateMakereq
  <2>5. Do(t, "close", <<>>)
    BY <1>5 DEF Close
  <2>6. PICK h : h \notin Gates /\ Turned(t, h)
    BY <1>0, <2>5, Leaves, GateNames
  <2>7. \A u \in Threads : Hd(todo'[u]) \notin Gates
    BY <2>4, <2>6 DEF Turned
  <2>8. Up'
    BY <1>3, <2>3
  <2>9. GateMakereq'
    BY <1>2, <2>7, <2>8, GateNames DEF GateMakereq
  <2> QED BY <1>2, <1>5, <2>6, <2>9 DEF GateOK, Turned
<1> QED BY <1>4, <1>5

LEMMA FreezeGate ==
  ASSUME Guarded, NEW t \in Threads, Freeze(t)
  PROVE  Formed' /\ FilesKept /\ GateOK'
<1>0. Formed /\ GateOK /\ BalanceInv /\ closed \in BOOLEAN /\ frozen \in BOOLEAN
  BY GateStates DEF Guarded
<1>1. Hd(todo[t]) = "freeze"
  BY DEF Freeze, Do, Hd
<1>2. UNCHANGED <<build, suspend, closed>> /\ frozen'
  BY DEF Freeze
<1>3. (Up <=> Up') /\ (One => Up)
  BY <1>2 DEF One, Up
<1>4. build = "blkmq"
  BY <1>0, <1>1 DEF GateOK, GateMakereq
<1>5. GateBlkmq
  BY <1>0, <1>4 DEF GateOK
<1>6. One /\ closed /\ \A u \in Threads : u # t => Hd(todo[u]) \notin Gates
  BY <1>1, <1>5, GateNames DEF GateBlkmq
<1>7. PICK h : h \notin Gates /\ Turned(t, h)
  BY <1>0, Leaves, GateNames DEF Freeze
<1>8. \A u \in Threads : Hd(todo'[u]) \notin Gates
  BY <1>6, <1>7 DEF Turned
<1>9. Up' /\ closed'
  BY <1>2, <1>3, <1>6
<1>10. GateBlkmq'
  BY <1>2, <1>8, <1>9, GateNames DEF GateBlkmq
<1> QED BY <1>2, <1>4, <1>7, <1>10 DEF GateOK, Turned

LEMMA ThawGate ==
  ASSUME Guarded, NEW t \in Threads, Thaw(t)
  PROVE  Formed' /\ FilesKept /\ GateOK'
<1>0. Formed /\ GateOK /\ BalanceInv /\ closed \in BOOLEAN /\ frozen \in BOOLEAN
  BY GateStates DEF Guarded
<1>1. Hd(todo[t]) = "thaw"
  BY DEF Thaw, Do, Hd
<1>2. UNCHANGED <<build, suspend, closed>> /\ ~frozen'
  BY DEF Thaw
<1>3. (Up <=> Up') /\ (Zero => ~Up)
  BY <1>2 DEF Zero, Up
<1>4. build = "blkmq"
  BY <1>0, <1>1 DEF GateOK, GateMakereq
<1>5. GateBlkmq
  BY <1>0, <1>4 DEF GateOK
<1>6. Zero /\ ~closed /\ \A u \in Threads : u # t => Hd(todo[u]) \notin Gates
  BY <1>1, <1>5, GateNames DEF GateBlkmq
<1>7. PICK h : h \notin Gates /\ Turned(t, h)
  BY <1>0, Leaves, GateNames DEF Thaw
<1>8. \A u \in Threads : Hd(todo'[u]) \notin Gates
  BY <1>6, <1>7 DEF Turned
<1>9. ~Up' /\ ~closed'
  BY <1>2, <1>3, <1>6
<1>10. GateBlkmq'
  BY <1>2, <1>8, <1>9, GateNames DEF GateBlkmq
<1> QED BY <1>2, <1>4, <1>7, <1>10 DEF GateOK, Turned

LEMMA OpenGate ==
  ASSUME Guarded, NEW t \in Threads, Open(t)
  PROVE  Formed' /\ FilesKept /\ GateOK'
<1>0. Formed /\ GateOK /\ BalanceInv /\ closed \in BOOLEAN /\ frozen \in BOOLEAN
  BY GateStates DEF Guarded
<1>1. Hd(todo[t]) = "open"
  BY DEF Open, Do, Hd
<1>2. UNCHANGED <<build, suspend, frozen>>
  BY DEF Open
<1>3. (One <=> One') /\ (Zero <=> Zero') /\ (Up <=> Up') /\ (Zero => ~Up)
  BY <1>2 DEF One, Zero, Up
<1>4. CASE build = "blkmq"
  <2>1. GateBlkmq
    BY <1>0, <1>4 DEF GateOK
  <2>2. Zero /\ frozen /\ \A u \in Threads : u # t => Hd(todo[u]) \notin Gates
    BY <1>1, <2>1, GateNames DEF GateBlkmq
  <2>3. Do(t, "open", <<"thaw">>) /\ ~closed'
    BY <1>4, <2>2 DEF Open
  <2>4. Turned(t, "thaw")
    BY <1>0, <2>3, Turns, GateNames
  <2>5. Hd(todo'[t]) = "thaw" /\ \A u \in Threads : u # t => Hd(todo'[u]) \notin Gates
    BY <2>2, <2>4 DEF Turned
  <2>6. Zero' /\ frozen'
    BY <1>2, <1>3, <2>2
  <2>7. GateBlkmq'
    BY <2>3, <2>5, <2>6, GateNames DEF GateBlkmq, NoneAt
  <2> QED BY <1>2, <1>4, <2>4, <2>7 DEF GateOK, Turned
<1>5. CASE build # "blkmq"
  <2>1. GateMakereq
    BY <1>0, <1>5 DEF GateOK
  <2>2. \A u \in Threads : u # t => Hd(todo[u]) # "open"
    BY <1>1, <2>1 DEF GateMakereq
  <2>3. Do(t, "open", <<>>) /\ ~closed'
    BY <1>5 DEF Open
  <2>4. PICK h : h \notin Gates /\ Turned(t, h)
    BY <1>0, <2>3, Leaves, GateNames
  <2>5. Hd(todo'[t]) = h /\ \A u \in Threads : u # t => Hd(todo'[u]) = Hd(todo[u])
    BY <2>4 DEF Turned
  <2>6. \A u \in Threads : Hd(todo'[u]) # "open" /\ (Hd(todo'[u]) \in Gates => Hd(todo'[u]) = Hd(todo[u]))
    BY <2>2, <2>4, <2>5, GateNames
  <2>7. NoneAt' => ~Up'
    <3>1. SUFFICES ASSUME NoneAt' PROVE ~Up'
      OBVIOUS
    <3>2. \A u \in Threads : Hd(todo[u]) # "close"
      BY <1>1, <2>5, <3>1, GateNames DEF NoneAt
    <3>3. Zero
      BY <1>1, <2>1, <3>2 DEF GateMakereq
    <3> QED BY <1>3, <3>3
  <2>8. GateMakereq'
    <3>1. \A u \in Threads : Hd(todo'[u]) # "freeze" /\ Hd(todo'[u]) # "thaw"
      BY <2>1, <2>6, GateNames DEF GateMakereq
    <3>2. \A u, v \in Threads : Hd(todo'[u]) = "close" /\ Hd(todo'[v]) = "close" => u = v
      BY <2>1, <2>6, GateNames DEF GateMakereq
    <3>3. \A u \in Threads : Hd(todo'[u]) = "close" => One'
      BY <1>3, <2>1, <2>6, GateNames DEF GateMakereq
    <3> QED BY <2>3, <2>6, <2>7, <3>1, <3>2, <3>3 DEF GateMakereq
  <2> QED BY <1>2, <1>5, <2>4, <2>8 DEF GateOK, Turned
<1> QED BY <1>4, <1>5

--------------------------------------------------------------------------------
\* Setting files up, closing them, and all the steps of a path update.
Setting == {"set_paths", "enable", "open_files"}
Closing == {"flush", "close_files", "fast_off"}
Updating == {"set_paths", "enable", "open_files", "check", "no_files"}
HasAny(s, S) == \E y \in S : Has(s, y)

\* The files: off the fast path while they are set up, by one thread and not while
\* others are closed; the path and the files differ only in the steps that change
\* them one after the other; no IO waits for a worker once the files are closed.
FilesOK ==
  /\ \A t \in Threads : HasAny(todo[t], Updates) => ~fast
  /\ \A t, u \in Threads : HasAny(todo[t], Updating) /\ HasAny(todo[u], Updating) => t = u
  /\ \A t, u \in Threads : HasAny(todo[t], Setting) => ~HasAny(todo[u], Closing)
  /\ \A t \in Threads : Has(todo[t], "open_files") => nfd
  /\ \A t \in Threads : Has(todo[t], "no_files") => ~nfd
  /\ \A t \in Threads : Hd(todo[t]) = "fast_off" => ~nfd
  /\ fast /\ ~nfd => \E t \in Threads : Hd(todo[t]) = "fast_off"
  /\ nfd /\ ~fast => \E t \in Threads : Has(todo[t], "enable") \/ Has(todo[t], "open_files")
  /\ \A i \in IOs : st[i] # "lost"
  /\ \A i \in IOs : st[i] = "queued" => build = "blkmq" /\ fast /\ nfd /\ \A t \in Threads : Hd(todo[t]) # "close_files"

LEMMA FileNames ==
  /\ Setting \subseteq Updates /\ Updates \subseteq Updating /\ Updating \subseteq Files /\ Closing \subseteq Files
  /\ Setting \intersect Closing = {} /\ Updating \intersect Closing = {}
  /\ "set_paths" \in Setting /\ "enable" \in Setting /\ "open_files" \in Setting /\ "no_files" \in Updates /\ "check" \in Updating
  /\ "flush" \in Closing /\ "close_files" \in Closing /\ "fast_off" \in Closing
  /\ "enable" \in Files /\ "open_files" \in Files /\ "no_files" \in Files /\ "check" \in Files /\ "set_paths" \in Files
  /\ "enable" \in Updates /\ "open_files" \in Updates /\ "set_paths" \in Updates
  /\ "close_files" \in Heads /\ "fast_off" \in Heads
  /\ \A y \in Updates : y \in Setting \/ y = "no_files"
  /\ \A y \in Updating : y \in Updates \/ y = "check"
  /\ "disable" \notin Files /\ "dec" \notin Files /\ "inc" \notin Files
  /\ \A y \in Files : y # "disable" /\ y # "dec" /\ y # "inc"
  BY DEF Setting, Closing, Updating, Updates, Files, Heads

\* A step that leaves the files alone.
LEMMA FilesFrame ==
  ASSUME FilesOK, FilesKept, UNCHANGED <<build, fast, nfd>>, \A i \in IOs : st'[i] \in {"lost", "queued"} => st'[i] = st[i]
  PROVE  FilesOK'
<1>1. \A S \in {Setting, Closing, Updating, Updates} : \A u \in Threads : HasAny(todo'[u], S) <=> HasAny(todo[u], S)
  BY FileNames DEF FilesKept, HasAny
<1>2. \A u \in Threads : /\ (HasAny(todo'[u], Updates) <=> HasAny(todo[u], Updates)) /\ (HasAny(todo'[u], Updating) <=> HasAny(todo[u], Updating))
                         /\ (HasAny(todo'[u], Setting) <=> HasAny(todo[u], Setting)) /\ (HasAny(todo'[u], Closing) <=> HasAny(todo[u], Closing))
  BY <1>1
<1>3. \A u \in Threads : /\ (Has(todo'[u], "open_files") <=> Has(todo[u], "open_files")) /\ (Has(todo'[u], "no_files") <=> Has(todo[u], "no_files"))
                         /\ (Has(todo'[u], "enable") <=> Has(todo[u], "enable"))
                         /\ (Hd(todo'[u]) = "fast_off" <=> Hd(todo[u]) = "fast_off") /\ (Hd(todo'[u]) = "close_files" <=> Hd(todo[u]) = "close_files")
  BY FileNames DEF FilesKept
<1>4. \A i \in IOs : (st'[i] = "lost" => st[i] = "lost") /\ (st'[i] = "queued" => st[i] = "queued")
  OBVIOUS
<1> QED BY <1>2, <1>3, <1>4 DEF FilesOK

\* What a step leaves ahead.
LEMMA WentOn ==
  ASSUME Formed, NEW t \in Threads, NEW x, NEW steps, Went(t, x, steps)
  PROVE  /\ Formed'
         /\ \A u \in Threads : u # t => todo'[u] = todo[u]
         /\ \A y : Has(todo'[t], y) => Has(steps, y) \/ Has(todo[t], y)
         /\ \A y : Has(todo[t], y) /\ y # x => Has(todo'[t], y)
         /\ \A y : Has(steps, y) => Has(todo'[t], y)
         /\ x \in Updates => \A y \in Updates : Has(todo'[t], y) => Has(steps, y) \/ (x = "set_paths" /\ y = "enable")
         /\ x \in {"check", "no_files"} => \A y : Has(todo'[t], y) => Has(steps, y)
         /\ steps # <<>> => Hd(todo'[t]) = steps[1]
         /\ steps = <<>> => Hd(todo'[t]) \notin Gates
         /\ steps = <<>> => (Hd(todo'[t]) \in Seconds => x \in {"flush", "close_files", "set_paths"})
         /\ steps = <<>> /\ x = "flush" => Hd(todo'[t]) = "close_files"
         /\ steps = <<>> /\ x = "close_files" => Hd(todo'[t]) = "fast_off"
         /\ steps = <<>> /\ x = "set_paths" => Hd(todo'[t]) = "enable"
<1>0. todo[t] \in Seq(Steps) /\ Shape(todo[t]) /\ Order(todo[t])
  BY DEF Formed, Lists, Shaped, Ordered
<1>1. PICK q : Onto(todo[t], steps, q)
  BY DEF Onto
<1>2. Calls(todo[t], steps) /\ Hd(todo[t]) = x
  BY DEF Went
<1>3. Formed' /\ todo'[t] = q /\ \A u \in Threads : u # t => todo'[u] = todo[u]
  BY <1>1, WentForms DEF Onto
<1> QED BY <1>0, <1>1, <1>2, <1>3, Onward

\* The next step is ahead.
LEMMA HeadIsAhead ==
  ASSUME Formed
  PROVE  \A u \in Threads, y \in Files : Hd(todo[u]) = y => Has(todo[u], y)
<1>1. SUFFICES ASSUME NEW u \in Threads, NEW y \in Files, Hd(todo[u]) = y PROVE Has(todo[u], y)
  OBVIOUS
<1>2. y # "end"
  BY DEF Files
<1>3. todo[u] \in Seq(Steps) /\ todo[u] # <<>>
  BY <1>1, <1>2 DEF Formed, Lists, Hd
<1> QED BY <1>1, <1>3 DEF Has, Hd

\* The steps at the files are done in a section, and leave the gate as it is.
LEMMA NoneHas == \A y : ~Has(<<>>, y)
  BY DEF Has

LEMMA DecHas == \A y : Has(<<"dec">>, y) => y = "dec"
  BY DEF Has

LEMMA PairHas == \A a, b, y : Has(<<a, b>>, y) <=> y = a \/ y = b
<1> SUFFICES ASSUME NEW a, NEW b, NEW y PROVE Has(<<a, b>>, y) <=> y = a \/ y = b
  OBVIOUS
<1>1. DOMAIN <<a, b>> = {1, 2} /\ <<a, b>>[1] = a /\ <<a, b>>[2] = b
  OBVIOUS
<1> QED BY <1>1 DEF Has

LEMMA FiveHas ==
  \A a, b, c, d, e, y : Has(<<a, b, c, d, e>>, y) <=> y = a \/ y = b \/ y = c \/ y = d \/ y = e
<1> SUFFICES ASSUME NEW a, NEW b, NEW c, NEW d, NEW e, NEW y
             PROVE  Has(<<a, b, c, d, e>>, y) <=> y = a \/ y = b \/ y = c \/ y = d \/ y = e
  OBVIOUS
<1> DEFINE g == <<a, b, c, d, e>>
<1>1. DOMAIN g = 1 .. 5 /\ g[1] = a /\ g[2] = b /\ g[3] = c /\ g[4] = d /\ g[5] = e
  OBVIOUS
<1>2. \A k \in 1 .. 5 : k = 1 \/ k = 2 \/ k = 3 \/ k = 4 \/ k = 5
  OBVIOUS
<1>3. 1 \in 1 .. 5 /\ 2 \in 1 .. 5 /\ 3 \in 1 .. 5 /\ 4 \in 1 .. 5 /\ 5 \in 1 .. 5
  OBVIOUS
<1> HIDE DEF g
<1>4. Has(g, y) <=> y = a \/ y = b \/ y = c \/ y = d \/ y = e
  BY <1>1, <1>2, <1>3 DEF Has
<1> QED BY <1>4 DEF g

\* What a step at the files keeps, and that it changes them behind the gate only.
FilesStep == Formed' /\ GateKept /\ FilesOK' /\ (fast' # fast \/ nfd' # nfd => closed)

\* Thread t does a step at the files, in a section.
LEMMA InSection ==
  ASSUME Guarded, NEW t \in Threads, Hd(todo[t]) \in Closing \/ Hd(todo[t]) \in Setting
  PROVE  closed
<1>1. /\ \A y \in Closing : y \in Linked \ {"inc"} /\ y \notin Gates
      /\ \A y \in Setting : (y \in Kept \/ y \in Linked \ {"inc"}) /\ y \notin Gates
  BY DEF Closing, Setting, Linked, Kept, Gates
<1>2. Holding(todo[t]) /\ Hd(todo[t]) \notin Gates
  BY <1>1, HeadHolds DEF Guarded
<1> QED BY <1>2, Behind

\* A step that calls nothing.
LEMMA PopWent ==
  ASSUME Formed, NEW t \in Threads, NEW x \in Files, Do(t, x, <<>>)
  PROVE  /\ Went(t, x, <<>>) /\ GateKept /\ Hd(todo[t]) = x /\ Has(todo[t], x)
         /\ \A u \in Threads : \A y : Has(todo'[u], y) => Has(todo[u], y)
         /\ \A u \in Threads : \A y : Has(todo[u], y) /\ y # x => Has(todo'[u], y)
<1>0. todo[t] \in Seq(Steps)
  BY DEF Formed, Lists
<1>1. Went(t, x, <<>>)
  BY <1>0, CallNone, DoWent
<1>2. x \notin Gates
  BY DEF Files, Gates
<1>3. GateKept
  BY <1>1, <1>2, WentGate
<1>4. Hd(todo[t]) = x
  BY <1>1 DEF Went
<1>5. /\ \A u \in Threads : u # t => todo'[u] = todo[u]
      /\ \A y : Has(todo'[t], y) => Has(<<>>, y) \/ Has(todo[t], y)
      /\ \A y : Has(todo[t], y) /\ y # x => Has(todo'[t], y)
  BY <1>1, WentOn
<1> QED BY <1>1, <1>3, <1>4, <1>5, NoneHas, HeadIsAhead

LEMMA FlushFiles ==
  ASSUME Guarded, FilesOK, NEW t \in Threads, FlushWork(t)
  PROVE  FilesStep
<1> USE DEF gate_vars, path_vars, fail_vars, switch_vars, history
<1>0. Formed /\ Do(t, "flush", <<>>) /\ UNCHANGED <<build, fast, nfd, st>> /\ fast \in BOOLEAN /\ nfd \in BOOLEAN
  BY GateStates DEF Guarded, FlushWork
<1>1. "flush" \in Files
  BY DEF Files
<1>2. /\ Went(t, "flush", <<>>) /\ GateKept /\ Hd(todo[t]) = "flush"
      /\ \A u \in Threads : \A y : Has(todo'[u], y) => Has(todo[u], y)
      /\ \A u \in Threads : \A y : Has(todo[u], y) /\ y # "flush" => Has(todo'[u], y)
  BY <1>0, <1>1, PopWent
<1>3. Formed' /\ Hd(todo'[t]) = "close_files" /\ \A u \in Threads : u # t => todo'[u] = todo[u]
  BY <1>0, <1>2, WentOn
<1>4. \A i \in IOs : st[i] = "queued" => FALSE
  BY DEF FlushWork, FilesOK
<1>5. \A S : \A u \in Threads : HasAny(todo'[u], S) => HasAny(todo[u], S)
  BY <1>2 DEF HasAny
<1>6. \A u \in Threads : Hd(todo'[u]) = "fast_off" <=> Hd(todo[u]) = "fast_off"
  BY <1>2, <1>3
<1>7. FilesOK'
  BY <1>0, <1>2, <1>4, <1>5, <1>6 DEF FilesOK
<1> QED BY <1>0, <1>2, <1>3, <1>7 DEF FilesStep

LEMMA CloseFilesFiles ==
  ASSUME Guarded, FilesOK, NEW t \in Threads, CloseFiles(t)
  PROVE  FilesStep
<1> USE DEF gate_vars, path_vars, fail_vars, switch_vars, history
<1>0. Formed /\ Do(t, "close_files", <<>>) /\ UNCHANGED <<build, fast, st>> /\ nfd' = FALSE
  BY DEF Guarded, CloseFiles
<1>1. "close_files" \in Files
  BY DEF Files
<1>2. /\ Went(t, "close_files", <<>>) /\ GateKept /\ Hd(todo[t]) = "close_files" /\ Has(todo[t], "close_files")
      /\ \A u \in Threads : \A y : Has(todo'[u], y) => Has(todo[u], y)
  BY <1>0, <1>1, PopWent
<1>3. Formed' /\ Hd(todo'[t]) = "fast_off" /\ \A u \in Threads : u # t => todo'[u] = todo[u]
  BY <1>0, <1>2, WentOn
<1>4. \A i \in IOs : st[i] = "queued" => FALSE
  BY <1>2 DEF FilesOK
<1>5. \A S : \A u \in Threads : HasAny(todo'[u], S) => HasAny(todo[u], S)
  BY <1>2 DEF HasAny
<1>6. \A u \in Threads : ~Has(todo[u], "open_files")
  BY <1>2, FileNames DEF FilesOK, HasAny
<1>7. closed
  BY <1>2, InSection, FileNames
<1>8. FilesOK'
  BY <1>0, <1>2, <1>3, <1>4, <1>5, <1>6 DEF FilesOK
<1> QED BY <1>2, <1>3, <1>7, <1>8 DEF FilesStep

LEMMA FastOffFiles ==
  ASSUME Guarded, FilesOK, NEW t \in Threads, FastOff(t)
  PROVE  FilesStep
<1> USE DEF gate_vars, path_vars, fail_vars, switch_vars, history
<1>0. Formed /\ Do(t, "fast_off", <<>>) /\ UNCHANGED <<build, nfd, st>> /\ fast' = FALSE
  BY DEF Guarded, FastOff
<1>1. "fast_off" \in Files
  BY DEF Files
<1>2. /\ Went(t, "fast_off", <<>>) /\ GateKept /\ Hd(todo[t]) = "fast_off" /\ Has(todo[t], "fast_off")
      /\ \A u \in Threads : \A y : Has(todo'[u], y) => Has(todo[u], y)
  BY <1>0, <1>1, PopWent
<1>3. Formed'
  BY <1>0, <1>2, WentOn
<1>4. ~nfd /\ \A i \in IOs : st[i] = "queued" => FALSE
  BY <1>2 DEF FilesOK
<1>5. \A S : \A u \in Threads : HasAny(todo'[u], S) => HasAny(todo[u], S)
  BY <1>2 DEF HasAny
<1>6. \A u \in Threads : ~Has(todo[u], "open_files")
  BY <1>2, FileNames DEF FilesOK, HasAny
<1>7. closed
  BY <1>2, InSection, FileNames
<1>8. FilesOK'
  BY <1>0, <1>2, <1>4, <1>5, <1>6 DEF FilesOK
<1> QED BY <1>2, <1>3, <1>7, <1>8 DEF FilesStep

LEMMA DisableFiles ==
  ASSUME Guarded, FilesOK, NEW t \in Threads, Disable(t)
  PROVE  FilesStep
<1> USE DEF gate_vars, path_vars, fail_vars, switch_vars, history
<1>0. /\ Formed /\ UNCHANGED <<build, nfd, st>> /\ fast' = (fast /\ nfd) /\ fast \in BOOLEAN /\ nfd \in BOOLEAN
      /\ todo[t] \in Seq(Steps) /\ Shape(todo[t])
  BY GateStates DEF Guarded, Disable, Formed, Lists, Shaped
<1>1. CASE nfd /\ fast
  <2> DEFINE g == <<"inc", "flush", "close_files", "fast_off", "dec">>
  <2>1. Do(t, "disable", g) /\ fast' = fast
    BY <1>0, <1>1 DEF Disable
  <2>2. Hd(todo[t]) = "disable"
    BY <2>1 DEF Do, Hd
  <2>3. Went(t, "disable", g)
    BY <1>0, <2>1, <2>2, CallDisable, DoWent
  <2>4. g # <<>> /\ g[1] = "inc" /\ "inc" \notin Gates /\ "disable" \notin Gates
    BY DEF Gates
  <2>5. \A y : Has(g, y) => y = "inc" \/ y \in Closing \/ y = "dec"
    BY FiveHas, FileNames
  <2> HIDE DEF g
  <2>6. GateKept
    BY <1>0, <2>3, <2>4, WentGate
  <2>7. /\ Formed' /\ Hd(todo'[t]) = "inc" /\ \A u \in Threads : u # t => todo'[u] = todo[u]
        /\ \A y : Has(todo'[t], y) => Has(g, y) \/ Has(todo[t], y)
    BY <1>0, <2>3, <2>4, WentOn
  <2>8. \A u \in Threads, y \in Updating : Has(todo'[u], y) => Has(todo[u], y)
    BY <2>5, <2>7, FileNames
  <2>9. \A u \in Threads : ~HasAny(todo[u], Updates)
    BY <1>1 DEF FilesOK
  <2>10. \A u \in Threads : ~HasAny(todo'[u], Updates) /\ ~HasAny(todo'[u], Setting) /\ ~Has(todo'[u], "open_files") /\ ~Has(todo'[u], "no_files")
    BY <2>8, <2>9, FileNames DEF HasAny
  <2>11. \A u \in Threads : HasAny(todo'[u], Updating) => HasAny(todo[u], Updating)
    BY <2>8 DEF HasAny
  <2>12. \A u \in Threads : /\ (Hd(todo'[u]) = "fast_off" => Hd(todo[u]) = "fast_off")
                            /\ (Hd(todo'[u]) = "close_files" => Hd(todo[u]) = "close_files")
    BY <2>7
  <2>13. FilesOK'
    BY <1>0, <1>1, <2>1, <2>10, <2>11, <2>12 DEF FilesOK
  <2> QED BY <1>0, <2>1, <2>6, <2>7, <2>13 DEF FilesStep
<1>2. CASE ~(nfd /\ fast)
  <2>1. Do(t, "disable", <<>>) /\ fast' = FALSE
    BY <1>0, <1>2 DEF Disable
  <2>2. Went(t, "disable", <<>>)
    BY <1>0, <2>1, CallNone, DoWent
  <2>3. "disable" \notin Gates /\ "disable" \notin Files
    BY DEF Gates, Files
  <2>4. Formed' /\ GateKept /\ FilesKept
    BY <1>0, <2>2, <2>3, NoneHas, WentForms, WentGate, WentFiles
  <2>5. CASE ~fast
    <3>1. UNCHANGED fast
      BY <1>0, <2>1, <2>5
    <3>2. FilesOK'
      BY <1>0, <2>4, <3>1, FilesFrame
    <3> QED BY <1>0, <2>4, <3>1, <3>2 DEF FilesStep
  <2>6. CASE fast /\ ~nfd
    <3>1. PICK u \in Threads : Hd(todo[u]) = "fast_off"
      BY <2>6 DEF FilesOK
    <3>2. closed
      BY <3>1, InSection, FileNames
    <3>3. \A v \in Threads : ~HasAny(todo[v], Updates)
      BY <2>6 DEF FilesOK
    <3>4. \A v \in Threads, y \in Files : Has(todo'[v], y) <=> Has(todo[v], y)
      BY <2>4 DEF FilesKept
    <3>5. \A v \in Threads : /\ ~HasAny(todo'[v], Updates) /\ ~HasAny(todo'[v], Setting) /\ ~Has(todo'[v], "open_files") /\ ~Has(todo'[v], "no_files")
                             /\ (HasAny(todo'[v], Updating) => HasAny(todo[v], Updating))
      BY <3>3, <3>4, FileNames DEF HasAny
    <3>6. \A i \in IOs : st'[i] # "lost" /\ st'[i] # "queued"
      BY <1>0, <2>6 DEF FilesOK
    <3>7. FilesOK'
      BY <1>0, <2>1, <2>6, <3>5, <3>6 DEF FilesOK
    <3> QED BY <2>4, <3>2, <3>7 DEF FilesStep
  <2> QED BY <1>2, <2>5, <2>6
<1> QED BY <1>1, <1>2

\* Thread t is at a step of a path update: it is the only one, and off the fast path
\* as long as the files are being set up.
LEMMA Updater ==
  ASSUME FilesOK, NEW t \in Threads, NEW x \in Updating, Has(todo[t], x)
  PROVE  /\ \A u \in Threads : u # t => ~HasAny(todo[u], Updating) /\ ~HasAny(todo[u], Updates) /\ ~HasAny(todo[u], Setting)
         /\ x \in Updates => ~fast /\ \A i \in IOs : st[i] # "queued"
         /\ x \in Setting => \A u \in Threads : ~HasAny(todo[u], Closing) /\ ~Has(todo[u], "fast_off")
<1>1. HasAny(todo[t], Updating)
  BY DEF HasAny
<1>2. \A u \in Threads : u # t => ~HasAny(todo[u], Updating)
  BY <1>1 DEF FilesOK
<1>3. \A u \in Threads : u # t => ~HasAny(todo[u], Updates) /\ ~HasAny(todo[u], Setting)
  BY <1>2, FileNames DEF HasAny
<1>4. x \in Updates => ~fast /\ \A i \in IOs : st[i] # "queued"
  BY DEF FilesOK, HasAny
<1>5. x \in Setting => \A u \in Threads : ~HasAny(todo[u], Closing)
  <2>1. x \in Setting => HasAny(todo[t], Setting)
    BY DEF HasAny
  <2> QED BY <2>1 DEF FilesOK
<1>6. x \in Setting => \A u \in Threads : ~Has(todo[u], "fast_off")
  BY <1>5, FileNames DEF HasAny
<1> QED BY <1>2, <1>3, <1>4, <1>5, <1>6

LEMMA SetPathsFiles ==
  ASSUME Guarded, FilesOK, NEW t \in Threads, SetPaths(t)
  PROVE  FilesStep
<1> USE DEF gate_vars, path_vars, fail_vars, switch_vars, history
<1>0. Formed /\ Do(t, "set_paths", <<>>) /\ UNCHANGED <<build, fast, st>> /\ nfd' \in BOOLEAN
  BY DEF Guarded, SetPaths
<1>1. /\ Went(t, "set_paths", <<>>) /\ GateKept /\ Hd(todo[t]) = "set_paths" /\ Has(todo[t], "set_paths")
      /\ \A u \in Threads : \A y : Has(todo'[u], y) => Has(todo[u], y)
  BY <1>0, PopWent, FileNames
<1>2. /\ \A u \in Threads : u # t => ~HasAny(todo[u], Updating) /\ ~HasAny(todo[u], Updates) /\ ~HasAny(todo[u], Setting)
      /\ ~fast /\ \A i \in IOs : st[i] # "queued"
      /\ \A u \in Threads : ~HasAny(todo[u], Closing) /\ ~Has(todo[u], "fast_off")
  BY <1>1, Updater, FileNames
<1>3. /\ Formed' /\ Hd(todo'[t]) = "enable" /\ \A u \in Threads : u # t => todo'[u] = todo[u]
      /\ \A y \in Updates : Has(todo'[t], y) => Has(<<>>, y) \/ y = "enable"
  BY <1>0, <1>1, WentOn, FileNames
<1>4. Has(todo'[t], "enable")
  <2>1. todo'[t] \in Seq(Steps) /\ todo'[t] # <<>> /\ Head(todo'[t]) = "enable"
    BY <1>3 DEF Hd, Formed, Lists
  <2> QED BY <2>1 DEF Has
<1>5. \A S : \A u \in Threads : HasAny(todo'[u], S) => HasAny(todo[u], S)
  BY <1>1 DEF HasAny
<1>6. ~Has(todo'[t], "open_files") /\ ~Has(todo'[t], "no_files")
  BY <1>3, NoneHas, FileNames
<1>7. \A u \in Threads : ~Has(todo'[u], "open_files") /\ ~Has(todo'[u], "no_files")
  BY <1>2, <1>3, <1>6, FileNames DEF HasAny
<1>8. \A u \in Threads : Hd(todo'[u]) # "fast_off"
  BY <1>0, <1>2, <1>3, HeadIsAhead, FileNames DEF Closing
<1>9. closed
  BY <1>1, InSection, FileNames
<1>10. FilesOK'
  BY <1>0, <1>2, <1>4, <1>5, <1>7, <1>8 DEF FilesOK
<1> QED BY <1>1, <1>3, <1>9, <1>10 DEF FilesStep

LEMMA EnableFiles ==
  ASSUME Guarded, FilesOK, NEW t \in Threads, Enable(t)
  PROVE  FilesStep
<1> USE DEF gate_vars, path_vars, fail_vars, switch_vars, history
<1>0. /\ Formed /\ UNCHANGED <<build, nfd, st>> /\ fast' = (fast /\ nfd) /\ fast \in BOOLEAN /\ nfd \in BOOLEAN
      /\ todo[t] \in Seq(Steps) /\ Shape(todo[t]) /\ Order(todo[t])
  BY GateStates DEF Guarded, Enable, Formed, Lists, Shaped, Ordered
<1>1. todo[t] # <<>> /\ Head(todo[t]) = "enable" /\ Hd(todo[t]) = "enable" /\ Has(todo[t], "enable")
  <2>1. todo[t] # <<>> /\ Head(todo[t]) = "enable" /\ Hd(todo[t]) = "enable"
    BY DEF Enable, Do, Hd
  <2> QED BY <1>0, <2>1, HeadIsAhead, FileNames
<1>2. /\ \A u \in Threads : u # t => ~HasAny(todo[u], Updating) /\ ~HasAny(todo[u], Updates) /\ ~HasAny(todo[u], Setting)
      /\ ~fast /\ \A i \in IOs : st[i] # "queued"
      /\ \A u \in Threads : ~HasAny(todo[u], Closing) /\ ~Has(todo[u], "fast_off")
  BY <1>1, Updater, FileNames
<1>3. UNCHANGED fast
  BY <1>0, <1>2
<1>4. PICK steps : /\ Do(t, "enable", steps) /\ Calls(todo[t], steps)
                   /\ steps = <<>> \/ steps[1] \notin Gates
                   /\ steps # <<>> => steps[1] # "fast_off"
                   /\ \A y \in Files : Has(steps, y) => y = "open_files" /\ nfd
                   /\ nfd => Has(steps, "open_files")
  <2>1. CASE nfd
    <3> DEFINE g == <<"inc", "open_files">>
    <3>1. Do(t, "enable", g)
      BY <2>1 DEF Enable
    <3>2. NoUpdate(Rest(todo[t]))
      <4>1. Rest(todo[t]) = Tail(todo[t]) /\ "enable" # "set_paths"
        BY <1>1 DEF Rest
      <4> QED BY <1>0, <1>1, <4>1, OrderRest, FileNames DEF NoUpdate
    <3>3. Hd(todo[t]) \notin {"flush", "close_files", "set_paths"} /\ "open_files" \in Kept
      BY <1>1 DEF Kept
    <3>4. Calls(todo[t], g)
      BY <1>0, <3>2, <3>3, CallInc
    <3>5. \A y : Has(g, y) <=> y = "inc" \/ y = "open_files"
      BY PairHas
    <3>6. g[1] = "inc"
      OBVIOUS
    <3> HIDE DEF g
    <3> QED BY <2>1, <3>1, <3>4, <3>5, <3>6, FileNames, GateNames
  <2>2. CASE ~nfd
    <3>1. Do(t, "enable", <<>>)
      BY <2>2 DEF Enable
    <3> QED BY <1>0, <2>2, <3>1, CallNone, NoneHas
  <2> QED BY <2>1, <2>2
<1>5. Went(t, "enable", steps)
  BY <1>4, DoWent
<1>6. GateKept
  <2>1. "enable" \notin Gates
    BY DEF Gates
  <2> QED BY <1>0, <1>4, <1>5, <2>1, WentGate
<1>7. /\ Formed' /\ \A u \in Threads : u # t => todo'[u] = todo[u]
      /\ \A y : Has(todo'[t], y) => Has(steps, y) \/ Has(todo[t], y)
      /\ \A y : Has(steps, y) => Has(todo'[t], y)
      /\ \A y \in Updates : Has(todo'[t], y) => Has(steps, y)
  BY <1>0, <1>5, WentOn, FileNames
<1>8. \A u \in Threads : u # t => ~HasAny(todo'[u], Updating) /\ ~HasAny(todo'[u], Setting) /\ ~Has(todo'[u], "open_files") /\ ~Has(todo'[u], "no_files")
  BY <1>2, <1>7, FileNames DEF HasAny
<1>9. \A u \in Threads, y \in Closing : ~Has(todo'[u], y)
  BY <1>2, <1>4, <1>7, FileNames DEF HasAny
<1>10. \A u \in Threads : ~HasAny(todo'[u], Closing)
  BY <1>9 DEF HasAny
<1>11. (Has(todo'[t], "open_files") <=> nfd) /\ ~Has(todo'[t], "no_files")
  BY <1>4, <1>7, FileNames
<1>12. \A u \in Threads : Hd(todo'[u]) # "fast_off"
  <2>1. \A u \in Threads, y \in Files : Hd(todo'[u]) = y => Has(todo'[u], y)
    <3>1. SUFFICES ASSUME NEW u \in Threads, NEW y \in Files, Hd(todo'[u]) = y PROVE Has(todo'[u], y)
      OBVIOUS
    <3>2. y # "end"
      BY DEF Files
    <3>3. todo'[u] \in Seq(Steps) /\ todo'[u] # <<>>
      BY <1>7, <3>1, <3>2 DEF Formed, Lists, Hd
    <3> QED BY <3>1, <3>3 DEF Has, Hd
  <2> QED BY <1>9, <2>1, FileNames
<1>13. FilesOK'
  BY <1>0, <1>2, <1>3, <1>8, <1>10, <1>11, <1>12 DEF FilesOK
<1> QED BY <1>0, <1>3, <1>6, <1>7, <1>13 DEF FilesStep

LEMMA OpenFilesFiles ==
  ASSUME Guarded, FilesOK, NEW t \in Threads, OpenFiles(t)
  PROVE  FilesStep
<1> USE DEF gate_vars, path_vars, fail_vars, switch_vars, history
<1>0. /\ Formed /\ UNCHANGED <<build, st>> /\ nfd \in BOOLEAN
      /\ todo[t] \in Seq(Steps) /\ Shape(todo[t])
  BY GateStates DEF Guarded, OpenFiles, Formed, Lists, Shaped
<1>1. Hd(todo[t]) = "open_files" /\ Has(todo[t], "open_files")
  <2>1. Hd(todo[t]) = "open_files"
    BY DEF OpenFiles, Do, Hd
  <2> QED BY <1>0, <2>1, HeadIsAhead, FileNames
<1>2. /\ \A u \in Threads : u # t => ~HasAny(todo[u], Updating) /\ ~HasAny(todo[u], Updates) /\ ~HasAny(todo[u], Setting)
      /\ ~fast /\ \A i \in IOs : st[i] # "queued"
      /\ \A u \in Threads : ~HasAny(todo[u], Closing) /\ ~Has(todo[u], "fast_off")
  BY <1>1, Updater, FileNames
<1>3. nfd
  BY <1>1 DEF FilesOK
<1>4. PICK steps \in Seq(Easy) : /\ Do(t, "open_files", steps)
                                 /\ \A y : Has(steps, y) => y = "dec"
                                 /\ (fast' = TRUE /\ nfd' = nfd) \/ (fast' = FALSE /\ nfd' = FALSE)
  BY EasySteps, NoneHas, DecHas DEF OpenFiles
<1>5. Hd(todo[t]) \notin {"flush", "close_files", "set_paths"}
  BY <1>1
<1>6. Went(t, "open_files", steps)
  BY <1>0, <1>4, <1>5, CallEasy, DoWent
<1>7. GateKept
  <2>1. "open_files" \notin Gates
    BY DEF Gates
  <2>2. steps = <<>> \/ steps[1] \in Easy
    BY <1>4
  <2> QED BY <1>0, <1>6, <2>1, <2>2, WentGate, EasyIs
<1>8. /\ Formed' /\ \A u \in Threads : u # t => todo'[u] = todo[u]
      /\ \A y : Has(todo'[t], y) => Has(steps, y) \/ Has(todo[t], y)
      /\ \A y \in Updates : Has(todo'[t], y) => Has(steps, y)
  BY <1>0, <1>6, WentOn, FileNames
<1>9. \A u \in Threads, y \in Updates : ~Has(todo'[u], y)
  BY <1>2, <1>4, <1>8, FileNames DEF HasAny
<1>10. \A u \in Threads : ~HasAny(todo'[u], Updates) /\ ~HasAny(todo'[u], Setting) /\ ~Has(todo'[u], "open_files") /\ ~Has(todo'[u], "no_files")
  BY <1>9, FileNames DEF HasAny
<1>11. \A u \in Threads : u # t => ~HasAny(todo'[u], Updating)
  BY <1>2, <1>8 DEF HasAny
<1>12. \A u \in Threads, y \in Closing : ~Has(todo'[u], y)
  BY <1>2, <1>4, <1>8, FileNames DEF HasAny
<1>13. \A u \in Threads : Hd(todo'[u]) # "fast_off"
  <2>1. SUFFICES ASSUME NEW u \in Threads, Hd(todo'[u]) = "fast_off" PROVE FALSE
    OBVIOUS
  <2>2. todo'[u] \in Seq(Steps) /\ todo'[u] # <<>>
    BY <1>8, <2>1 DEF Formed, Lists, Hd
  <2>3. Has(todo'[u], "fast_off")
    BY <2>1, <2>2 DEF Has, Hd
  <2> QED BY <1>12, <2>3, FileNames
<1>14. closed
  BY <1>1, InSection, FileNames
<1>15. FilesOK'
  BY <1>0, <1>2, <1>3, <1>4, <1>10, <1>11, <1>13 DEF FilesOK
<1> QED BY <1>7, <1>8, <1>14, <1>15 DEF FilesStep

LEMMA NoFilesFiles ==
  ASSUME Guarded, FilesOK, NEW t \in Threads, NoFiles(t)
  PROVE  FilesStep
<1> USE DEF gate_vars, path_vars, fail_vars, switch_vars, history
<1>0. Formed /\ Do(t, "no_files", <<>>) /\ UNCHANGED <<build, fast, st>> /\ nfd' = FALSE /\ nfd \in BOOLEAN
  BY GateStates DEF Guarded, NoFiles
<1>1. /\ Went(t, "no_files", <<>>) /\ GateKept /\ Has(todo[t], "no_files")
      /\ \A u \in Threads : \A y : Has(todo'[u], y) => Has(todo[u], y)
  BY <1>0, PopWent, FileNames
<1>2. ~nfd /\ ~fast /\ \A i \in IOs : st[i] # "queued"
  BY <1>1, Updater, FileNames DEF FilesOK
<1>3. UNCHANGED nfd
  BY <1>0, <1>2
<1>4. Formed'
  BY <1>0, <1>1, WentOn
<1>5. \A S : \A u \in Threads : HasAny(todo'[u], S) => HasAny(todo[u], S)
  BY <1>1 DEF HasAny
<1>6. FilesOK'
  BY <1>0, <1>1, <1>2, <1>3, <1>5 DEF FilesOK
<1> QED BY <1>0, <1>1, <1>3, <1>4, <1>6 DEF FilesStep

\* Thread t says that there are no files, and nobody else is at them.
LEMMA ToNoFiles ==
  ASSUME Guarded, FilesOK, NEW t \in Threads, NEW x, Went(t, x, <<"disable", "no_files">>), x \notin Gates,
         ~fast, \A u \in Threads : u # t => ~HasAny(todo[u], Updating), \A y : Has(todo[t], y) => y = "check",
         UNCHANGED <<build, fast, nfd, st>>
  PROVE  FilesStep
<1> DEFINE g == <<"disable", "no_files">>
<1>0. Formed /\ fast \in BOOLEAN /\ nfd \in BOOLEAN
  BY GateStates DEF Guarded
<1>1. g # <<>> /\ g[1] = "disable" /\ "disable" \notin Gates
  BY DEF Gates
<1>2. \A y : Has(g, y) <=> y = "disable" \/ y = "no_files"
  BY PairHas
<1>3. Went(t, x, g)
  OBVIOUS
<1> HIDE DEF g
<1>4. GateKept
  BY <1>0, <1>1, <1>3, WentGate
<1>5. /\ Formed' /\ Hd(todo'[t]) = "disable" /\ \A u \in Threads : u # t => todo'[u] = todo[u]
      /\ \A y : Has(todo'[t], y) => Has(g, y) \/ Has(todo[t], y)
  BY <1>0, <1>1, <1>3, WentOn
<1>6. ~nfd /\ \A i \in IOs : st[i] # "queued" /\ st[i] # "lost"
  <2>1. \A u \in Threads : ~Has(todo[u], "enable") /\ ~Has(todo[u], "open_files")
    BY FileNames DEF HasAny
  <2> QED BY <1>0, <2>1 DEF FilesOK
<1>7. \A u \in Threads : u # t => ~HasAny(todo'[u], Updating)
  BY <1>5
<1>8. \A u \in Threads, y \in Setting : ~Has(todo'[u], y)
  <2>1. \A u \in Threads : u # t => \A y \in Setting : ~Has(todo'[u], y)
    BY <1>7, FileNames DEF HasAny
  <2>2. \A y \in Setting : y # "disable" /\ y # "no_files" /\ y # "check"
    BY DEF Setting
  <2>3. \A y \in Setting : ~Has(todo'[t], y)
    BY <1>2, <1>5, <2>2
  <2> QED BY <2>1, <2>3
<1>9. \A u \in Threads : ~HasAny(todo'[u], Setting) /\ ~Has(todo'[u], "open_files")
  BY <1>8, FileNames DEF HasAny
<1>10. UNCHANGED <<build, fast, nfd, st>>
  OBVIOUS
<1>11. FilesOK'
  BY <1>6, <1>7, <1>9, <1>10 DEF FilesOK
<1> QED BY <1>0, <1>4, <1>5, <1>10, <1>11 DEF FilesStep

LEMMA CheckFiles ==
  ASSUME Guarded, FilesOK, NEW t \in Threads, CheckPaths(t)
  PROVE  FilesStep
<1> USE DEF gate_vars, path_vars, fail_vars, switch_vars, history
<1>0. /\ Formed /\ UNCHANGED <<build, fast, nfd, st>> /\ fast \in BOOLEAN /\ nfd \in BOOLEAN
      /\ todo[t] \in Seq(Steps) /\ Shape(todo[t])
  BY GateStates DEF Guarded, CheckPaths, Formed, Lists, Shaped
<1>1. todo[t] # <<>> /\ Head(todo[t]) = "check" /\ Hd(todo[t]) = "check" /\ Has(todo[t], "check")
  <2>1. todo[t] # <<>> /\ Head(todo[t]) = "check" /\ Hd(todo[t]) = "check"
    BY DEF CheckPaths, Do, Hd
  <2> QED BY <1>0, <2>1, HeadIsAhead, FileNames
<1>2. \A u \in Threads : u # t => ~HasAny(todo[u], Updating)
  BY <1>1, Updater, FileNames
<1>3. Tail(todo[t]) = <<>>
  BY <1>0, <1>1, TailShape
<1>4. \A y : Has(todo[t], y) => y = "check"
  <2>1. Len(todo[t]) = 1
    <3>1. 1 \in DOMAIN todo[t] /\ todo[t][1] = "check"
      BY <1>0, <1>1
    <3> QED BY <1>0, <3>1 DEF Shape
  <2>2. DOMAIN todo[t] = {1} /\ todo[t][1] = "check"
    BY <1>0, <1>1, <2>1
  <2> QED BY <2>2 DEF Has
<1>5. CASE fast
  <2>1. Do(t, "check", <<>>)
    BY <1>5 DEF CheckPaths
  <2>2. /\ Went(t, "check", <<>>) /\ GateKept
        /\ \A u \in Threads : \A y : Has(todo'[u], y) => Has(todo[u], y)
        /\ \A u \in Threads : \A y : Has(todo[u], y) /\ y # "check" => Has(todo'[u], y)
    BY <1>0, <2>1, PopWent, FileNames
  <2>3. /\ Formed' /\ \A u \in Threads : u # t => todo'[u] = todo[u]
        /\ \A y : Has(todo'[t], y) => Has(<<>>, y)
    BY <1>0, <2>2, WentOn
  <2>4. \A S : \A u \in Threads : HasAny(todo'[u], S) => HasAny(todo[u], S)
    BY <2>2 DEF HasAny
  <2>5. Hd(todo'[t]) \notin {"fast_off", "close_files"}
    <3>1. SUFFICES ASSUME NEW y \in {"fast_off", "close_files"}, Hd(todo'[t]) = y PROVE FALSE
      OBVIOUS
    <3>2. todo'[t] \in Seq(Steps) /\ todo'[t] # <<>>
      BY <2>3, <3>1 DEF Formed, Lists, Hd
    <3>3. Has(todo'[t], y)
      BY <3>1, <3>2 DEF Has, Hd
    <3> QED BY <2>3, <3>3, NoneHas
  <2>6. \A u \in Threads : /\ (Hd(todo'[u]) = "fast_off" <=> Hd(todo[u]) = "fast_off")
                           /\ (Hd(todo'[u]) = "close_files" <=> Hd(todo[u]) = "close_files")
    BY <1>1, <2>3, <2>5
  <2>7. FilesOK'
    BY <1>0, <1>5, <2>2, <2>4, <2>6 DEF FilesOK
  <2> QED BY <1>0, <2>2, <2>3, <2>7 DEF FilesStep
<1>6. CASE ~fast
  <2>1. Do(t, "check", <<"disable", "no_files">>)
    BY <1>6 DEF CheckPaths
  <2>2. Rest(todo[t]) = <<>>
    BY <1>1, <1>3 DEF Rest
  <2>3. Went(t, "check", <<"disable", "no_files">>) /\ "check" \notin Gates
    BY <1>0, <2>1, <2>2, CallNoFiles, DoWent DEF Gates
  <2> QED BY <1>0, <1>2, <1>4, <1>6, <2>3, ToNoFiles
<1> QED BY <1>5, <1>6

LEMMA UpdateFiles ==
  ASSUME Guarded, FilesOK, NEW t \in Threads, UpdatePath(t), ~mixed'
  PROVE  FilesStep
<1> USE DEF gate_vars, path_vars, fail_vars, switch_vars, history
<1>0. /\ Formed /\ UNCHANGED <<build, fast, nfd, st>> /\ ~fast /\ fast \in BOOLEAN /\ nfd \in BOOLEAN
      /\ todo[t] = <<>> /\ ~Ahead(Files)
  BY GateStates DEF Guarded, UpdatePath, AtFiles, Files, Start
<1>1. \A u \in Threads, y \in Files : ~Has(todo[u], y)
  BY <1>0 DEF Ahead, Has
<1>2. /\ \A u \in Threads : ~HasAny(todo[u], Updating) /\ ~HasAny(todo[u], Closing)
      /\ \A u \in Threads : ~Has(todo[u], "enable") /\ ~Has(todo[u], "open_files") /\ ~Has(todo[u], "no_files")
  BY <1>1, FileNames DEF HasAny
<1>3. ~nfd /\ \A i \in IOs : st[i] # "queued" /\ st[i] # "lost"
  BY <1>0, <1>2 DEF FilesOK
<1>4. \A y : ~Has(todo[t], y)
  BY <1>0, NoneHas
<1>5. CASE Start(t, <<"disable", "no_files">>)
  <2>1. Rest(todo[t]) = <<>> /\ todo[t] \in Seq(Steps)
    BY <1>0 DEF Rest
  <2>2. Went(t, "end", <<"disable", "no_files">>) /\ "end" \notin Gates
    BY <1>5, <2>1, CallNoFiles, StartWent DEF Gates
  <2> QED BY <1>0, <1>2, <1>4, <2>2, ToNoFiles
<1>6. CASE Start(t, <<"inc", "set_paths", "enable", "dec", "check">>)
  <2> DEFINE g == <<"inc", "set_paths", "enable", "dec", "check">>
  <2>1. Went(t, "end", g) /\ "end" \notin Gates
    BY <1>0, <1>6, CallUpdate, StartWent DEF Gates
  <2>2. g # <<>> /\ g[1] = "inc" /\ "inc" \notin Gates
    BY DEF Gates
  <2>3. \A y : Has(g, y) <=> y = "inc" \/ y = "set_paths" \/ y = "enable" \/ y = "dec" \/ y = "check"
    BY FiveHas
  <2> HIDE DEF g
  <2>4. GateKept
    BY <1>0, <2>1, <2>2, WentGate
  <2>5. /\ Formed' /\ Hd(todo'[t]) = "inc" /\ \A u \in Threads : u # t => todo'[u] = todo[u]
        /\ \A y : Has(todo'[t], y) => Has(g, y) \/ Has(todo[t], y)
    BY <1>0, <2>1, <2>2, WentOn
  <2>6. \A u \in Threads : u # t => ~HasAny(todo'[u], Updating) /\ ~HasAny(todo'[u], Closing)
    BY <1>2, <2>5
  <2>7. ~HasAny(todo'[t], Closing) /\ ~Has(todo'[t], "open_files") /\ ~Has(todo'[t], "no_files")
    BY <1>4, <2>3, <2>5 DEF HasAny, Closing
  <2>8. \A u \in Threads : ~HasAny(todo'[u], Closing) /\ ~Has(todo'[u], "open_files") /\ ~Has(todo'[u], "no_files")
    BY <2>6, <2>7, FileNames DEF HasAny
  <2>9. FilesOK'
    BY <1>0, <1>3, <2>6, <2>8 DEF FilesOK
  <2> QED BY <1>0, <2>4, <2>5, <2>9 DEF FilesStep
<1> QED BY <1>5, <1>6 DEF UpdatePath

\* An IO comes in through the open gate, or a worker maps it.
LEMMA SubmitFiles ==
  ASSUME Guarded, FilesOK, NEW i \in IOs, Submit(i) \/ Map(i)
  PROVE  FilesStep
<1> USE DEF gate_vars, path_vars, fail_vars, switch_vars, history
<1>0. /\ Formed /\ UNCHANGED <<todo, build, fast, nfd>> /\ fast \in BOOLEAN /\ nfd \in BOOLEAN
      /\ st \in [IOs -> {"idle", "queued", "mapped", "failing", "failed", "reroute", "lost"}]
  BY GateStates DEF Guarded, Submit, Map, BalanceInv, TypeOK
<1>1. Formed' /\ GateKept
  BY <1>0 DEF Formed, Lists, Shaped, Ordered, GateKept
<1>2. \A j \in IOs : j # i => st'[j] = st[j]
  BY <1>0 DEF Submit, Map
<1>3. /\ st'[i] # "lost"
      /\ st'[i] = "queued" => build = "blkmq" /\ fast /\ nfd /\ \A t \in Threads : Hd(todo[t]) # "close_files"
  <2>1. CASE Map(i)
    <3>1. nfd
      BY <2>1 DEF Map, FilesOK
    <3> QED BY <1>0, <2>1, <3>1 DEF Map
  <2>2. CASE Submit(i)
    <3>1. ~closed
      BY <2>2 DEF Submit
    <3>2. \A t \in Threads : Hd(todo[t]) # "close_files" /\ Hd(todo[t]) # "fast_off"
      BY <3>1, InSection, FileNames
    <3>3. fast => nfd
      BY <1>0, <3>2 DEF FilesOK
    <3> QED BY <1>0, <2>2, <3>2, <3>3 DEF Submit
  <2> QED BY <2>1, <2>2
<1>4. FilesOK'
  BY <1>0, <1>2, <1>3 DEF FilesOK
<1> QED BY <1>0, <1>1, <1>4 DEF FilesStep

--------------------------------------------------------------------------------
\* The inductive invariant: the forms of the steps ahead always, the gate and the
\* files as long as nobody has met in the steps that the code does not guard.
SafeInv == BalanceInv /\ Formed /\ (~racy /\ ~mixed /\ lent = 0 => GateOK /\ FilesOK)

\* One step from a state in which the gate and the files are sound.
SafeStep == (fast' # fast \/ nfd' # nfd => closed) /\ (~racy' /\ ~mixed' => GateOK' /\ FilesOK')

LEMMA SafeInitial == Init => SafeInv
<1> SUFFICES ASSUME Init PROVE SafeInv
  OBVIOUS
<1>1. BalanceInv
  BY BalanceInitial
<1>2. \A t \in Threads : todo[t] = <<>>
  BY DEF Init
<1>3. \A t \in Threads : Hd(todo[t]) = "end" /\ \A y : ~Has(todo[t], y)
  BY <1>2 DEF Hd, Has
<1>4. todo \in Lists
  BY <1>1 DEF BalanceInv, SwitchInv, Lists
<1>5. Shape(<<>>) /\ Order(<<>>)
  BY DEF Shape, Order
<1>6. Formed
  BY <1>2, <1>4, <1>5 DEF Formed, Shaped, Ordered
<1>7. ~Up /\ ~closed /\ ~frozen
  BY DEF Init, Up
<1>8. \A t \in Threads : Hd(todo[t]) \notin Gates
  BY <1>3 DEF Gates
<1>9. GateOK
  BY <1>7, <1>8, GateNames DEF GateOK, GateBlkmq, GateMakereq
<1>10. \A S : \A t \in Threads : ~HasAny(todo[t], S)
  BY <1>3 DEF HasAny
<1>11. nfd = fast /\ \A i \in IOs : st[i] = "idle"
  BY DEF Init
<1>12. FilesOK
  BY <1>3, <1>10, <1>11 DEF FilesOK
<1> QED BY <1>1, <1>6, <1>9, <1>12 DEF SafeInv

\* The forms are kept by every step, whoever meets.
LEMMA FormsKept ==
  ASSUME BalanceInv, Formed, Next
  PROVE  Formed' /\ (mixed => mixed')
<1> USE DEF gate_vars, path_vars, fail_vars, switch_vars, history
<1>1. ASSUME NEW t \in Threads, Inc(t) \/ Close(t) \/ Freeze(t) \/ Dec(t) \/ Open(t) \/ Thaw(t)
      PROVE  Formed' /\ (mixed => mixed')
  <2>1. mixed => mixed'
    BY <1>1 DEF Inc, Close, Freeze, Dec, Open, Thaw
  <2>2. \/ Do(t, "inc", <<"close">>) \/ Do(t, "close", <<"freeze">>) \/ Do(t, "dec", <<"open">>) \/ Do(t, "open", <<"thaw">>)
        \/ Do(t, "inc", <<>>) \/ Do(t, "close", <<>>) \/ Do(t, "freeze", <<>>) \/ Do(t, "dec", <<>>) \/ Do(t, "open", <<>>) \/ Do(t, "thaw", <<>>)
    BY <1>1 DEF Inc, Close, Freeze, Dec, Open, Thaw
  <2>3. "open" \notin {"close", "freeze"} /\ "thaw" \notin {"close", "freeze"}
    OBVIOUS
  <2>4. Formed'
    BY <2>2, <2>3, Turns, Leaves, GateNames DEF Turned
  <2> QED BY <2>1, <2>4
<1>2. ASSUME NEW t \in Threads, Disable(t) \/ FlushWork(t) \/ CloseFiles(t) \/ FastOff(t)
      PROVE  Formed' /\ (mixed => mixed')
  <2>1. mixed => mixed'
    BY <1>2 DEF Disable, FlushWork, CloseFiles, FastOff
  <2>2. todo[t] \in Seq(Steps) /\ Shape(todo[t])
    BY DEF Formed, Lists, Shaped
  <2>3. \/ Do(t, "disable", <<"inc", "flush", "close_files", "fast_off", "dec">>)
        \/ \E x : Do(t, x, <<>>)
    BY <1>2 DEF Disable, FlushWork, CloseFiles, FastOff
  <2>4. CASE Do(t, "disable", <<"inc", "flush", "close_files", "fast_off", "dec">>)
    <3>1. Hd(todo[t]) = "disable"
      BY <2>4 DEF Do, Hd
    <3> QED BY <2>1, <2>2, <2>4, <3>1, CallDisable, DoWent, WentForms
  <2>5. CASE \E x : Do(t, x, <<>>)
    BY <2>1, <2>2, <2>5, CallNone, DoWent, WentForms
  <2> QED BY <2>3, <2>4, <2>5
<1>3. ASSUME NEW t \in Threads, ThreadStep(t) PROVE Formed' /\ (mixed => mixed')
  BY <1>1, <1>3, QuietThread DEF ThreadStep, Undisturbed, Still
<1>4. ASSUME NEW c \in Ctl, SetPaths(c) \/ Enable(c) \/ OpenFiles(c) \/ CheckPaths(c) \/ NoFiles(c) \/ UpdatePath(c)
      PROVE  Formed' /\ (mixed => mixed')
  <2>0. c \in Threads /\ todo[c] \in Seq(Steps) /\ Shape(todo[c]) /\ Order(todo[c])
    BY DEF Formed, Lists, Shaped, Ordered, Threads
  <2>1. mixed => mixed'
    BY <1>4 DEF SetPaths, Enable, OpenFiles, CheckPaths, NoFiles, UpdatePath
  <2>2. \/ Do(c, "enable", <<"inc", "open_files">>) \/ Do(c, "open_files", <<"dec">>) \/ Do(c, "check", <<"disable", "no_files">>)
        \/ Start(c, <<"inc", "set_paths", "enable", "dec", "check">>) \/ Start(c, <<"disable", "no_files">>)
        \/ \E x : Do(c, x, <<>>)
    BY <1>4 DEF SetPaths, Enable, OpenFiles, CheckPaths, NoFiles, UpdatePath
  <2>3. CASE Do(c, "enable", <<"inc", "open_files">>)
    <3>1. todo[c] # <<>> /\ Head(todo[c]) = "enable" /\ Hd(todo[c]) = "enable" /\ Rest(todo[c]) = Tail(todo[c])
      BY <2>3 DEF Do, Hd, Rest
    <3>2. NoUpdate(Rest(todo[c]))
      <4>1. "enable" # "set_paths"
        OBVIOUS
      <4> QED BY <2>0, <3>1, <4>1, OrderRest, FileNames DEF NoUpdate
    <3>3. Hd(todo[c]) \notin {"flush", "close_files", "set_paths"} /\ "open_files" \in Kept
      BY <3>1 DEF Kept
    <3>4. Calls(todo[c], <<"inc", "open_files">>)
      BY <2>0, <3>2, <3>3, CallInc
    <3> QED BY <2>0, <2>1, <2>3, <3>4, DoWent, WentForms
  <2>4. CASE Do(c, "open_files", <<"dec">>)
    <3>1. Hd(todo[c]) \notin {"flush", "close_files", "set_paths"}
      BY <2>4 DEF Do, Hd
    <3>2. Calls(todo[c], <<"dec">>)
      BY <2>0, <3>1, EasySteps, CallEasy
    <3> QED BY <2>0, <2>1, <2>4, <3>2, DoWent, WentForms
  <2>5. CASE Do(c, "check", <<"disable", "no_files">>)
    <3>1. todo[c] # <<>> /\ Head(todo[c]) = "check" /\ Rest(todo[c]) = Tail(todo[c])
      BY <2>5 DEF Do, Rest
    <3>2. Rest(todo[c]) = <<>>
      BY <2>0, <3>1, TailShape
    <3> QED BY <2>0, <2>1, <2>5, <3>2, CallNoFiles, DoWent, WentForms
  <2>6. CASE Start(c, <<"inc", "set_paths", "enable", "dec", "check">>)
    <3>1. todo[c] = <<>>
      BY <2>6 DEF Start
    <3>2. Calls(todo[c], <<"inc", "set_paths", "enable", "dec", "check">>)
      BY <3>1, CallUpdate
    <3> QED BY <2>0, <2>1, <2>6, <3>2, StartWent, WentForms
  <2>7. CASE Start(c, <<"disable", "no_files">>)
    <3>1. Rest(todo[c]) = <<>>
      BY <2>7 DEF Start, Rest
    <3> QED BY <2>0, <2>1, <2>7, <3>1, CallNoFiles, StartWent, WentForms
  <2>8. CASE \E x : Do(c, x, <<>>)
    BY <2>0, <2>1, <2>8, CallNone, DoWent, WentForms
  <2> QED BY <2>2, <2>3, <2>4, <2>5, <2>6, <2>7, <2>8
<1>5. ASSUME NEW c \in Ctl, ControllerStep(c) \/ Request(c) \/ Answer(c) PROVE Formed' /\ (mixed => mixed')
  <2>1. c \in Threads
    BY DEF Threads
  <2> QED BY <1>2, <1>3, <1>4, <1>5, <2>1, QuietController, QuietRequest DEF ControllerStep, Request, Undisturbed, Still
<1>6. ASSUME NEW i \in IOs, IOStep(i) \/ Submit(i) PROVE Formed' /\ (mixed => mixed')
  <2>1. i \in Threads /\ TypeOK
    BY DEF Threads, BalanceInv
  <2>2. CASE Map(i) \/ Submit(i)
    <3>1. UNCHANGED <<todo, mixed>>
      BY <2>2 DEF Map, Submit
    <3> QED BY <3>1 DEF Formed, Lists, Shaped, Ordered
  <2> QED BY <1>3, <1>6, <2>1, <2>2, QuietIO DEF IOStep, Undisturbed, Still
<1> QED BY <1>5, <1>6 DEF Next

LEMMA SafeFrom ==
  ASSUME Guarded, FilesOK, Formed', GateKept, FilesKept, UNCHANGED <<build, suspend, closed, frozen, fast, nfd>>,
         \A i \in IOs : st'[i] \in {"lost", "queued"} => st'[i] = st[i]
  PROVE  SafeStep
<1>1. GateOK'
  BY GateFrame DEF Guarded
<1>2. FilesOK'
  BY FilesFrame
<1> QED BY <1>1, <1>2 DEF SafeStep

LEMMA SafeThread ==
  ASSUME Guarded, FilesOK, NEW t \in Threads, ThreadStep(t), ~racy', ~mixed'
  PROVE  SafeStep
<1> USE DEF gate_vars, path_vars, fail_vars, switch_vars, history
<1>1. CASE Inc(t) \/ Close(t) \/ Freeze(t) \/ Dec(t) \/ Open(t) \/ Thaw(t)
  <2>1. FilesKept /\ GateOK'
    BY <1>1, IncGate, CloseGate, FreezeGate, DecGate, OpenGate, ThawGate
  <2>2. UNCHANGED <<build, fast, nfd, st>>
    BY <1>1 DEF Inc, Close, Freeze, Dec, Open, Thaw
  <2>3. FilesOK'
    BY <2>1, <2>2, FilesFrame
  <2> QED BY <2>1, <2>2, <2>3 DEF SafeStep
<1>3. CASE ClaimFailover(t) \/ SendFailover(t) \/ ClearSwitch(t) \/ AppResume(t)
  <2>1. Undisturbed
    BY <1>3, QuietThread DEF Guarded
  <2> QED BY <2>1, SafeFrom DEF Undisturbed, Still
<1> QED BY <1>1, <1>3 DEF ThreadStep

LEMMA SafeController ==
  ASSUME Guarded, FilesOK, NEW c \in Ctl, ControllerStep(c) \/ Request(c) \/ Answer(c), ~racy', ~mixed'
  PROVE  SafeStep
<1> USE DEF gate_vars, path_vars, fail_vars, switch_vars, history
<1>0. c \in Threads
  BY DEF Threads
<1>1. CASE ThreadStep(c)
  BY <1>0, <1>1, SafeThread
<1>2. CASE SetPaths(c) \/ Enable(c) \/ OpenFiles(c) \/ CheckPaths(c) \/ NoFiles(c) \/ UpdatePath(c)
  <2>1. FilesStep
    BY <1>0, <1>2, SetPathsFiles, EnableFiles, OpenFilesFiles, CheckFiles, NoFilesFiles, UpdateFiles
  <2>2. UNCHANGED <<build, suspend, closed, frozen>>
    BY <1>2 DEF SetPaths, Enable, OpenFiles, CheckPaths, NoFiles, UpdatePath
  <2>3. GateOK'
    BY <2>1, <2>2, GateFrame DEF FilesStep, Guarded
  <2> QED BY <2>1, <2>3 DEF FilesStep, SafeStep
<1>3. CASE \/ Release(c) \/ Synced(c) \/ ClearApp(c) \/ ClaimFallback(c) \/ SendFallback(c) \/ TakeFailQ(c)
           \/ ReissueFailQ(c) \/ ResetSwitch(c) \/ ReleaseAll(c) \/ Left(c)
           \/ RequestSuspend(c) \/ RequestResume(c) \/ RequestFailover(c) \/ RequestFallback(c)
           \/ VolCleanup(c) \/ ResetDevice(c) \/ DebugStore(c) \/ Answer(c)
  <2>1. Undisturbed
    BY <1>3, QuietController, QuietRequest DEF Guarded
  <2> QED BY <2>1, SafeFrom DEF Undisturbed, Still
<1>4. CASE Disable(c) \/ FlushWork(c) \/ CloseFiles(c) \/ FastOff(c)
  <2>1. FilesStep
    BY <1>0, <1>4, DisableFiles, FlushFiles, CloseFilesFiles, FastOffFiles
  <2>2. UNCHANGED <<build, suspend, closed, frozen>>
    BY <1>4 DEF Disable, FlushWork, CloseFiles, FastOff
  <2>3. GateOK'
    BY <2>1, <2>2, GateFrame DEF FilesStep, Guarded
  <2> QED BY <2>1, <2>3 DEF FilesStep, SafeStep
<1> QED BY <1>1, <1>2, <1>3, <1>4 DEF ControllerStep, Request

LEMMA SafeIO ==
  ASSUME Guarded, FilesOK, NEW i \in IOs, IOStep(i) \/ Submit(i), ~racy', ~mixed'
  PROVE  SafeStep
<1> USE DEF gate_vars, path_vars, fail_vars, switch_vars, history
<1>0. i \in Threads /\ TypeOK
  BY DEF Threads, Guarded, BalanceInv
<1>1. CASE ThreadStep(i)
  BY <1>0, <1>1, SafeThread
<1>2. CASE Submit(i) \/ Map(i)
  <2>1. FilesStep
    BY <1>2, SubmitFiles
  <2>2. UNCHANGED <<build, suspend, closed, frozen>>
    BY <1>2 DEF Submit, Map
  <2>3. GateOK'
    BY <2>1, <2>2, GateFrame DEF FilesStep, Guarded
  <2> QED BY <2>1, <2>3 DEF FilesStep, SafeStep
<1>3. CASE InitiateFailover(i) \/ AbortFailQ(i) \/ EndIO(i) \/ IoFailover(i) \/ Reroute(i)
  <2>1. Undisturbed
    BY <1>0, <1>3, QuietIO DEF Guarded
  <2> QED BY <2>1, SafeFrom DEF Undisturbed, Still
<1> QED BY <1>1, <1>2, <1>3 DEF IOStep

\* Who changes the path or the files meets nobody in that step.
LEMMA PathChanges ==
  ASSUME Next, fast' # fast \/ nfd' # nfd
  PROVE  racy' = racy /\ mixed' = mixed
<1> USE DEF gate_vars, path_vars, fail_vars, switch_vars, history
<1>1. ASSUME NEW t, ThreadStep(t) PROVE FALSE
  BY <1>1 DEF ThreadStep, Inc, Close, Freeze, Dec, Open, Thaw, ClaimFailover, SendFailover, ClearSwitch, AppResume
<1>2. ASSUME NEW c, ControllerStep(c) PROVE racy' = racy /\ mixed' = mixed
  <2>1. CASE Disable(c) \/ CloseFiles(c) \/ FastOff(c)
    BY <2>1 DEF Disable, CloseFiles, FastOff
  <2>2. CASE Release(c) \/ FlushWork(c)
    BY <2>2 DEF Release, FlushWork
  <2>3. CASE \/ Synced(c) \/ ClearApp(c) \/ ClaimFallback(c) \/ SendFallback(c) \/ TakeFailQ(c) \/ ReissueFailQ(c) \/ SetPaths(c)
             \/ Enable(c) \/ OpenFiles(c) \/ CheckPaths(c) \/ NoFiles(c) \/ ResetSwitch(c) \/ ReleaseAll(c) \/ Left(c)
    BY <2>3 DEF Synced, ClearApp, ClaimFallback, SendFallback, TakeFailQ, ReissueFailQ, SetPaths, Enable, OpenFiles, CheckPaths,
                NoFiles, ResetSwitch, ReleaseAll, Left
  <2> QED BY <1>1, <1>2, <2>1, <2>2, <2>3 DEF ControllerStep
<1>3. ASSUME NEW c, Request(c) \/ Answer(c) PROVE FALSE
  BY <1>3 DEF Request, Answer, RequestSuspend, RequestResume, RequestFailover, RequestFallback, UpdatePath, VolCleanup, ResetDevice,
              DebugStore, IoswitchComplete
<1>4. ASSUME NEW i, InitiateFailover(i) \/ AbortFailQ(i) \/ Map(i) \/ EndIO(i) \/ IoFailover(i) \/ Reroute(i) \/ Submit(i) PROVE FALSE
  BY <1>4 DEF InitiateFailover, AbortFailQ, Map, EndIO, IoFailover, Reroute, Submit
<1> QED BY <1>1, <1>2, <1>3, <1>4 DEF Next, IOStep

\* Every step keeps the invariant and changes the path behind the gate only.
LEMMA SafeKept ==
  ASSUME SafeInv, [Next]_vars
  PROVE  SafeInv' /\ (fast' # fast \/ nfd' # nfd => closed \/ racy \/ mixed \/ lent > 0)
<1>0. BalanceInv' /\ racy \in BOOLEAN /\ mixed \in BOOLEAN
  BY BalanceStep DEF SafeInv, BalanceInv, TypeOK
<1>1. CASE Next
  <2>0. ~racy /\ lent = 0 /\ BalanceInv /\ Formed
    BY <1>1 DEF Next, Explored, SafeInv
  <2>1. Formed' /\ (mixed => mixed')
    BY <1>1, <2>0, FormsKept
  <2>2. ASSUME ~mixed PROVE Guarded /\ FilesOK
    BY <2>0, <2>2 DEF SafeInv, Guarded
  <2>3. ASSUME ~mixed, ~racy', ~mixed' PROVE SafeStep
    BY <1>1, <2>2, <2>3, SafeController, SafeIO DEF Next
  <2>4. SafeInv'
    BY <1>0, <2>1, <2>3 DEF SafeInv, SafeStep
  <2>5. ASSUME fast' # fast \/ nfd' # nfd PROVE closed \/ racy \/ mixed \/ lent > 0
    BY <1>1, <2>0, <2>3, <2>5, PathChanges DEF SafeStep
  <2> QED BY <2>4, <2>5
<1>2. CASE UNCHANGED vars
  <2>1. UNCHANGED <<build, suspend, closed, frozen, fast, nfd, st, todo, racy, mixed, lent>>
    BY <1>2 DEF vars, gate_vars, path_vars, fail_vars, history
  <2>2. Formed'
    BY <2>1 DEF SafeInv, Formed, Lists, Shaped, Ordered
  <2>3. GateOK => GateOK'
    <3>1. GateKept
      BY <2>1 DEF GateKept
    <3> QED BY <2>1, <3>1, GateFrame DEF SafeInv
  <2>4. FilesOK => FilesOK'
    <3>1. FilesKept
      BY <2>1 DEF FilesKept
    <3> QED BY <2>1, <3>1, FilesFrame
  <2> QED BY <1>0, <2>1, <2>2, <2>3, <2>4 DEF SafeInv
<1> QED BY <1>1, <1>2

\* What the invariant says of the gate.
LEMMA SafeGate == SafeInv => GateHolds
<1> SUFFICES ASSUME SafeInv, ~racy, ~mixed, lent = 0
             PROVE  (AtRest => (closed <=> suspend > 0)) /\ \A i \in IOs : st[i] # "lost"
  BY DEF GateHolds, GateFollowsCount, NoneMappedToNothing
<1>1. GateOK /\ FilesOK
  BY DEF SafeInv
<1>2. ASSUME AtRest PROVE closed <=> Up
  <2>1. \A t \in Threads : Hd(todo[t]) = "end"
    BY <1>2 DEF AtRest, Hd
  <2>2. NoneAt
    BY <2>1 DEF NoneAt, Gates
  <2> QED BY <1>1, <2>2 DEF GateOK, GateBlkmq, GateMakereq
<1> QED BY <1>1, <1>2 DEF FilesOK, Up

\* pxd_suspend_io and pxd_resume_io of both builds: the gate follows the count, and
\* no IO is mapped to files that disableFastPath has closed, for any number of
\* controllers and IOs.
THEOREM GateSafe == Spec => []GateHolds
<1>1. SafeInv /\ [Next]_vars => SafeInv'
  BY SafeKept
<1> QED BY <1>1, SafeInitial, SafeGate, PTL DEF Spec

\* enableFastPath, disableFastPath and pxd_init_fastpath_target change fp->fastpath
\* and fp->nfd behind a closed gate only.
THEOREM BehindGate == Spec => SwitchBehindGate
<1>1. SafeInv /\ [Next]_vars => SafeInv'
  BY SafeKept
<1>2. SafeInv /\ [Next]_vars => [fast' # fast \/ nfd' # nfd => closed \/ racy \/ mixed \/ lent > 0]_vars
  BY SafeKept
<1> QED BY <1>1, <1>2, SafeInitial, PTL DEF Spec, SwitchBehindGate

================================================================================
