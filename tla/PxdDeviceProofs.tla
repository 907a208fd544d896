---------------------------- MODULE PxdDeviceProofs ----------------------------
(***************************************************************************)
(* For any number of threads, devices and openers: as long as no handler   *)
(* has used freed memory, the references of a device are those of its      *)
(* openers, of the threads that hold it and of its registration, and the   *)
(* list, the minors and the module's references follow the devices.        *)
(***************************************************************************)
EXTENDS PxdDevice, Counting, FiniteSetTheorems, TLAPS

\* what a thread is at: Dangling with a pointer that nothing keeps valid,
\* Exporting with a device that no other thread exports, Holding with a
\* reference it took
Dangling == {"use", "added", "export check", "export disk"}
Exporting == {"export bus", "export add", "export done"}
Holding == {"resize", "remove"}

Fields ==
  [mem : {"none", "live", "freed"}, id : DevIds \union {NoDev}, minor : 0 .. NStructs,
   exported : BOOLEAN, removing : BOOLEAN, connected : BOOLEAN, opens : 0 .. MaxOpens, refs : Nat,
   disk : {"none", "made", "added"}, work : {"none", "queued", "unlink", "put"}]

Types ==
  /\ dev \in [Structs -> Fields]
  /\ held \subseteq DOMAIN Stages \union {"conn"}
  /\ load \in DOMAIN Stages \union {"ready", "failed", "unloaded"}
  /\ list \subseteq Structs /\ num_devices \in Nat /\ mod \in Nat
  /\ minors \subseteq Minors /\ lost \subseteq Minors
  /\ pc \in [Threads -> {"idle", "add"} \union Dangling \union Exporting \union Holding]
  /\ ptr \in [Threads -> Structs \union {0}]
  /\ \A t \in Threads : pc[t] = "idle" <=> ptr[t] = 0

Holders(s) == {t \in Threads : ptr[t] = s /\ pc[t] \in Holding}

\* the structs that have the reference of their registration, which the
\* removal work puts last
Registered ==
  {s \in Structs : \/ dev[s].exported \/ dev[s].work # "none"
                   \/ \E t \in Threads : ptr[t] = s /\ pc[t] \in {"export add", "export done"}}

\* those for which try_module_get has been called
Moduled == {s \in Structs : s \in Registered \/ \E t \in Threads : ptr[t] = s /\ pc[t] = "export bus"}

\* A struct that is not allocated, or is freed, has no trace but pointers that
\* the threads looked up without taking a reference.
DeadStruct(s) ==
  dev[s].mem # "live" =>
    /\ dev[s].refs = 0 /\ dev[s].opens = 0 /\ dev[s].disk = "none" /\ dev[s].work = "none"
    /\ ~dev[s].exported /\ s \notin list
    /\ \A t \in Threads : ptr[t] = s => pc[t] \in Dangling /\ dev[s].mem = "freed"

\* Who has a reference of a struct, and what keeps one that has none.
RefsCounted(s) ==
  /\ dev[s].mem = "live" => dev[s].refs = dev[s].opens + Cardinality(Holders(s)) + Share(s, Registered)
  /\ s \in list /\ s \notin Registered => dev[s].refs = 0
  /\ dev[s].mem = "live" /\ s \notin list /\ dev[s].refs = 0 => \E t \in Threads : ptr[t] = s /\ pc[t] = "add"

\* The states that export and the removal work take a device through.
Stage(s) ==
  /\ dev[s].exported => s \in list
  /\ dev[s].work \in {"queued", "unlink"} => dev[s].exported /\ dev[s].removing
  /\ dev[s].work = "unlink" => dev[s].disk = "none"
  /\ dev[s].work = "put" => ~dev[s].exported /\ s \notin list
  /\ s \in list /\ dev[s].removing => dev[s].work \in {"queued", "unlink"}
  /\ dev[s].disk # "none" => dev[s].exported \/ \E t \in Threads : ptr[t] = s /\ pc[t] \in Exporting

\* What a thread that adds or exports a struct can rely on.
ThreadOn(t, s) ==
  /\ pc[t] = "add" =>
       /\ s \notin list /\ ~dev[s].exported /\ dev[s].work = "none" /\ dev[s].refs = 0
       /\ ~dev[s].removing
       /\ \A u \in Threads : ptr[u] = s => u = t
  /\ pc[t] \in Exporting =>
       /\ s \in list /\ ~dev[s].exported /\ dev[s].work = "none"
       /\ \A u \in Threads : ptr[u] = s /\ pc[u] \in Exporting => u = t
       /\ dev[s].disk = IF pc[t] = "export done" THEN "added" ELSE "made"
  /\ pc[t] = "export bus" => dev[s].refs = 0

StructOK(s) ==
  /\ DeadStruct(s) /\ RefsCounted(s) /\ Stage(s)
  /\ \A t \in Threads : ptr[t] = s => ThreadOn(t, s)

\* The counts of the context and of the module.
Counted ==
  /\ num_devices = Cardinality(list)
  /\ \A r, s \in list : dev[r].id = dev[s].id => r = s
  /\ mod = Cardinality(Moduled)

\* the structs that were ever allocated
Allocated == {s \in Structs : dev[s].mem # "none"}

\* pxd_minor_ida: no more minors are out than structs were ever allocated.
MinorsKept ==
  /\ MinorsOwned
  /\ Cardinality(minors) <= Cardinality(Allocated)

DeviceInv ==
  /\ Types /\ HoldersSafe /\ UnloadedIsIdle
  /\ Explored => /\ \A s \in Structs : StructOK(s)
                 /\ Counted /\ MinorsKept

--------------------------------------------------------------------------------
\* A step that works on struct s, and on the threads that point to it.
Only(s) ==
  /\ \A r \in Structs \ {s} : dev'[r] = dev[r] /\ (r \in list' <=> r \in list)
  /\ \A t \in Threads : \/ ptr'[t] = ptr[t] /\ pc'[t] = pc[t]
                        \/ ptr[t] \in {0, s} /\ ptr'[t] \in {0, s}

LEMMA StructsFinite == IsFiniteSet(Structs) /\ Cardinality(Structs) = NStructs
  BY FS_Interval, DeviceAssumption DEF Structs

\* the sets that are counted are finite
LEMMA SetsFinite ==
  ASSUME Types
  PROVE  /\ IsFiniteSet(list) /\ IsFiniteSet(Moduled) /\ IsFiniteSet(minors)
         /\ \A s \in Structs : IsFiniteSet(Holders(s)) /\ Cardinality(Holders(s)) \in Nat
<1>1. list \in SUBSET Structs /\ Moduled \in SUBSET Structs /\ minors \in SUBSET Structs
  BY DEF Types, Moduled, Minors, Structs
<1>2. \A s \in Structs : Holders(s) \in SUBSET Threads
  BY DEF Holders
<1> QED BY <1>1, <1>2, StructsFinite, FS_Subset, FS_CardinalityType, DeviceAssumption

\* Such a step leaves the other structs as they were.
LEMMA OthersKept ==
  ASSUME NEW s \in Structs, Only(s)
  PROVE  /\ \A r \in Structs \ {s} : StructOK(r) => StructOK(r)'
         /\ Registered \ {s} = Registered' \ {s}
         /\ Moduled \ {s} = Moduled' \ {s}
<1>0. 0 \notin Structs
  BY DEF Structs
<1>1. ASSUME NEW r \in Structs \ {s}, NEW t \in Threads
      PROVE  (ptr'[t] = r <=> ptr[t] = r) /\ (ptr[t] = r => pc'[t] = pc[t])
  BY <1>0 DEF Only
<1>2. ASSUME NEW r \in Structs \ {s}
      PROVE  (r \in Registered' <=> r \in Registered) /\ (r \in Moduled' <=> r \in Moduled)
  <2>1. r \in Registered' <=> r \in Registered
    BY <1>1 DEF Registered, Only
  <2> QED BY <1>1, <2>1 DEF Moduled
<1>3. Registered \ {s} = Registered' \ {s}
  BY <1>2 DEF Registered
<1>4. Moduled \ {s} = Moduled' \ {s}
  BY <1>2 DEF Moduled
<1>5. ASSUME NEW r \in Structs \ {s}, StructOK(r) PROVE StructOK(r)'
  <2>1. dev'[r] = dev[r] /\ (r \in list' <=> r \in list)
    BY DEF Only
  <2>2. Holders(r)' = Holders(r)
    BY <1>1 DEF Holders
  <2>3. Share(r, Registered') = Share(r, Registered)
    BY <1>2 DEF Share
  <2>4. DeadStruct(r)'
    BY <1>1, <1>5, <2>1 DEF StructOK, DeadStruct
  <2>5. RefsCounted(r)'
    BY <1>1, <1>2, <1>5, <2>1, <2>2, <2>3 DEF StructOK, RefsCounted
  <2>6. Stage(r)'
    BY <1>1, <1>5, <2>1 DEF StructOK, Stage
  <2>7. ASSUME NEW t \in Threads, ptr'[t] = r PROVE ThreadOn(t, r)'
    <3>1. ThreadOn(t, r) /\ pc'[t] = pc[t]
      BY <1>1, <1>5, <2>7 DEF StructOK
    <3>2. \A u \in Threads : (ptr'[u] = r <=> ptr[u] = r) /\ (ptr[u] = r => pc'[u] = pc[u])
      BY <1>1
    <3> QED BY ONLY <2>1, <3>1, <3>2 DEF ThreadOn
  <2> QED BY <2>4, <2>5, <2>6, <2>7 DEF StructOK
<1> QED BY <1>3, <1>4, <1>5

\* A step that works on s keeps the invariant if s is sound after it and the
\* counts move by what s does.
LEMMA OneStruct ==
  ASSUME DeviceInv, Explored, Types', NEW s \in Structs, Only(s), UNCHANGED fault,
         load' = load, load # "unloaded",
         StructOK(s)', MinorsKept',
         num_devices' + Share(s, list) = num_devices + Share(s, list'),
         mod' + Share(s, Moduled) = mod + Share(s, Moduled'),
         \/ s \in list /\ dev'[s].id = dev[s].id
         \/ s \notin list'
         \/ \A r \in list : dev[r].id # dev'[s].id
  PROVE  DeviceInv'
<1>1. HoldersSafe' /\ UnloadedIsIdle'
  BY DEF DeviceInv, HoldersSafe, UnloadedIsIdle
<1>2. \A r \in Structs : StructOK(r)'
  BY OthersKept DEF DeviceInv
<1>3. num_devices' = Cardinality(list')
  <2>1. list \ {s} = list' \ {s}
    BY DEF Only, DeviceInv, Types
  <2>2. IsFiniteSet(list) /\ IsFiniteSet(list')
    <3>1. list \in SUBSET Structs /\ list' \in SUBSET Structs
      BY DEF DeviceInv, Types
    <3> QED BY <3>1, StructsFinite, FS_Subset
  <2>3. /\ Cardinality(list) \in Nat /\ Cardinality(list') \in Nat
        /\ Cardinality(list') + Share(s, list) = Cardinality(list) + Share(s, list')
    BY <2>1, <2>2, CountOne
  <2>4. Share(s, list) \in Nat /\ Share(s, list') \in Nat
    BY DEF Share
  <2>5. num_devices = Cardinality(list) /\ num_devices' \in Nat
    BY DEF DeviceInv, Counted, Types
  <2>6. num_devices' + Share(s, list) = num_devices + Share(s, list')
    OBVIOUS
  <2> QED BY ONLY <2>3, <2>4, <2>5, <2>6
<1>4. mod' = Cardinality(Moduled')
  <2>1. Moduled \ {s} = Moduled' \ {s}
    BY OthersKept
  <2>2. IsFiniteSet(Moduled) /\ IsFiniteSet(Moduled')
    <3>1. Moduled \in SUBSET Structs /\ Moduled' \in SUBSET Structs
      BY DEF Moduled
    <3> QED BY <3>1, StructsFinite, FS_Subset
  <2>3. /\ Cardinality(Moduled) \in Nat /\ Cardinality(Moduled') \in Nat
        /\ Cardinality(Moduled') + Share(s, Moduled) = Cardinality(Moduled) + Share(s, Moduled')
    BY <2>1, <2>2, CountOne
  <2>4. Share(s, Moduled) \in Nat /\ Share(s, Moduled') \in Nat
    BY DEF Share
  <2>5. mod = Cardinality(Moduled) /\ mod' \in Nat
    BY DEF DeviceInv, Counted, Types
  <2>6. mod' + Share(s, Moduled) = mod + Share(s, Moduled')
    OBVIOUS
  <2> QED BY ONLY <2>3, <2>4, <2>5, <2>6
<1>5. ASSUME NEW q \in list', NEW r \in list', dev'[q].id = dev'[r].id PROVE q = r
  <2>1. \A x, y \in list : dev[x].id = dev[y].id => x = y
    BY DEF DeviceInv, Counted
  <2>2. q \in Structs /\ r \in Structs
    BY DEF Types
  <2> QED BY <1>5, <2>1, <2>2 DEF Only
<1> QED BY <1>1, <1>2, <1>3, <1>4, <1>5 DEF DeviceInv, Counted

LEMMA BlankFields ==
  /\ Blank \in Fields /\ Freed \in Fields
  /\ \A r \in {Blank, Freed} :
       /\ r.id = NoDev /\ r.minor = 0 /\ r.exported = FALSE /\ r.removing = FALSE /\ r.connected = FALSE
       /\ r.opens = 0 /\ r.refs = 0 /\ r.disk = "none" /\ r.work = "none"
  /\ Blank.mem = "none" /\ Freed.mem = "freed"
<1>1. Blank \in Fields
  BY DeviceAssumption DEF Blank, Fields
<1>2. Freed \in Fields
  BY <1>1 DEF Freed, Fields
<1>3. /\ Freed.mem = "freed" /\ Freed.id = Blank.id /\ Freed.minor = Blank.minor /\ Freed.exported = Blank.exported
      /\ Freed.removing = Blank.removing /\ Freed.connected = Blank.connected /\ Freed.opens = Blank.opens
      /\ Freed.refs = Blank.refs /\ Freed.disk = Blank.disk /\ Freed.work = Blank.work
  BY <1>1 DEF Freed, Fields
<1>4. /\ Blank.mem = "none" /\ Blank.id = NoDev /\ Blank.minor = 0 /\ Blank.exported = FALSE
      /\ Blank.removing = FALSE /\ Blank.connected = FALSE /\ Blank.opens = 0
      /\ Blank.refs = 0 /\ Blank.disk = "none" /\ Blank.work = "none"
  BY DEF Blank
<1> QED BY <1>1, <1>2, <1>3, <1>4

\* The counts of what is there are positive.
LEMMA CountsPositive ==
  ASSUME DeviceInv, Explored, NEW s \in Structs
  PROVE  /\ s \in list => num_devices >= 1
         /\ s \in Moduled => mod >= 1
<1>1. IsFiniteSet(list) /\ IsFiniteSet(Moduled)
  BY SetsFinite DEF DeviceInv
<1>2. /\ s \in list => Cardinality(list) # 0
      /\ s \in Moduled => Cardinality(Moduled) # 0
  BY <1>1, FS_EmptySet
<1> QED BY <1>2 DEF DeviceInv, Counted, Types

\* A step that neither allocates nor frees a struct keeps the minors.
LEMMA MinorsSame ==
  ASSUME DeviceInv, Explored, UNCHANGED <<minors, lost>>,
         \A r \in Structs : dev'[r].mem = dev[r].mem /\ dev'[r].minor = dev[r].minor
  PROVE  MinorsKept'
<1>1. Live' = Live /\ Owned' = Owned
  BY DEF Live, Owned
<1>2. Allocated' = Allocated
  BY DEF Allocated
<1>3. MinorsKept
  BY DEF DeviceInv
<1>4. \A r, s \in Live : dev'[r].minor = dev[r].minor /\ dev'[s].minor = dev[s].minor
  BY DEF Live
<1>5. \A r, s \in Live' : dev'[r].minor = dev'[s].minor => r = s
  BY <1>1, <1>3, <1>4 DEF MinorsKept, MinorsOwned
<1> QED BY <1>1, <1>2, <1>3, <1>5 DEF MinorsKept, MinorsOwned

\* A step that frees a live struct and its minor keeps the others.
LEMMA MinorsFreed ==
  ASSUME DeviceInv, Explored, NEW s \in Structs, dev[s].mem = "live", dev'[s].mem = "freed",
         \A r \in Structs \ {s} : dev'[r] = dev[r],
         minors' = minors \ {dev[s].minor}, lost' = lost
  PROVE  MinorsKept'
<1>1. s \in Live /\ Live' = Live \ {s}
  BY DEF Live
<1>2. Allocated' = Allocated
  BY DEF Allocated
<1>3. MinorsKept /\ MinorsOwned
  BY DEF DeviceInv, MinorsKept
<1>4. \A q, r \in Live : dev[q].minor = dev[r].minor => q = r
  BY <1>3 DEF MinorsOwned
<1>5. \A r \in Live' : dev'[r].minor = dev[r].minor
  BY <1>1 DEF Live
<1>6. Owned' = Owned \ {dev[s].minor}
  BY <1>1, <1>4, <1>5 DEF Owned
<1>7. minors = Owned \union lost /\ lost \intersect Owned = {}
  BY <1>3 DEF MinorsOwned
<1>8. dev[s].minor \in Owned
  BY <1>1 DEF Owned
<1>9. minors' = Owned' \union lost' /\ lost' \intersect Owned' = {}
  BY <1>6, <1>7, <1>8
<1>10. \A q, r \in Live' : dev'[q].minor = dev'[r].minor => q = r
  BY <1>1, <1>4, <1>5
<1>11. Cardinality(minors') <= Cardinality(Allocated')
  <2>1. IsFiniteSet(minors) /\ IsFiniteSet(Allocated)
    BY SetsFinite, StructsFinite, FS_Subset DEF DeviceInv, Allocated
  <2>2. Cardinality(minors') \in Nat /\ Cardinality(minors) \in Nat /\ Cardinality(minors') <= Cardinality(minors)
    BY <2>1, FS_Subset, FS_CardinalityType
  <2>3. Cardinality(Allocated) \in Nat
    BY <2>1, FS_CardinalityType
  <2> QED BY <1>2, <1>3, <2>2, <2>3 DEF MinorsKept
<1> QED BY <1>9, <1>10, <1>11 DEF MinorsKept, MinorsOwned

\* A struct is freed that only dangling pointers lead to.
LEMMA FreeKeeps ==
  ASSUME DeviceInv, Explored, Types', NEW s \in Structs, Only(s), UNCHANGED fault,
         load' = load, load # "unloaded",
         dev[s].mem = "live", dev'[s] = Freed, s \notin list', MinorsKept',
         \A t \in Threads : ptr'[t] = s => pc'[t] \in Dangling,
         num_devices' + Share(s, list) = num_devices, mod' + Share(s, Moduled) = mod
  PROVE  DeviceInv'
<1>1. \A t \in Threads : ptr'[t] = s => pc'[t] \notin Exporting \union Holding \union {"add"}
  BY DEF Dangling, Exporting, Holding
<1>2. /\ dev'[s].mem = "freed" /\ dev'[s].exported = FALSE /\ dev'[s].removing = FALSE
      /\ dev'[s].opens = 0 /\ dev'[s].refs = 0 /\ dev'[s].disk = "none" /\ dev'[s].work = "none"
  BY BlankFields
<1>3. s \notin Registered' /\ s \notin Moduled'
  BY <1>1, <1>2 DEF Registered, Moduled, Exporting
<1>4. StructOK(s)'
  <2>1. DeadStruct(s)' /\ RefsCounted(s)' /\ Stage(s)'
    BY <1>2 DEF DeadStruct, RefsCounted, Stage
  <2>2. \A t \in Threads : ptr'[t] = s => ThreadOn(t, s)'
    BY <1>1 DEF ThreadOn, Exporting
  <2> QED BY <2>1, <2>2 DEF StructOK
<1>5. Share(s, list') = 0 /\ Share(s, Moduled') = 0
  BY <1>3 DEF Share
<1>6. /\ num_devices' + Share(s, list) = num_devices + Share(s, list')
      /\ mod' + Share(s, Moduled) = mod + Share(s, Moduled')
  BY <1>5 DEF DeviceInv, Types
<1> QED BY <1>4, <1>6, OneStruct

LEMMA DeviceInitial == Init => DeviceInv
<1> SUFFICES ASSUME Init PROVE DeviceInv
  OBVIOUS
<1> USE DeviceAssumption, BlankFields DEF Init
<1>1. Types
  BY DEF Types, Stages, Structs
<1>2. \A s \in Structs : Holders(s) = {}
  BY DEF Holders, Structs
<1>3. Registered = {} /\ Moduled = {} /\ Live = {} /\ Allocated = {}
  BY DEF Registered, Moduled, Live, Allocated, Structs
<1>4. ASSUME NEW s \in Structs PROVE StructOK(s)
  <2>1. \A t \in Threads : ptr[t] # s
    BY DEF Structs
  <2> QED BY <2>1 DEF StructOK, DeadStruct, RefsCounted, Stage
<1>5. Counted
  BY <1>3, FS_EmptySet DEF Counted
<1>6. MinorsKept
  BY <1>3, FS_EmptySet DEF MinorsKept, MinorsOwned, Owned
<1> QED BY <1>1, <1>4, <1>5, <1>6 DEF DeviceInv, HoldersSafe, UnloadedIsIdle

--------------------------------------------------------------------------------
\* A thread takes or drops a pointer without a reference.
LEMMA PointerKeeps ==
  ASSUME DeviceInv, Explored, load = "ready", NEW t \in Threads,
         \/ Use(t) \/ Added(t) \/ ExportCheck(t)
         \/ \E d \in DevIds : Lookup(t, d) \/ ExportLookup(t, d)
  PROVE  DeviceInv'
<1>0. 0 \notin Structs
  BY DEF Structs
<1>1. PICK s \in Structs :
        /\ pc[t] \in Dangling \union {"idle"} /\ pc'[t] \in Dangling \union {"idle"}
        /\ ptr[t] \in {0, s} /\ ptr'[t] \in {0, s} /\ (ptr'[t] = 0 <=> pc'[t] = "idle")
        /\ s \in list \/ ptr[t] = s
        /\ pc' = [pc EXCEPT ![t] = pc'[t]] /\ ptr' = [ptr EXCEPT ![t] = ptr'[t]]
  <2>1. CASE Use(t) \/ Added(t) \/ ExportCheck(t)
    <3>1. ptr[t] \in Structs /\ pc[t] \in Dangling
      BY <2>1 DEF Use, Added, ExportCheck, DeviceInv, Types, Dangling
    <3> QED BY <1>0, <2>1, <3>1 DEF Use, Added, ExportCheck, DeviceInv, Types, Dangling, Return, Goto
  <2>2. CASE \E d \in DevIds : Lookup(t, d) \/ ExportLookup(t, d)
    <3>1. PICK s \in list : Goto(t, "use", s) \/ Goto(t, "export check", s)
      BY <2>2 DEF Lookup, ExportLookup, Found
    <3>2. s \in Structs /\ s # 0 /\ pc[t] = "idle" /\ ptr[t] = 0
      BY <1>0, <2>2 DEF Lookup, ExportLookup, DeviceInv, Types
    <3> QED BY <3>1, <3>2 DEF Goto, DeviceInv, Types, Dangling
  <2> QED BY <2>1, <2>2
<1>2. UNCHANGED <<load_vars, dev, list, num_devices, minors, mod, fault, lost>>
  BY DEF Use, Added, ExportCheck, Lookup, ExportLookup
<1> USE DEF load_vars
<1>3. Types'
  BY <1>1, <1>2 DEF DeviceInv, Types
<1>4. Only(s)
  BY <1>1, <1>2 DEF Only, DeviceInv, Types
<1>5. \A u \in Threads : u # t => ptr'[u] = ptr[u] /\ pc'[u] = pc[u]
  BY <1>1 DEF DeviceInv, Types
<1>6. pc[t] \notin Holding \union Exporting \union {"add"} /\ pc'[t] \notin Holding \union Exporting \union {"add"}
  BY <1>1 DEF Dangling, Holding, Exporting
<1>7. StructOK(s) /\ (s \in Registered' <=> s \in Registered) /\ (s \in Moduled' <=> s \in Moduled) /\ Holders(s)' = Holders(s)
  <2>1. s \in Registered' <=> s \in Registered
    BY <1>2, <1>5, <1>6 DEF Registered, Exporting
  <2>2. s \in Moduled' <=> s \in Moduled
    BY <2>1, <1>2, <1>5, <1>6 DEF Moduled, Exporting
  <2>3. Holders(s)' = Holders(s)
    BY <1>5, <1>6 DEF Holders
  <2> QED BY <2>1, <2>2, <2>3 DEF DeviceInv
<1>8. StructOK(s)'
  <2>1. DeadStruct(s)'
    <3>1. DeadStruct(s) /\ (ptr'[t] = s => pc'[t] \in Dangling)
      BY <1>0, <1>1, <1>7 DEF StructOK
    <3>2. dev[s].mem # "live" => ptr[t] = s
      BY <1>1, <3>1 DEF DeadStruct
    <3> QED BY <1>2, <1>5, <3>1, <3>2 DEF DeadStruct
  <2>2. RefsCounted(s)'
    BY <1>2, <1>5, <1>6, <1>7 DEF StructOK, RefsCounted, Share
  <2>3. Stage(s)'
    BY <1>2, <1>5, <1>6, <1>7 DEF StructOK, Stage
  <2>4. ASSUME NEW u \in Threads, ptr'[u] = s PROVE ThreadOn(u, s)'
    <3>1. u = t \/ (u # t /\ ptr[u] = s /\ ThreadOn(u, s))
      BY <1>5, <1>7, <2>4 DEF StructOK
    <3>2. u # t => pc'[u] = pc[u] /\ (pc[u] = "add" => ptr[t] # s /\ s \notin list)
      BY <1>5, <3>1 DEF ThreadOn
    <3> QED BY <1>1, <1>2, <1>5, <1>6, <3>1, <3>2 DEF ThreadOn, Exporting
  <2> QED BY <2>1, <2>2, <2>3, <2>4 DEF StructOK
<1>9. MinorsKept'
  BY <1>2, MinorsSame
<1>10. /\ num_devices' + Share(s, list) = num_devices + Share(s, list')
       /\ mod' + Share(s, Moduled) = mod + Share(s, Moduled')
  BY <1>2, <1>7 DEF Share
<1>11. s \notin list' \/ (s \in list /\ dev'[s].id = dev[s].id)
  BY <1>2
<1> QED BY <1>2, <1>3, <1>4, <1>8, <1>9, <1>10, <1>11, OneStruct

\* A struct is allocated, with a minor that nobody has.
LEMMA AllocKeeps ==
  ASSUME DeviceInv, Explored, load = "ready", NEW t \in Threads, NEW d \in DevIds, AddAlloc(t, d)
  PROVE  DeviceInv'
<1> DEFINE m == Min(Minors \ minors)
           new == [Blank EXCEPT !.mem = "live", !.id = d, !.minor = m, !.connected = TRUE]
<1>1. PICK s \in Structs :
        /\ dev[s].mem = "none" /\ dev' = [dev EXCEPT ![s] = new]
        /\ minors' = minors \union {m} /\ Goto(t, "add", s)
  BY DEF AddAlloc
<1>2. pc[t] = "idle" /\ UNCHANGED <<load_vars, list, num_devices, mod, fault, lost>>
  BY DEF AddAlloc
<1>3. m \in Minors \ minors
  <2>1. Allocated \in SUBSET Structs /\ s \notin Allocated
    BY <1>1 DEF Allocated
  <2>2. Cardinality(Allocated) <= Cardinality(Structs) /\ Cardinality(Allocated) # Cardinality(Structs)
    BY <2>1, StructsFinite, FS_Subset
  <2>3. Cardinality(minors) <= Cardinality(Allocated)
    BY DEF DeviceInv, MinorsKept
  <2>4. Cardinality(minors) \in Nat /\ Cardinality(Allocated) \in Nat
    BY <2>1, SetsFinite, StructsFinite, FS_Subset, FS_CardinalityType DEF DeviceInv
  <2>5. Cardinality(minors) # Cardinality(Structs)
    BY <2>2, <2>3, <2>4, StructsFinite, DeviceAssumption
  <2>6. minors # Minors
    BY <2>5 DEF Minors, Structs
  <2>7. Minors \ minors # {} /\ Minors \ minors \in SUBSET Nat
    <3>1. minors \subseteq Minors
      BY DEF DeviceInv, Types
    <3>2. Minors \subseteq Nat
      BY DEF Minors
    <3> QED BY <2>6, <3>1, <3>2
  <2> QED BY <2>7, MinIn
<1>4. /\ new \in Fields /\ new.mem = "live" /\ new.id = d /\ new.minor = m
      /\ new.exported = FALSE /\ new.removing = FALSE /\ new.opens = 0 /\ new.refs = 0
      /\ new.disk = "none" /\ new.work = "none"
  <2>1. m \in 0 .. NStructs
    BY <1>3 DEF Minors
  <2>2. Blank \in Fields
    BY BlankFields
  <2> HIDE DEF m
  <2>3. new \in Fields
    BY <2>1, <2>2 DEF Fields
  <2>4. /\ new.mem = "live" /\ new.id = d /\ new.minor = m /\ new.exported = Blank.exported
        /\ new.removing = Blank.removing /\ new.opens = Blank.opens /\ new.refs = Blank.refs
        /\ new.disk = Blank.disk /\ new.work = Blank.work
    BY <2>2 DEF Fields
  <2> QED BY <2>3, <2>4, BlankFields
<1> HIDE DEF m, new
<1>5. 0 \notin Structs
  BY DEF Structs
<1>6. Types'
  BY <1>1, <1>2, <1>3, <1>4, <1>5 DEF DeviceInv, Types, Goto, load_vars
<1>7. dev'[s] = new /\ \A r \in Structs \ {s} : dev'[r] = dev[r]
  BY <1>1 DEF DeviceInv, Types
<1>8. /\ ptr[t] = 0 /\ ptr'[t] = s /\ pc'[t] = "add"
      /\ \A u \in Threads : u # t => ptr'[u] = ptr[u] /\ pc'[u] = pc[u]
  BY <1>1, <1>2 DEF DeviceInv, Types, Goto
<1>9. Only(s)
  BY <1>2, <1>7, <1>8 DEF Only
<1>10. s \notin list /\ \A u \in Threads : ptr[u] # s
  <2>1. DeadStruct(s)
    BY DEF DeviceInv, StructOK
  <2> QED BY <1>1, <2>1 DEF DeadStruct
<1>11. s \notin Registered /\ s \notin Registered' /\ s \notin Moduled /\ s \notin Moduled'
  <2>1. dev[s].work = "none" /\ ~dev[s].exported
    BY <1>1 DEF DeviceInv, StructOK, DeadStruct
  <2>2. \A u \in Threads : ptr'[u] = s => pc'[u] = "add"
    BY <1>8, <1>10
  <2>3. s \notin Registered /\ s \notin Registered'
    BY <1>4, <1>7, <1>10, <2>1, <2>2 DEF Registered
  <2> QED BY <1>10, <2>2, <2>3 DEF Moduled
<1>12. StructOK(s)'
  <2>1. Holders(s)' = {}
    BY <1>8, <1>10 DEF Holders, Holding
  <2>2. Cardinality(Holders(s)') = 0 /\ Share(s, Registered') = 0
    BY <1>11, <2>1, FS_EmptySet DEF Share
  <2>3. RefsCounted(s)'
    BY <1>2, <1>4, <1>7, <1>8, <1>10, <2>2 DEF RefsCounted
  <2>4. DeadStruct(s)' /\ Stage(s)'
    BY <1>2, <1>4, <1>7, <1>10 DEF DeadStruct, Stage
  <2>5. ASSUME NEW u \in Threads, ptr'[u] = s PROVE ThreadOn(u, s)'
    BY <1>2, <1>4, <1>7, <1>8, <1>10, <2>5 DEF ThreadOn, Exporting
  <2> QED BY <2>3, <2>4, <2>5 DEF StructOK
<1>13. MinorsKept'
  <2>1. Live' = Live \union {s} /\ s \notin Live
    BY <1>1, <1>4, <1>7 DEF Live
  <2>2. Owned' = Owned \union {m}
    BY <1>4, <1>7, <2>1 DEF Owned, Live
  <2>3. /\ minors = Owned \union lost /\ lost \intersect Owned = {}
        /\ \A q, r \in Live : dev[q].minor = dev[r].minor => q = r
    BY DEF DeviceInv, MinorsKept, MinorsOwned
  <2>4. m \notin Owned \union lost
    BY <1>3, <2>3
  <2>5. \A q, r \in Live' : dev'[q].minor = dev'[r].minor => q = r
    <3>1. \A q \in Live : dev'[q].minor \in Owned /\ dev'[q].minor = dev[q].minor
      BY <1>7, <2>1 DEF Owned, Live
    <3> QED BY <1>4, <1>7, <2>1, <2>3, <2>4, <3>1
  <2>6. Cardinality(minors') <= Cardinality(Allocated')
    <3>1. s \notin Allocated /\ Allocated' = Allocated \union {s}
      BY <1>1, <1>4, <1>7 DEF Allocated
    <3>2. IsFiniteSet(Allocated) /\ IsFiniteSet(minors)
      BY SetsFinite, StructsFinite, FS_Subset DEF DeviceInv, Allocated
    <3>3. Cardinality(Allocated') = Cardinality(Allocated) + 1 /\ Cardinality(minors') = Cardinality(minors) + 1
      BY <1>1, <1>3, <3>1, <3>2, FS_AddElement
    <3>4. Cardinality(Allocated) \in Nat /\ Cardinality(minors) \in Nat /\ Cardinality(minors) <= Cardinality(Allocated)
      BY <3>2, FS_CardinalityType DEF DeviceInv, MinorsKept
    <3> QED BY <3>3, <3>4
  <2> QED BY <1>1, <1>2, <2>2, <2>3, <2>4, <2>5, <2>6 DEF MinorsKept, MinorsOwned
<1>14. /\ num_devices' + Share(s, list) = num_devices + Share(s, list')
       /\ mod' + Share(s, Moduled) = mod + Share(s, Moduled')
  BY <1>2, <1>11 DEF Share
<1> QED BY <1>2, <1>6, <1>9, <1>10, <1>12, <1>13, <1>14, OneStruct DEF load_vars

\* What a thread that is adding s knows, and what it leaves when it returns.
LEMMA AddingAlone ==
  ASSUME DeviceInv, Explored, NEW t \in Threads, pc[t] = "add"
  PROVE  /\ ptr[t] \in Structs /\ dev[ptr[t]].mem = "live" /\ ptr[t] \notin list
         /\ dev[ptr[t]].refs = 0 /\ dev[ptr[t]].opens = 0
         /\ ~dev[ptr[t]].exported /\ ~dev[ptr[t]].removing /\ dev[ptr[t]].work = "none"
         /\ dev[ptr[t]].disk = "none"
         /\ \A u \in Threads : ptr[u] = ptr[t] => u = t
         /\ ptr[t] \notin Registered /\ ptr[t] \notin Moduled
<1>1. ptr[t] \in Structs
  BY DEF DeviceInv, Types
<1>2. DeadStruct(ptr[t]) /\ RefsCounted(ptr[t]) /\ Stage(ptr[t]) /\ ThreadOn(t, ptr[t])
  BY <1>1 DEF DeviceInv, StructOK
<1>3. dev[ptr[t]].mem = "live"
  BY <1>2 DEF DeadStruct, Dangling
<1>4. /\ ptr[t] \notin list /\ ~dev[ptr[t]].exported /\ ~dev[ptr[t]].removing /\ dev[ptr[t]].work = "none" /\ dev[ptr[t]].refs = 0
      /\ \A u \in Threads : ptr[u] = ptr[t] => u = t
  BY <1>2 DEF ThreadOn
<1>5. ptr[t] \notin Registered /\ ptr[t] \notin Moduled
  BY <1>4 DEF Registered, Moduled
<1>6. dev[ptr[t]].opens = 0
  <2>1. dev[ptr[t]].opens \in Nat /\ Cardinality(Holders(ptr[t])) \in Nat
    BY <1>1, SetsFinite DEF DeviceInv, Types, Fields
  <2>2. 0 = dev[ptr[t]].opens + Cardinality(Holders(ptr[t])) + 0
    BY <1>2, <1>3, <1>4, <1>5 DEF RefsCounted, Share
  <2> QED BY <2>1, <2>2
<1>7. dev[ptr[t]].disk = "none"
  BY <1>2, <1>4 DEF Stage, Exporting
<1> QED BY <1>1, <1>3, <1>4, <1>5, <1>6, <1>7

\* The new struct is listed; its adder goes on with a pointer that nothing keeps.
LEMMA LinkKeeps ==
  ASSUME DeviceInv, Explored, load = "ready", NEW t \in Threads, AddLink(t)
  PROVE  DeviceInv'
<1>0. pc[t] = "add" /\ Found(dev[ptr[t]].id) = {}
  BY DEF AddLink
<1>1. PICK s \in Structs :
      /\ s = ptr[t] /\ dev[s].mem = "live" /\ s \notin list /\ dev[s].refs = 0 /\ dev[s].opens = 0
      /\ ~dev[s].exported /\ ~dev[s].removing /\ dev[s].work = "none" /\ dev[s].disk = "none"
      /\ \A u \in Threads : ptr[u] = s => u = t
      /\ s \notin Registered /\ s \notin Moduled
  BY <1>0, AddingAlone
<1>2. Goto(t, "added", s) /\ UNCHANGED <<load_vars, mod, fault>>
  BY <1>1 DEF AddLink
<1>3. /\ 0 \notin Structs /\ pc'[t] = "added" /\ ptr'[t] = s
      /\ \A u \in Threads : u # t => ptr'[u] = ptr[u] /\ pc'[u] = pc[u]
      /\ \A u \in Threads : ptr'[u] = s => u = t
  <2>1. 0 \notin Structs
    BY DEF Structs
  <2> QED BY <1>1, <1>2, <2>1 DEF Goto, DeviceInv, Types
<1>4. /\ pc' \in [Threads -> {"idle", "add"} \union Dangling \union Exporting \union Holding]
      /\ ptr' \in [Threads -> Structs \union {0}]
      /\ \A u \in Threads : pc'[u] = "idle" <=> ptr'[u] = 0
  BY <1>2, <1>3 DEF Goto, DeviceInv, Types, Dangling
<1>5. list' = list \union {s} /\ num_devices' = num_devices + 1 /\ UNCHANGED <<dev, minors, lost>>
  BY <1>1 DEF AddLink
<1>6. Types'
  BY <1>1, <1>2, <1>4, <1>5 DEF DeviceInv, Types, load_vars
<1>7. Only(s)
  BY <1>1, <1>3, <1>5 DEF Only
<1>8. \A u \in Threads : ptr'[u] = s => pc'[u] \notin Exporting \union Holding \union {"add"}
  BY <1>3 DEF Exporting, Holding
<1>9. s \notin Registered' /\ s \notin Moduled'
  BY <1>1, <1>5, <1>8 DEF Registered, Moduled, Exporting
<1>10. StructOK(s)'
  <2>1. Cardinality(Holders(s)') = 0 /\ Share(s, Registered') = 0
    <3>1. Holders(s)' = {}
      BY <1>8 DEF Holders
    <3> QED BY <1>9, <3>1, FS_EmptySet DEF Share
  <2>2. RefsCounted(s)'
    BY <1>1, <1>5, <2>1 DEF RefsCounted
  <2>3. DeadStruct(s)' /\ Stage(s)'
    BY <1>1, <1>5 DEF DeadStruct, Stage
  <2>4. \A u \in Threads : ptr'[u] = s => ThreadOn(u, s)'
    BY <1>8 DEF ThreadOn, Exporting
  <2> QED BY <2>2, <2>3, <2>4 DEF StructOK
<1>11. MinorsKept'
  BY <1>5, MinorsSame
<1>12. /\ num_devices' + Share(s, list) = num_devices + Share(s, list')
       /\ mod' + Share(s, Moduled) = mod + Share(s, Moduled')
  BY <1>1, <1>2, <1>5, <1>9 DEF Share, DeviceInv, Types
<1>13. \A r \in list : dev[r].id # dev'[s].id
  BY <1>0, <1>1, <1>5 DEF Found
<1> QED BY <1>2, <1>6, <1>7, <1>10, <1>11, <1>12, <1>13, OneStruct DEF load_vars

\* The new struct is dropped, with its minor or without.
LEMMA AddFailsKeeps ==
  ASSUME DeviceInv, Explored, load = "ready", NEW t \in Threads, AddFails(t) \/ AddBadDepth(t)
  PROVE  DeviceInv'
<1>0. pc[t] = "add"
  BY DEF AddFails, AddBadDepth
<1>1. PICK s \in Structs :
      /\ s = ptr[t] /\ dev[s].mem = "live" /\ s \notin list /\ dev[s].refs = 0 /\ dev[s].opens = 0
      /\ ~dev[s].exported /\ ~dev[s].removing /\ dev[s].work = "none" /\ dev[s].disk = "none"
      /\ \A u \in Threads : ptr[u] = s => u = t
      /\ s \notin Registered /\ s \notin Moduled
  BY <1>0, AddingAlone
<1>2. Return(t) /\ UNCHANGED <<load_vars, mod, fault>>
  BY DEF AddFails, AddBadDepth
<1>3. /\ 0 \notin Structs /\ pc'[t] = "idle" /\ ptr'[t] = 0
      /\ \A u \in Threads : u # t => ptr'[u] = ptr[u] /\ pc'[u] = pc[u]
      /\ \A u \in Threads : ptr'[u] # s
  <2>1. 0 \notin Structs
    BY DEF Structs
  <2> QED BY <1>1, <1>2, <2>1 DEF Return, Goto, DeviceInv, Types
<1>4. /\ pc' \in [Threads -> {"idle", "add"} \union Dangling \union Exporting \union Holding]
      /\ ptr' \in [Threads -> Structs \union {0}]
      /\ \A u \in Threads : pc'[u] = "idle" <=> ptr'[u] = 0
  BY <1>2, <1>3 DEF Return, Goto, DeviceInv, Types
<1>5. dev' = [dev EXCEPT ![s] = Freed] /\ UNCHANGED <<list, num_devices>>
  BY <1>1 DEF AddFails, AddBadDepth
<1>6. dev' \in [Structs -> Fields] /\ dev'[s] = Freed /\ \A r \in Structs \ {s} : dev'[r] = dev[r]
  BY <1>5, BlankFields DEF DeviceInv, Types
<1>7. Only(s)
  BY <1>1, <1>3, <1>5, <1>6 DEF Only
<1>8. num_devices' + Share(s, list) = num_devices /\ mod' + Share(s, Moduled) = mod
  BY <1>1, <1>2, <1>5 DEF Share, DeviceInv, Types
<1>9. dev[s].minor \in Owned /\ dev[s].minor \in minors
  BY <1>1 DEF Owned, Live, DeviceInv, MinorsKept, MinorsOwned
<1>10. minors' \subseteq minors /\ lost' \subseteq lost \union {dev[s].minor} /\ MinorsKept'
  <2>1. CASE AddFails(t)
    <3>1. minors' = minors \ {dev[s].minor} /\ lost' = lost
      BY <1>1, <2>1 DEF AddFails
    <3> QED BY <1>1, <1>6, <3>1, MinorsFreed, BlankFields
  <2>2. CASE AddBadDepth(t)
    <3>1. minors' = minors /\ lost' = lost \union {dev[s].minor}
      BY <1>1, <2>2 DEF AddBadDepth
    <3>2. MinorsKept
      BY DEF DeviceInv
    <3>3. s \in Live /\ Live' = Live \ {s} /\ Allocated' = Allocated
      BY <1>1, <1>6, BlankFields DEF Live, Allocated
    <3>4. \A q, r \in Live : dev[q].minor = dev[r].minor => q = r
      BY <3>2 DEF MinorsKept, MinorsOwned
    <3>5. \A r \in Live' : dev'[r].minor = dev[r].minor
      BY <1>6, <3>3 DEF Live
    <3>6. Owned' = Owned \ {dev[s].minor}
      BY <3>3, <3>4, <3>5 DEF Owned
    <3> QED BY <1>9, <3>1, <3>2, <3>3, <3>4, <3>5, <3>6 DEF MinorsKept, MinorsOwned
  <2> QED BY <2>1, <2>2
<1>11. Types'
  BY <1>2, <1>4, <1>5, <1>6, <1>9, <1>10 DEF DeviceInv, Types, load_vars
<1>12. s \notin list'
  BY <1>1, <1>5
<1> QED BY <1>1, <1>2, <1>3, <1>6, <1>7, <1>8, <1>10, <1>11, <1>12, FreeKeeps DEF load_vars

--------------------------------------------------------------------------------
\* Nothing refers to a live struct without references.
LEMMA Unreferenced ==
  ASSUME DeviceInv, Explored, NEW s \in Structs, dev[s].mem = "live", dev[s].refs = 0
  PROVE  dev[s].opens = 0 /\ Holders(s) = {} /\ s \notin Registered
<1>1. dev[s].opens \in Nat /\ Cardinality(Holders(s)) \in Nat /\ IsFiniteSet(Holders(s))
  BY SetsFinite DEF DeviceInv, Types, Fields
<1>2. Share(s, Registered) \in Nat /\ (Share(s, Registered) = 0 => s \notin Registered)
  BY DEF Share
<1>3. 0 = dev[s].opens + Cardinality(Holders(s)) + Share(s, Registered)
  BY DEF DeviceInv, StructOK, RefsCounted
<1>4. dev[s].opens = 0 /\ Cardinality(Holders(s)) = 0 /\ Share(s, Registered) = 0
  BY <1>1, <1>2, <1>3
<1> QED BY <1>1, <1>2, <1>4, FS_EmptySet
\* Zero is the pointer of a thread that has no struct.
LEMMA NoZero == 0 \notin Structs
  BY DEF Structs

\* A thread goes on, or returns.
LEMMA Goes ==
  ASSUME Types, NEW t \in Threads, NEW s \in Structs \union {0},
         NEW where \in {"idle", "add"} \union Dangling \union Exporting \union Holding,
         Goto(t, where, s), where = "idle" <=> s = 0
  PROVE  /\ pc' \in [Threads -> {"idle", "add"} \union Dangling \union Exporting \union Holding]
         /\ ptr' \in [Threads -> Structs \union {0}]
         /\ \A u \in Threads : pc'[u] = "idle" <=> ptr'[u] = 0
         /\ pc'[t] = where /\ ptr'[t] = s
         /\ \A u \in Threads : u # t => ptr'[u] = ptr[u] /\ pc'[u] = pc[u]
<1>1. /\ pc \in [Threads -> {"idle", "add"} \union Dangling \union Exporting \union Holding]
      /\ ptr \in [Threads -> Structs \union {0}]
      /\ \A u \in Threads : pc[u] = "idle" <=> ptr[u] = 0
  BY DEF Types
<1>2. pc' = [pc EXCEPT ![t] = where] /\ ptr' = [ptr EXCEPT ![t] = s]
  BY DEF Goto
<1>3. /\ pc' \in [Threads -> {"idle", "add"} \union Dangling \union Exporting \union Holding]
      /\ ptr' \in [Threads -> Structs \union {0}]
  BY ONLY <1>1, <1>2
<1>4. /\ pc'[t] = where /\ ptr'[t] = s
      /\ \A u \in Threads : u # t => ptr'[u] = ptr[u] /\ pc'[u] = pc[u]
  BY ONLY <1>1, <1>2
<1> QED BY <1>1, <1>3, <1>4

\* the numbers of a struct
LEMMA NatFields ==
  ASSUME Types, NEW s \in Structs
  PROVE  /\ dev[s] \in Fields /\ dev[s].opens \in 0 .. MaxOpens /\ dev[s].opens \in Nat /\ dev[s].refs \in Nat
         /\ IsFiniteSet(Holders(s)) /\ Cardinality(Holders(s)) \in Nat
<1>1. dev[s] \in Fields
  BY DEF Types
<1>2. dev[s].opens \in 0 .. MaxOpens /\ dev[s].refs \in Nat
  BY <1>1 DEF Fields
<1>3. dev[s].opens \in Nat
  BY <1>2, DeviceAssumption
<1> QED BY <1>1, <1>2, <1>3, SetsFinite

\* A step on a live struct s, which stays, with its id and its minor.
LEMMA StayKeeps ==
  ASSUME DeviceInv, Explored, load # "unloaded", NEW s \in Structs, Only(s),
         dev' \in [Structs -> Fields],
         dev'[s].mem = dev[s].mem, dev'[s].id = dev[s].id, dev'[s].minor = dev[s].minor,
         UNCHANGED <<load, held, minors, fault, lost>>,
         pc' \in [Threads -> {"idle", "add"} \union Dangling \union Exporting \union Holding],
         ptr' \in [Threads -> Structs \union {0}],
         \A u \in Threads : pc'[u] = "idle" <=> ptr'[u] = 0,
         list' \subseteq list, num_devices' \in Nat, mod' \in Nat,
         num_devices' + Share(s, list) = num_devices + Share(s, list'),
         mod' + Share(s, Moduled) = mod + Share(s, Moduled'),
         StructOK(s)'
  PROVE  DeviceInv'
<1>1. Types'
  BY DEF DeviceInv, Types
<1>2. \A r \in Structs : dev'[r].mem = dev[r].mem /\ dev'[r].minor = dev[r].minor
  BY DEF Only
<1>3. MinorsKept'
  BY <1>2, MinorsSame
<1>4. s \notin list' \/ (s \in list /\ dev'[s].id = dev[s].id)
  OBVIOUS
<1> QED BY <1>1, <1>3, <1>4, OneStruct

--------------------------------------------------------------------------------
\* What export finds, unless another thread has raced with it, and what it has
\* when pxd_init_disk is done.
LEMMA ExportBegun ==
  ASSUME DeviceInv, Explored, NEW t \in Threads,
         \/ pc[t] = "export disk" /\ dev[ptr[t]].mem = "live" /\ ~Raced(ptr[t])
         \/ pc[t] = "export bus"
  PROVE  \E s \in Structs :
           /\ s = ptr[t] /\ dev[s].mem = "live" /\ s \in list /\ dev[s].refs = 0 /\ dev[s].opens = 0
           /\ ~dev[s].exported /\ ~dev[s].removing /\ dev[s].work = "none"
           /\ Holders(s) = {} /\ s \notin Registered /\ (s \in Moduled <=> pc[t] = "export bus")
           /\ \A u \in Threads : ptr[u] = s /\ u # t => pc[u] \in Dangling
           /\ pc[t] = "export bus" => dev[s].disk = "made"
<1>1. PICK s \in Structs : s = ptr[t]
  BY DEF DeviceInv, Types
<1>2. DeadStruct(s) /\ RefsCounted(s) /\ Stage(s) /\ \A u \in Threads : ptr[u] = s => ThreadOn(u, s)
  BY DEF DeviceInv, StructOK
<1>3. dev[s].mem = "live" /\ dev[s].refs = 0
  <2>1. CASE pc[t] = "export bus"
    BY <1>1, <1>2, <2>1 DEF DeadStruct, Dangling, ThreadOn
  <2>2. CASE pc[t] # "export bus"
    <3>1. dev[s].mem = "live" /\ ~(dev[s].refs > 0)
      BY <1>1, <2>2 DEF Raced
    <3>2. dev[s].refs \in Nat
      BY DEF DeviceInv, Types, Fields
    <3> QED BY ONLY <3>1, <3>2
  <2> QED BY <2>1, <2>2
<1>4. dev[s].opens = 0 /\ Holders(s) = {} /\ s \notin Registered
  BY <1>3, Unreferenced
<1>5. ~dev[s].exported /\ dev[s].work = "none"
  BY <1>4 DEF Registered
<1>6. \A u \in Threads : ptr[u] = s => pc[u] # "add"
  BY <1>1, <1>2 DEF ThreadOn
<1>7. s \in list
  BY <1>2, <1>3, <1>6 DEF RefsCounted
<1>8. ~dev[s].removing
  BY <1>2, <1>5, <1>7 DEF Stage
<1>9. \A u \in Threads : ptr[u] = s /\ pc[u] \in Exporting => u = t
  <2>1. CASE pc[t] = "export bus"
    BY <1>1, <1>2, <2>1 DEF ThreadOn, Exporting
  <2>2. CASE pc[t] # "export bus"
    <3>1. dev[s].disk = "none"
      BY <1>1, <2>2 DEF Raced
    <3> QED BY <1>2, <3>1 DEF ThreadOn
  <2> QED BY <2>1, <2>2
<1>10. ASSUME NEW u \in Threads, ptr[u] = s, u # t PROVE pc[u] \in Dangling
  <2>1. pc[u] \in {"idle", "add"} \union Dangling \union Exporting \union Holding
    BY DEF DeviceInv, Types
  <2>2. pc[u] # "idle"
    BY <1>10, NoZero DEF DeviceInv, Types
  <2>3. pc[u] \notin Holding
    BY <1>4, <1>10 DEF Holders
  <2> QED BY <1>6, <1>9, <1>10, <2>1, <2>2, <2>3
<1>11. s \in Moduled <=> pc[t] = "export bus"
  BY <1>1, <1>4, <1>9 DEF Moduled, Exporting
<1>12. pc[t] = "export bus" => dev[s].disk = "made"
  BY <1>1, <1>2 DEF ThreadOn, Exporting
<1> QED BY <1>1, <1>3, <1>4, <1>5, <1>7, <1>8, <1>10, <1>11, <1>12

\* pxd_init_disk or pxd_bus_add_dev fails: the device is freed.
LEMMA ExportFailsKeeps ==
  ASSUME DeviceInv, Explored, load = "ready", NEW t \in Threads, ExportFails(t)
  PROVE  DeviceInv'
<1>0. \/ pc[t] = "export disk" /\ dev[ptr[t]].mem = "live" /\ ~Raced(ptr[t])
      \/ pc[t] = "export bus"
  BY DEF ExportFails
<1>1. PICK s \in Structs :
        /\ s = ptr[t] /\ dev[s].mem = "live" /\ s \in list
        /\ s \in Moduled <=> pc[t] = "export bus"
        /\ \A u \in Threads : ptr[u] = s /\ u # t => pc[u] \in Dangling
  BY <1>0, ExportBegun
<1>2. /\ dev' = [dev EXCEPT ![s] = Freed] /\ minors' = minors \ {dev[s].minor}
      /\ list' = list \ {s} /\ num_devices' = num_devices - 1
      /\ mod' = (IF pc[t] = "export bus" THEN mod - 1 ELSE mod)
      /\ Return(t) /\ UNCHANGED <<load, held, fault, lost>>
  BY <1>1 DEF ExportFails, load_vars
<1>3. /\ pc' \in [Threads -> {"idle", "add"} \union Dangling \union Exporting \union Holding]
      /\ ptr' \in [Threads -> Structs \union {0}]
      /\ \A u \in Threads : pc'[u] = "idle" <=> ptr'[u] = 0
      /\ pc'[t] = "idle" /\ ptr'[t] = 0
      /\ \A u \in Threads : u # t => ptr'[u] = ptr[u] /\ pc'[u] = pc[u]
  <2>1. Types /\ Goto(t, "idle", 0)
    BY <1>2 DEF DeviceInv, Return
  <2> QED BY <2>1, Goes
<1>4. dev' \in [Structs -> Fields] /\ dev'[s] = Freed /\ \A r \in Structs \ {s} : dev'[r] = dev[r]
  BY <1>2, BlankFields DEF DeviceInv, Types
<1>5. num_devices \in Nat /\ mod \in Nat /\ num_devices >= 1 /\ (pc[t] = "export bus" => mod >= 1)
  BY <1>1, CountsPositive DEF DeviceInv, Types
<1>6. num_devices' = num_devices - 1 /\ num_devices' \in Nat /\ mod' \in Nat
  <2>1. num_devices' = num_devices - 1
    BY <1>2
  <2>2. num_devices' \in Nat
    <3>1. num_devices \in Nat /\ num_devices >= 1
      BY <1>5
    <3> QED BY ONLY <2>1, <3>1
  <2>3. CASE pc[t] = "export bus"
    <3>1. mod' = mod - 1 /\ mod \in Nat /\ mod >= 1
      BY <1>2, <1>5, <2>3
    <3> QED BY <2>1, <2>2, <3>1
  <2>4. CASE pc[t] # "export bus"
    BY <1>2, <1>5, <2>1, <2>2, <2>4
  <2> QED BY <2>3, <2>4
<1>7. Types'
  BY <1>2, <1>3, <1>4, <1>6 DEF DeviceInv, Types
<1>8. Only(s)
  BY <1>1, <1>2, <1>3, <1>4 DEF Only
<1>9. MinorsKept'
  BY <1>1, <1>2, <1>4, MinorsFreed, BlankFields
<1>10. num_devices' + Share(s, list) = num_devices /\ mod' + Share(s, Moduled) = mod
  <2>1. Share(s, list) = 1
    BY <1>1 DEF Share
  <2>2. num_devices' + Share(s, list) = num_devices
    <3>1. num_devices \in Nat /\ num_devices' = num_devices - 1
      BY <1>5, <1>6
    <3> QED BY ONLY <2>1, <3>1
  <2>3. CASE pc[t] = "export bus"
    <3>1. mod' = mod - 1 /\ mod \in Nat /\ Share(s, Moduled) = 1
      BY <1>1, <1>2, <1>5, <2>3 DEF Share
    <3> QED BY <2>2, <3>1
  <2>4. CASE pc[t] # "export bus"
    <3>1. mod' = mod /\ mod \in Nat /\ Share(s, Moduled) = 0
      BY <1>1, <1>2, <1>5, <2>4 DEF Share
    <3> QED BY <2>2, <3>1
  <2> QED BY <2>3, <2>4
<1>11. s \notin list' /\ \A u \in Threads : ptr'[u] = s => pc'[u] \in Dangling
  BY <1>1, <1>2, <1>3, NoZero
<1> QED BY <1>1, <1>2, <1>4, <1>7, <1>8, <1>9, <1>10, <1>11, FreeKeeps

\* try_module_get and pxd_init_disk succeed.
LEMMA ExportDiskKeeps ==
  ASSUME DeviceInv, Explored, load = "ready", NEW t \in Threads, ExportDisk(t), ~Raced(ptr[t])
  PROVE  DeviceInv'
<1>0. pc[t] = "export disk" /\ dev[ptr[t]].mem = "live"
  BY DEF ExportDisk
<1>1. PICK s \in Structs :
        /\ s = ptr[t] /\ dev[s].mem = "live" /\ s \in list /\ dev[s].refs = 0 /\ dev[s].opens = 0
        /\ ~dev[s].exported /\ ~dev[s].removing /\ dev[s].work = "none"
        /\ Holders(s) = {} /\ s \notin Registered /\ s \notin Moduled
        /\ \A u \in Threads : ptr[u] = s /\ u # t => pc[u] \in Dangling
  BY <1>0, ExportBegun
<1>2. /\ dev' = [dev EXCEPT ![s].disk = "made"] /\ mod' = mod + 1 /\ Goto(t, "export bus", s)
      /\ UNCHANGED <<load, held, list, num_devices, minors, fault, lost>>
  BY <1>1 DEF ExportDisk, load_vars
<1>3. /\ pc' \in [Threads -> {"idle", "add"} \union Dangling \union Exporting \union Holding]
      /\ ptr' \in [Threads -> Structs \union {0}]
      /\ \A u \in Threads : pc'[u] = "idle" <=> ptr'[u] = 0
      /\ pc'[t] = "export bus" /\ ptr'[t] = s
      /\ \A u \in Threads : u # t => ptr'[u] = ptr[u] /\ pc'[u] = pc[u]
  <2>1. Types /\ "export bus" \in Exporting /\ s # 0
    BY NoZero DEF DeviceInv, Exporting
  <2> QED BY <1>2, <2>1, Goes
<1>4. /\ dev' \in [Structs -> Fields] /\ \A r \in Structs \ {s} : dev'[r] = dev[r]
      /\ dev'[s].refs = 0 /\ dev'[s].disk = "made"
      /\ dev'[s].mem = "live" /\ dev'[s].opens = 0 /\ dev'[s].id = dev[s].id /\ dev'[s].minor = dev[s].minor
      /\ ~dev'[s].exported /\ ~dev'[s].removing /\ dev'[s].work = "none"
  <2>1. dev \in [Structs -> Fields] /\ dev[s] \in Fields
    BY DEF DeviceInv, Types
  <2>2. dev'[s] = [dev[s] EXCEPT !.disk = "made"] /\ \A r \in Structs \ {s} : dev'[r] = dev[r]
    BY <1>2, <2>1
  <2>3. [dev[s] EXCEPT !.disk = "made"] \in Fields
    BY <2>1 DEF Fields
  <2>4. dev' \in [Structs -> Fields]
    BY <1>2, <2>1, <2>3
  <2> QED BY <1>1, <2>1, <2>2, <2>4 DEF Fields
<1>5. Only(s)
  BY <1>1, <1>2, <1>3, <1>4 DEF Only
<1>6. \A u \in Threads : ptr'[u] = s /\ u # t => pc'[u] \notin Exporting \union Holding \union {"add"}
  BY <1>1, <1>3 DEF Dangling, Exporting, Holding
<1>7. s \notin Registered' /\ s \in Moduled'
  <2>1. s \notin Registered'
    BY <1>3, <1>4, <1>6 DEF Registered, Exporting
  <2> QED BY <1>3, <2>1 DEF Moduled
<1>8. StructOK(s)'
  <2>1. Cardinality(Holders(s)') = 0 /\ Share(s, Registered') = 0
    <3>1. Holders(s)' = {}
      BY <1>3, <1>6 DEF Holders, Holding
    <3> QED BY <1>7, <3>1, FS_EmptySet DEF Share
  <2>2. RefsCounted(s)'
    <3>1. s \in list'
      BY <1>1, <1>2
    <3> QED BY <1>4, <2>1, <3>1 DEF RefsCounted
  <2>3. DeadStruct(s)' /\ Stage(s)'
    BY <1>1, <1>2, <1>3, <1>4 DEF DeadStruct, Stage, Exporting
  <2>4. ASSUME NEW u \in Threads, ptr'[u] = s PROVE ThreadOn(u, s)'
    <3>1. CASE u = t
      <4>1. \A v \in Threads : ptr'[v] = s /\ pc'[v] \in Exporting => v = t
        BY <1>6
      <4> QED BY <1>1, <1>2, <1>3, <1>4, <3>1, <4>1 DEF ThreadOn
    <3>2. CASE u # t
      BY <1>6, <2>4, <3>2 DEF ThreadOn, Exporting
    <3> QED BY <3>1, <3>2
  <2> QED BY <2>2, <2>3, <2>4 DEF StructOK
<1>9. /\ num_devices \in Nat /\ num_devices' = num_devices /\ mod \in Nat /\ mod' = mod + 1 /\ mod' \in Nat
      /\ Share(s, Moduled) = 0 /\ Share(s, Moduled') = 1 /\ Share(s, list) = Share(s, list')
  <2>1. num_devices \in Nat /\ mod \in Nat
    BY DEF DeviceInv, Types
  <2>2. num_devices' = num_devices /\ mod' = mod + 1 /\ list' = list
    BY <1>2
  <2> QED BY <1>1, <1>7, <2>1, <2>2 DEF Share
<1>10. /\ num_devices' + Share(s, list) = num_devices + Share(s, list')
       /\ mod' + Share(s, Moduled) = mod + Share(s, Moduled')
  BY <1>9
<1> QED BY <1>1, <1>2, <1>3, <1>4, <1>5, <1>8, <1>9, <1>10, StayKeeps

\* where an export goes on
AfterExport == {"idle", "export add", "export done"}

\* An export goes on to its next step, or ends, with r for the fields of s.
LEMMA ExportMoves ==
  ASSUME DeviceInv, Explored, load = "ready", NEW t \in Threads, NEW s \in Structs, s = ptr[t],
         pc[t] \in Exporting, NEW where \in AfterExport,
         NEW q \in Structs \union {0}, q \in {0, s},
         Goto(t, where, q), q = 0 <=> where = "idle", where = "export add" <=> pc[t] = "export bus",
         NEW r \in Fields, dev' = [dev EXCEPT ![s] = r],
         r.mem = dev[s].mem, r.id = dev[s].id, r.minor = dev[s].minor, r.opens = dev[s].opens,
         r.removing = dev[s].removing, r.work = dev[s].work,
         r.exported <=> where = "idle",
         r.disk = IF where = "export add" THEN "made" ELSE "added",
         r.refs = IF where = "export add" THEN dev[s].refs + 1 ELSE dev[s].refs,
         UNCHANGED <<load, held, list, num_devices, minors, mod, fault, lost>>
  PROVE  DeviceInv'
<1>1. DeadStruct(s) /\ RefsCounted(s) /\ Stage(s) /\ \A u \in Threads : ptr[u] = s => ThreadOn(u, s)
  BY DEF DeviceInv, StructOK
<1>2. /\ s \in list /\ ~dev[s].exported /\ dev[s].work = "none"
      /\ \A u \in Threads : ptr[u] = s /\ pc[u] \in Exporting => u = t
      /\ \A u \in Threads : ptr[u] = s => pc[u] # "add"
      /\ pc[t] = "export bus" => dev[s].refs = 0
  <2>1. ThreadOn(t, s)
    BY <1>1
  <2> QED BY <1>1, <2>1 DEF ThreadOn
<1>3. dev[s].mem = "live" /\ ~dev[s].removing
  <2>1. dev[s].mem = "live"
    BY <1>1, <1>2 DEF DeadStruct
  <2>2. ~dev[s].removing
    BY <1>1, <1>2 DEF Stage
  <2> QED BY <2>1, <2>2
<1>4. /\ pc' \in [Threads -> {"idle", "add"} \union Dangling \union Exporting \union Holding]
      /\ ptr' \in [Threads -> Structs \union {0}]
      /\ \A u \in Threads : pc'[u] = "idle" <=> ptr'[u] = 0
      /\ pc'[t] = where /\ ptr'[t] = q
      /\ \A u \in Threads : u # t => ptr'[u] = ptr[u] /\ pc'[u] = pc[u]
  <2>1. Types /\ where \in {"idle", "add"} \union Exporting
    BY DEF DeviceInv, Exporting, AfterExport
  <2> QED BY <2>1, Goes
<1>5. dev' \in [Structs -> Fields] /\ dev'[s] = r /\ \A x \in Structs \ {s} : dev'[x] = dev[x]
  BY DEF DeviceInv, Types
<1>6. Only(s)
  BY <1>4, <1>5 DEF Only
<1>7. \A u \in Threads : ptr'[u] = s /\ u # t => pc'[u] \notin Exporting \union {"add"}
  BY <1>2, <1>4
<1>8. s \in Registered' /\ s \in Moduled' /\ s \in Moduled /\ (s \in Registered <=> where # "export add")
  <2>3. s \in Registered'
    <3>1. CASE where = "idle"
      <4>1. dev'[s].exported
        BY <1>5, <3>1
      <4> QED BY <4>1 DEF Registered
    <3>2. CASE where # "idle"
      <4>1. ptr'[t] = s /\ pc'[t] \in {"export add", "export done"}
        BY <1>4, <3>2 DEF AfterExport
      <4> QED BY <4>1 DEF Registered
    <3> QED BY <3>1, <3>2
  <2>4. s \in Registered <=> pc[t] # "export bus"
    BY <1>2 DEF Registered, Exporting
  <2>5. s \in Moduled
    BY <2>4 DEF Moduled
  <2> QED BY <2>3, <2>4, <2>5 DEF Moduled
<1>9. Holders(s)' = Holders(s)
  <2>1. pc[t] \notin Holding /\ pc'[t] \notin Holding
    BY <1>4 DEF Holding, Exporting, AfterExport
  <2> QED BY <1>4, <2>1 DEF Holders
<1>10. StructOK(s)'
  <2>1. RefsCounted(s)'
    <3>1. Share(s, Registered') = 1 /\ Share(s, Registered) = IF where = "export add" THEN 0 ELSE 1
      BY <1>8 DEF Share
    <3>2. dev[s].refs = dev[s].opens + Cardinality(Holders(s)) + Share(s, Registered)
      BY <1>1, <1>3 DEF RefsCounted
    <3>3. dev[s].opens \in Nat /\ Cardinality(Holders(s)) \in Nat /\ dev[s].refs \in Nat
      BY NatFields DEF DeviceInv
    <3>4. r.refs = r.opens + Cardinality(Holders(s)) + 1
      <4>1. CASE where = "export add"
        <5>1. r.refs = dev[s].refs + 1 /\ Share(s, Registered) = 0 /\ r.opens = dev[s].opens
          BY <3>1, <4>1
        <5> QED BY ONLY <3>2, <3>3, <5>1
      <4>2. CASE where # "export add"
        <5>1. r.refs = dev[s].refs /\ Share(s, Registered) = 1 /\ r.opens = dev[s].opens
          BY <3>1, <4>2
        <5> QED BY ONLY <3>2, <3>3, <5>1
      <4> QED BY <4>1, <4>2
    <3>5. dev'[s].refs = dev'[s].opens + Cardinality(Holders(s)') + Share(s, Registered')
      BY <1>5, <1>9, <3>1, <3>4
    <3>6. s \in list'
      BY <1>2
    <3> QED BY <1>8, <3>5, <3>6 DEF RefsCounted
  <2>2. DeadStruct(s)'
    BY <1>3, <1>5 DEF DeadStruct
  <2>3. Stage(s)'
    <3>1. dev'[s].exported \/ (ptr'[t] = s /\ pc'[t] \in Exporting)
      BY <1>4, <1>5 DEF Exporting, AfterExport
    <3>2. s \in list' /\ dev'[s].work = "none" /\ ~dev'[s].removing
      BY <1>2, <1>3, <1>5
    <3> QED BY <3>1, <3>2 DEF Stage
  <2>4. ASSUME NEW u \in Threads, ptr'[u] = s PROVE ThreadOn(u, s)'
    <3>1. CASE u = t
      <4>1. where # "idle"
        BY <1>4, <2>4, <3>1, NoZero
      <4>2. \A v \in Threads : ptr'[v] = s /\ pc'[v] \in Exporting => v = t
        BY <1>7
      <4>3. s \in list' /\ ~dev'[s].exported /\ dev'[s].work = "none"
        BY <1>2, <1>5, <4>1
      <4>4. pc'[t] = where /\ dev'[s].disk = IF where = "export done" THEN "added" ELSE "made"
        BY <1>4, <1>5, <4>1 DEF AfterExport
      <4> QED BY <3>1, <4>1, <4>2, <4>3, <4>4 DEF ThreadOn, AfterExport
    <3>2. CASE u # t
      BY <1>7, <2>4, <3>2 DEF ThreadOn, Exporting
    <3> QED BY <3>1, <3>2
  <2> QED BY <2>1, <2>2, <2>3, <2>4 DEF StructOK
<1>11. /\ num_devices' \in Nat /\ mod' \in Nat
       /\ num_devices' + Share(s, list) = num_devices + Share(s, list')
       /\ mod' + Share(s, Moduled) = mod + Share(s, Moduled')
  BY <1>8 DEF Share, DeviceInv, Types
<1> QED BY <1>4, <1>5, <1>6, <1>10, <1>11, StayKeeps

\* pxd_bus_add_dev and device_add_disk succeed, and exported is set.
LEMMA ExportKeeps ==
  ASSUME DeviceInv, Explored, load = "ready", NEW t \in Threads,
         ExportBus(t) \/ ExportAdd(t) \/ ExportDone(t)
  PROVE  DeviceInv'
<1>1. pc[t] \in Exporting /\ pc[t] # "idle"
  BY DEF ExportBus, ExportAdd, ExportDone, Exporting
<1>2. PICK s \in Structs : s = ptr[t]
  BY <1>1 DEF DeviceInv, Types
<1>3. dev \in [Structs -> Fields] /\ dev[s] \in Fields /\ ThreadOn(t, s) /\ s # 0
  BY <1>2, NoZero DEF DeviceInv, Types, StructOK
<1>4. UNCHANGED <<load, held, list, num_devices, minors, mod, fault, lost>>
  BY DEF ExportBus, ExportAdd, ExportDone, load_vars
<1>5. CASE ExportBus(t)
  <2> DEFINE r == [dev[s] EXCEPT !.refs = 1]
  <2>1. pc[t] = "export bus" /\ dev' = [dev EXCEPT ![s] = r] /\ Goto(t, "export add", s)
    BY <1>2, <1>3, <1>5 DEF ExportBus
  <2>2. /\ r \in Fields /\ r.mem = dev[s].mem /\ r.id = dev[s].id /\ r.minor = dev[s].minor
        /\ r.opens = dev[s].opens /\ r.removing = dev[s].removing /\ r.work = dev[s].work
        /\ r.exported = dev[s].exported /\ r.disk = dev[s].disk /\ r.refs = 1
    BY <1>3 DEF Fields
  <2>3. ~dev[s].exported /\ dev[s].disk = "made" /\ dev[s].refs = 0
    BY <1>3, <2>1 DEF ThreadOn, Exporting
  <2>4. r.refs = dev[s].refs + 1
    BY ONLY <2>2, <2>3
  <2> HIDE DEF r
  <2> QED BY <1>1, <1>2, <1>3, <1>4, <2>1, <2>2, <2>3, <2>4, ExportMoves DEF AfterExport
<1>6. CASE ExportAdd(t)
  <2> DEFINE r == [dev[s] EXCEPT !.disk = "added"]
  <2>1. pc[t] = "export add" /\ dev' = [dev EXCEPT ![s] = r] /\ Goto(t, "export done", s)
    BY <1>2, <1>3, <1>6 DEF ExportAdd
  <2>2. /\ r \in Fields /\ r.mem = dev[s].mem /\ r.id = dev[s].id /\ r.minor = dev[s].minor
        /\ r.opens = dev[s].opens /\ r.removing = dev[s].removing /\ r.work = dev[s].work
        /\ r.exported = dev[s].exported /\ r.disk = "added" /\ r.refs = dev[s].refs
    BY <1>3 DEF Fields
  <2>3. ~dev[s].exported
    BY <1>3, <2>1 DEF ThreadOn, Exporting
  <2> HIDE DEF r
  <2> QED BY <1>1, <1>2, <1>3, <1>4, <2>1, <2>2, <2>3, ExportMoves DEF AfterExport
<1>7. CASE ExportDone(t)
  <2> DEFINE r == [dev[s] EXCEPT !.exported = TRUE]
  <2>1. pc[t] = "export done" /\ dev' = [dev EXCEPT ![s] = r] /\ Goto(t, "idle", 0)
    BY <1>2, <1>3, <1>7 DEF ExportDone, Return
  <2>2. /\ r \in Fields /\ r.mem = dev[s].mem /\ r.id = dev[s].id /\ r.minor = dev[s].minor
        /\ r.opens = dev[s].opens /\ r.removing = dev[s].removing /\ r.work = dev[s].work
        /\ r.exported = TRUE /\ r.disk = dev[s].disk /\ r.refs = dev[s].refs
    BY <1>3 DEF Fields
  <2>3. dev[s].disk = "added"
    BY <1>3, <2>1 DEF ThreadOn, Exporting
  <2> HIDE DEF r
  <2> QED BY <1>1, <1>2, <1>3, <1>4, <2>1, <2>2, <2>3, ExportMoves DEF AfterExport
<1> QED BY <1>5, <1>6, <1>7

--------------------------------------------------------------------------------
\* put_device by an opener, by a thread that holds s, or by the removal work:
\* r is s by then, and left is what its registration still counts.
LEMMA PutKeeps ==
  ASSUME DeviceInv, Explored, load # "unloaded", NEW s \in Structs, dev[s].mem = "live",
         NEW r \in Fields, r.mem = dev[s].mem, r.id = dev[s].id, r.minor = dev[s].minor,
         r.exported = dev[s].exported, r.removing = dev[s].removing, r.disk = dev[s].disk, r.refs = dev[s].refs,
         Put(s, r), UNCHANGED <<load, held, list, num_devices, fault, lost>>,
         NEW left \in Nat,
         \/ r.work = dev[s].work /\ left = Share(s, Registered) /\ mod' = mod
         \/ dev[s].work = "put" /\ r.work = "none" /\ left = 0 /\ mod' = mod - 1,
         r.refs = r.opens + Cardinality(Holders(s)') + left + 1,
         pc' \in [Threads -> {"idle", "add"} \union Dangling \union Exporting \union Holding],
         ptr' \in [Threads -> Structs \union {0}],
         \A u \in Threads : pc'[u] = "idle" <=> ptr'[u] = 0,
         \A u \in Threads : \/ ptr'[u] = ptr[u] /\ pc'[u] = pc[u]
                            \/ ptr[u] = s /\ pc[u] \in Holding /\ ptr'[u] = 0
  PROVE  DeviceInv'
<1>1. RefsCounted(s) /\ Stage(s) /\ \A u \in Threads : ptr[u] = s => ThreadOn(u, s)
  BY DEF DeviceInv, StructOK
<1>2. Holders(s)' \in SUBSET Threads
  BY DEF Holders
<1>3. /\ IsFiniteSet(Holders(s)') /\ Cardinality(Holders(s)') \in Nat
      /\ r.opens \in Nat /\ r.refs \in Nat
  <2>1. r.opens \in Nat /\ r.refs \in Nat
    BY DeviceAssumption DEF Fields
  <2> QED BY <1>2, <2>1, DeviceAssumption, FS_Subset, FS_CardinalityType
<1>4. r.refs >= 1 /\ (r.refs = 1 => r.opens = 0 /\ Cardinality(Holders(s)') = 0 /\ left = 0)
  <2>1. r.refs = r.opens + Cardinality(Holders(s)') + left + 1
    OBVIOUS
  <2> QED BY ONLY <1>3, <2>1, left \in Nat
<1>5. dev[s].refs # 0
  BY <1>3, <1>4
<1>6. \A u \in Threads : ptr[u] = s => pc[u] # "add" /\ pc[u] # "export bus"
  BY <1>1, <1>5 DEF ThreadOn
<1>7. s \in Moduled <=> s \in Registered
  BY <1>6 DEF Moduled
<1>8. ASSUME dev[s].work = "put"
      PROVE  /\ s \in Registered /\ s \notin list /\ ~dev[s].exported
             /\ \A u \in Threads : ptr[u] = s => pc[u] \notin Exporting
  <2>1. s \in Registered
    BY <1>8 DEF Registered
  <2>2. s \notin list /\ ~dev[s].exported
    BY <1>1, <1>8 DEF Stage
  <2>3. \A u \in Threads : ptr[u] = s => pc[u] \notin Exporting
    BY <1>1, <2>2 DEF ThreadOn
  <2> QED BY <2>1, <2>2, <2>3
<1>9. \A u \in Threads : ptr'[u] = s => ptr[u] = s /\ pc'[u] = pc[u]
  BY NoZero
<1>10. \A u \in Threads : ptr[u] = s /\ pc[u] \in Exporting => ptr'[u] = s /\ pc'[u] = pc[u]
  BY DEF Exporting, Holding
<1>11. mod \in Nat /\ num_devices \in Nat /\ Types
  BY DEF DeviceInv, Types
<1>12. CASE r.refs = 1
  <2>1. r.opens = 0 /\ Holders(s)' = {} /\ left = 0
    BY <1>3, <1>4, <1>12, FS_EmptySet
  <2>2. s \notin list
    BY <1>1, <1>5, <1>8, <2>1 DEF RefsCounted, Share
  <2>3. dev' = [dev EXCEPT ![s] = Freed] /\ minors' = minors \ {dev[s].minor}
    <3>1. [Freed EXCEPT !.opens = 0] = Freed
      BY BlankFields DEF Fields
    <3> QED BY <1>12, <2>1, <3>1 DEF Put
  <2>4. dev' \in [Structs -> Fields] /\ dev'[s] = Freed /\ \A x \in Structs \ {s} : dev'[x] = dev[x]
    BY <2>3, BlankFields DEF DeviceInv, Types
  <2>5. MinorsKept'
    BY <2>3, <2>4, MinorsFreed, BlankFields
  <2>6. Only(s)
    BY <2>4 DEF Only
  <2>7. ASSUME NEW u \in Threads, ptr'[u] = s PROVE pc'[u] \in Dangling
    <3>1. pc'[u] \in {"idle", "add"} \union Dangling \union Exporting \union Holding
      OBVIOUS
    <3>2. pc'[u] # "idle" /\ pc'[u] # "add"
      BY <1>6, <1>9, <2>7, NoZero
    <3>3. pc'[u] \notin Holding
      BY <2>1, <2>7 DEF Holders
    <3>4. pc'[u] \notin Exporting
      BY <1>1, <1>9, <2>2, <2>7 DEF ThreadOn
    <3> QED BY <3>1, <3>2, <3>3, <3>4
  <2>8. mod' \in Nat /\ mod' + Share(s, Moduled) = mod
    <3>1. CASE r.work = dev[s].work
      <4>1. mod' = mod /\ s \notin Moduled
        <5>1. mod' = mod /\ Share(s, Registered) = 0
          BY <2>1, <3>1
        <5> QED BY <1>7, <5>1 DEF Share
      <4> QED BY <1>11, <4>1 DEF Share
    <3>2. CASE r.work # dev[s].work
      <4>1. mod' = mod - 1 /\ s \in Moduled
        BY <1>7, <1>8, <3>2
      <4>2. mod >= 1
        BY <4>1, CountsPositive
      <4>3. Share(s, Moduled) = 1
        BY <4>1 DEF Share
      <4> QED BY ONLY <1>11, <4>1, <4>2, <4>3
    <3> QED BY <3>1, <3>2
  <2>9. num_devices' + Share(s, list) = num_devices
    BY <1>11, <2>2 DEF Share
  <2>10. Types'
    BY <1>11, <2>3, <2>4, <2>8 DEF Types
  <2> QED BY <2>2, <2>4, <2>5, <2>6, <2>7, <2>8, <2>9, <2>10, FreeKeeps
<1>13. CASE r.refs # 1
  <2> DEFINE n == [r EXCEPT !.refs = r.refs - 1]
  <2>1. r.refs - 1 \in Nat
    BY ONLY <1>3, <1>4
  <2>2. /\ n \in Fields /\ n.mem = r.mem /\ n.id = r.id /\ n.minor = r.minor /\ n.exported = r.exported
        /\ n.removing = r.removing /\ n.disk = r.disk /\ n.work = r.work /\ n.opens = r.opens
        /\ n.refs = r.refs - 1
    BY <2>1 DEF Fields
  <2>3. dev' = [dev EXCEPT ![s] = n] /\ minors' = minors
    BY <1>13 DEF Put
  <2> HIDE DEF n
  <2>4. dev' \in [Structs -> Fields] /\ dev'[s] = n /\ \A x \in Structs \ {s} : dev'[x] = dev[x]
    BY <2>2, <2>3 DEF DeviceInv, Types
  <2>5. Only(s)
    BY <2>4 DEF Only
  <2>6. /\ s \in Registered' <=> s \in Moduled'
        /\ Share(s, Registered') = left
        /\ s \in list => s \in Registered'
        /\ mod' \in Nat /\ mod' + Share(s, Moduled) = mod + Share(s, Moduled')
    <3>1. s \in Moduled' <=> s \in Registered'
      BY <1>6, <1>9 DEF Moduled
    <3>2. CASE r.work = dev[s].work
      <4>1. dev'[s].exported = dev[s].exported /\ dev'[s].work = dev[s].work
        BY <2>2, <2>4, <3>2
      <4>2. s \in Registered' <=> s \in Registered
        BY <1>9, <1>10, <4>1 DEF Registered, Exporting
      <4>3. left = Share(s, Registered) /\ mod' = mod
        BY <1>8, <3>2
      <4>4. s \in list => s \in Registered'
        BY <1>1, <1>5, <4>2 DEF RefsCounted
      <4> QED BY <1>7, <1>11, <3>1, <4>2, <4>3, <4>4 DEF Share
    <3>3. CASE r.work # dev[s].work
      <4>1. dev[s].work = "put" /\ r.work = "none" /\ left = 0 /\ mod' = mod - 1
        BY <3>3
      <4>2. dev'[s].exported = dev[s].exported /\ dev'[s].work = "none"
        BY <2>2, <2>4, <4>1
      <4>3. s \notin Registered'
        BY <1>8, <1>9, <4>1, <4>2 DEF Registered, Exporting
      <4>4. s \in Moduled /\ s \notin Moduled' /\ mod >= 1 /\ s \notin list
        BY <1>7, <1>8, <3>1, <4>1, <4>3, CountsPositive
      <4>5. Share(s, Moduled) = 1 /\ Share(s, Moduled') = 0 /\ Share(s, Registered') = 0
        BY <4>3, <4>4 DEF Share
      <4>6. mod' \in Nat /\ mod' + Share(s, Moduled) = mod + Share(s, Moduled')
        <5>1. mod \in Nat /\ mod >= 1 /\ mod' = mod - 1
          BY <1>11, <4>1, <4>4
        <5> QED BY ONLY <4>5, <5>1
      <4> QED BY <3>1, <4>1, <4>3, <4>4, <4>5, <4>6
    <3> QED BY <3>2, <3>3
  <2>7. StructOK(s)'
    <3>1. RefsCounted(s)'
      <4>1. dev'[s].refs = r.refs - 1 /\ dev'[s].opens = r.opens
        BY <2>2, <2>4
      <4>2. r.refs = r.opens + Cardinality(Holders(s)') + left + 1
        OBVIOUS
      <4>3. r.refs - 1 = r.opens + Cardinality(Holders(s)') + left /\ r.refs - 1 # 0
        BY ONLY <1>3, <1>4, <1>13, <4>2, left \in Nat
      <4>4. Share(s, Registered') = left /\ (s \in list' => s \in Registered')
        BY <2>6
      <4> QED BY <4>1, <4>3, <4>4 DEF RefsCounted
    <3>2. /\ dev'[s].exported = dev[s].exported /\ dev'[s].removing = dev[s].removing
          /\ dev'[s].disk = dev[s].disk /\ dev'[s].mem = "live"
          /\ dev'[s].work = dev[s].work \/ (dev[s].work = "put" /\ dev'[s].work = "none")
      BY <2>2, <2>4
    <3>3. DeadStruct(s)'
      BY <3>2 DEF DeadStruct
    <3>4. Stage(s)'
      BY <1>1, <1>8, <1>10, <3>2 DEF Stage
    <3>5. ASSUME NEW u \in Threads, ptr'[u] = s PROVE ThreadOn(u, s)'
      <4>1. ptr[u] = s /\ pc'[u] = pc[u] /\ ThreadOn(u, s) /\ pc[u] # "add" /\ pc[u] # "export bus"
        BY <1>1, <1>6, <1>9, <3>5
      <4>2. CASE pc[u] \in Exporting
        <5>1. s \in list /\ dev[s].work # "put"
          BY <1>8, <4>1, <4>2 DEF ThreadOn
        <5>2. \A v \in Threads : ptr'[v] = s /\ pc'[v] \in Exporting => v = u
          BY <1>9, <4>1, <4>2 DEF ThreadOn
        <5> QED BY <3>2, <4>1, <4>2, <5>1, <5>2 DEF ThreadOn
      <4>3. CASE pc[u] \notin Exporting
        BY <4>1, <4>3 DEF ThreadOn
      <4> QED BY <4>2, <4>3
    <3> QED BY <3>1, <3>3, <3>4, <3>5 DEF StructOK
  <2>8. dev'[s].mem = dev[s].mem /\ dev'[s].id = dev[s].id /\ dev'[s].minor = dev[s].minor
    BY <2>2, <2>4
  <2>9. num_devices' + Share(s, list) = num_devices + Share(s, list') /\ num_devices' \in Nat
    BY <1>11
  <2> QED BY <2>3, <2>4, <2>5, <2>6, <2>7, <2>8, <2>9, StayKeeps
<1> QED BY <1>12, <1>13

\* An opener, a resize, a waiter of a removal and the work put their references.
LEMMA PutsKeep ==
  ASSUME DeviceInv, Explored, load # "unloaded",
         \/ \E s \in Structs : Close(s) \/ WorkPut(s)
         \/ \E t \in Threads : ResizeEnds(t) \/ RemoveEnds(t)
  PROVE  DeviceInv'
<1>0. Types /\ \A s \in Structs : StructOK(s)
  BY DEF DeviceInv
<1>1. ASSUME NEW s \in Structs, Close(s) PROVE DeviceInv'
  <2> DEFINE r == [dev[s] EXCEPT !.opens = @ - 1]
  <2>1. /\ dev[s].opens > 0 /\ Put(s, r)
        /\ UNCHANGED <<load, held, list, num_devices, mod, pc, ptr, fault, lost>>
    BY <1>1 DEF Close, load_vars, thread_vars
  <2>2. dev[s] \in Fields /\ dev[s].opens \in 0 .. MaxOpens /\ dev[s].opens \in Nat /\ Cardinality(Holders(s)) \in Nat
    BY <1>0, NatFields
  <2>3. dev[s].opens - 1 \in 0 .. MaxOpens
    BY <2>1, <2>2, DeviceAssumption
  <2>4. /\ r \in Fields /\ r.mem = dev[s].mem /\ r.id = dev[s].id /\ r.minor = dev[s].minor
        /\ r.exported = dev[s].exported /\ r.removing = dev[s].removing /\ r.disk = dev[s].disk
        /\ r.refs = dev[s].refs /\ r.work = dev[s].work /\ r.opens = dev[s].opens - 1
    BY <2>2, <2>3 DEF Fields
  <2> HIDE DEF r
  <2>5. dev[s].mem = "live"
    <3>1. DeadStruct(s) /\ dev[s].opens # 0
      BY <1>0, <2>1, <2>2 DEF StructOK
    <3> QED BY <3>1 DEF DeadStruct
  <2>6. dev[s].refs = dev[s].opens + Cardinality(Holders(s)) + Share(s, Registered)
    BY <1>0, <2>5 DEF StructOK, RefsCounted
  <2>7. Share(s, Registered) \in Nat
    BY DEF Share
  <2>8. Holders(s)' = Holders(s)
    BY <2>1 DEF Holders
  <2>9. dev[s].refs = (dev[s].opens - 1) + Cardinality(Holders(s)) + Share(s, Registered) + 1
    BY ONLY <2>2, <2>6, <2>7
  <2>10. r.refs = r.opens + Cardinality(Holders(s)') + Share(s, Registered) + 1
    BY <2>4, <2>8, <2>9
  <2>11. /\ pc' \in [Threads -> {"idle", "add"} \union Dangling \union Exporting \union Holding]
         /\ ptr' \in [Threads -> Structs \union {0}]
         /\ \A u \in Threads : pc'[u] = "idle" <=> ptr'[u] = 0
    BY <1>0, <2>1 DEF Types
  <2> QED BY <2>1, <2>4, <2>5, <2>7, <2>10, <2>11, PutKeeps
<1>2. ASSUME NEW s \in Structs, WorkPut(s) PROVE DeviceInv'
  <2> DEFINE r == [dev[s] EXCEPT !.work = "none"]
  <2>1. /\ dev[s].work = "put" /\ Put(s, r) /\ mod' = mod - 1
        /\ UNCHANGED <<load, held, list, num_devices, pc, ptr, fault, lost>>
    BY <1>2 DEF WorkPut, load_vars, thread_vars
  <2>2. dev[s] \in Fields /\ dev[s].opens \in Nat /\ Cardinality(Holders(s)) \in Nat
    BY <1>0, NatFields
  <2>4. /\ r \in Fields /\ r.mem = dev[s].mem /\ r.id = dev[s].id /\ r.minor = dev[s].minor
        /\ r.exported = dev[s].exported /\ r.removing = dev[s].removing /\ r.disk = dev[s].disk
        /\ r.refs = dev[s].refs /\ r.work = "none" /\ r.opens = dev[s].opens
    BY <2>2 DEF Fields
  <2> HIDE DEF r
  <2>5. dev[s].mem = "live"
    BY <1>0, <2>1 DEF StructOK, DeadStruct
  <2>6. dev[s].refs = dev[s].opens + Cardinality(Holders(s)) + Share(s, Registered)
    BY <1>0, <2>5 DEF StructOK, RefsCounted
  <2>7. Share(s, Registered) = 1
    BY <2>1 DEF Share, Registered
  <2>8. Holders(s)' = Holders(s)
    BY <2>1 DEF Holders
  <2>9. dev[s].refs = dev[s].opens + Cardinality(Holders(s)) + 0 + 1
    BY ONLY <2>2, <2>6, <2>7
  <2>10. r.refs = r.opens + Cardinality(Holders(s)') + 0 + 1
    BY <2>4, <2>8, <2>9
  <2>11. /\ pc' \in [Threads -> {"idle", "add"} \union Dangling \union Exporting \union Holding]
         /\ ptr' \in [Threads -> Structs \union {0}]
         /\ \A u \in Threads : pc'[u] = "idle" <=> ptr'[u] = 0
    BY <1>0, <2>1 DEF Types
  <2> QED BY <2>1, <2>4, <2>5, <2>10, <2>11, PutKeeps
<1>3. ASSUME NEW t \in Threads, ResizeEnds(t) \/ RemoveEnds(t) PROVE DeviceInv'
  <2>1. /\ pc[t] \in Holding /\ pc[t] # "idle" /\ dev[ptr[t]].mem = "live" /\ Put(ptr[t], dev[ptr[t]]) /\ Goto(t, "idle", 0)
        /\ UNCHANGED <<load, held, list, num_devices, mod, fault, lost>>
    BY <1>3 DEF ResizeEnds, RemoveEnds, load_vars, Holding, Return
  <2>2. PICK s \in Structs : s = ptr[t]
    BY <1>0, <2>1 DEF Types
  <2>3. dev[s] \in Fields /\ dev[s].opens \in Nat /\ Cardinality(Holders(s)) \in Nat /\ IsFiniteSet(Holders(s))
    BY <1>0, NatFields
  <2>4. /\ pc' \in [Threads -> {"idle", "add"} \union Dangling \union Exporting \union Holding]
        /\ ptr' \in [Threads -> Structs \union {0}]
        /\ \A u \in Threads : pc'[u] = "idle" <=> ptr'[u] = 0
        /\ pc'[t] = "idle" /\ ptr'[t] = 0
        /\ \A u \in Threads : u # t => ptr'[u] = ptr[u] /\ pc'[u] = pc[u]
    BY <1>0, <2>1, Goes
  <2>5. dev[s].refs = dev[s].opens + Cardinality(Holders(s)) + Share(s, Registered)
    BY <1>0, <2>1, <2>2 DEF StructOK, RefsCounted
  <2>6. Share(s, Registered) \in Nat
    BY DEF Share
  <2>7. t \in Holders(s) /\ Holders(s)' = Holders(s) \ {t}
    BY <2>1, <2>2, <2>4, NoZero DEF Holders
  <2>8. Cardinality(Holders(s)') = Cardinality(Holders(s)) - 1
    BY <2>3, <2>7, FS_RemoveElement
  <2>9. dev[s].refs = dev[s].opens + Cardinality(Holders(s)') + Share(s, Registered) + 1
    BY ONLY <2>3, <2>5, <2>6, <2>8
  <2>10. \A u \in Threads : \/ ptr'[u] = ptr[u] /\ pc'[u] = pc[u]
                            \/ ptr[u] = s /\ pc[u] \in Holding /\ ptr'[u] = 0
    BY <2>1, <2>2, <2>4
  <2>11. dev[s].mem = "live" /\ Put(s, dev[s])
    BY <2>1, <2>2
  <2> QED BY <2>1, <2>3, <2>4, <2>6, <2>9, <2>10, <2>11, PutKeeps
<1> QED BY <1>1, <1>2, <1>3

\* A device that has references stays listed, and may get one more; a removal
\* may begin or free its disk.
LEMMA TakeKeeps ==
  ASSUME DeviceInv, Explored, load # "unloaded", NEW s \in Structs, dev[s].mem = "live", dev[s].refs # 0,
         NEW r \in Fields, r.mem = dev[s].mem, r.id = dev[s].id, r.minor = dev[s].minor, r.exported = dev[s].exported,
         dev' = [dev EXCEPT ![s] = r],
         \/ r.removing = dev[s].removing /\ r.work = dev[s].work /\ r.disk = dev[s].disk
         \/ dev[s].exported /\ r.removing /\ (r.work = "queued" \/ (r.work = "unlink" /\ r.disk = "none")),
         r.refs = r.opens + Cardinality(Holders(s)') + Share(s, Registered), r.refs # 0,
         pc' \in [Threads -> {"idle", "add"} \union Dangling \union Exporting \union Holding],
         ptr' \in [Threads -> Structs \union {0}],
         \A u \in Threads : pc'[u] = "idle" <=> ptr'[u] = 0,
         \A u \in Threads : \/ ptr'[u] = ptr[u] /\ pc'[u] = pc[u]
                            \/ ptr[u] = 0 /\ ptr'[u] = s /\ pc'[u] \in Holding,
         UNCHANGED <<load, held, list, num_devices, minors, mod, fault, lost>>
  PROVE  DeviceInv'
<1>1. RefsCounted(s) /\ Stage(s) /\ \A u \in Threads : ptr[u] = s => ThreadOn(u, s)
  BY DEF DeviceInv, StructOK
<1>2. \A u \in Threads : ptr[u] = s => pc[u] # "add" /\ pc[u] # "export bus"
  BY <1>1 DEF ThreadOn
<1>3. dev' \in [Structs -> Fields] /\ dev'[s] = r /\ \A x \in Structs \ {s} : dev'[x] = dev[x]
  BY DEF DeviceInv, Types
<1>4. Only(s)
  BY <1>3 DEF Only
<1>5. \A u \in Threads : ptr[u] = s => ptr'[u] = s /\ pc'[u] = pc[u]
  BY NoZero
<1>6. \A u \in Threads : ptr'[u] = s => (ptr[u] = s /\ pc'[u] = pc[u]) \/ pc'[u] \in Holding
  OBVIOUS
<1>7. \A u \in Threads : ptr'[u] = s /\ pc'[u] \notin Holding => ptr[u] = s /\ pc'[u] = pc[u]
  BY <1>6
<1>8. (s \in Registered' <=> s \in Registered) /\ (s \in Moduled' <=> s \in Moduled)
  <2>1. (dev'[s].exported \/ dev'[s].work # "none") <=> (dev[s].exported \/ dev[s].work # "none")
    BY <1>3
  <2>2. \A u \in Threads : (ptr'[u] = s /\ pc'[u] \in Exporting) <=> (ptr[u] = s /\ pc[u] \in Exporting)
    BY <1>5, <1>7 DEF Holding, Exporting
  <2>3. \A u \in Threads : (ptr'[u] = s /\ pc'[u] \in {"export add", "export done"})
                             <=> (ptr[u] = s /\ pc[u] \in {"export add", "export done"})
    BY <1>5, <2>2 DEF Exporting
  <2>4. s \in Registered' <=> s \in Registered
    BY <2>1, <2>3 DEF Registered
  <2>5. \A u \in Threads : (ptr'[u] = s /\ pc'[u] = "export bus") <=> (ptr[u] = s /\ pc[u] = "export bus")
    BY <1>5, <2>2 DEF Exporting
  <2> QED BY <2>4, <2>5 DEF Moduled
<1>9. StructOK(s)'
  <2>1. RefsCounted(s)'
    <3>1. Share(s, Registered') = Share(s, Registered)
      BY <1>8 DEF Share
    <3>2. dev'[s].refs = dev'[s].opens + Cardinality(Holders(s)') + Share(s, Registered') /\ dev'[s].refs # 0
      BY <1>3, <3>1
    <3>3. s \in list' => s \in Registered'
      BY <1>1, <1>8 DEF RefsCounted
    <3> QED BY <3>2, <3>3 DEF RefsCounted
  <2>2. DeadStruct(s)'
    BY <1>3 DEF DeadStruct
  <2>3. Stage(s)'
    <3>1. dev'[s].disk # "none" /\ ~dev'[s].exported => dev[s].disk # "none" /\ ~dev[s].exported
      BY <1>3
    <3>2. dev'[s].disk # "none" /\ ~dev'[s].exported => \E t \in Threads : ptr'[t] = s /\ pc'[t] \in Exporting
      BY <1>1, <1>5, <3>1 DEF Stage
    <3>3. list' = list /\ dev'[s].exported = dev[s].exported
      BY <1>3
    <3>4. CASE r.removing = dev[s].removing /\ r.work = dev[s].work /\ r.disk = dev[s].disk
      BY <1>1, <1>3, <3>2, <3>3, <3>4 DEF Stage
    <3>5. CASE dev[s].exported /\ r.removing /\ (r.work = "queued" \/ (r.work = "unlink" /\ r.disk = "none"))
      BY <1>1, <1>3, <3>2, <3>3, <3>5 DEF Stage
    <3> QED BY <3>4, <3>5
  <2>4. ASSUME NEW u \in Threads, ptr'[u] = s PROVE ThreadOn(u, s)'
    <3>1. CASE pc'[u] \in Holding
      BY <3>1 DEF ThreadOn, Holding, Exporting
    <3>2. CASE pc'[u] \notin Holding
      <4>1. ptr[u] = s /\ pc'[u] = pc[u] /\ ThreadOn(u, s) /\ pc[u] # "add" /\ pc[u] # "export bus"
        BY <1>1, <1>2, <1>7, <2>4, <3>2
      <4>2. CASE pc[u] \in Exporting
        <5>1. /\ s \in list' /\ ~dev'[s].exported /\ dev'[s].work = "none" /\ dev'[s].disk = dev[s].disk
          BY <1>3, <4>1, <4>2 DEF ThreadOn
        <5>2. \A v \in Threads : ptr'[v] = s /\ pc'[v] \in Exporting => v = u
          <6>1. \A v \in Threads : ptr'[v] = s /\ pc'[v] \in Exporting => ptr[v] = s /\ pc[v] \in Exporting
            BY <1>7 DEF Exporting, Holding
          <6> QED BY <4>1, <4>2, <6>1 DEF ThreadOn
        <5> QED BY <4>1, <4>2, <5>1, <5>2 DEF ThreadOn
      <4>3. CASE pc[u] \notin Exporting
        BY <4>1, <4>3 DEF ThreadOn
      <4> QED BY <4>2, <4>3
    <3> QED BY <3>1, <3>2
  <2> QED BY <2>1, <2>2, <2>3, <2>4 DEF StructOK
<1>10. /\ num_devices' \in Nat /\ mod' \in Nat
       /\ num_devices' + Share(s, list) = num_devices + Share(s, list')
       /\ mod' + Share(s, Moduled) = mod + Share(s, Moduled')
  BY <1>8 DEF Share, DeviceInv, Types
<1>11. dev'[s].mem = dev[s].mem /\ dev'[s].id = dev[s].id /\ dev'[s].minor = dev[s].minor
  BY <1>3
<1> QED BY <1>3, <1>4, <1>9, <1>10, <1>11, StayKeeps

\* The references of a struct that has one.
LEMMA Referenced ==
  ASSUME DeviceInv, Explored, NEW s \in Structs, s \in Registered \/ dev[s].refs # 0
  PROVE  /\ dev[s].mem = "live" /\ dev[s].refs # 0
         /\ dev[s] \in Fields /\ dev[s].opens \in Nat /\ dev[s].refs \in Nat
         /\ IsFiniteSet(Holders(s)) /\ Cardinality(Holders(s)) \in Nat /\ Share(s, Registered) \in Nat
         /\ dev[s].refs = dev[s].opens + Cardinality(Holders(s)) + Share(s, Registered)
<1>1. DeadStruct(s) /\ RefsCounted(s)
  BY DEF DeviceInv, StructOK
<1>2. dev[s].mem = "live"
  BY <1>1 DEF DeadStruct, Registered, Dangling
<1>3. /\ dev[s] \in Fields /\ dev[s].opens \in Nat /\ dev[s].refs \in Nat
      /\ IsFiniteSet(Holders(s)) /\ Cardinality(Holders(s)) \in Nat
  BY NatFields DEF DeviceInv
<1>4. dev[s].refs = dev[s].opens + Cardinality(Holders(s)) + Share(s, Registered)
  BY <1>1, <1>2 DEF RefsCounted
<1>5. dev[s].refs # 0
  <2>1. CASE s \in Registered
    <3>1. Share(s, Registered) = 1
      BY <2>1 DEF Share
    <3> QED BY ONLY <1>3, <1>4, <3>1
  <2> QED BY <2>1
<1>6. Share(s, Registered) \in Nat
  BY DEF Share
<1> QED BY <1>2, <1>3, <1>4, <1>5, <1>6

\* A thread that looked s up takes a reference and goes on to hold it.
LEMMA HolderJoins ==
  ASSUME DeviceInv, NEW t \in Threads, pc[t] = "idle", NEW s \in Structs, NEW where \in Holding, Goto(t, where, s)
  PROVE  /\ pc' \in [Threads -> {"idle", "add"} \union Dangling \union Exporting \union Holding]
         /\ ptr' \in [Threads -> Structs \union {0}]
         /\ \A u \in Threads : pc'[u] = "idle" <=> ptr'[u] = 0
         /\ \A u \in Threads : \/ ptr'[u] = ptr[u] /\ pc'[u] = pc[u]
                               \/ ptr[u] = 0 /\ ptr'[u] = s /\ pc'[u] \in Holding
         /\ Cardinality(Holders(s)') = Cardinality(Holders(s)) + 1
<1>1. Types /\ where # "idle" /\ s # 0 /\ ptr[t] = 0
  BY NoZero DEF DeviceInv, Types, Holding
<1>2. /\ pc' \in [Threads -> {"idle", "add"} \union Dangling \union Exporting \union Holding]
      /\ ptr' \in [Threads -> Structs \union {0}]
      /\ \A u \in Threads : pc'[u] = "idle" <=> ptr'[u] = 0
      /\ pc'[t] = where /\ ptr'[t] = s
      /\ \A u \in Threads : u # t => ptr'[u] = ptr[u] /\ pc'[u] = pc[u]
  BY <1>1, Goes
<1>3. t \notin Holders(s) /\ Holders(s)' = Holders(s) \union {t}
  BY <1>1, <1>2 DEF Holders
<1>4. IsFiniteSet(Holders(s))
  BY <1>1, NatFields
<1>5. Cardinality(Holders(s)') = Cardinality(Holders(s)) + 1
  BY <1>3, <1>4, FS_AddElement
<1>6. \A u \in Threads : \/ ptr'[u] = ptr[u] /\ pc'[u] = pc[u]
                         \/ ptr[u] = 0 /\ ptr'[u] = s /\ pc'[u] \in Holding
  BY <1>1, <1>2
<1> QED BY <1>2, <1>5, <1>6

\* pxd_open, a resize, a removal and its work's first part.
LEMMA TakesKeep ==
  ASSUME DeviceInv, Explored, load # "unloaded",
         \/ \E s \in Structs : Open(s) \/ WorkFreeDisk(s)
         \/ \E t \in Threads, d \in DevIds : \/ ResizeLookup(t, d) /\ UNCHANGED fault
                                             \/ \E force \in BOOLEAN : Remove(t, d, force)
  PROVE  DeviceInv'
<1>0. Types /\ list \subseteq Structs /\ dev \in [Structs -> Fields] /\ \A s \in Structs : StructOK(s)
  BY DEF DeviceInv, Types
<1>1. ASSUME NEW s \in Structs, Open(s) PROVE DeviceInv'
  <2> DEFINE r == [dev[s] EXCEPT !.opens = @ + 1, !.refs = @ + 1]
  <2>1. /\ dev[s].disk = "added" /\ dev[s].opens < MaxOpens /\ dev' = [dev EXCEPT ![s] = r]
        /\ UNCHANGED <<load, held, list, num_devices, minors, mod, pc, ptr, fault, lost>>
    BY <1>0, <1>1 DEF Open, load_vars, thread_vars
  <2>2. s \in Registered
    <3>1. Stage(s) /\ \A t \in Threads : ptr[t] = s => ThreadOn(t, s)
      BY <1>0 DEF StructOK
    <3>2. CASE dev[s].exported
      BY <3>2 DEF Registered
    <3>3. CASE ~dev[s].exported
      <4>1. PICK t \in Threads : ptr[t] = s /\ pc[t] \in Exporting
        BY <2>1, <3>1, <3>3 DEF Stage
      <4>2. pc[t] = "export done"
        BY <2>1, <3>1, <4>1 DEF ThreadOn
      <4> QED BY <4>1, <4>2 DEF Registered
    <3> QED BY <3>2, <3>3
  <2>3. /\ dev[s].mem = "live" /\ dev[s].refs # 0
        /\ dev[s] \in Fields /\ dev[s].opens \in Nat /\ dev[s].refs \in Nat
        /\ Cardinality(Holders(s)) \in Nat /\ Share(s, Registered) \in Nat
        /\ dev[s].refs = dev[s].opens + Cardinality(Holders(s)) + Share(s, Registered)
    BY <2>2, Referenced
  <2>4. dev[s].opens + 1 \in 0 .. MaxOpens /\ dev[s].refs + 1 \in Nat
    BY <2>1, <2>3, DeviceAssumption
  <2>5. /\ r \in Fields /\ r.mem = dev[s].mem /\ r.id = dev[s].id /\ r.minor = dev[s].minor
        /\ r.exported = dev[s].exported /\ r.removing = dev[s].removing /\ r.disk = dev[s].disk
        /\ r.refs = dev[s].refs + 1 /\ r.work = dev[s].work /\ r.opens = dev[s].opens + 1
    BY <2>3, <2>4 DEF Fields
  <2> HIDE DEF r
  <2>6. Holders(s)' = Holders(s)
    BY <2>1 DEF Holders
  <2>7. dev[s].refs + 1 = (dev[s].opens + 1) + Cardinality(Holders(s)) + Share(s, Registered) /\ dev[s].refs + 1 # 0
    BY ONLY <2>3
  <2>8. r.refs = r.opens + Cardinality(Holders(s)') + Share(s, Registered) /\ r.refs # 0
    BY <2>5, <2>6, <2>7
  <2>9. /\ pc' \in [Threads -> {"idle", "add"} \union Dangling \union Exporting \union Holding]
        /\ ptr' \in [Threads -> Structs \union {0}]
        /\ \A u \in Threads : pc'[u] = "idle" <=> ptr'[u] = 0
    BY <1>0, <2>1 DEF Types
  <2> QED BY <2>1, <2>3, <2>5, <2>8, <2>9, TakeKeeps
<1>2. ASSUME NEW s \in Structs, WorkFreeDisk(s) PROVE DeviceInv'
  <2> DEFINE r == [dev[s] EXCEPT !.disk = "none", !.work = "unlink"]
  <2>1. /\ dev[s].work = "queued" /\ dev' = [dev EXCEPT ![s] = r]
        /\ UNCHANGED <<load, held, list, num_devices, minors, mod, pc, ptr, fault, lost>>
    BY <1>0, <1>2 DEF WorkFreeDisk, load_vars, thread_vars
  <2>2. s \in Registered
    BY <2>1 DEF Registered
  <2>3. /\ dev[s].mem = "live" /\ dev[s].refs # 0 /\ dev[s] \in Fields
        /\ dev[s].refs = dev[s].opens + Cardinality(Holders(s)) + Share(s, Registered)
    BY <2>2, Referenced
  <2>4. dev[s].exported /\ dev[s].removing
    BY <1>0, <2>1 DEF StructOK, Stage
  <2>5. /\ r \in Fields /\ r.mem = dev[s].mem /\ r.id = dev[s].id /\ r.minor = dev[s].minor
        /\ r.exported = dev[s].exported /\ r.removing = dev[s].removing
        /\ r.refs = dev[s].refs /\ r.work = "unlink" /\ r.disk = "none" /\ r.opens = dev[s].opens
    BY <2>3 DEF Fields
  <2> HIDE DEF r
  <2>6. Holders(s)' = Holders(s)
    BY <2>1 DEF Holders
  <2>7. r.refs = r.opens + Cardinality(Holders(s)') + Share(s, Registered) /\ r.refs # 0
    BY <2>3, <2>5, <2>6
  <2>8. /\ pc' \in [Threads -> {"idle", "add"} \union Dangling \union Exporting \union Holding]
        /\ ptr' \in [Threads -> Structs \union {0}]
        /\ \A u \in Threads : pc'[u] = "idle" <=> ptr'[u] = 0
    BY <1>0, <2>1 DEF Types
  <2> QED BY <2>1, <2>3, <2>4, <2>5, <2>7, <2>8, TakeKeeps
<1>3. ASSUME NEW t \in Threads, NEW d \in DevIds, ResizeLookup(t, d), UNCHANGED fault PROVE DeviceInv'
  <2>1. PICK s \in Structs :
          /\ dev[s].refs # 0 /\ dev' = [dev EXCEPT ![s].refs = @ + 1] /\ Goto(t, "resize", s)
    BY <1>0, <1>3 DEF ResizeLookup, Found, Explored
  <2>2. pc[t] = "idle" /\ UNCHANGED <<load, held, list, num_devices, minors, mod, lost>>
    BY <1>3 DEF ResizeLookup, load_vars
  <2> DEFINE r == [dev[s] EXCEPT !.refs = @ + 1]
  <2>3. /\ dev[s].mem = "live"
        /\ dev[s] \in Fields /\ dev[s].opens \in Nat /\ dev[s].refs \in Nat
        /\ Cardinality(Holders(s)) \in Nat /\ Share(s, Registered) \in Nat
        /\ dev[s].refs = dev[s].opens + Cardinality(Holders(s)) + Share(s, Registered)
    BY <2>1, Referenced
  <2>4. dev' = [dev EXCEPT ![s] = r]
    BY <1>0, <2>1
  <2>5. /\ r \in Fields /\ r.mem = dev[s].mem /\ r.id = dev[s].id /\ r.minor = dev[s].minor
        /\ r.exported = dev[s].exported /\ r.removing = dev[s].removing /\ r.disk = dev[s].disk
        /\ r.refs = dev[s].refs + 1 /\ r.work = dev[s].work /\ r.opens = dev[s].opens
    BY <2>3 DEF Fields
  <2> HIDE DEF r
  <2>6. "resize" \in Holding
    BY DEF Holding
  <2>7. /\ pc' \in [Threads -> {"idle", "add"} \union Dangling \union Exporting \union Holding]
        /\ ptr' \in [Threads -> Structs \union {0}]
        /\ \A u \in Threads : pc'[u] = "idle" <=> ptr'[u] = 0
        /\ \A u \in Threads : \/ ptr'[u] = ptr[u] /\ pc'[u] = pc[u]
                              \/ ptr[u] = 0 /\ ptr'[u] = s /\ pc'[u] \in Holding
        /\ Cardinality(Holders(s)') = Cardinality(Holders(s)) + 1
    BY <2>1, <2>2, <2>6, HolderJoins
  <2>8. dev[s].refs + 1 = dev[s].opens + (Cardinality(Holders(s)) + 1) + Share(s, Registered) /\ dev[s].refs + 1 # 0
    BY ONLY <2>3
  <2>9. r.refs = r.opens + Cardinality(Holders(s)') + Share(s, Registered) /\ r.refs # 0
    BY <2>5, <2>7, <2>8
  <2> QED BY <1>3, <2>1, <2>2, <2>3, <2>4, <2>5, <2>7, <2>9, TakeKeeps
<1>4. ASSUME NEW t \in Threads, NEW d \in DevIds, NEW force \in BOOLEAN, Remove(t, d, force) PROVE DeviceInv'
  <2>1. PICK s \in Structs :
          /\ s \in list /\ dev[s].exported
          /\ dev' = [dev EXCEPT ![s].removing = TRUE, ![s].refs = @ + 1,
                                ![s].work = IF dev[s].removing THEN @ ELSE "queued"]
          /\ Goto(t, "remove", s)
    BY <1>0, <1>4 DEF Remove, Found
  <2>2. pc[t] = "idle" /\ UNCHANGED <<load, held, list, num_devices, minors, mod, fault, lost>>
    BY <1>4 DEF Remove, load_vars
  <2>3. s \in Registered
    BY <2>1 DEF Registered
  <2>4. /\ dev[s].mem = "live" /\ dev[s].refs # 0
        /\ dev[s] \in Fields /\ dev[s].opens \in Nat /\ dev[s].refs \in Nat
        /\ Cardinality(Holders(s)) \in Nat /\ Share(s, Registered) \in Nat
        /\ dev[s].refs = dev[s].opens + Cardinality(Holders(s)) + Share(s, Registered)
    BY <2>3, Referenced
  <2>5. PICK w \in {"queued", "unlink"} : /\ w = IF dev[s].removing THEN dev[s].work ELSE "queued"
                                          /\ w = "unlink" => dev[s].disk = "none"
    BY <1>0, <2>1 DEF StructOK, Stage
  <2> DEFINE n == dev[s].refs + 1
             r == [dev[s] EXCEPT !.removing = TRUE, !.refs = n, !.work = w]
  <2>6. dev' = [dev EXCEPT ![s] = r]
    BY <1>0, <2>1, <2>5
  <2>7. /\ r \in Fields /\ r.mem = dev[s].mem /\ r.id = dev[s].id /\ r.minor = dev[s].minor
        /\ r.exported = dev[s].exported /\ r.removing = TRUE
        /\ r.refs = dev[s].refs + 1 /\ r.work = w /\ r.disk = dev[s].disk /\ r.opens = dev[s].opens
    <3>1. n \in Nat
      BY ONLY <2>4
    <3> HIDE DEF n
    <3>2. /\ r \in Fields /\ r.mem = dev[s].mem /\ r.id = dev[s].id /\ r.minor = dev[s].minor
          /\ r.exported = dev[s].exported /\ r.removing = TRUE
          /\ r.refs = n /\ r.work = w /\ r.disk = dev[s].disk /\ r.opens = dev[s].opens
      BY <2>4, <3>1 DEF Fields
    <3> QED BY <3>2 DEF n
  <2> HIDE DEF r
  <2>8. "remove" \in Holding /\ (w = "queued" \/ w = "unlink")
    BY DEF Holding
  <2>9. /\ pc' \in [Threads -> {"idle", "add"} \union Dangling \union Exporting \union Holding]
        /\ ptr' \in [Threads -> Structs \union {0}]
        /\ \A u \in Threads : pc'[u] = "idle" <=> ptr'[u] = 0
        /\ \A u \in Threads : \/ ptr'[u] = ptr[u] /\ pc'[u] = pc[u]
                              \/ ptr[u] = 0 /\ ptr'[u] = s /\ pc'[u] \in Holding
        /\ Cardinality(Holders(s)') = Cardinality(Holders(s)) + 1
    BY <2>1, <2>2, <2>8, HolderJoins
  <2>10. dev[s].refs + 1 = dev[s].opens + (Cardinality(Holders(s)) + 1) + Share(s, Registered) /\ dev[s].refs + 1 # 0
    BY ONLY <2>4
  <2>11. r.refs = r.opens + Cardinality(Holders(s)') + Share(s, Registered) /\ r.refs # 0
    BY <2>7, <2>9, <2>10
  <2>12. dev[s].exported /\ r.removing /\ (r.work = "queued" \/ (r.work = "unlink" /\ r.disk = "none"))
    <3>1. r.work = w /\ r.disk = dev[s].disk /\ r.removing
      BY <2>7
    <3>2. (w = "queued" \/ w = "unlink") /\ (w = "unlink" => dev[s].disk = "none")
      BY <2>5, <2>8
    <3>3. r.work = "queued" \/ (r.work = "unlink" /\ r.disk = "none")
      BY ONLY <3>1, <3>2
    <3> QED BY <2>1, <3>1, <3>3
  <2> QED BY <2>1, <2>2, <2>4, <2>6, <2>7, <2>9, <2>11, <2>12, TakeKeeps
<1> QED BY <1>1, <1>2, <1>3, <1>4

\* The device leaves the list.
LEMMA UnlinkKeeps ==
  ASSUME DeviceInv, Explored, load # "unloaded", NEW s \in Structs, WorkUnlink(s)
  PROVE  DeviceInv'
<1> DEFINE r == [dev[s] EXCEPT !.exported = FALSE, !.work = "put"]
<1>0. Types /\ list \subseteq Structs /\ dev \in [Structs -> Fields] /\ StructOK(s)
  BY DEF DeviceInv, Types
<1>1. /\ dev[s].work = "unlink" /\ list' = list \ {s} /\ num_devices' = num_devices - 1
      /\ dev' = [dev EXCEPT ![s] = r]
      /\ UNCHANGED <<load, held, minors, mod, pc, ptr, fault, lost>>
  BY <1>0 DEF WorkUnlink, load_vars, thread_vars
<1>2. s \in Registered
  BY <1>1 DEF Registered
<1>3. /\ dev[s].mem = "live" /\ dev[s].refs # 0 /\ dev[s] \in Fields
      /\ dev[s].refs = dev[s].opens + Cardinality(Holders(s)) + Share(s, Registered)
  BY <1>2, Referenced
<1>4. dev[s].exported /\ dev[s].removing /\ s \in list
  BY <1>0, <1>1 DEF StructOK, Stage
<1>5. /\ r \in Fields /\ r.mem = dev[s].mem /\ r.id = dev[s].id /\ r.minor = dev[s].minor
      /\ r.exported = FALSE /\ r.disk = dev[s].disk
      /\ r.refs = dev[s].refs /\ r.work = "put" /\ r.opens = dev[s].opens
  BY <1>3 DEF Fields
<1> HIDE DEF r
<1>6. dev' \in [Structs -> Fields] /\ dev'[s] = r /\ \A x \in Structs \ {s} : dev'[x] = dev[x]
  BY <1>0, <1>1, <1>5
<1>7. Only(s)
  BY <1>1, <1>6 DEF Only
<1>8. s \in Registered' /\ s \in Moduled' /\ s \in Moduled
  BY <1>2, <1>5, <1>6 DEF Registered, Moduled
<1>9. \A u \in Threads : ptr[u] = s => pc[u] \notin Exporting \union {"add"}
  BY <1>0, <1>4 DEF StructOK, ThreadOn
<1>10. StructOK(s)'
  <2>1. RefsCounted(s)'
    <3>1. Holders(s)' = Holders(s) /\ Share(s, Registered') = Share(s, Registered)
      BY <1>1, <1>2, <1>8 DEF Holders, Share
    <3>2. dev'[s].refs = dev'[s].opens + Cardinality(Holders(s)') + Share(s, Registered') /\ dev'[s].refs # 0
      BY <1>3, <1>5, <1>6, <3>1
    <3> QED BY <1>8, <3>2 DEF RefsCounted
  <2>2. DeadStruct(s)'
    BY <1>3, <1>5, <1>6 DEF DeadStruct
  <2>3. dev[s].disk = "none"
    BY <1>0, <1>1 DEF StructOK, Stage
  <2>4. Stage(s)'
    BY <1>1, <1>5, <1>6, <2>3 DEF Stage
  <2>5. ASSUME NEW u \in Threads, ptr'[u] = s PROVE ThreadOn(u, s)'
    BY <1>1, <1>9, <2>5 DEF ThreadOn, Exporting
  <2> QED BY <2>1, <2>2, <2>4, <2>5 DEF StructOK
<1>11. /\ num_devices' \in Nat /\ num_devices' + Share(s, list) = num_devices + Share(s, list')
       /\ mod' \in Nat /\ mod' + Share(s, Moduled) = mod + Share(s, Moduled')
  <2>1. num_devices \in Nat /\ mod \in Nat /\ num_devices >= 1
    BY <1>4, CountsPositive DEF DeviceInv, Types
  <2>2. Share(s, list) = 1 /\ Share(s, list') = 0 /\ Share(s, Moduled') = Share(s, Moduled)
    BY <1>1, <1>4, <1>8 DEF Share
  <2>3. num_devices' = num_devices - 1 /\ mod' = mod
    BY <1>1
  <2>4. num_devices' \in Nat /\ num_devices' + 1 = num_devices + 0
    BY ONLY <2>1, <2>3
  <2> QED BY <2>1, <2>2, <2>3, <2>4
<1>12. /\ pc' \in [Threads -> {"idle", "add"} \union Dangling \union Exporting \union Holding]
       /\ ptr' \in [Threads -> Structs \union {0}]
       /\ \A u \in Threads : pc'[u] = "idle" <=> ptr'[u] = 0
  BY <1>0, <1>1 DEF Types
<1>13. dev'[s].mem = dev[s].mem /\ dev'[s].id = dev[s].id /\ dev'[s].minor = dev[s].minor
  BY <1>5, <1>6
<1> QED BY <1>1, <1>6, <1>7, <1>10, <1>11, <1>12, <1>13, StayKeeps

\* pxdctx_set_connected changes nothing that the invariant is about.
LEMMA ConnectedKeeps ==
  ASSUME DeviceInv, Explored, load # "unloaded", NEW enable \in BOOLEAN, SetConnected(enable)
  PROVE  DeviceInv'
<1>0. Types /\ list \subseteq Structs /\ dev \in [Structs -> Fields]
  BY DEF DeviceInv, Types
<1>1. /\ dev' = [s \in Structs |-> IF s \in list THEN [dev[s] EXCEPT !.connected = enable] ELSE dev[s]]
      /\ UNCHANGED <<load, held, list, num_devices, minors, mod, pc, ptr, fault, lost>>
  BY DEF SetConnected, load_vars, thread_vars
<1>2. ASSUME NEW s \in Structs
      PROVE  /\ dev'[s] \in Fields /\ dev'[s].mem = dev[s].mem /\ dev'[s].id = dev[s].id /\ dev'[s].minor = dev[s].minor
             /\ dev'[s].exported = dev[s].exported /\ dev'[s].removing = dev[s].removing /\ dev'[s].opens = dev[s].opens
             /\ dev'[s].refs = dev[s].refs /\ dev'[s].disk = dev[s].disk /\ dev'[s].work = dev[s].work
  <2>1. dev[s] \in Fields
    BY <1>0
  <2>2. dev'[s] = IF s \in list THEN [dev[s] EXCEPT !.connected = enable] ELSE dev[s]
    BY <1>1
  <2>3. CASE s \in list
    <3>1. dev'[s] = [dev[s] EXCEPT !.connected = enable]
      BY <2>2, <2>3
    <3> QED BY <2>1, <3>1 DEF Fields
  <2>4. CASE s \notin list
    BY <2>1, <2>2, <2>4
  <2> QED BY <2>3, <2>4
<1>3. dev' \in [Structs -> Fields]
  BY <1>1, <1>2
<1>4. Types'
  BY <1>0, <1>1, <1>3 DEF Types
<1>5. Registered' = Registered
  BY <1>1, <1>2 DEF Registered
<1>6. Moduled' = Moduled
  BY <1>1, <1>5 DEF Moduled
<1>7. ASSUME NEW s \in Structs PROVE StructOK(s)'
  <2>1. StructOK(s)
    BY DEF DeviceInv
  <2>2. Holders(s)' = Holders(s)
    BY <1>1 DEF Holders
  <2>3. RefsCounted(s)'
    BY <1>1, <1>2, <1>5, <2>1, <2>2 DEF StructOK, RefsCounted
  <2>4. DeadStruct(s)' /\ Stage(s)'
    BY <1>1, <1>2, <2>1 DEF StructOK, DeadStruct, Stage
  <2>5. ASSUME NEW t \in Threads, ptr'[t] = s PROVE ThreadOn(t, s)'
    <3>1. ThreadOn(t, s)
      BY <1>1, <2>1, <2>5 DEF StructOK
    <3> QED BY <1>1, <1>2, <3>1 DEF ThreadOn
  <2> QED BY <2>3, <2>4, <2>5 DEF StructOK
<1>8. MinorsKept'
  BY <1>1, <1>2, MinorsSame
<1>9. Counted'
  <2>1. Counted
    BY DEF DeviceInv
  <2>2. \A r, s \in list : dev'[r].id = dev[r].id /\ dev'[s].id = dev[s].id
    BY <1>0, <1>2
  <2> QED BY <1>1, <1>6, <2>1, <2>2 DEF Counted
<1>10. HoldersSafe' /\ UnloadedIsIdle'
  BY <1>1 DEF DeviceInv, HoldersSafe, UnloadedIsIdle
<1> QED BY <1>4, <1>7, <1>8, <1>9, <1>10 DEF DeviceInv

--------------------------------------------------------------------------------
\* A handler uses memory that is freed or missing: what is left to show is that
\* it held no reference.
LEMMA FaultKeeps ==
  ASSUME DeviceInv, Explored, load = "ready", NEW t \in Threads,
         \/ UseFreed(t)
         \/ ExportAddFails(t)
         \/ ResizeDiskGone(t)
         \/ ExportDisk(t) /\ Raced(ptr[t])
         \/ \E d \in DevIds : ResizeLookup(t, d) /\ fault' # fault
  PROVE  DeviceInv'
<1>0. Types /\ dev \in [Structs -> Fields] /\ \A s \in Structs : StructOK(s)
  BY DEF DeviceInv, Types
<1>1. ASSUME Types', load' = load, fault' \notin {"none", "add", "remove", "resize"} PROVE DeviceInv'
  BY <1>1 DEF DeviceInv, HoldersSafe, UnloadedIsIdle, Explored
<1>2. CASE UseFreed(t)
  <2>1. /\ ptr[t] # 0 /\ dev[ptr[t]].mem = "freed" /\ fault' = pc[t]
        /\ UNCHANGED <<load, held, dev, list, num_devices, minors, mod, pc, ptr, lost>>
    BY <1>2 DEF UseFreed, load_vars, thread_vars
  <2>2. PICK s \in Structs : s = ptr[t]
    BY <1>0, <2>1 DEF Types
  <2>3. pc[t] \in Dangling
    BY <1>0, <2>1, <2>2 DEF StructOK, DeadStruct
  <2>4. Types'
    BY <1>0, <2>1 DEF Types
  <2> QED BY <1>1, <2>1, <2>3, <2>4 DEF Dangling
<1>3. CASE ExportDisk(t) /\ Raced(ptr[t])
  <2>1. /\ fault' = "export twice"
        /\ UNCHANGED <<load, held, dev, list, num_devices, minors, mod, pc, ptr, lost>>
    BY <1>3 DEF ExportDisk, load_vars, thread_vars
  <2>2. Types'
    BY <1>0, <2>1 DEF Types
  <2> QED BY <1>1, <2>1, <2>2
<1>4. CASE \E d \in DevIds : ResizeLookup(t, d) /\ fault' # fault
  <2>1. /\ fault' = "no disk"
        /\ UNCHANGED <<load, held, dev, list, num_devices, minors, mod, pc, ptr, lost>>
    BY <1>4 DEF ResizeLookup, load_vars, thread_vars
  <2>2. Types'
    BY <1>0, <2>1 DEF Types
  <2> QED BY <1>1, <2>1, <2>2
<1>5. CASE ExportAddFails(t)
  <2>1. /\ pc[t] = "export add" /\ Put(ptr[t], dev[ptr[t]]) /\ fault' = "export add"
        /\ UNCHANGED <<load, held, list, num_devices, mod, pc, ptr, lost>>
    BY <1>5 DEF ExportAddFails, load_vars, thread_vars
  <2>2. PICK s \in Structs : s = ptr[t]
    BY <1>0, <2>1 DEF Types
  <2>3. s \in Registered
    BY <2>1, <2>2 DEF Registered
  <2>4. dev[s].refs # 0 /\ dev[s] \in Fields /\ dev[s].refs \in Nat /\ dev[s].opens \in 0 .. MaxOpens
    BY <1>0, <2>3, Referenced, NatFields
  <2>5. dev[s].refs - 1 \in Nat
    BY <2>4
  <2>6. [dev[s] EXCEPT !.refs = @ - 1] \in Fields
    BY <2>4, <2>5 DEF Fields
  <2>7. [Freed EXCEPT !.opens = dev[s].opens] \in Fields
    BY <2>4, BlankFields DEF Fields
  <2>8. dev' \in [Structs -> Fields] /\ minors' \subseteq minors
    BY <1>0, <2>1, <2>2, <2>6, <2>7 DEF Put
  <2>9. Types'
    BY <1>0, <2>1, <2>8 DEF Types
  <2> QED BY <1>1, <2>1, <2>9
<1>6. CASE ResizeDiskGone(t)
  <2>1. /\ fault' = "resize disk"
        /\ UNCHANGED <<load, held, dev, list, num_devices, minors, mod, pc, ptr, lost>>
    BY <1>6 DEF ResizeDiskGone, load_vars, thread_vars
  <2>2. Types'
    BY <1>0, <2>1 DEF Types
  <2> QED BY <1>1, <2>1, <2>2
<1> QED BY <1>2, <1>3, <1>4, <1>5, <1>6

\* The devices are as they were.
LEMMA SameDevices ==
  ASSUME DeviceInv, UNCHANGED device_vars, held' \subseteq DOMAIN Stages \union {"conn"},
         load' \in DOMAIN Stages \union {"ready", "failed", "unloaded"}, UnloadedIsIdle'
  PROVE  DeviceInv'
<1>1. UNCHANGED <<dev, list, num_devices, minors, mod, pc, ptr, fault, lost>>
  BY DEF device_vars, thread_vars
<1>2. Types' /\ HoldersSafe'
  BY <1>1 DEF DeviceInv, Types, HoldersSafe
<1>3. Registered' = Registered
  BY <1>1 DEF Registered
<1>4. Moduled' = Moduled
  BY <1>1, <1>3 DEF Moduled
<1>5. ASSUME NEW s \in Structs, StructOK(s) PROVE StructOK(s)'
  <2>1. DeadStruct(s)' /\ Stage(s)' /\ \A t \in Threads : ptr'[t] = s => ThreadOn(t, s)'
    BY <1>1, <1>5 DEF StructOK, DeadStruct, Stage, ThreadOn
  <2>2. Holders(s)' = Holders(s)
    BY <1>1 DEF Holders
  <2>3. RefsCounted(s)'
    BY <1>1, <1>3, <1>5, <2>2 DEF StructOK, RefsCounted
  <2> QED BY <2>1, <2>3 DEF StructOK
<1>6. Counted => Counted'
  BY <1>1, <1>4 DEF Counted
<1>7. Live' = Live /\ Owned' = Owned /\ Allocated' = Allocated
  BY <1>1 DEF Live, Owned, Allocated
<1>8. MinorsKept => MinorsKept'
  BY <1>1, <1>7 DEF MinorsKept, MinorsOwned, Explored
<1> QED BY <1>1, <1>2, <1>5, <1>6, <1>8 DEF DeviceInv, Explored

\* pxd_init and pxd_exit; the module has no reference left when it is unloaded.
LEMMA LoadKeeps ==
  ASSUME DeviceInv, LoadStep \/ BlkdevUnnoticed \/ LoadFails \/ (Explored /\ Unload)
  PROVE  DeviceInv'
<1>1. CASE LoadStep \/ BlkdevUnnoticed \/ LoadFails
  <2>1. UNCHANGED device_vars /\ load \in DOMAIN Stages
    BY <1>1 DEF LoadStep, BlkdevUnnoticed, LoadFails, Loading, Stages
  <2>2. load' \in DOMAIN Stages \union {"ready", "failed"}
    BY <1>1, <2>1 DEF LoadStep, BlkdevUnnoticed, LoadFails, Stages
  <2>3. load' # "unloaded"
    BY <2>2 DEF Stages
  <2>4. held \subseteq DOMAIN Stages \union {"conn"}
    BY DEF DeviceInv, Types
  <2>5. held' \subseteq DOMAIN Stages \union {"conn"}
    <3>1. CASE LoadStep \/ BlkdevUnnoticed
      BY <2>1, <2>4, <3>1 DEF LoadStep, BlkdevUnnoticed
    <3>2. CASE LoadFails
      <4>1. held' = Residue(load)
        BY <3>2 DEF LoadFails
      <4>2. Residue(load) \subseteq held \union {"conn"}
        BY DEF Residue
      <4> QED BY <2>4, <4>1, <4>2
    <3> QED BY <1>1, <3>1, <3>2
  <2> QED BY <2>1, <2>2, <2>3, <2>5, SameDevices DEF UnloadedIsIdle
<1>2. CASE Explored /\ Unload
  <2>1. /\ mod = 0 /\ load' = "unloaded" /\ held' = {} /\ UNCHANGED device_vars /\ dev' = dev
        /\ \A t \in Threads : pc[t] = "idle"
        /\ \A s \in Structs : dev[s].opens = 0
    BY <1>2 DEF Unload, device_vars
  <2>2. Moduled = {}
    <3>1. IsFiniteSet(Moduled) /\ mod = Cardinality(Moduled)
      BY <1>2, SetsFinite DEF DeviceInv, Counted
    <3> QED BY <2>1, <3>1, FS_EmptySet
  <2>3. ASSUME NEW s \in Structs PROVE dev[s].disk = "none" /\ dev[s].work = "none" /\ ~dev[s].exported
    <3>1. dev[s].work = "none" /\ ~dev[s].exported
      BY <2>2 DEF Moduled, Registered
    <3>2. Stage(s)
      BY <1>2 DEF DeviceInv, StructOK
    <3>3. \A t \in Threads : pc[t] \notin Exporting
      BY <2>1 DEF Exporting
    <3> QED BY <3>1, <3>2, <3>3 DEF Stage
  <2>4. UnloadedIsIdle'
    BY <2>1, <2>3 DEF UnloadedIsIdle
  <2> QED BY <2>1, <2>4, SameDevices
<1> QED BY <1>1, <1>2

\* Every step keeps the invariant.
LEMMA DeviceKept == DeviceInv /\ [Next]_vars => DeviceInv'
<1> SUFFICES ASSUME DeviceInv, [Next]_vars PROVE DeviceInv'
  OBVIOUS
<1>1. CASE UNCHANGED vars
  BY <1>1, SameDevices DEF vars, device_vars, load_vars, DeviceInv, Types, UnloadedIsIdle
<1>2. CASE LoadStep \/ BlkdevUnnoticed \/ LoadFails
  BY <1>2, LoadKeeps
<1>3. ASSUME NEW s \in Structs, Work(s) PROVE DeviceInv'
  <2>1. Explored /\ dev[s].work # "none"
    BY <1>3 DEF Work, WorkFreeDisk, WorkUnlink, WorkPut
  <2>2. load # "unloaded"
    BY <2>1 DEF DeviceInv, UnloadedIsIdle
  <2> QED BY <1>3, <2>1, <2>2, TakesKeep, UnlinkKeeps, PutsKeep DEF Work
<1>4. ASSUME load = "ready", Explored, Unload PROVE DeviceInv'
  BY <1>4, LoadKeeps
<1>5. ASSUME load = "ready", Explored, NEW t \in Threads, Handler(t) PROVE DeviceInv'
  <2> USE <1>5
  <2>1. CASE Use(t) \/ Added(t) \/ ExportCheck(t)
    BY <2>1, PointerKeeps
  <2>2. CASE UseFreed(t) \/ ExportAddFails(t) \/ ResizeDiskGone(t)
    BY <2>2, FaultKeeps, Zenon
  <2>3. CASE AddLink(t) \/ AddFails(t) \/ AddBadDepth(t)
    BY <2>3, LinkKeeps, AddFailsKeeps
  <2>4. CASE ExportDisk(t)
    BY <2>4, FaultKeeps, ExportDiskKeeps
  <2>5. CASE ExportBus(t) \/ ExportAdd(t) \/ ExportDone(t)
    BY <2>5, ExportKeeps
  <2>6. CASE ExportFails(t)
    BY <2>6, ExportFailsKeeps
  <2>7. CASE ResizeEnds(t) \/ RemoveEnds(t)
    BY <2>7, PutsKeep
  <2> QED BY <2>1, <2>2, <2>3, <2>4, <2>5, <2>6, <2>7 DEF Handler
<1>6. ASSUME load = "ready", Explored, NEW t \in Threads, Start(t) PROVE DeviceInv'
  <2> USE <1>6
  <2>1. PICK d \in DevIds : \/ Lookup(t, d) \/ AddAlloc(t, d) \/ ExportLookup(t, d) \/ ResizeLookup(t, d)
                            \/ \E force \in BOOLEAN : Remove(t, d, force)
    BY DEF Start
  <2>2. CASE Lookup(t, d) \/ ExportLookup(t, d)
    BY <2>2, PointerKeeps
  <2>3. CASE AddAlloc(t, d)
    BY <2>3, AllocKeeps
  <2>4. CASE ResizeLookup(t, d) /\ fault' = fault
    BY <2>4, TakesKeep
  <2>5. CASE ResizeLookup(t, d) /\ fault' # fault
    BY <2>5, FaultKeeps
  <2>6. CASE \E force \in BOOLEAN : Remove(t, d, force)
    BY <2>6, TakesKeep
  <2> QED BY <2>1, <2>2, <2>3, <2>4, <2>5, <2>6
<1>7. ASSUME load = "ready", Explored, NEW s \in Structs, Open(s) \/ Close(s) PROVE DeviceInv'
  BY <1>7, TakesKeep, PutsKeep
<1>8. ASSUME load = "ready", Explored, NEW enable \in BOOLEAN, SetConnected(enable) PROVE DeviceInv'
  BY <1>8, ConnectedKeeps
<1> QED BY <1>1, <1>2, <1>3, <1>4, <1>5, <1>6, <1>7, <1>8 DEF Next

LEMMA DeviceInvariant == Spec => []DeviceInv
<1>1. Spec => Init /\ [][Next]_vars
  BY PTL DEF Spec
<1> QED BY <1>1, DeviceInitial, DeviceKept, PTL

\* The list, the count, the minors and the module's references agree on which
\* devices there are, through every race of add, export, removal and unload.
THEOREM DevicesSafe == Spec => []DevicesSound
<1>1. DeviceInv => DevicesSound
  <2> SUFFICES ASSUME DeviceInv PROVE DevicesSound
    OBVIOUS
  <2>1. TypeOK
    <3>1. ASSUME NEW s \in Structs
          PROVE  /\ dev[s].refs \in Nat /\ dev[s].opens \in 0 .. MaxOpens
                 /\ dev[s].disk \in {"none", "made", "added"}
                 /\ dev[s].work \in {"none", "queued", "unlink", "put"}
      BY DEF DeviceInv, Types, Fields
    <3> QED BY <3>1 DEF DeviceInv, Types, TypeOK
  <2>2. ListSound
    BY DEF DeviceInv, Counted, ListSound
  <2>3. MinorsOwned
    BY DEF DeviceInv, MinorsKept, MinorsOwned
  <2>4. UnloadedIsIdle
    BY DEF DeviceInv
  <2> QED BY <2>1, <2>2, <2>3, <2>4 DEF DevicesSound
<1> QED BY <1>1, DeviceInvariant, PTL

\* A device that is listed or open keeps its struct, whatever is put, removed
\* or cleaned up by the error paths of export.
THEOREM StructsSafe == Spec => []StructKept
<1>1. DeviceInv => StructKept
  <2> SUFFICES ASSUME DeviceInv, Explored, NEW s \in Structs, s \in list \/ dev[s].opens > 0
               PROVE  dev[s].mem = "live"
    BY DEF StructKept
  <2>1. DeadStruct(s)
    BY DEF DeviceInv, StructOK
  <2>2. dev[s].opens > 0 => dev[s].opens # 0
    OBVIOUS
  <2> QED BY <2>1, <2>2 DEF DeadStruct
<1> QED BY <1>1, DeviceInvariant, PTL

\* pxd_remove and pxd_ioc_update_size, which take a reference, and pxd_add until
\* it lists its struct, never find the struct freed.  What pxd_add reads after
\* that, and the disk that a resize reaches for, no reference keeps.
THEOREM ReferencesSuffice == Spec => []HoldersSafe
<1>1. DeviceInv => HoldersSafe
  BY DEF DeviceInv
<1> QED BY <1>1, DeviceInvariant, PTL

\* the threads that have passed the check of the limit and not yet listed
Adders == {t \in Threads : pc[t] = "add"}

\* Every thread that has passed the check counts as a device already.
LimitInv == Explored => num_devices + Cardinality(Adders) <= MaxDevices + Cardinality(Threads) - 1

LEMMA AddersFinite ==
  /\ IsFiniteSet(Adders) /\ Cardinality(Adders) \in Nat
  /\ Cardinality(Threads) \in Nat /\ Cardinality(Threads) >= 1
<1>1. IsFiniteSet(Adders)
  BY FS_Subset, DeviceAssumption DEF Adders
<1>2. Cardinality(Threads) \in Nat /\ Cardinality(Threads) # 0
  BY FS_EmptySet, FS_CardinalityType, DeviceAssumption
<1> QED BY <1>1, <1>2, FS_CardinalityType

\* A thread that moves changes the adders by itself only.
LEMMA AddersMove ==
  ASSUME Types, NEW t \in Threads, \A u \in Threads : u # t => pc'[u] = pc[u]
  PROVE  /\ Cardinality(Adders)' \in Nat
         /\ Cardinality(Adders)' + Share(t, Adders) = Cardinality(Adders) + Share(t, Adders')
<1>1. IsFiniteSet(Adders) /\ IsFiniteSet(Adders')
  BY FS_Subset, DeviceAssumption DEF Adders
<1>2. Adders \ {t} = Adders' \ {t}
  BY DEF Adders
<1> QED BY <1>1, <1>2, CountOne

\* Threads may pass the check of PXD_MAX_DEVICES together: the list exceeds the
\* limit by at most one device for each thread but one.
THEOREM LimitSafe == Spec => []LimitOvershot
<1> USE DeviceAssumption
<1>1. Init => LimitInv
  <2> SUFFICES ASSUME Init PROVE LimitInv
    OBVIOUS
  <2>1. Adders = {} /\ num_devices = 0
    BY DEF Init, Adders
  <2>2. Cardinality(Adders) = 0
    BY <2>1, FS_EmptySet
  <2> QED BY <2>1, <2>2, AddersFinite DEF LimitInv
<1>2. DeviceInv /\ DeviceInv' /\ LimitInv /\ [Next]_vars => LimitInv'
  <2> SUFFICES ASSUME DeviceInv, DeviceInv', LimitInv, [Next]_vars, Explored' PROVE LimitInv'
    BY DEF LimitInv
  <2>1. num_devices \in Nat /\ num_devices' \in Nat /\ Types
    BY DEF DeviceInv, Types
  <2>2. ASSUME Explored, UNCHANGED <<pc, num_devices>> PROVE LimitInv'
    BY <2>2 DEF LimitInv, Adders
  <2>3. CASE UNCHANGED <<pc, num_devices, fault>>
    BY <2>2, <2>3 DEF Explored
  <2>4. ASSUME NEW t \in Threads, Explored, \A u \in Threads : u # t => pc'[u] = pc[u],
               \/ num_devices' \in {num_devices, num_devices - 1} /\ pc'[t] # "add"
               \/ num_devices' = num_devices + 1 /\ pc[t] = "add" /\ pc'[t] # "add"
        PROVE  LimitInv'
    <3>1. Cardinality(Adders)' \in Nat /\ Cardinality(Adders)' + Share(t, Adders) = Cardinality(Adders) + Share(t, Adders')
      BY <2>1, <2>4, AddersMove
    <3>2. Share(t, Adders') = 0 /\ Share(t, Adders) \in 0 .. 1 /\ (pc[t] = "add" => Share(t, Adders) = 1)
      BY <2>4 DEF Share, Adders
    <3>3. num_devices + Cardinality(Adders) <= MaxDevices + Cardinality(Threads) - 1
      BY <2>4 DEF LimitInv
    <3>4. num_devices' + Cardinality(Adders)' <= num_devices + Cardinality(Adders)
      BY <2>1, <2>4, <3>1, <3>2, AddersFinite
    <3>5. num_devices' + Cardinality(Adders)' <= MaxDevices + Cardinality(Threads) - 1
      BY <2>1, <3>1, <3>3, <3>4, AddersFinite
    <3> QED BY <3>5 DEF LimitInv
  <2>5. CASE LoadStep \/ BlkdevUnnoticed \/ LoadFails \/ Unload
    BY <2>3, <2>5 DEF LoadStep, BlkdevUnnoticed, LoadFails, Unload, device_vars, thread_vars
  <2>6. ASSUME NEW s \in Structs, Work(s) PROVE LimitInv'
    <3>1. Explored /\ pc' = pc /\ (num_devices' = num_devices \/ num_devices' = num_devices - 1)
      BY <2>6 DEF Work, WorkFreeDisk, WorkUnlink, WorkPut, thread_vars
    <3>2. Adders' = Adders /\ num_devices' <= num_devices
      BY <2>1, <3>1 DEF Adders
    <3>3. num_devices + Cardinality(Adders) <= MaxDevices + Cardinality(Threads) - 1
      BY <3>1 DEF LimitInv
    <3>4. num_devices' + Cardinality(Adders) <= MaxDevices + Cardinality(Threads) - 1
      BY <2>1, <3>2, <3>3, AddersFinite
    <3> QED BY <3>2, <3>4 DEF LimitInv
  <2>7. ASSUME Explored, NEW t \in Threads, Handler(t) PROVE LimitInv'
    <3> USE <2>7
    <3>1. CASE UseFreed(t) \/ ExportAddFails(t) \/ ResizeDiskGone(t)
      BY <2>2, <3>1 DEF UseFreed, ExportAddFails, ResizeDiskGone, thread_vars
    <3>2. ASSUME NEW where, NEW s, Goto(t, where, s)
          PROVE  pc'[t] = where /\ \A u \in Threads : u # t => pc'[u] = pc[u]
      BY <2>1, <3>2 DEF Goto, Types
    <3>3. CASE AddLink(t)
      <4>1. Goto(t, "added", ptr[t]) /\ pc[t] = "add" /\ num_devices' = num_devices + 1
        BY <3>3 DEF AddLink
      <4> QED BY <2>4, <3>2, <4>1
    <3>4. CASE Use(t) \/ Added(t) \/ AddFails(t) \/ AddBadDepth(t) \/ ExportBus(t) \/ ExportAdd(t)
               \/ ExportDone(t) \/ ExportFails(t) \/ ResizeEnds(t) \/ RemoveEnds(t)
      <4>1. \E where \in {"idle", "export add", "export done"} : \E s : Goto(t, where, s)
        BY <3>4 DEF Use, Added, AddFails, AddBadDepth, ExportBus, ExportAdd, ExportDone, ExportFails,
           ResizeEnds, RemoveEnds, Return
      <4>2. num_devices' \in {num_devices, num_devices - 1}
        BY <3>4 DEF Use, Added, AddFails, AddBadDepth, ExportBus, ExportAdd, ExportDone, ExportFails,
           ResizeEnds, RemoveEnds
      <4>3. pc'[t] # "add" /\ \A u \in Threads : u # t => pc'[u] = pc[u]
        BY <3>2, <4>1
      <4> QED BY <2>4, <4>2, <4>3
    <3>5. CASE ExportCheck(t)
      <4>1. num_devices' = num_devices /\ \E where \in {"idle", "export disk"} : \E s : Goto(t, where, s)
        BY <3>5 DEF ExportCheck, Return
      <4>2. pc'[t] # "add" /\ \A u \in Threads : u # t => pc'[u] = pc[u]
        BY <3>2, <4>1
      <4> QED BY <2>4, <4>1, <4>2
    <3>6. CASE ExportDisk(t)
      <4>1. num_devices' = num_devices /\ (pc' = pc \/ \E s : Goto(t, "export bus", s))
        BY <3>6 DEF ExportDisk, thread_vars
      <4>2. pc' = pc \/ (pc'[t] = "export bus" /\ \A u \in Threads : u # t => pc'[u] = pc[u])
        BY <3>2, <4>1
      <4>3. pc' = pc \/ (pc'[t] # "add" /\ \A u \in Threads : u # t => pc'[u] = pc[u])
        BY <4>2
      <4> QED BY <2>2, <2>4, <4>1, <4>3
    <3> QED BY <3>1, <3>3, <3>4, <3>5, <3>6 DEF Handler
  <2>8. ASSUME Explored, NEW t \in Threads, Start(t) PROVE LimitInv'
    <3> USE <2>8
    <3>1. PICK d \in DevIds : \/ Lookup(t, d) \/ AddAlloc(t, d) \/ ExportLookup(t, d) \/ ResizeLookup(t, d)
                              \/ \E force \in BOOLEAN : Remove(t, d, force)
      BY DEF Start
    <3>2. ASSUME NEW where, NEW s, Goto(t, where, s)
          PROVE  pc'[t] = where /\ \A u \in Threads : u # t => pc'[u] = pc[u]
      BY <2>1, <3>2 DEF Goto, Types
    <3>3. CASE AddAlloc(t, d)
      <4>1. pc[t] = "idle" /\ num_devices < MaxDevices /\ num_devices' = num_devices /\ \E s : Goto(t, "add", s)
        BY <3>3 DEF AddAlloc, Room
      <4>2. \A u \in Threads : u # t => pc'[u] = pc[u]
        BY <3>2, <4>1
      <4>3. /\ Cardinality(Adders)' \in Nat
            /\ Cardinality(Adders)' + Share(t, Adders) = Cardinality(Adders) + Share(t, Adders')
        BY <2>1, <4>2, AddersMove
      <4>4. Share(t, Adders) = 0 /\ Share(t, Adders') \in 0 .. 1
        BY <4>1 DEF Share, Adders
      <4>5. Cardinality(Adders) <= Cardinality(Threads) - 1
        <5>1. Adders \subseteq Threads \ {t}
          BY <4>1 DEF Adders
        <5>2. IsFiniteSet(Threads \ {t}) /\ Cardinality(Threads \ {t}) = Cardinality(Threads) - 1
          BY FS_RemoveElement
        <5> QED BY <5>1, <5>2, FS_Subset
      <4>6. num_devices' + Cardinality(Adders)' <= MaxDevices + Cardinality(Threads) - 1
        BY <2>1, <4>1, <4>3, <4>4, <4>5, AddersFinite
      <4> QED BY <4>6 DEF LimitInv
    <3>4. CASE Lookup(t, d) \/ ExportLookup(t, d) \/ \E force \in BOOLEAN : Remove(t, d, force)
      <4>1. \E where \in {"use", "export check", "remove"} : \E s : Goto(t, where, s)
        BY <3>4 DEF Lookup, ExportLookup, Remove
      <4>2. num_devices' = num_devices
        BY <3>4 DEF Lookup, ExportLookup, Remove
      <4>3. pc'[t] # "add" /\ \A u \in Threads : u # t => pc'[u] = pc[u]
        BY <3>2, <4>1
      <4> QED BY <2>4, <4>2, <4>3
    <3>5. CASE ResizeLookup(t, d)
      <4>1. num_devices' = num_devices /\ (pc' = pc \/ \E s : Goto(t, "resize", s))
        BY <3>5 DEF ResizeLookup, thread_vars
      <4>2. pc' = pc \/ (pc'[t] # "add" /\ \A u \in Threads : u # t => pc'[u] = pc[u])
        BY <3>2, <4>1
      <4> QED BY <2>2, <2>4, <4>1, <4>2
    <3> QED BY <3>1, <3>3, <3>4, <3>5
  <2>9. ASSUME NEW s \in Structs, Open(s) \/ Close(s) PROVE LimitInv'
    BY <2>3, <2>9 DEF Open, Close, thread_vars
  <2>10. ASSUME NEW enable \in BOOLEAN, SetConnected(enable) PROVE LimitInv'
    BY <2>3, <2>10 DEF SetConnected, thread_vars
  <2>11. CASE UNCHANGED vars
    BY <2>3, <2>11 DEF vars, thread_vars
  <2> QED BY <2>5, <2>6, <2>7, <2>8, <2>9, <2>10, <2>11 DEF Next
<1>3. DeviceInv /\ LimitInv => LimitOvershot
  <2> SUFFICES ASSUME DeviceInv, LimitInv, Explored
               PROVE  num_devices <= MaxDevices + Cardinality(Threads) - 1
    BY DEF LimitOvershot
  <2>1. num_devices \in Nat /\ num_devices + Cardinality(Adders) <= MaxDevices + Cardinality(Threads) - 1
    BY DEF LimitInv, DeviceInv, Types
  <2> QED BY <2>1, AddersFinite
<1>4. Spec => Init /\ [][Next]_vars
  BY PTL DEF Spec
<1> QED BY <1>1, <1>2, <1>3, <1>4, DeviceInvariant, PTL

================================================================================
