---------------------------- MODULE BackendAcked ----------------------------
(***************************************************************************)
(* Spec => []AckedStateHolds.  What a step of worker p may do to resources *)
(* that are not its own is the same for all calls (Effect, EffectKeeps);   *)
(* what it owes to its own is shown call by call (the Pays lemmas).        *)
(***************************************************************************)
EXTENDS BackendTypes

USE DEF GetCalls, PutCalls, HeadCalls, DelCalls, ListCalls, CreateCalls,
        RemoveCalls, DeleteCalls, LookCalls, FluxCalls

\* The files of x are as they were.
SameFiles(x) ==
    /\ x \in Objects => data'[x] = data[x] /\ meta'[x] = meta[x]
    /\ x \in Buckets => /\ bucketFile'[x] = bucketFile[x]
                        /\ "bucket" \in dirs[x] => "bucket" \in dirs'[x]

\* p writes files of S only, resources of its own request.  Either nothing
\* disturbs it there, or it is known to be in their middle, or they are dirty.
\* A new content is acknowledged only for what p alone had in hand and was in
\* the middle of, or found dirty.
Effect(p, S) ==
    /\ Active(p) /\ S \subseteq Mutates(req[p])
    /\ UNCHANGED <<req, quiet>>
    /\ \A q \in Workers \ {p} :
          /\ pc'[q] = pc[q] /\ got'[q] = got[q]
          /\ todo'[q] = todo[q] /\ scan'[q] = scan[q]
          /\ pc[q] = "MetaWrite" /\ req[q].dst \notin S => unlinked'[q] = unlinked[q]
          /\ pc[q] = "CreateWrite" /\ req[q].bucket \notin S => unlinked'[q] = unlinked[q]
    /\ \A x \in Resources \ S : SameFiles(x)
    /\ \A b \in S \cap Buckets :
          req[p].op # "DeleteBucket" /\ bucketFile[b] # None => bucketFile'[b] # None
    /\ \A x \in Resources : acked'[x] # acked[x] =>
          /\ x \in S \cap quiet[p] /\ x \in dirty \cup Flux(p)
          /\ x \notin dirty' \cup Flux(p)'
    /\ dirty \ dirty' \subseteq S \cap quiet[p]
    /\ dirty' \ dirty \subseteq Mutates(req[p])
    /\ S \subseteq quiet[p] \cup dirty' \cup Flux(p)
    /\ Flux(p)' \subseteq Mutates(req[p]) \cap (Flux(p) \cup quiet[p] \cup dirty')
    /\ Flux(p) \subseteq (S \cap quiet[p]) \cup Flux(p)' \cup dirty'

QuietShapeAt(p) ==
    /\ pc[p] \in RemoveCalls =>
           \A a \in ObjectsOf(req[p].bucket) \cap quiet[p] : data[a] = None
    /\ pc[p] \in {"CreateRegistry", "CreateOpen"} /\ req[p].bucket \in quiet[p]
           => "bucket" \in dirs[req[p].bucket]

\* What p owes to the resources it wrote.
Owed(p, S) ==
    /\ \A x \in S \ dirty' : x \in Flux(p)' \/ Settled(x)'
    /\ \A x \in Flux(p)' : x \in quiet[p] \/ x \notin dirty' => Halfway(p, x)'
    /\ QuietShapeAt(p)'

\* A call of p writes some resources and pays what it owes to them.
Pays(p) == \E S \in SUBSET Resources : Effect(p, S) /\ Owed(p, S)

\* A worker is only in the middle of what its request mutates.
LEMMA FluxMutates ==
    ASSUME TypeInv, NEW p \in Workers, NEW x \in Flux(p)
    PROVE  /\ Active(p) /\ x \in Mutates(req[p]) /\ x \in Resources
           /\ pc[p] \in FluxCalls
<1>1. pc[p] \in FluxCalls /\ Active(p)
  BY DEF Flux, Active
<1>2. CASE pc[p] \in {"MetaMkdir", "MetaOpen", "MetaWrite"}
  <2>1. x = req[p].dst /\ x \in Objects
    BY <1>2, TargetTypes DEF Flux
  <2>2. req[p].op \in Writers \cup {"Complete"}
    BY <1>2 DEF TypeInv, ControlOK, ControlAt
  <2>. QED
    BY <1>1, <2>1, <2>2 DEF Mutates, Resources
<1>3. CASE pc[p] = "DelMeta"
  <2>1. x = Head(todo[p]) /\ x \in Objects
    BY <1>3, TargetTypes DEF Flux
  <2>2. Head(todo[p]) \in Range(req[p].dels)
    BY <1>3 DEF TypeInv, TodoOK
  <2>. QED
    BY <1>1, <2>1, <2>2 DEF Mutates, Resources
<1>4. CASE pc[p] \in {"CreateWrite", "RegistryUnlink"}
  <2>1. x = req[p].bucket /\ x \in Buckets
    BY <1>4, TargetTypes DEF Flux
  <2>2. req[p].op \in {"CreateBucket", "DeleteBucket"}
    BY <1>4 DEF TypeInv, ControlOK, ControlAt
  <2>. QED
    BY <1>1, <2>1, <2>2 DEF Mutates, Resources
<1>. QED
  BY <1>1, <1>2, <1>3, <1>4

\* While x is quiet for p, nobody else is in the middle of it.
LEMMA QuietAlone ==
    ASSUME TypeInv, Exclusive, NEW p \in Workers, NEW x \in quiet[p]
    PROVE  \A q \in Workers \ {p} : x \notin Flux(q)
BY FluxMutates DEF Exclusive

\* The frame: when p writes only resources of its own request and pays what
\* it owes to them, the invariant holds for all resources and all workers.
LEMMA EffectKeeps ==
    ASSUME IInv, NEW p \in Workers, NEW S \in SUBSET Resources,
           Effect(p, S), Owed(p, S), TypeInv'
    PROVE  IInv'
<1> USE DEF IInv
<1>1. \A q \in Workers \ {p} : Flux(q)' = Flux(q)
  BY DEF Effect, Flux
<1>2. Exclusive'
  BY DEF Exclusive, Effect, Active
<1>3. FluxUnique'
  <2> SUFFICES ASSUME NEW q \in Workers, NEW r \in Workers, q # r,
                      NEW x \in Flux(q)', x \in Flux(r)', x \notin dirty'
               PROVE  FALSE
    BY DEF FluxUnique
  <2>1. CASE q # p /\ r # p
    BY <1>1, <2>1, QuietAlone DEF DiskInv, FluxUnique, Effect
  <2>2. CASE q = p \/ r = p
    <3>1. PICK o \in Workers \ {p} : x \in Flux(o) /\ x \in Flux(p)'
      BY <1>1, <2>2
    <3>2. x \notin quiet[p]
      BY <3>1, QuietAlone
    <3>3. x \in Flux(p)
      BY <3>1, <3>2 DEF Effect
    <3>4. x \in dirty
      BY <3>1, <3>3 DEF DiskInv, FluxUnique
    <3>. QED
      BY <3>2, <3>4 DEF Effect
  <2>. QED
    BY <2>1, <2>2
<1>4. FluxShape'
  <2> SUFFICES ASSUME NEW q \in Workers, NEW x \in Flux(q)',
                      x \in quiet'[q] \/ x \notin dirty'
               PROVE  Halfway(q, x)'
    BY DEF FluxShape
  <2>1. CASE q = p
    BY <2>1 DEF Owed, Effect
  <2>2. CASE q # p
    <3>1. x \in Flux(q) /\ x \in Resources /\ pc[q] \in FluxCalls
      BY <1>1, <2>2, FluxMutates
    <3>2. x \notin quiet[p]
      BY <2>2, <3>1, QuietAlone
    <3>3. x \notin S
      <4>1. SUFFICES ASSUME x \in S PROVE FALSE
        OBVIOUS
      <4>2. x \notin quiet[q]
        BY <2>2, <4>1 DEF Exclusive, Effect
      <4>3. x \in Flux(p) /\ x \notin dirty'
        BY <3>2, <4>1, <4>2 DEF Effect
      <4>4. x \in dirty
        BY <2>2, <3>1, <4>3 DEF DiskInv, FluxUnique
      <4>. QED
        BY <3>2, <4>3, <4>4 DEF Effect
    <3>4. Halfway(q, x)
      BY <3>1, <3>3 DEF Effect, DiskInv, FluxShape
    <3>5. SameFiles(x) /\ pc'[q] = pc[q] /\ got'[q] = got[q] /\ req' = req
      BY <2>2, <3>1, <3>3 DEF Effect
    <3>6. pc[q] = "MetaWrite" => x = req[q].dst /\ x \in Objects
      BY <3>1, TargetTypes DEF Flux
    <3>7. pc[q] = "CreateWrite" => x = req[q].bucket /\ x \in Buckets
      BY <3>1, TargetTypes DEF Flux
    <3>8. pc[q] \in {"MetaMkdir", "MetaOpen", "DelMeta"} => x \in Objects
      BY <3>1, TargetTypes DEF Flux
    <3>9. pc[q] \in {"MetaWrite", "CreateWrite"} => unlinked'[q] = unlinked[q]
      BY <2>2, <3>3, <3>6, <3>7 DEF Effect
    <3>. QED
      BY <3>4, <3>5, <3>6, <3>7, <3>8, <3>9 DEF Halfway, SameFiles
  <2>. QED
    BY <2>1, <2>2
<1>5. QuietShape'
  <2> SUFFICES ASSUME NEW q \in Workers PROVE QuietShapeAt(q)'
    BY DEF QuietShape, QuietShapeAt
  <2>1. CASE q = p
    BY <2>1 DEF Owed
  <2>2. CASE q # p
    <3>1. \A x \in quiet[q] : x \notin S
      <4>1. S \subseteq Mutates(req[p]) /\ Active(p)
        BY DEF Effect
      <4>. QED
        BY <2>2, <4>1 DEF Exclusive
    <3>2. QuietShapeAt(q)
      BY DEF DiskInv, QuietShape, QuietShapeAt
    <3>3. \A x \in quiet[q] : x \in Resources /\ SameFiles(x)
      BY <3>1 DEF Effect, TypeInv, TypesOK, HistoryTypeOK
    <3>4. pc'[q] = pc[q] /\ req' = req /\ quiet' = quiet
      BY <2>2 DEF Effect
    <3>5. pc[q] \in CreateCalls \cup DeleteCalls =>
              /\ req[q].bucket \in Buckets
              /\ ObjectsOf(req[q].bucket) \subseteq Objects
      BY TargetTypes DEF ObjectsOf, Objects
    <3>. QED
      BY <3>2, <3>3, <3>4, <3>5 DEF QuietShapeAt, SameFiles
  <2>. QED
    BY <2>1, <2>2
<1>6. AckedStateHolds'
  <2> SUFFICES ASSUME NEW x \in Resources, x \notin dirty',
                      \A q \in Workers : x \notin Flux(q)'
               PROVE  Settled(x)'
    BY DEF AckedStateHolds
  <2>1. CASE x \in S
    BY <2>1 DEF Owed
  <2>2. CASE x \notin S
    <3>1. x \notin dirty /\ \A q \in Workers : x \notin Flux(q)
      BY <1>1, <2>2 DEF Effect
    <3>2. Settled(x) /\ SameFiles(x) /\ acked'[x] = acked[x]
      BY <2>2, <3>1 DEF Effect, DiskInv, AckedStateHolds
    <3>. QED
      BY <3>2, NamesAssumption DEF Settled, SameFiles, Resources
  <2>. QED
    BY <2>1, <2>2
<1>. QED
  BY <1>2, <1>3, <1>4, <1>5, <1>6 DEF DiskInv

----------------------------------------------------------------------------
(***************************************************************************)
(* Calls that write nothing the properties speak of.                       *)
(***************************************************************************)
Passive(p) ==
    /\ Active(p) /\ pc[p] \notin FluxCalls /\ pc'[p] \notin FluxCalls
    /\ UNCHANGED <<req, acked, dirty, quiet, data, meta, bucketFile>>
    /\ \A q \in Workers \ {p} : /\ pc'[q] = pc[q] /\ got'[q] = got[q]
                                /\ todo'[q] = todo[q] /\ scan'[q] = scan[q]
                                /\ unlinked'[q] = unlinked[q]
    /\ \A b \in Buckets : "bucket" \in dirs[b] => "bucket" \in dirs'[b]

\* Outside the calls of FluxCalls nothing is half done.
LEMMA NoFlux ==
    ASSUME NEW p \in Workers
    PROVE  /\ pc[p] \notin FluxCalls => Flux(p) = {}
           /\ pc'[p] \notin FluxCalls => Flux(p)' = {}
BY DEF Flux

\* A call that writes nothing the properties speak of.
LEMMA PassivePays ==
    ASSUME NEW p \in Workers, Passive(p), QuietShapeAt(p)'
    PROVE  Pays(p)
<1>1. Flux(p) = {} /\ Flux(p)' = {}
  BY NoFlux DEF Passive
<1>2. Effect(p, {})
  BY <1>1 DEF Effect, Passive, SameFiles
<1>3. Owed(p, {})
  BY <1>1 DEF Owed
<1>. QED
  BY <1>2, <1>3 DEF Pays

\* A call after which nothing is promised about what comes next.
LEMMA QuietShapeElsewhere ==
    ASSUME NEW p \in Workers,
           pc'[p] \notin RemoveCalls \cup {"CreateRegistry", "CreateOpen"}
    PROVE  QuietShapeAt(p)'
BY DEF QuietShapeAt

\* All calls that only look.
LEMMA LooksPays ==
    ASSUME IInv, NEW p \in Workers, Looks(p)
    PROVE  Pays(p)
<1>1. PICK l, g : Calm(p, l, g)
  BY DEF Looks
<1>2. pc[p] \in AllLabels /\ pc'[p] = l /\ DOMAIN got = Workers /\ DOMAIN pc = Workers
  BY <1>1 DEF Calm, IInv, TypeInv, TypesOK, ServersOK
<1>3. Passive(p)
  BY <1>1, <1>2 DEF Calm, Passive, Active, Ready, Look, disk, history
<1>4. QuietShapeAt(p)'
  <2>1. QuietShapeAt(p)
    BY DEF IInv, DiskInv, QuietShape, QuietShapeAt
  <2>2. data' = data /\ req' = req /\ quiet' = quiet
    BY <1>3 DEF Passive
  <2>. QED
    BY <1>1, <1>2, <2>1, <2>2 DEF Calm, QuietShapeAt
<1>. QED
  BY <1>3, <1>4, PassivePays

\* MkdirAll removes no directory.
LEMMA PutMkdirPays ==
    ASSUME IInv, NEW p \in Workers, PutMkdir(p)
    PROVE  Pays(p)
<1>1. /\ pc'[p] \in {"PutTemp", "PutCopy", "PutRename", "done"}
      /\ \A q \in Workers \ {p} : pc'[q] = pc[q] /\ got'[q] = got[q]
  BY DEF PutMkdir, Goto, Fail, Finish, IInv, TypeInv, TypesOK, ServersOK
<1>2. Passive(p)
  BY <1>1 DEF PutMkdir, Passive, Active, disk, history, IInv, TypeInv, TypesOK, DiskTypeOK
<1>. QED
  BY <1>1, <1>2, QuietShapeElsewhere, PassivePays

\* A temp file is no resource.
LEMMA PutTempPays ==
    ASSUME IInv, NEW p \in Workers, PutTemp(p)
    PROVE  Pays(p)
<1>1. /\ pc'[p] \in {"PutTemp", "PutCopy", "PutRename", "done"}
      /\ \A q \in Workers \ {p} : pc'[q] = pc[q] /\ got'[q] = got[q]
  BY DEF PutTemp, Goto, Fail, Finish, IInv, TypeInv, TypesOK, ServersOK
<1>2. Passive(p)
  BY <1>1 DEF PutTemp, Passive, Active, disk, history, IInv, TypeInv, TypesOK, DiskTypeOK
<1>. QED
  BY <1>1, <1>2, QuietShapeElsewhere, PassivePays

\* Nor is it while it is being filled.
LEMMA PutCopyPays ==
    ASSUME IInv, NEW p \in Workers, PutCopy(p)
    PROVE  Pays(p)
<1>1. /\ pc'[p] \in {"PutTemp", "PutCopy", "PutRename", "done"}
      /\ \A q \in Workers \ {p} : pc'[q] = pc[q] /\ got'[q] = got[q]
  BY DEF PutCopy, Goto, Fail, Finish, IInv, TypeInv, TypesOK, ServersOK
<1>2. Passive(p)
  BY <1>1 DEF PutCopy, Passive, Active, disk, history, IInv, TypeInv, TypesOK, DiskTypeOK
<1>. QED
  BY <1>1, <1>2, QuietShapeElsewhere, PassivePays

\* CreateBucket has its directory from here on, while it is alone.
LEMMA CreateDirPays ==
    ASSUME IInv, NEW p \in Workers, CreateDir(p)
    PROVE  Pays(p)
<1>1. /\ pc'[p] = "CreateRegistry"
      /\ \A q \in Workers \ {p} : pc'[q] = pc[q]
  BY DEF CreateDir, MakeDirectory, Goto, IInv, TypeInv, TypesOK, ServersOK
<1>2. Bucket(p) \in Buckets /\ DOMAIN dirs = Buckets
  BY TargetTypes DEF CreateDir, MakeDirectory, Bucket, IInv, TypeInv, TypesOK, DiskTypeOK
<1>3. Passive(p)
  BY <1>1, <1>2 DEF CreateDir, MakeDirectory, Passive, Active, disk, history
<1>4. QuietShapeAt(p)'
  BY <1>1, <1>2 DEF CreateDir, MakeDirectory, QuietShapeAt, Bucket, IInv, DiskInv,
     QuietShape, history
<1>. QED
  BY <1>3, <1>4, PassivePays

\* It still has it when it makes the registry directory.
LEMMA CreateRegistryPays ==
    ASSUME IInv, NEW p \in Workers, CreateRegistry(p)
    PROVE  Pays(p)
<1>1. /\ pc'[p] = "CreateOpen"
      /\ \A q \in Workers \ {p} : pc'[q] = pc[q]
  BY DEF CreateRegistry, MakeDirectory, Goto, IInv, TypeInv, TypesOK, ServersOK
<1>2. Bucket(p) \in Buckets /\ DOMAIN dirs = Buckets
  BY TargetTypes DEF CreateRegistry, MakeDirectory, Bucket, IInv, TypeInv, TypesOK, DiskTypeOK
<1>3. Passive(p)
  BY <1>1, <1>2 DEF CreateRegistry, MakeDirectory, Passive, Active, disk, history
<1>4. QuietShapeAt(p)'
  BY <1>1, <1>2 DEF CreateRegistry, MakeDirectory, QuietShapeAt, Bucket, IInv, DiskInv,
     QuietShape, history
<1>. QED
  BY <1>3, <1>4, PassivePays

\* RemoveAll takes the bucket's directory last.
LEMMA RemoveSubdirectoryPays ==
    ASSUME IInv, NEW p \in Workers, NEW label \in RemoveCalls,
           NEW name \in SubDirs, NEW refilled,
           RemoveSubdirectory(p, label, name, refilled)
    PROVE  Pays(p)
<1>1. /\ pc'[p] = "RemoveFiles"
      /\ \A q \in Workers \ {p} : pc'[q] = pc[q]
  BY DEF RemoveSubdirectory, Goto, IInv, TypeInv, TypesOK, ServersOK
<1>2. name # "bucket"
  BY DEF SubDirs
<1>3. \A b \in Buckets : "bucket" \in dirs[b] => "bucket" \in dirs'[b]
  BY <1>2 DEF RemoveSubdirectory, IInv, TypeInv, TypesOK, DiskTypeOK
<1>4. Passive(p)
  BY <1>1, <1>3 DEF RemoveSubdirectory, Passive, Active, history
<1>5. QuietShapeAt(p)'
  BY <1>1 DEF RemoveSubdirectory, QuietShapeAt, IInv, DiskInv, QuietShape, history
<1>. QED
  BY <1>4, <1>5, PassivePays

\* The registry directory goes after its file.
LEMMA RegistryRmdirPays ==
    ASSUME IInv, NEW p \in Workers, RegistryRmdir(p)
    PROVE  Pays(p)
<1>1. /\ pc'[p] = "done"
      /\ \A q \in Workers \ {p} : pc'[q] = pc[q] /\ got'[q] = got[q]
  BY DEF RegistryRmdir, Goto, Fail, Succeed, Finish, IInv, TypeInv, TypesOK, ServersOK
<1>2. \A b \in Buckets : "bucket" \in dirs[b] => "bucket" \in dirs'[b]
  BY DEF RegistryRmdir, IInv, TypeInv, TypesOK, DiskTypeOK
<1>3. Passive(p)
  BY <1>1, <1>2 DEF RegistryRmdir, Passive, Active, history
<1>. QED
  BY <1>1, <1>3, QuietShapeElsewhere, PassivePays

----------------------------------------------------------------------------
(***************************************************************************)
(* Calls that write.                                                       *)
(***************************************************************************)
\* What a request is in the middle of, call by call.
LEMMA FluxAt ==
    ASSUME NEW p \in Workers
    PROVE  /\ pc[p] \in {"MetaMkdir", "MetaOpen", "MetaWrite"} => Flux(p) = {Dst(p)}
           /\ pc[p] = "DelMeta" => Flux(p) = {Head(todo[p])}
           /\ pc[p] \in {"CreateWrite", "RegistryUnlink"} => Flux(p) = {Bucket(p)}
           /\ pc'[p] \in {"MetaMkdir", "MetaOpen", "MetaWrite"} => Flux(p)' = {Dst(p)'}
           /\ pc'[p] = "DelMeta" => Flux(p)' = {Head(todo[p])'}
           /\ pc'[p] \in {"CreateWrite", "RegistryUnlink"} => Flux(p)' = {Bucket(p)'}
BY DEF Flux, Dst, Bucket

\* What a call writes is what its request mutates.
LEMMA OwnTargets ==
    ASSUME TypeInv, NEW p \in Workers
    PROVE  /\ pc[p] \in PutCalls => Dst(p) \in Objects /\ {Dst(p)} \subseteq Mutates(req[p])
           /\ pc[p] \in DelCalls => /\ Head(todo[p]) \in Objects
                                    /\ {Head(todo[p])} \subseteq Mutates(req[p])
           /\ pc[p] \in CreateCalls \cup DeleteCalls =>
                  Bucket(p) \in Buckets /\ {Bucket(p)} \subseteq Mutates(req[p])
           /\ pc[p] \in DeleteCalls => /\ ObjectsOf(Bucket(p)) \subseteq Objects
                                       /\ ObjectsOf(Bucket(p)) \subseteq Mutates(req[p])
<1>1. pc[p] \in PutCalls => req[p].op \in Writers \cup {"Complete"}
  BY DEF TypeInv, ControlOK, ControlAt
<1>2. pc[p] \in DelCalls => Head(todo[p]) \in Range(req[p].dels)
  BY DEF TypeInv, TodoOK
<1>3. pc[p] \in CreateCalls \cup DeleteCalls =>
          req[p].op \in {"CreateBucket", "DeleteBucket"}
  BY DEF TypeInv, ControlOK, ControlAt
<1>4. pc[p] \in DeleteCalls => req[p].op = "DeleteBucket"
  BY DEF TypeInv, ControlOK, ControlAt
<1>5. pc[p] \in DeleteCalls => ObjectsOf(Bucket(p)) \subseteq Objects
  BY TargetTypes DEF ObjectsOf, Objects, Bucket
<1>. QED
  BY <1>1, <1>2, <1>3, <1>4, <1>5, TargetTypes DEF Mutates, Dst, Bucket

\* The rename puts the object between its two writes: the data is the body
\* in hand, the metadata still to come.
LEMMA PutRenamePays ==
    ASSUME IInv, NEW p \in Workers, PutRename(p)
    PROVE  Pays(p)
<1>1. /\ pc'[p] = IF temp[p] # None THEN "MetaMkdir" ELSE "done"
      /\ \A q \in Workers \ {p} : pc'[q] = pc[q] /\ got'[q] = got[q]
  BY DEF PutRename, Goto, Fail, Finish, IInv, TypeInv, TypesOK, ServersOK
<1>2. CASE temp[p] = None
  <2>1. Passive(p)
    BY <1>1, <1>2 DEF PutRename, Passive, Active, history
  <2>. QED
    BY <1>1, <1>2, <2>1, QuietShapeElsewhere, PassivePays
<1>3. CASE temp[p] # None
  <2> DEFINE x == Dst(p)
  <2>1. /\ x \in Objects /\ {x} \subseteq Mutates(req[p]) /\ {x} \in SUBSET Resources
        /\ Flux(p) = {} /\ Flux(p)' = {x} /\ x = req[p].dst /\ x \notin Buckets
    BY <1>1, <1>3, OwnTargets, NoFlux, FluxAt, NamesAssumption
       DEF PutRename, Dst, IInv, Resources
  <2>2. /\ data' = [data EXCEPT ![x] = temp[p]] /\ Disturb(p, {x})
        /\ UNCHANGED <<bucketFile, dirs, meta, req, todo, unlinked, got>>
    BY <1>3 DEF PutRename
  <2>3. temp[p] = got[p].body /\ DOMAIN data = Objects
    BY <1>3 DEF PutRename, IInv, TypeInv, BodiesOK, TypesOK, DiskTypeOK
  <2> HIDE DEF x
  <2>4. Effect(p, {x})
    BY <1>1, <2>1, <2>2, <2>3 DEF Effect, Disturb, SameFiles, Active, PutRename
  <2>5. Owed(p, {x})
    BY <1>1, <1>3, <2>1, <2>2, <2>3, QuietShapeElsewhere DEF Owed, Halfway
  <2>. QED
    BY <2>1, <2>4, <2>5 DEF Pays
<1>. QED
  BY <1>2, <1>3

\* Making .metadata leaves the data as renamed.
LEMMA MetaMkdirPays ==
    ASSUME IInv, NEW p \in Workers, MetaMkdir(p)
    PROVE  Pays(p)
<1> DEFINE x == Dst(p)
<1>1. /\ pc'[p] = "MetaOpen"
      /\ \A q \in Workers \ {p} : pc'[q] = pc[q]
  BY DEF MetaMkdir, Goto, IInv, TypeInv, TypesOK, ServersOK
<1>2. Flux(p) = {x} /\ Flux(p)' = {x}
  BY <1>1, FluxAt DEF MetaMkdir, Dst
<1>3. \A b \in Buckets : "bucket" \in dirs[b] => "bucket" \in dirs'[b]
  BY DEF MetaMkdir, IInv, TypeInv, TypesOK, DiskTypeOK
<1>4. x \in quiet[p] \/ x \notin dirty => data[x] = got[p].body
  BY <1>2 DEF MetaMkdir, IInv, DiskInv, FluxShape, Halfway
<1> HIDE DEF x
<1>5. Effect(p, {})
  BY <1>1, <1>2, <1>3 DEF MetaMkdir, Effect, Active, SameFiles, history
<1>6. Owed(p, {})
  BY <1>1, <1>2, <1>4, QuietShapeElsewhere DEF MetaMkdir, Owed, Halfway, history
<1>. QED
  BY <1>5, <1>6 DEF Pays

\* The truncated metadata file is this worker's; a failure leaves the object
\* dirty.
LEMMA MetaOpenPays ==
    ASSUME IInv, NEW p \in Workers, MetaOpen(p)
    PROVE  Pays(p)
<1> DEFINE x == Dst(p)
<1>1. /\ pc'[p] \in {"MetaWrite", "done"}
      /\ \A q \in Workers \ {p} : /\ pc'[q] = pc[q] /\ got'[q] = got[q]
                                  /\ unlinked'[q] = unlinked[q]
  BY DEF MetaOpen, Goto, Fail, Finish, IInv, TypeInv, TypesOK, ServersOK
<1>2. /\ x \in Objects /\ {x} \subseteq Mutates(req[p]) /\ {x} \in SUBSET Resources
      /\ Flux(p) = {x} /\ x \notin Buckets
  BY OwnTargets, FluxAt, NamesAssumption DEF MetaOpen, IInv, Resources
<1>3. x \in quiet[p] \/ x \notin dirty => data[x] = got[p].body
  BY <1>2 DEF MetaOpen, IInv, DiskInv, FluxShape, Halfway
<1>4. DOMAIN meta = Objects /\ p \in DOMAIN unlinked
  BY DEF IInv, TypeInv, TypesOK, DiskTypeOK, ServersOK
<1>5. CASE pc'[p] = "MetaWrite"
  <2>1. Flux(p)' = {x}
    BY <1>5, FluxAt DEF MetaOpen, Dst
  <2>2. /\ meta' = [meta EXCEPT ![x] = Empty]
        /\ unlinked' = [unlinked EXCEPT ![p] = FALSE]
        /\ UNCHANGED <<got, history>>
    BY <1>5 DEF MetaOpen, Fail, Finish, Goto, IInv, TypeInv, TypesOK, ServersOK
  <2> HIDE DEF x
  <2>3. Effect(p, {x})
    BY <1>1, <1>2, <1>4, <2>1, <2>2 DEF MetaOpen, Effect, Active, SameFiles, history
  <2>4. Owed(p, {x})
    BY <1>2, <1>3, <1>4, <1>5, <2>1, <2>2, QuietShapeElsewhere
       DEF MetaOpen, Owed, Halfway, history
  <2>. QED
    BY <1>2, <2>3, <2>4 DEF Pays
<1>6. CASE pc'[p] = "done"
  <2>1. Flux(p)' = {}
    BY <1>6, NoFlux
  <2>2. Spoil({x}) /\ UNCHANGED <<meta, unlinked>>
    BY <1>6 DEF MetaOpen, Goto, IInv, TypeInv, TypesOK, ServersOK
  <2> HIDE DEF x
  <2>3. Effect(p, {})
    BY <1>1, <1>2, <2>1, <2>2 DEF MetaOpen, Effect, Active, SameFiles, Spoil
  <2>4. Owed(p, {})
    BY <1>6, <2>1, QuietShapeElsewhere DEF Owed
  <2>. QED
    BY <2>3, <2>4 DEF Pays
<1>. QED
  BY <1>1, <1>5, <1>6

\* PutMetadata settles the object: the data is still the body whose MD5 and
\* headers the document has.
LEMMA MetaWritePays ==
    ASSUME IInv, NEW p \in Workers, MetaWrite(p)
    PROVE  Pays(p)
<1> DEFINE x == Dst(p)
           doc == NewDocument(p)
<1>1. /\ pc'[p] \in {"HeadExists", "CopyMeta", "CompleteExists", "RemoveNames", "done"}
      /\ \A q \in Workers \ {p} : /\ pc'[q] = pc[q] /\ got'[q] = got[q]
                                  /\ unlinked'[q] = unlinked[q]
  <2>1. AfterPut(p) \in {"HeadExists", "CopyMeta", "CompleteExists", "RemoveNames"}
    BY DEF AfterPut
  <2>. QED
    BY <2>1 DEF MetaWrite, Goto, Fail, Finish, IInv, TypeInv, TypesOK, ServersOK
<1>2. /\ x \in Objects /\ {x} \subseteq Mutates(req[p]) /\ {x} \in SUBSET Resources
      /\ Flux(p) = {x} /\ Flux(p)' = {} /\ x \notin Buckets
  BY <1>1, OwnTargets, FluxAt, NoFlux, NamesAssumption DEF MetaWrite, IInv, Resources
<1>3. x \in quiet[p] => data[x] = got[p].body /\ meta[x] = Empty /\ ~unlinked[p]
  BY <1>2 DEF MetaWrite, IInv, DiskInv, FluxShape, Halfway
<1>4. DOMAIN meta = Objects /\ DOMAIN acked = Resources
  BY DEF IInv, TypeInv, TypesOK, DiskTypeOK, HistoryTypeOK
<1>5. /\ doc \in Documents /\ Version(got[p].body, doc) \in Versions
      /\ got[p].body \in Bodies
  <2>1. pc[p] \in PutCalls /\ InHand(pc[p], got[p])
    BY DEF MetaWrite, IInv, TypeInv, BodiesOK
  <2>. QED
    BY <2>1, DocumentTypes DEF IInv, InHand
<1>6. /\ \/ meta' = meta
         \/ \E d : meta' = [meta EXCEPT ![x] = d]
      /\ UNCHANGED <<bucketFile, dirs, data, req, todo>>
  BY DEF MetaWrite
<1>7. CASE /\ \/ unlinked[p] /\ UNCHANGED meta
              \/ /\ ~unlinked[p]
                 /\ \E d \in Written(meta[x], doc) : meta' = [meta EXCEPT ![x] = d]
           /\ Commit(p, {x}, Version(got[p].body, doc))
  <2> HIDE DEF x, doc
  <2>1. x \in quiet[p] => meta'[x] = doc
    BY <1>2, <1>3, <1>4, <1>7 DEF Written
  <2>2. /\ x \in quiet[p] => acked'[x] = Version(got[p].body, doc)
        /\ x \notin quiet[p] => x \in dirty'
    BY <1>2, <1>7 DEF Commit
  <2>3. ASSUME NEW y \in {x}, y \in quiet[p] PROVE Settled(y)'
    <3>1. Version(got[p].body, doc) # None
      BY <1>5, ValuesAssumption
    <3>2. data'[y] = got[p].body /\ meta'[y] = doc /\ y \notin Buckets
      BY <1>2, <1>3, <1>6, <2>1, <2>3
    <3>3. acked'[y] = Version(data'[y], meta'[y])
      BY <2>2, <2>3, <3>2
    <3>. QED
      BY <1>5, <2>2, <2>3, <3>1, <3>2, <3>3 DEF Settled
  <2>4. Effect(p, {x})
    BY <1>1, <1>2, <1>4, <1>6, <1>7 DEF MetaWrite, Effect, Active, SameFiles, Commit
  <2>5. Owed(p, {x})
    BY <1>1, <1>2, <2>2, <2>3, QuietShapeElsewhere DEF Owed
  <2>. QED
    BY <1>2, <2>4, <2>5 DEF Pays
<1>8. CASE Spoil({x})
  <2> HIDE DEF x, doc
  <2>1. Effect(p, {x})
    BY <1>1, <1>2, <1>4, <1>6, <1>8 DEF MetaWrite, Effect, Active, SameFiles, Spoil
  <2>2. Owed(p, {x})
    BY <1>1, <1>2, <1>8, QuietShapeElsewhere DEF Owed, Spoil
  <2>. QED
    BY <1>2, <2>1, <2>2 DEF Pays
<1>. QED
  BY <1>7, <1>8 DEF MetaWrite

----------------------------------------------------------------------------
\* After NextDelete, p is in the middle of nothing.
LEMMA NextDeleteMoves ==
    ASSUME TypeInv, NEW p \in Workers, NextDelete(p)
    PROVE  /\ pc'[p] \in {"DelExists", "done"}
           /\ \A q \in Workers \ {p} : /\ pc'[q] = pc[q] /\ got'[q] = got[q]
                                       /\ todo'[q] = todo[q]
           /\ Flux(p)' = {} /\ QuietShapeAt(p)'
<1>1. /\ pc'[p] \in {"DelExists", "done"}
      /\ \A q \in Workers \ {p} : /\ pc'[q] = pc[q] /\ got'[q] = got[q]
                                  /\ todo'[q] = todo[q]
  BY DEF NextDelete, Goto, Succeed, Finish, TypeInv, TypesOK, ServersOK
<1>. QED
  BY <1>1, NoFlux, QuietShapeElsewhere

\* DeleteObject removes the data, or fails and leaves all as it was; where there
\* is none, a clean object has no metadata either.
LEMMA DelDataPays ==
    ASSUME IInv, NEW p \in Workers, DelData(p)
    PROVE  Pays(p)
<1> DEFINE x == Head(todo[p])
<1>1. /\ x \in Objects /\ {x} \subseteq Mutates(req[p]) /\ {x} \in SUBSET Resources
      /\ Flux(p) = {} /\ x \notin Buckets
  BY OwnTargets, NoFlux, NamesAssumption DEF DelData, IInv, Resources
<1>2. DOMAIN data = Objects
  BY DEF IInv, TypeInv, TypesOK, DiskTypeOK
<1>3. CASE NextDelete(p) /\ UNCHANGED <<data, history>>
  <2>1. Passive(p)
    BY <1>3, NextDeleteMoves DEF DelData, IInv, Passive, Active, history
  <2>. QED
    BY <1>3, <2>1, NextDeleteMoves, PassivePays DEF IInv
<1>4. CASE Fail(p, "InternalError") /\ UNCHANGED <<data, todo, history>>
  <2>1. /\ pc'[p] = "done"
        /\ \A q \in Workers \ {p} : pc'[q] = pc[q] /\ got'[q] = got[q]
    BY <1>4 DEF Fail, Finish, Goto, IInv, TypeInv, TypesOK, ServersOK
  <2>2. Passive(p)
    BY <1>4, <2>1 DEF DelData, Passive, Active, history
  <2>. QED
    BY <2>1, <2>2, QuietShapeElsewhere, PassivePays
<1>5. CASE /\ data' = [data EXCEPT ![x] = None] /\ Disturb(p, {x})
           /\ Goto(p, "DelMeta") /\ UNCHANGED <<got, todo>>
  <2>1. /\ data' = [data EXCEPT ![x] = None] /\ Disturb(p, {x})
        /\ Goto(p, "DelMeta") /\ UNCHANGED <<got, todo>>
    BY <1>5
  <2>2. /\ pc'[p] = "DelMeta"
        /\ \A q \in Workers \ {p} : pc'[q] = pc[q]
    BY <2>1 DEF Goto, IInv, TypeInv, TypesOK, ServersOK
  <2>3. Flux(p)' = {x}
    BY <2>1, <2>2, FluxAt
  <2> HIDE DEF x
  <2>4. Effect(p, {x})
    BY <1>1, <1>2, <2>1, <2>2, <2>3 DEF DelData, Effect, Active, SameFiles, Disturb
  <2>5. Owed(p, {x})
    BY <1>1, <1>2, <2>1, <2>2, <2>3, QuietShapeElsewhere DEF Owed, Halfway
  <2>. QED
    BY <1>1, <2>4, <2>5 DEF Pays
<1>. QED
  BY <1>3, <1>4, <1>5 DEF DelData

\* DeleteObject settles the object as gone; a failure leaves it dirty.
LEMMA DelMetaPays ==
    ASSUME IInv, NEW p \in Workers, DelMeta(p)
    PROVE  Pays(p)
<1> DEFINE x == Head(todo[p])
<1>1. /\ x \in Objects /\ {x} \subseteq Mutates(req[p]) /\ {x} \in SUBSET Resources
      /\ Flux(p) = {x} /\ x \notin Buckets
  BY OwnTargets, FluxAt, NamesAssumption DEF DelMeta, IInv, Resources
<1>2. DOMAIN meta = Objects /\ DOMAIN acked = Resources
  BY DEF IInv, TypeInv, TypesOK, DiskTypeOK, HistoryTypeOK
<1>3. CASE /\ meta' = [meta EXCEPT ![x] = None] /\ Commit(p, {x}, None)
           /\ LoseFiles({x}) /\ NextDelete(p)
  <2>1. UNCHANGED <<bucketFile, dirs, data, req>>
    BY DEF DelMeta
  <2>2. x \in quiet[p] => data[x] = None
    BY <1>1 DEF DelMeta, IInv, DiskInv, FluxShape, Halfway
  <2>3. \A q \in Workers \ {p} :
            /\ pc[q] = "MetaWrite" /\ req[q].dst \notin {x} => unlinked'[q] = unlinked[q]
            /\ pc[q] = "CreateWrite" => unlinked'[q] = unlinked[q]
    BY <1>3 DEF LoseFiles, IInv, TypeInv, TypesOK, ServersOK
  <2> HIDE DEF x
  <2>4. Effect(p, {x})
    BY <1>1, <1>2, <1>3, <2>1, <2>3, NextDeleteMoves
       DEF DelMeta, Effect, Active, SameFiles, Commit, IInv
  <2>5. Owed(p, {x})
    BY <1>1, <1>2, <1>3, <2>1, <2>2, NextDeleteMoves DEF Owed, Settled, Commit, IInv
  <2>. QED
    BY <1>1, <2>4, <2>5 DEF Pays
<1>4. CASE Spoil({x}) /\ Fail(p, "InternalError") /\ UNCHANGED <<meta, todo, unlinked>>
  <2>1. /\ pc'[p] = "done"
        /\ \A q \in Workers \ {p} : pc'[q] = pc[q] /\ got'[q] = got[q]
    BY <1>4 DEF Fail, Finish, Goto, IInv, TypeInv, TypesOK, ServersOK
  <2>2. Flux(p)' = {}
    BY <2>1, NoFlux
  <2> HIDE DEF x
  <2>3. Effect(p, {})
    BY <1>1, <1>4, <2>1, <2>2 DEF DelMeta, Effect, Active, SameFiles, Spoil
  <2>4. Owed(p, {})
    BY <2>1, <2>2, QuietShapeElsewhere DEF Owed
  <2>. QED
    BY <2>3, <2>4 DEF Pays
<1>. QED
  BY <1>3, <1>4 DEF DelMeta

----------------------------------------------------------------------------
\* The truncated .bucket.json is this worker's.
LEMMA CreateOpenPays ==
    ASSUME IInv, NEW p \in Workers, CreateOpen(p)
    PROVE  Pays(p)
<1> DEFINE x == Bucket(p)
<1>1. /\ pc'[p] \in {"CreateWrite", "done"}
      /\ \A q \in Workers \ {p} : /\ pc'[q] = pc[q] /\ got'[q] = got[q]
                                  /\ unlinked'[q] = unlinked[q]
  BY DEF CreateOpen, Goto, Fail, Finish, IInv, TypeInv, TypesOK, ServersOK
<1>2. /\ x \in Buckets /\ {x} \subseteq Mutates(req[p]) /\ {x} \in SUBSET Resources
      /\ Flux(p) = {} /\ x \notin Objects
  BY OwnTargets, NoFlux, NamesAssumption DEF CreateOpen, IInv, Resources
<1>3. x \in quiet[p] => "bucket" \in dirs[x]
  BY DEF CreateOpen, Bucket, IInv, DiskInv, QuietShape
<1>4. DOMAIN bucketFile = Buckets /\ p \in DOMAIN unlinked
  BY DEF IInv, TypeInv, TypesOK, DiskTypeOK, ServersOK
<1>5. CASE pc'[p] = "CreateWrite"
  <2>1. Flux(p)' = {x}
    BY <1>5, FluxAt DEF CreateOpen, Bucket
  <2>2. /\ bucketFile' = [bucketFile EXCEPT ![x] = Empty]
        /\ unlinked' = [unlinked EXCEPT ![p] = FALSE]
        /\ Disturb(p, {x}) /\ UNCHANGED got /\ Empty # None
    BY <1>5, ValuesAssumption DEF CreateOpen, Fail, Finish, Goto, IInv, TypeInv, TypesOK, ServersOK
  <2> HIDE DEF x
  <2>3. Effect(p, {x})
    BY <1>1, <1>2, <1>4, <2>1, <2>2 DEF CreateOpen, Effect, Active, SameFiles, Disturb
  <2>4. Owed(p, {x})
    BY <1>2, <1>3, <1>4, <1>5, <2>1, <2>2, QuietShapeElsewhere
       DEF CreateOpen, Owed, Halfway, Disturb
  <2>. QED
    BY <1>2, <2>3, <2>4 DEF Pays
<1>6. CASE pc'[p] = "done"
  <2>1. UNCHANGED <<bucketFile, unlinked, history>>
    BY <1>6 DEF CreateOpen, Goto, IInv, TypeInv, TypesOK, ServersOK
  <2>2. Passive(p)
    BY <1>1, <1>6, <2>1 DEF CreateOpen, Passive, Active, history
  <2>. QED
    BY <1>6, <2>2, QuietShapeElsewhere, PassivePays
<1>. QED
  BY <1>1, <1>5, <1>6

\* CreateBucket settles the bucket: registry entry written, directory there.
LEMMA CreateWritePays ==
    ASSUME IInv, NEW p \in Workers, CreateWrite(p)
    PROVE  Pays(p)
<1> DEFINE x == Bucket(p)
<1>1. /\ pc'[p] = "done"
      /\ \A q \in Workers \ {p} : /\ pc'[q] = pc[q] /\ got'[q] = got[q]
                                  /\ unlinked'[q] = unlinked[q]
  BY DEF CreateWrite, Goto, Fail, Succeed, Finish, IInv, TypeInv, TypesOK, ServersOK
<1>2. /\ x \in Buckets /\ {x} \subseteq Mutates(req[p]) /\ {x} \in SUBSET Resources
      /\ Flux(p) = {x} /\ Flux(p)' = {} /\ x \notin Objects
  BY <1>1, OwnTargets, FluxAt, NoFlux, NamesAssumption DEF CreateWrite, IInv, Resources
<1>3. x \in quiet[p] => /\ bucketFile[x] = Empty /\ ~unlinked[p]
                        /\ "bucket" \in dirs[x]
  BY <1>2 DEF CreateWrite, IInv, DiskInv, FluxShape, Halfway
<1>4. DOMAIN bucketFile = Buckets /\ DOMAIN acked = Resources
  BY DEF IInv, TypeInv, TypesOK, DiskTypeOK, HistoryTypeOK
<1>5. /\ \/ bucketFile' = bucketFile
         \/ \E d : d # None /\ bucketFile' = [bucketFile EXCEPT ![x] = d]
      /\ UNCHANGED <<dirs, data, meta, req, todo>>
  BY ValuesAssumption DEF CreateWrite, Written
<1>6. CASE /\ \/ unlinked[p] /\ UNCHANGED bucketFile
              \/ /\ ~unlinked[p]
                 /\ \E d \in Written(bucketFile[x], Registered) :
                        bucketFile' = [bucketFile EXCEPT ![x] = d]
           /\ Commit(p, {x}, Registered)
  <2> HIDE DEF x
  <2>1. x \in quiet[p] => bucketFile'[x] = Registered
    BY <1>2, <1>3, <1>4, <1>6 DEF Written
  <2>2. /\ x \in quiet[p] => acked'[x] = Registered
        /\ x \notin quiet[p] => x \in dirty'
    BY <1>2, <1>6 DEF Commit
  <2>3. ASSUME NEW y \in {x}, y \in quiet[p] PROVE Settled(y)'
    BY <1>2, <1>3, <1>5, <2>1, <2>2, <2>3 DEF Settled
  <2>4. Effect(p, {x})
    BY <1>1, <1>2, <1>4, <1>5, <1>6 DEF CreateWrite, Effect, Active, SameFiles, Commit
  <2>5. Owed(p, {x})
    BY <1>1, <1>2, <2>2, <2>3, QuietShapeElsewhere DEF Owed
  <2>. QED
    BY <1>2, <2>4, <2>5 DEF Pays
<1>7. CASE Spoil({x})
  <2> HIDE DEF x
  <2>1. Effect(p, {x})
    BY <1>1, <1>2, <1>4, <1>5, <1>7 DEF CreateWrite, Effect, Active, SameFiles, Spoil
  <2>2. Owed(p, {x})
    BY <1>1, <1>2, <1>7, QuietShapeElsewhere DEF Owed, Spoil
  <2>. QED
    BY <1>2, <2>1, <2>2 DEF Pays
<1>. QED
  BY <1>6, <1>7 DEF CreateWrite

----------------------------------------------------------------------------
\* What DeleteBucket sweeps and nothing disturbs has no data file.
LEMMA SweepQuiet ==
    ASSUME IInv, NEW p \in Workers, pc[p] \in RemoveCalls
    PROVE  /\ ObjectsOf(Bucket(p)) \in SUBSET Resources
           /\ ObjectsOf(Bucket(p)) \subseteq Mutates(req[p])
           /\ \A a \in ObjectsOf(Bucket(p)) : /\ a \in Objects /\ a \notin Buckets
                                              /\ a \in quiet[p] => data[a] = None
           /\ \A a \in Objects : a[1] = Bucket(p) <=> a \in ObjectsOf(Bucket(p))
           /\ Flux(p) = {}
<1>1. /\ ObjectsOf(Bucket(p)) \subseteq Objects
      /\ ObjectsOf(Bucket(p)) \subseteq Mutates(req[p])
  BY OwnTargets DEF IInv
<1>2. \A a \in ObjectsOf(Bucket(p)) : a \in quiet[p] => data[a] = None
  BY DEF IInv, DiskInv, QuietShape, Bucket
<1>3. \A a \in Objects : a[1] = Bucket(p) <=> a \in ObjectsOf(Bucket(p))
  BY DEF Objects, ObjectsOf
<1>. QED
  BY <1>1, <1>2, <1>3, NoFlux, NamesAssumption DEF Resources

\* DeleteBucket disturbs the objects it takes data from: quiet ones had none.
LEMMA RemoveObjectsPays ==
    ASSUME IInv, NEW p \in Workers, RemoveObjects(p)
    PROVE  Pays(p)
<1> DEFINE S == ObjectsOf(Bucket(p))
<1>1. /\ pc'[p] = "RmdirObjects" /\ pc[p] \in RemoveCalls
      /\ \A q \in Workers \ {p} : pc'[q] = pc[q]
  BY DEF RemoveObjects, Goto, IInv, TypeInv, TypesOK, ServersOK
<1>2. Flux(p)' = {}
  BY <1>1, NoFlux
<1>3. /\ data' = [a \in Objects |-> IF a \in S THEN None ELSE data[a]]
      /\ Disturb(p, S)
      /\ UNCHANGED <<bucketFile, dirs, meta, req, got, todo, scan, unlinked>>
  BY <1>1, SweepQuiet DEF RemoveObjects
<1>4. Effect(p, S)
  BY <1>1, <1>2, <1>3, SweepQuiet DEF Effect, Active, SameFiles, Disturb
<1>5. ASSUME NEW a \in S \ dirty' PROVE Settled(a)'
  <2>1. a \in quiet[p] /\ a \notin dirty /\ acked' = acked
    BY <1>3, <1>5 DEF Disturb
  <2>2. data[a] = None /\ a \in Objects /\ a \notin Buckets /\ a \in Resources
    BY <1>1, <2>1, SweepQuiet DEF Resources
  <2>3. \A q \in Workers : a \notin Flux(q)
    BY <1>1, <2>1, QuietAlone, SweepQuiet DEF IInv
  <2>4. Settled(a)
    BY <2>1, <2>2, <2>3 DEF IInv, DiskInv, AckedStateHolds
  <2>5. acked[a] = None /\ meta[a] = None
    BY <2>2, <2>4, ValuesAssumption DEF Settled
  <2>. QED
    BY <1>3, <2>1, <2>2, <2>5 DEF Settled
<1>6. QuietShapeAt(p)'
  <2>1. \A a \in S : data'[a] = None
    BY <1>1, <1>3, SweepQuiet
  <2>2. req' = req /\ S = ObjectsOf(req[p].bucket)
    BY <1>3 DEF Bucket
  <2>. QED
    BY <1>1, <2>1, <2>2 DEF QuietShapeAt
<1>7. Owed(p, S)
  BY <1>2, <1>5, <1>6 DEF Owed
<1>. QED
  BY <1>1, <1>4, <1>7, SweepQuiet DEF Pays

\* DeleteBucket settles the objects that were quiet as gone.
LEMMA RemoveMetadataPays ==
    ASSUME IInv, NEW p \in Workers, RemoveMetadata(p)
    PROVE  Pays(p)
<1> DEFINE S == ObjectsOf(Bucket(p))
<1>1. /\ pc'[p] = "RmdirMetadata" /\ pc[p] \in RemoveCalls
      /\ \A q \in Workers \ {p} : pc'[q] = pc[q]
  BY DEF RemoveMetadata, Goto, IInv, TypeInv, TypesOK, ServersOK
<1>2. Flux(p)' = {}
  BY <1>1, NoFlux
<1>3. /\ meta' = [a \in Objects |-> IF a \in S THEN None ELSE meta[a]]
      /\ Commit(p, S, None)
      /\ UNCHANGED <<bucketFile, dirs, data, req, got, todo, scan>>
  BY <1>1, SweepQuiet DEF RemoveMetadata
<1>4. \A q \in Workers \ {p} :
          /\ pc[q] = "MetaWrite" /\ req[q].dst \notin S => unlinked'[q] = unlinked[q]
          /\ pc[q] = "CreateWrite" => unlinked'[q] = unlinked[q]
  BY DEF RemoveMetadata, LoseFiles, IInv, TypeInv, TypesOK, ServersOK
<1>5. DOMAIN acked = Resources
  BY DEF IInv, TypeInv, TypesOK, HistoryTypeOK
<1>6. ASSUME NEW a \in S \cap quiet[p], a \notin dirty
       PROVE  acked[a] = None
  <2>1. data[a] = None /\ a \notin Buckets /\ a \in Resources
    BY <1>1, <1>6, SweepQuiet DEF Resources
  <2>2. \A q \in Workers : a \notin Flux(q)
    BY <1>1, <1>6, QuietAlone, SweepQuiet DEF IInv
  <2>3. Settled(a)
    BY <1>6, <2>1, <2>2 DEF IInv, DiskInv, AckedStateHolds
  <2>. QED
    BY <2>1, <2>3, ValuesAssumption DEF Settled
<1>7. Effect(p, S)
  BY <1>1, <1>2, <1>3, <1>4, <1>5, <1>6, SweepQuiet DEF Effect, Active, SameFiles, Commit
<1>8. ASSUME NEW a \in S \ dirty' PROVE Settled(a)'
  <2>1. a \in quiet[p] /\ a \in Resources
    BY <1>1, <1>3, <1>8, SweepQuiet DEF Commit
  <2>2. data[a] = None /\ a \in Objects /\ a \notin Buckets /\ acked'[a] = None
    BY <1>1, <1>3, <2>1, SweepQuiet DEF Commit
  <2>. QED
    BY <1>3, <2>2 DEF Settled
<1>9. QuietShapeAt(p)'
  <2>1. QuietShapeAt(p) /\ data' = data /\ req' = req /\ quiet' = quiet
    BY <1>3 DEF Commit, IInv, DiskInv, QuietShape, QuietShapeAt
  <2>. QED
    BY <1>1, <2>1 DEF QuietShapeAt
<1>10. Owed(p, S)
  BY <1>2, <1>8, <1>9 DEF Owed
<1>. QED
  BY <1>1, <1>7, <1>10, SweepQuiet DEF Pays

\* The directory goes first; the bucket is half deleted.
LEMMA RmdirBucketPays ==
    ASSUME IInv, NEW p \in Workers, RmdirBucket(p)
    PROVE  Pays(p)
<1> DEFINE x == Bucket(p)
<1>1. /\ pc'[p] \in {"RegistryUnlink", "done"}
      /\ \A q \in Workers \ {p} : pc'[q] = pc[q] /\ got'[q] = got[q]
  BY DEF RmdirBucket, Goto, Fail, Finish, IInv, TypeInv, TypesOK, ServersOK
<1>2. /\ x \in Buckets /\ {x} \subseteq Mutates(req[p]) /\ {x} \in SUBSET Resources
      /\ Flux(p) = {} /\ x \notin Objects
  BY OwnTargets, NoFlux, NamesAssumption DEF RmdirBucket, IInv, Resources
<1>3. CASE pc'[p] = "RegistryUnlink"
  <2>1. Flux(p)' = {x}
    BY <1>3, FluxAt DEF RmdirBucket, Bucket
  <2>2. dirs' = [dirs EXCEPT ![x] = @ \ {"bucket"}] /\ Disturb(p, {x}) /\ UNCHANGED got
    BY <1>3 DEF RmdirBucket, Fail, Finish, Goto, IInv, TypeInv, TypesOK, ServersOK
  <2>3. DOMAIN dirs = Buckets
    BY DEF IInv, TypeInv, TypesOK, DiskTypeOK
  <2> HIDE DEF x
  <2>4. Effect(p, {x})
    BY <1>1, <1>2, <2>1, <2>2, <2>3 DEF RmdirBucket, Effect, Active, SameFiles, Disturb
  <2>5. Owed(p, {x})
    BY <1>2, <1>3, <2>1, QuietShapeElsewhere DEF Owed, Halfway
  <2>. QED
    BY <1>2, <2>4, <2>5 DEF Pays
<1>4. CASE pc'[p] = "done"
  <2>1. UNCHANGED <<dirs, history>>
    BY <1>4 DEF RmdirBucket, Goto, IInv, TypeInv, TypesOK, ServersOK
  <2>2. Passive(p)
    BY <1>1, <1>4, <2>1 DEF RmdirBucket, Passive, Active, history
  <2>. QED
    BY <1>4, <2>2, QuietShapeElsewhere, PassivePays
<1>. QED
  BY <1>1, <1>3, <1>4

\* DeleteBucket settles the bucket as gone.
LEMMA RegistryUnlinkPays ==
    ASSUME IInv, NEW p \in Workers, RegistryUnlink(p)
    PROVE  Pays(p)
<1> DEFINE x == Bucket(p)
<1>1. /\ pc'[p] = "RegistryRmdir"
      /\ \A q \in Workers \ {p} : pc'[q] = pc[q]
  BY DEF RegistryUnlink, Goto, IInv, TypeInv, TypesOK, ServersOK
<1>2. /\ x \in Buckets /\ {x} \subseteq Mutates(req[p]) /\ {x} \in SUBSET Resources
      /\ Flux(p) = {x} /\ Flux(p)' = {} /\ x \notin Objects
  BY <1>1, OwnTargets, FluxAt, NoFlux, NamesAssumption
     DEF RegistryUnlink, IInv, Resources
<1>3. DOMAIN bucketFile = Buckets /\ DOMAIN acked = Resources
  BY DEF IInv, TypeInv, TypesOK, DiskTypeOK, HistoryTypeOK
<1>4. /\ bucketFile' = [bucketFile EXCEPT ![x] = None] /\ Commit(p, {x}, None)
      /\ UNCHANGED <<dirs, data, meta, req, got, todo>>
      /\ req[p].op = "DeleteBucket"
  BY DEF RegistryUnlink, IInv, TypeInv, ControlOK, ControlAt
<1>5. \A q \in Workers \ {p} :
          /\ pc[q] = "CreateWrite" /\ req[q].bucket \notin {x} => unlinked'[q] = unlinked[q]
          /\ pc[q] = "MetaWrite" => unlinked'[q] = unlinked[q]
  BY DEF RegistryUnlink, Bucket, IInv, TypeInv, TypesOK, ServersOK
<1> HIDE DEF x
<1>6. Effect(p, {x})
  BY <1>1, <1>2, <1>3, <1>4, <1>5 DEF RegistryUnlink, Effect, Active, SameFiles, Commit
<1>7. ASSUME NEW y \in {x} \ dirty' PROVE Settled(y)'
  BY <1>2, <1>3, <1>4, <1>7, ValuesAssumption DEF Settled, Commit
<1>8. Owed(p, {x})
  BY <1>1, <1>2, <1>7, QuietShapeElsewhere DEF Owed
<1>. QED
  BY <1>2, <1>6, <1>8 DEF Pays

----------------------------------------------------------------------------
(***************************************************************************)
(* The moves of the server, and the theorems.                              *)
(***************************************************************************)
\* Every call of a worker pays.
LEMMA StepPays ==
    ASSUME IInv, NEW p \in Workers, Step(p)
    PROVE  Pays(p)
<1>1. CASE ObjectStep(p)
  <2>1. CASE \/ GetExists(p) \/ GetMeta(p) \/ GetOpen(p) \/ PutExists(p)
             \/ CopyMeta(p) \/ HeadExists(p) \/ HeadMeta(p) \/ ManyExists(p)
             \/ DelExists(p) \/ ListExists(p) \/ ListScan(p) \/ ListRead(p)
    BY <2>1, LooksPays, GetExistsLooks, GetMetaLooks, GetOpenLooks,
       PutExistsLooks, CopyMetaLooks, HeadExistsLooks, HeadMetaLooks,
       ManyExistsLooks, DelExistsLooks, ListExistsLooks, ListScanLooks,
       ListReadLooks DEF IInv
  <2>2. CASE \/ PutMkdir(p) \/ PutTemp(p) \/ PutCopy(p) \/ PutRename(p)
             \/ MetaMkdir(p) \/ MetaOpen(p) \/ MetaWrite(p)
             \/ DelData(p) \/ DelMeta(p)
    BY <2>2, PutMkdirPays, PutTempPays, PutCopyPays, PutRenamePays,
       MetaMkdirPays, MetaOpenPays, MetaWritePays, DelDataPays, DelMetaPays
  <2>. QED
    BY <1>1, <2>1, <2>2 DEF ObjectStep
<1>2. CASE BucketStep(p)
  <2>1. CASE \/ CreateStat(p) \/ DeleteStat(p) \/ DeleteScan(p) \/ RemoveList(p)
             \/ HeadBucketStat(p) \/ LocationRead(p) \/ BucketsScan(p)
             \/ BucketsRead(p)
    BY <2>1, LooksPays, CreateStatLooks, DeleteStatLooks, DeleteScanLooks,
       RemoveListLooks, HeadBucketStatLooks, LocationReadLooks,
       BucketsScanLooks, BucketsReadLooks DEF IInv
  <2>2. CASE RmdirObjects(p) \/ RmdirMetadata(p)
    BY <2>2, RemoveSubdirectoryPays DEF RmdirObjects, RmdirMetadata, SubDirs
  <2>3. CASE \/ CreateDir(p) \/ CreateRegistry(p) \/ CreateOpen(p)
             \/ CreateWrite(p) \/ RemoveObjects(p) \/ RemoveMetadata(p)
             \/ RmdirBucket(p) \/ RegistryUnlink(p) \/ RegistryRmdir(p)
    BY <2>3, CreateDirPays, CreateRegistryPays, CreateOpenPays,
       CreateWritePays, RemoveObjectsPays, RemoveMetadataPays,
       RmdirBucketPays, RegistryUnlinkPays, RegistryRmdirPays
  <2>. QED
    BY <1>2, <2>1, <2>2, <2>3 DEF BucketStep
<1>. QED
  BY <1>1, <1>2 DEF Step

\* ... and so keeps the invariant.
LEMMA StepKeeps ==
    ASSUME IInv, NEW p \in Workers, Step(p)
    PROVE  IInv'
<1>1. TypeInv'
  BY StepTypes DEF IInv
<1>2. PICK S \in SUBSET Resources : Effect(p, S) /\ Owed(p, S)
  BY StepPays DEF Pays
<1>. QED
  BY <1>1, <1>2, EffectKeeps

\* The files of objects and buckets and the history are untouched, no call in
\* the middle of a resource begins or ends, and workers lose what is no
\* longer quiet.
LEMMA IdleKeeps ==
    ASSUME IInv, TypeInv', Exclusive', UNCHANGED <<bucketFile, data, meta, acked, dirty>>,
           \A b \in Buckets : "bucket" \in dirs[b] => "bucket" \in dirs'[b],
           \A q \in Workers :
              \/ /\ pc'[q] = pc[q] /\ got'[q] = got[q] /\ req'[q] = req[q]
                 /\ todo'[q] = todo[q] /\ quiet'[q] \subseteq quiet[q]
                 /\ pc[q] \in FluxCalls => unlinked'[q] = unlinked[q]
              \/ /\ pc[q] \notin FluxCalls
                 /\ pc'[q] \notin FluxCalls \cup RemoveCalls
                                  \cup {"CreateRegistry", "CreateOpen"}
    PROVE  IInv'
<1>1. \A q \in Workers : Flux(q)' = Flux(q)
  BY NoFlux DEF Flux
<1>2. FluxUnique'
  BY <1>1 DEF IInv, DiskInv, FluxUnique
<1>3. FluxShape'
  <2> SUFFICES ASSUME NEW q \in Workers, NEW x \in Flux(q)',
                      x \in quiet'[q] \/ x \notin dirty'
               PROVE  Halfway(q, x)'
    BY DEF FluxShape
  <2>1. x \in Flux(q) /\ pc[q] \in FluxCalls /\ x \in Resources
    BY <1>1, FluxMutates DEF IInv
  <2>2. /\ pc'[q] = pc[q] /\ got'[q] = got[q] /\ quiet'[q] \subseteq quiet[q]
        /\ unlinked'[q] = unlinked[q]
    BY <2>1
  <2>3. Halfway(q, x)
    BY <2>1, <2>2 DEF IInv, DiskInv, FluxShape
  <2>4. pc[q] = "CreateWrite" => x \in Buckets
    BY <2>1, TargetTypes DEF Flux, IInv
  <2>. QED
    BY <2>2, <2>3, <2>4 DEF Halfway
<1>4. QuietShape'
  <2> SUFFICES ASSUME NEW q \in Workers PROVE QuietShapeAt(q)'
    BY DEF QuietShape, QuietShapeAt
  <2>1. QuietShapeAt(q)
    BY DEF IInv, DiskInv, QuietShape, QuietShapeAt
  <2>2. pc[q] \in CreateCalls => req[q].bucket \in Buckets
    BY TargetTypes DEF IInv
  <2>. QED
    BY <2>1, <2>2, QuietShapeElsewhere DEF QuietShapeAt
<1>5. AckedStateHolds'
  BY <1>1 DEF IInv, DiskInv, AckedStateHolds, Settled
<1>. QED
  BY <1>2, <1>3, <1>4, <1>5 DEF IInv, DiskInv

\* A new request takes what it mutates out of the quiet of all others.
LEMMA BeginKeeps ==
    ASSUME IInv, NEW p \in Workers, NEW r, IsRequest(r), Begin(p, r)
    PROVE  IInv'
<1>1. TypeInv'
  BY BeginTypes DEF IInv
<1>2. /\ pc[p] = "idle" /\ pc'[p] = FirstCall[r.op] /\ req'[p] = r
      /\ \A q \in Workers \ {p} :
            /\ pc'[q] = pc[q] /\ got'[q] = got[q] /\ req'[q] = req[q]
            /\ todo'[q] = todo[q] /\ quiet'[q] = quiet[q] \ Mutates(r)
      /\ \A x \in quiet'[p], q \in Workers \ {p} :
            Active(q) => x \notin Mutates(req[q])
  BY DEF Begin, Goto, IInv, TypeInv, TypesOK, ServersOK
<1>3. pc'[p] \notin FluxCalls \cup RemoveCalls \cup {"CreateRegistry", "CreateOpen"}
  BY <1>2 DEF IsRequest, Ops, UploadOps, JobOps, FirstCall, Readers, Writers, Deleters, BucketOps
<1>4. Exclusive'
  <2> SUFFICES ASSUME NEW o \in Workers, NEW q \in Workers, o # q, Active(q)',
                      NEW x \in quiet'[o], x \in Mutates(req[q])'
               PROVE  FALSE
    BY DEF Exclusive
  <2>1. CASE q = p
    BY <1>2, <2>1 DEF Mutates
  <2>2. CASE q # p
    <3>1. Active(q) /\ req'[q] = req[q]
      BY <1>2, <2>2 DEF Active
    <3>2. x \in Mutates(req[q])
      BY <3>1 DEF Mutates
    <3>. QED
      BY <1>2, <2>2, <3>1, <3>2 DEF IInv, Exclusive
  <2>. QED
    BY <2>1, <2>2
<1>. QED
  BY <1>1, <1>2, <1>3, <1>4, IdleKeeps DEF Begin, disk

\* A request that is over is in the middle of nothing.
LEMMA RespondKeeps ==
    ASSUME IInv, NEW p \in Workers, Respond(p)
    PROVE  IInv'
<1>1. TypeInv'
  BY RespondTypes DEF IInv
<1>2. /\ pc[p] = "done" /\ pc'[p] = "idle" /\ quiet'[p] = {}
      /\ \A q \in Workers \ {p} :
            /\ pc'[q] = pc[q] /\ got'[q] = got[q] /\ req'[q] = req[q]
            /\ todo'[q] = todo[q] /\ quiet'[q] = quiet[q]
  BY DEF Respond, Goto, IInv, TypeInv, TypesOK, ServersOK, HistoryTypeOK
<1>3. Exclusive'
  BY <1>2 DEF IInv, Exclusive, Active, Mutates
<1>. QED
  BY <1>1, <1>2, <1>3, IdleKeeps DEF Respond, disk

\* A crash leaves dirty whatever a request was in the middle of.
LEMMA CrashKeeps ==
    ASSUME IInv, Crash
    PROVE  IInv'
<1>1. TypeInv'
  BY CrashTypes DEF IInv
<1>2. \A q \in Workers : pc'[q] = "idle" /\ quiet'[q] = {} /\ Flux(q)' = {}
  BY NoFlux DEF Crash
<1>3. Exclusive' /\ FluxUnique' /\ FluxShape' /\ QuietShape'
  BY <1>2 DEF Exclusive, FluxUnique, FluxShape, QuietShape
<1>4. \A x \in Resources \ dirty' : x \notin dirty /\ \A q \in Workers : x \notin Flux(q)
  BY DEF Crash
<1>5. AckedStateHolds'
  BY <1>4 DEF Crash, IInv, DiskInv, AckedStateHolds, Settled
<1>. QED
  BY <1>1, <1>3, <1>5 DEF IInv, DiskInv

\* A data directory left in good order.
LEMMA InitKeeps ==
    ASSUME NEW S, InitWith(S)
    PROVE  IInv
<1>1. TypeInv
  BY InitTypes
<1>2. \A q \in Workers : pc[q] = "idle" /\ quiet[q] = {} /\ Flux(q) = {}
  BY NoFlux DEF InitWith
<1>3. Exclusive /\ FluxUnique /\ FluxShape /\ QuietShape
  BY <1>2 DEF Exclusive, FluxUnique, FluxShape, QuietShape
<1>4. AckedStateHolds
  <2> SUFFICES ASSUME NEW x \in Resources PROVE Settled(x)
    BY DEF AckedStateHolds
  <2>1. CASE x \in Buckets
    BY <2>1, ValuesAssumption DEF InitWith, Settled, DirNames
  <2>2. CASE x \notin Buckets
    <3>1. x \in Objects /\ acked[x] \in Versions \cup {None}
      <4>1. PICK known \in SUBSET Buckets, stored \in [Objects -> Stored \cup {None}] :
               acked = [y \in Resources |->
                           CASE y \in Objects -> stored[y]
                             [] y \in known -> Registered
                             [] OTHER -> None]
        BY DEF InitWith
      <4>. QED
        BY <2>2, <4>1, ValuesAssumption DEF Resources, Stored, Versions, ETags
    <3>2. CASE acked[x] = None
      BY <2>2, <3>1, <3>2 DEF InitWith, Settled
    <3>3. CASE acked[x] # None
      <4>1. data[x] = acked[x].body /\ acked[x] \in Versions
            /\ meta[x] = [etag |-> acked[x].etag, attrs |-> acked[x].attrs]
        BY <3>1, <3>3 DEF InitWith
      <4>2. data[x] \in Bodies /\ meta[x] \in Documents
        BY <4>1 DEF Versions, Documents
      <4>3. acked[x] = Version(data[x], meta[x])
        BY <4>1 DEF Version, Versions
      <4>. QED
        BY <2>2, <3>3, <4>2, <4>3 DEF Settled
    <3>. QED
      BY <3>2, <3>3
  <2>. QED
    BY <2>1, <2>2
<1>. QED
  BY <1>1, <1>3, <1>4 DEF IInv, DiskInv

\* Every step keeps the invariant.
LEMMA NextKeeps ==
    ASSUME IInv, [Next]_vars
    PROVE  IInv'
<1>1. ASSUME NEW p \in Workers, Step(p) \/ Respond(p) \/ \E r \in Requests : Begin(p, r)
      PROVE  IInv'
  BY <1>1, StepKeeps, RespondKeeps, BeginKeeps, RequestsAssumption
<1>2. CASE UNCHANGED vars
  <2>1. TypeInv'
    BY <1>2, NextTypes DEF IInv
  <2>2. Exclusive'
    BY <1>2 DEF vars, IInv, Exclusive, Active, Mutates
  <2>. QED
    BY <1>2, <2>1, <2>2, IdleKeeps DEF vars, disk
<1>. QED
  BY <1>1, <1>2, CrashKeeps DEF Next

\* The inductive invariant: requests follow their calls, what is quiet for
\* one is not mutated by another, and what a request has written of an
\* undisturbed resource is still there when it writes the rest.
THEOREM InvariantHolds == Spec => []IInv
<1>1. Init => IInv
  BY InitKeeps DEF Init
<1>. QED
  BY <1>1, NextKeeps, PTL DEF Spec

\* Durability and isolation: what the last undisturbed mutation acknowledged
\* about an object or a bucket is on disk, whole and with matching metadata,
\* whatever the requests for other resources, failed writes and crashes of
\* PutObject, DeleteObject, CreateBucket and DeleteBucket left behind.
THEOREM AckedStateCorrect == Spec => []AckedStateHolds
<1>1. IInv => AckedStateHolds
  BY DEF IInv, DiskInv
<1>. QED
  BY <1>1, InvariantHolds, PTL

----------------------------------------------------------------------------
(***************************************************************************)
(* The files implement VersionStore (Spec => IsVersionStore), and data     *)
(* goes only by requests that name it (Spec => OnlyDeletesRemoveData).     *)
(*                                                                         *)
(* By AckedStateHolds, what is on disk of a resource is what was           *)
(* acknowledged, wherever anything is promised: the refinement needs no    *)
(* look at the files.                                                      *)
(***************************************************************************)
USE DEF InHand

\* Resources whose content is unknown to a client.
Torn == dirty \cup UNION {Flux(p) : p \in Workers}

\* What is on disk of x is unknown or acknowledged.
LEMMA OnDiskIs ==
    ASSUME IInv, NEW x \in Resources
    PROVE  OnDisk(x) = IF x \in Torn THEN Empty ELSE acked[x]
<1>1. CASE x \in Torn
  BY <1>1 DEF OnDisk, Torn
<1>2. CASE x \notin Torn
  <2>1. Settled(x)
    BY <1>2 DEF Torn, IInv, DiskInv, AckedStateHolds
  <2>2. CASE x \in Buckets
    BY <1>2, <2>1, <2>2 DEF OnDisk, Torn, Settled
  <2>3. CASE x \notin Buckets
    BY <1>2, <2>1, <2>3, ValuesAssumption DEF OnDisk, Torn, Settled
  <2>. QED
    BY <2>2, <2>3
<1>. QED
  BY <1>1, <1>2

\* The same in the next state.
LEMMA OnDiskIsNext ==
    ASSUME IInv', NEW x \in Resources
    PROVE  OnDisk(x)' = IF x \in Torn' THEN Empty ELSE acked'[x]
<1>1. CASE x \in Torn'
  BY <1>1 DEF OnDisk, Torn
<1>2. CASE x \notin Torn'
  <2>1. Settled(x)'
    BY <1>2 DEF Torn, IInv, DiskInv, AckedStateHolds
  <2>2. CASE x \in Buckets
    BY <1>2, <2>1, <2>2 DEF OnDisk, Torn, Settled
  <2>3. CASE x \notin Buckets
    BY <1>2, <2>1, <2>3, ValuesAssumption DEF OnDisk, Torn, Settled
  <2>. QED
    BY <2>2, <2>3
<1>. QED
  BY <1>1, <1>2

----------------------------------------------------------------------------
(***************************************************************************)
(* Refinement.                                                             *)
(***************************************************************************)
Values == Versions \cup {None, Registered}

\* The server starts with whole versions, and nobody claims anything.
LEMMA StoreInit ==
    ASSUME NEW S, InitWith(S)
    PROVE  Store!Init
<1>1. IInv
  BY InitKeeps
<1>2. \A p \in Workers : pc[p] = "idle" /\ Flux(p) = {} /\ ~Active(p)
  BY NoFlux DEF InitWith, Active
<1>3. Torn = {}
  BY <1>2 DEF Torn, InitWith
<1>4. \A x \in Resources : OnDisk(x) \in Values
  BY <1>1, <1>3, OnDiskIs DEF Values, IInv, TypeInv, TypesOK, HistoryTypeOK
<1>. QED
  BY <1>2, <1>4 DEF Store!Init, Values

\* A file-system call of p is a Work step: it makes resources that p claims
\* unknown, or settles some that p alone claims.
LEMMA StoreWork ==
    ASSUME IInv, IInv', NEW p \in Workers, Step(p)
    PROVE  Store!Work(p)
<1> DEFINE claims == [q \in Workers |-> IF Active(q) THEN Mutates(req[q]) ELSE {}]
<1>1. PICK S \in SUBSET Resources : Effect(p, S)
  BY StepPays DEF Pays
<1>2. Active(p) /\ S \subseteq Mutates(req[p]) /\ claims[p] = Mutates(req[p])
  BY <1>1 DEF Effect
<1>3. \A q \in Workers \ {p} : Flux(q)' = Flux(q)
  BY <1>1 DEF Effect, Flux
<1>4. \A x \in Resources : OnDisk(x)' \in Values \cup {Empty}
  BY OnDiskIsNext DEF Values, IInv, TypeInv, TypesOK, HistoryTypeOK
<1>5. ASSUME NEW x \in Resources, x \in Torn', x \notin Torn
      PROVE  x \in Mutates(req[p]) /\ OnDisk(x)' = Empty
  <2>1. x \in dirty' \ dirty \/ x \in Flux(p)'
    BY <1>3, <1>5 DEF Torn
  <2>. QED
    BY <1>1, <1>5, <2>1, OnDiskIsNext DEF Effect
<1>6. ASSUME NEW x \in Resources, x \notin Torn', x \in Torn
      PROVE  /\ x \in Mutates(req[p]) /\ OnDisk(x) = Empty
             /\ OnDisk(x)' \in Values
             /\ \A o \in Workers \ {p} : x \notin claims[o]
  <2>1. x \in dirty \ dirty' \/ x \in Flux(p) \ (Flux(p)' \cup dirty')
    BY <1>3, <1>6 DEF Torn
  <2>2. x \in S \cap quiet[p]
    BY <1>1, <2>1 DEF Effect
  <2>3. OnDisk(x)' = acked'[x] /\ acked'[x] \in Values
    BY <1>6, OnDiskIsNext DEF Values, IInv, TypeInv, TypesOK, HistoryTypeOK
  <2>. QED
    BY <1>2, <1>6, <2>2, <2>3, OnDiskIs DEF IInv, Exclusive
<1>7. ASSUME NEW x \in Resources, x \in Torn <=> x \in Torn'
      PROVE  OnDisk(x)' = OnDisk(x)
  <2>1. x \notin Torn => acked'[x] = acked[x]
    BY <1>1 DEF Effect, Torn
  <2>. QED
    BY <1>7, <2>1, OnDiskIs, OnDiskIsNext
<1>8. claims' \in {claims, [claims EXCEPT ![p] = {}]}
  <2>1. req' = req /\ \A q \in Workers \ {p} : pc'[q] = pc[q]
    BY <1>1 DEF Effect
  <2>2. \A q \in Workers \ {p} : claims'[q] = claims[q]
    BY <2>1 DEF Active, Mutates
  <2>3. claims'[p] \in {claims[p], {}}
    BY <1>2, <2>1 DEF Mutates
  <2>. QED
    BY <2>2, <2>3
<1> HIDE DEF claims
<1>9. \A x \in Resources :
          \/ OnDisk(x)' = OnDisk(x)
          \/ x \in claims[p] /\ OnDisk(x)' = Empty
          \/ /\ x \in claims[p] /\ \A o \in Workers \ {p} : x \notin claims[o]
             /\ OnDisk(x) = Empty /\ OnDisk(x)' \in Values
  BY <1>2, <1>5, <1>6, <1>7
<1>. QED
  BY <1>4, <1>8, <1>9
     DEF claims, Values, Store!Work, Store!Forget, Store!Replace, Store!Alone

\* When no file and no history changes and no call in the middle of a resource
\* begins or ends, a client sees nothing.
LEMMA StoreKept ==
    ASSUME IInv, IInv', UNCHANGED <<acked, dirty>>,
           \A q \in Workers : Flux(q)' = Flux(q)
    PROVE  \A x \in Resources : OnDisk(x)' = OnDisk(x)
<1>1. Torn' = Torn
  BY DEF Torn
<1>. QED
  BY <1>1, OnDiskIs, OnDiskIsNext

\* A new request claims what it is going to change.
LEMMA StoreClaim ==
    ASSUME IInv, IInv', NEW p \in Workers, NEW r, IsRequest(r), Begin(p, r)
    PROVE  Store!Claim(p)
<1> DEFINE claims == [q \in Workers |-> IF Active(q) THEN Mutates(req[q]) ELSE {}]
<1>1. /\ pc[p] = "idle" /\ pc'[p] \notin FluxCalls \cup {"idle", "done"}
      /\ req'[p] = r
      /\ \A q \in Workers \ {p} : pc'[q] = pc[q] /\ req'[q] = req[q] /\ todo'[q] = todo[q]
  BY DEF Begin, Goto, IInv, TypeInv, TypesOK, ServersOK, IsRequest, Ops, UploadOps, JobOps,
         FirstCall, Readers, Writers, Deleters, BucketOps
<1>2. \A q \in Workers : Flux(q)' = Flux(q)
  BY <1>1, NoFlux DEF Flux
<1>3. \A x \in Resources : OnDisk(x)' = OnDisk(x)
  BY <1>2, StoreKept DEF Begin
<1>4. Mutates(r) \in SUBSET Resources
  BY TouchesTypes DEF Touches
<1>5. claims[p] = {} /\ claims' = [claims EXCEPT ![p] = Mutates(r)]
  BY <1>1 DEF Active, Mutates
<1>. QED
  BY <1>3, <1>4, <1>5 DEF Store!Claim

\* The end of a goroutine shows nothing: its claims went with the answer.
LEMMA StoreRespond ==
    ASSUME IInv, IInv', NEW p \in Workers, Respond(p)
    PROVE  UNCHANGED <<[x \in Resources |-> OnDisk(x)],
                       [q \in Workers |-> IF Active(q) THEN Mutates(req[q]) ELSE {}]>>
<1>1. /\ pc[p] = "done" /\ pc'[p] = "idle"
      /\ \A q \in Workers \ {p} : pc'[q] = pc[q] /\ req'[q] = req[q] /\ todo'[q] = todo[q]
  BY DEF Respond, Goto, IInv, TypeInv, TypesOK, ServersOK
<1>2. \A q \in Workers : Flux(q)' = Flux(q)
  BY <1>1, NoFlux DEF Flux
<1>3. \A x \in Resources : OnDisk(x)' = OnDisk(x)
  BY <1>2, StoreKept DEF Respond
<1>4. \A q \in Workers : (IF Active(q) THEN Mutates(req[q]) ELSE {})'
                         = IF Active(q) THEN Mutates(req[q]) ELSE {}
  BY <1>1 DEF Active, Mutates
<1>. QED
  BY <1>3, <1>4

\* A crash drops all claims; what was in the middle of a change stays unknown.
LEMMA StoreRestart ==
    ASSUME IInv, IInv', Crash
    PROVE  Store!Restart
<1>1. \A q \in Workers : pc'[q] = "idle" /\ Flux(q)' = {}
  BY NoFlux DEF Crash
<1>2. Torn' = Torn /\ acked' = acked
  BY <1>1 DEF Torn, Crash
<1>3. \A x \in Resources : OnDisk(x)' = OnDisk(x)
  BY <1>2, OnDiskIs, OnDiskIsNext
<1>. QED
  BY <1>1, <1>3 DEF Store!Restart, Active

\* Durability and isolation as a client meets them: the calls of all requests
\* together, crashes and failures included, behave like a store of whole
\* versions that only the requests that name a resource change.
THEOREM ImplementsVersionStore == Spec => IsVersionStore
<1>1. ASSUME IInv, IInv', [Next]_vars
      PROVE  [Store!Next]_<<[x \in Resources |-> OnDisk(x)],
                [p \in Workers |-> IF Active(p) THEN Mutates(req[p]) ELSE {}]>>
  <2>1. ASSUME NEW p \in Workers, Step(p)
        PROVE  Store!Next
    BY <1>1, <2>1, StoreWork DEF Store!Next
  <2>2. ASSUME NEW p \in Workers, NEW r, IsRequest(r), Begin(p, r)
        PROVE  Store!Next
    BY <1>1, <2>2, StoreClaim DEF Store!Next
  <2>3. CASE Crash
    BY <1>1, <2>3, StoreRestart DEF Store!Next
  <2>4. CASE UNCHANGED vars
    <3>1. \A x \in Resources : OnDisk(x)' = OnDisk(x)
      BY <1>1, <2>4, StoreKept DEF vars, Flux
    <3>2. \A p \in Workers : (IF Active(p) THEN Mutates(req[p]) ELSE {})'
                             = IF Active(p) THEN Mutates(req[p]) ELSE {}
      BY <2>4 DEF vars, Active, Mutates
    <3>. QED
      BY <3>1, <3>2
  <2>5. ASSUME NEW p \in Workers, Respond(p)
        PROVE  UNCHANGED <<[x \in Resources |-> OnDisk(x)],
                  [q \in Workers |-> IF Active(q) THEN Mutates(req[q]) ELSE {}]>>
    BY <1>1, <2>5, StoreRespond
  <2>. QED
    BY <1>1, <2>1, <2>2, <2>3, <2>4, <2>5, RequestsAssumption DEF Next
<1>2. Init => Store!Init
  BY StoreInit DEF Init
<1>. QED
  BY <1>1, <1>2, InvariantHolds, PTL DEF Spec, IsVersionStore, Store!Spec

----------------------------------------------------------------------------
\* A worker makes the call it is at.
LEMMA StepCalls ==
    ASSUME NEW p \in Workers, Step(p)
    PROVE  /\ pc[p] = "GetExists" => GetExists(p)
           /\ pc[p] = "GetMeta" => GetMeta(p)
           /\ pc[p] = "GetOpen" => GetOpen(p)
           /\ pc[p] = "PutExists" => PutExists(p)
           /\ pc[p] = "PutMkdir" => PutMkdir(p)
           /\ pc[p] = "PutTemp" => PutTemp(p)
           /\ pc[p] = "PutCopy" => PutCopy(p)
           /\ pc[p] = "PutRename" => PutRename(p)
           /\ pc[p] = "MetaMkdir" => MetaMkdir(p)
           /\ pc[p] = "MetaOpen" => MetaOpen(p)
           /\ pc[p] = "MetaWrite" => MetaWrite(p)
           /\ pc[p] = "CopyMeta" => CopyMeta(p)
           /\ pc[p] = "HeadExists" => HeadExists(p)
           /\ pc[p] = "HeadMeta" => HeadMeta(p)
           /\ pc[p] = "ManyExists" => ManyExists(p)
           /\ pc[p] = "DelExists" => DelExists(p)
           /\ pc[p] = "DelData" => DelData(p)
           /\ pc[p] = "DelMeta" => DelMeta(p)
           /\ pc[p] = "ListExists" => ListExists(p)
           /\ pc[p] = "ListScan" => ListScan(p)
           /\ pc[p] = "ListRead" => ListRead(p)
           /\ pc[p] = "CreateStat" => CreateStat(p)
           /\ pc[p] = "CreateDir" => CreateDir(p)
           /\ pc[p] = "CreateRegistry" => CreateRegistry(p)
           /\ pc[p] = "CreateOpen" => CreateOpen(p)
           /\ pc[p] = "CreateWrite" => CreateWrite(p)
           /\ pc[p] = "DeleteStat" => DeleteStat(p)
           /\ pc[p] = "DeleteScan" => DeleteScan(p)
           /\ pc[p] = "RemoveList" => RemoveList(p)
           /\ pc[p] = "RmdirObjects" => RmdirObjects(p)
           /\ pc[p] = "RmdirMetadata" => RmdirMetadata(p)
           /\ pc[p] = "RegistryUnlink" => RegistryUnlink(p)
           /\ pc[p] = "RegistryRmdir" => RegistryRmdir(p)
           /\ pc[p] = "HeadBucketStat" => HeadBucketStat(p)
           /\ pc[p] = "LocationRead" => LocationRead(p)
           /\ pc[p] = "BucketsScan" => BucketsScan(p)
           /\ pc[p] = "BucketsRead" => BucketsRead(p)
           /\ pc[p] = "RemoveFiles" =>
                  RemoveObjects(p) \/ RemoveMetadata(p) \/ RmdirBucket(p)
<1>1. CASE ObjectStep(p)
  BY <1>1 DEF ObjectStep, GetExists, GetMeta, GetOpen, PutExists,
     PutMkdir, PutTemp, PutCopy, PutRename, MetaMkdir, MetaOpen, MetaWrite,
     CopyMeta, HeadExists, HeadMeta, ManyExists, DelExists, DelData,
     DelMeta, ListExists, ListScan, ListRead
<1>2. CASE BucketStep(p)
  BY <1>2 DEF BucketStep, CreateStat, CreateDir,
     CreateRegistry, CreateOpen, CreateWrite, DeleteStat, DeleteScan,
     RemoveList, RmdirObjects, RmdirMetadata, RegistryUnlink, RegistryRmdir,
     HeadBucketStat, LocationRead, BucketsScan, BucketsRead, MakeDirectory,
     RemoveSubdirectory, RemoveObjects, RemoveMetadata, RmdirBucket
<1>. QED
  BY <1>1, <1>2 DEF Step

\* Of the calls that write data files only two remove one.  What DeleteBucket
\* sweeps from under .objects was not there when it looked.
LEMMA StepRemovesData ==
    ASSUME IInv, NEW p \in Workers, Step(p),
           NEW a \in Objects, data[a] # None, data'[a] = None
    PROVE  \/ pc[p] = "DelData" /\ Head(todo[p]) = a
           \/ pc[p] = "RemoveFiles" /\ req[p].bucket = a[1] /\ a \notin quiet[p]
<1>1. DOMAIN data = Objects
  BY DEF IInv, TypeInv, TypesOK, DiskTypeOK
<1>2. data' # data
  OBVIOUS
<1>3. PutRename(p) \/ DelData(p) \/ RemoveObjects(p)
  <2>1. CASE ObjectStep(p)
    BY <1>2, <2>1 DEF ObjectStep, GetExists, GetMeta, GetOpen, PutExists, PutMkdir, PutTemp,
       PutCopy, MetaMkdir, MetaOpen, MetaWrite, CopyMeta, HeadExists, HeadMeta,
       ManyExists, DelExists, DelMeta, ListExists, ListScan, ListRead, Look, disk
  <2>2. CASE BucketStep(p)
    BY <1>2, <2>2 DEF BucketStep, CreateStat, CreateDir, CreateRegistry, MakeDirectory,
       CreateOpen, CreateWrite, DeleteStat, DeleteScan, RemoveList, RemoveMetadata,
       RmdirObjects, RmdirMetadata, RemoveSubdirectory, RmdirBucket, RegistryUnlink,
       RegistryRmdir, HeadBucketStat, LocationRead, BucketsScan, BucketsRead, Look, disk
  <2>. QED
    BY <2>1, <2>2 DEF Step
<1>4. CASE PutRename(p)
  BY <1>1, <1>2, <1>4 DEF PutRename
<1>5. CASE DelData(p)
  BY <1>1, <1>2, <1>5 DEF DelData
<1>6. CASE RemoveObjects(p)
  <2>1. a[1] = Bucket(p) /\ pc[p] = "RemoveFiles"
    BY <1>6 DEF RemoveObjects
  <2>2. a \in ObjectsOf(req[p].bucket)
    BY <2>1, SMT DEF Bucket, ObjectsOf, Objects
  <2>. QED
    BY <2>1, <2>2 DEF Bucket, IInv, DiskInv, QuietShape
<1>. QED
  BY <1>3, <1>4, <1>5, <1>6

\* The data of an object goes by DeleteObject called for it, from a DELETE, a
\* batch or a rename; no other request, no failure and no crash takes it along,
\* and a DeleteBucket only what was written after it had found the bucket empty.
THEOREM OnlyDeletesRemoveDataCorrect == Spec => OnlyDeletesRemoveData
<1> DEFINE Deleting(a) ==
        \E p \in Workers :
            \/ pc[p] = "DelData" /\ Head(todo[p]) = a
            \/ pc[p] = "RemoveFiles" /\ req[p].bucket = a[1] /\ a \notin quiet[p]
<1>1. ASSUME IInv, [Next]_vars
      PROVE  [\A a \in Objects :
                data[a] # None /\ data'[a] = None => Deleting(a)]_vars
  <2>1. ASSUME NEW a \in Objects, data[a] # None, data'[a] = None, Next
        PROVE  Deleting(a)
    <3>1. PICK p \in Workers : Step(p)
      BY <2>1 DEF Next, Crash, Respond, Begin, disk
    <3>. QED
      BY <1>1, <2>1, <3>1, StepRemovesData
  <2>. QED
    BY <1>1, <2>1
<1>. QED
  BY <1>1, InvariantHolds, PTL DEF Spec, OnlyDeletesRemoveData

=============================================================================
