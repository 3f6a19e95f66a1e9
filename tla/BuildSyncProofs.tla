-------------------------- MODULE BuildSyncProofs --------------------------
(***************************************************************************)
(* What the incremental build guarantees with any targets, libraries,      *)
(* configurations and job slots, and any number of runs, edits, failures   *)
(* and interrupts.  An existing file is current, or visibly outdated       *)
(* (Dated); during a run, make's memory of a file agrees with the tree     *)
(* unless platform-sync removed the file, and then everything left was     *)
(* made by the run itself (Removed).                                       *)
(***************************************************************************)
EXTENDS BuildSync, FiniteSetTheorems, TLAPS

(* What the recipe of f makes of files fl, sources v and configuration c.  *)
ProductIn(f, fl, v, c) ==
  CASE f[1] = "bin" -> fl[Elf(f[2])]
    [] f[1] = "elf" -> [app |-> fl[App(f[2])], lib |-> fl[Lib(LibOf[f[2]])]]
    [] f[1] = "app" -> [cfg |-> c, ver |-> v[<<"app.c", f[2]>>]]
    [] f[1] = "lib" -> [cfg |-> c, ver |-> v[<<"lib.c", f[2]>>]]
    [] f[1] = "ld"  -> "generated"

CurrentIn(f, fl, v) == fl[f] = ProductIn(f, fl, v, fl[f].cfg)

-----------------------------------------------------------------------------
Shape ==
  /\ file = [f \in Outputs |-> file[f]] /\ seen = [f \in Outputs |-> seen[f]]
  /\ ver = [s \in Sources |-> ver[s]]
  /\ cfg \in Configs /\ goals \subseteq Targets
  /\ make \in {"idle", "running", "failing", "ok", "failed"}
  /\ sync \in {"todo", "compare", "rm bin", "rm elf", "rm obj", "truncate", "write", "done"}
  /\ settled \subseteq Outputs /\ jobs \subseteq Outputs /\ IsFiniteSet(jobs)
  /\ remade \subseteq settled /\ settled \cap jobs = {}

(* make has looked at nothing. *)
Blank == \A f \in Outputs : seen[f] = None

(* Until platform-sync is done only the linker script is made, and with    *)
(* one slot nothing is looked at.                                          *)
Stages ==
  /\ ~Active => sync = "todo"
  /\ sync = "todo" => settled = {} /\ jobs = {} /\ Blank
  /\ sync # "done" => settled \cup jobs \subseteq {Ld}
  /\ slots = 1 /\ sync # "done" => Blank

(* All objects belong to configuration c. *)
All(c) == \A f \in Objects \ {Ld} : file[f] # None => c # None /\ file[f].cfg = c

(* The only moment at which the objects outlive their stamp is "write".    *)
Stamped ==
  ~torn =>
    /\ sync # "write" => All(stamp)
    /\ sync \in {"truncate", "write", "done"} => All(cfg)
    /\ sync = "done" => stamp = cfg

(* A file that is neither missing an input nor older than one is what its  *)
(* recipe makes.                                                           *)
Dated ==
  \A f \in Outputs : file[f] # None =>
    \/ \E d \in Needs(f) : ~Exists(d)
    \/ \E d \in Needs(f) : <<d, f>> \in newer
    \/ CurrentIn(f, file, ver)

(* A file seen as current is outdated only by what was remade since.       *)
Believed ==
  \A f \in Outputs : seen[f] = "current" /\ file[f] # None =>
    \A d \in Needs(f) : <<d, f>> \in newer => d \in remade

Kept ==
  \A f \in settled \ remade :
    seen[f] = "current" /\ Needs(f) \cap remade = {} /\ Needs(f) \subseteq settled \cup Sources

Pending == \A f \in jobs : Needs(f) \subseteq settled \cup Sources

Made ==
  \A f \in remade \ {Ld} :
    /\ file[f] = ProductIn(f, file, ver, cfg) /\ Needs(f) \subseteq settled \cup Sources
    /\ \A d \in Needs(f) \ {Ld} : Exists(d)

(* Nothing seen as current was removed ...                                 *)
NotLost == \A f \in Outputs : seen[f] = "current" => file[f] # None \/ f \in remade

(* ... or everything was.                                                  *)
AllRemade == \A f \in Outputs \ {Ld} : file[f] # None => f \in remade

Removed ==
  /\ sync \in {"todo", "compare", "rm bin"} => NotLost
  /\ sync \in {"rm elf", "rm obj"} => \A t \in Targets : file[Bin(t)] = None
  /\ sync = "rm obj" => \A t \in Targets : file[Elf(t)] = None
  /\ sync \in {"truncate", "write", "done"} => NotLost \/ AllRemade
  /\ slots = 1 => NotLost

RunInv == make = "running" => Believed /\ Kept /\ Pending /\ Made /\ Removed

IInv == Shape /\ Stages /\ Stamped /\ NeverMixed /\ Dated /\ RunInv

-----------------------------------------------------------------------------
(* The files. *)
LEMMA OutputCases ==
  ASSUME NEW f \in Outputs
  PROVE  \/ \E t \in Targets : f = Bin(t)
         \/ \E t \in Targets : f = Elf(t)
         \/ \E t \in Targets : f = App(t)
         \/ \E l \in Libs : f = Lib(l)
         \/ f = Ld
BY DEF Outputs, Objects

LEMMA FilesKnown ==
  /\ \A t \in Targets : Bin(t) \in Outputs \ {Ld} /\ Elf(t) \in Outputs \ {Ld}
  /\ \A t \in Targets : App(t) \in Objects \ {Ld} /\ Lib(LibOf[t]) \in Objects \ {Ld}
  /\ Objects \subseteq Outputs /\ Ld \in Objects
BY DEF Outputs, Objects, Libs, Bin, Elf, App, Lib, Ld

LEMMA NeedsOf ==
  /\ \A t : Needs(Bin(t)) = {Elf(t)}
  /\ \A t : Needs(Elf(t)) = {App(t), Lib(LibOf[t]), Ld}
  /\ \A t : Needs(App(t)) = {<<"app.c", t>>}
  /\ \A l : Needs(Lib(l)) = {<<"lib.c", l>>}
  /\ Needs(Ld) = {}
BY DEF Needs, Bin, Elf, App, Lib, Ld

LEMMA BinOf == ASSUME NEW t, NEW fl, NEW v, NEW c PROVE ProductIn(Bin(t), fl, v, c) = fl[Elf(t)]
BY DEF ProductIn, Bin

LEMMA ElfOf ==
  ASSUME NEW t, NEW fl, NEW v, NEW c
  PROVE  ProductIn(Elf(t), fl, v, c) = [app |-> fl[App(t)], lib |-> fl[Lib(LibOf[t])]]
BY DEF ProductIn, Elf

LEMMA AppOf ==
  ASSUME NEW t, NEW fl, NEW v, NEW c
  PROVE  ProductIn(App(t), fl, v, c) = [cfg |-> c, ver |-> v[<<"app.c", t>>]]
BY DEF ProductIn, App

LEMMA LibraryOf ==
  ASSUME NEW l, NEW fl, NEW v, NEW c
  PROVE  ProductIn(Lib(l), fl, v, c) = [cfg |-> c, ver |-> v[<<"lib.c", l>>]]
BY DEF ProductIn, Lib

LEMMA LdOf == ASSUME NEW fl, NEW v, NEW c PROVE ProductIn(Ld, fl, v, c) = "generated"
BY DEF ProductIn, Ld

LEMMA Apart == Outputs \cap Sources = {}
BY DEF Outputs, Objects, Sources, Bin, Elf, App, Lib, Ld

LEMMA NeedsKnown ==
  ASSUME NEW f \in Outputs
  PROVE  Needs(f) \subseteq Outputs \cup Sources /\ f \notin Needs(f)
<1>1. \A t \in Targets : <<"app.c", t>> \in Sources
  BY DEF Sources
<1>2. \A l \in Libs : <<"lib.c", l>> \in Sources
  BY DEF Sources
<1>3. \A t \in Targets : Needs(Bin(t)) \subseteq Outputs \cup Sources /\ Bin(t) \notin Needs(Bin(t))
  <2>1. \A t : Bin(t) # Elf(t)
    BY DEF Bin, Elf
  <2> QED BY <2>1, NeedsOf, FilesKnown
<1>4. \A t \in Targets : Needs(Elf(t)) \subseteq Outputs \cup Sources /\ Elf(t) \notin Needs(Elf(t))
  <2>1. \A t, l : Elf(t) # App(t) /\ Elf(t) # Lib(l) /\ Elf(t) # Ld
    BY DEF Elf, App, Lib, Ld
  <2> QED BY <2>1, NeedsOf, FilesKnown
<1>5. \A t \in Targets : Needs(App(t)) \subseteq Outputs \cup Sources /\ App(t) \notin Needs(App(t))
  <2>1. \A t : App(t) # <<"app.c", t>>
    BY DEF App
  <2> QED BY <2>1, <1>1, NeedsOf
<1>6. \A l \in Libs : Needs(Lib(l)) \subseteq Outputs \cup Sources /\ Lib(l) \notin Needs(Lib(l))
  <2>1. \A l : Lib(l) # <<"lib.c", l>>
    BY DEF Lib
  <2> QED BY <2>1, <1>2, NeedsOf
<1>7. Needs(Ld) \subseteq Outputs \cup Sources /\ Ld \notin Needs(Ld)
  BY NeedsOf
<1> QED BY <1>3, <1>4, <1>5, <1>6, <1>7, OutputCases

(* A product depends on what its file needs. *)
LEMMA ProductSame ==
  ASSUME NEW f \in Outputs, NEW fl, NEW fm, NEW v, NEW w, NEW c,
         \A d \in Needs(f) \ {Ld} : fl[d] = fm[d] \/ d \notin Outputs,
         \A s \in Needs(f) : v[s] = w[s] \/ s \notin Sources
  PROVE  ProductIn(f, fl, v, c) = ProductIn(f, fm, w, c)
<1>1. ASSUME NEW t \in Targets, f = Bin(t) PROVE ProductIn(f, fl, v, c) = ProductIn(f, fm, w, c)
  <2>1. Elf(t) \in Needs(f) \ {Ld} /\ Elf(t) \in Outputs
    BY <1>1, NeedsOf, FilesKnown
  <2>2. fl[Elf(t)] = fm[Elf(t)]
    BY <2>1
  <2> QED BY <1>1, <2>2, BinOf
<1>2. ASSUME NEW t \in Targets, f = Elf(t) PROVE ProductIn(f, fl, v, c) = ProductIn(f, fm, w, c)
  <2>1. /\ App(t) \in Needs(f) \ {Ld} /\ App(t) \in Outputs
        /\ Lib(LibOf[t]) \in Needs(f) \ {Ld} /\ Lib(LibOf[t]) \in Outputs
    BY <1>2, NeedsOf, FilesKnown
  <2>2. fl[App(t)] = fm[App(t)] /\ fl[Lib(LibOf[t])] = fm[Lib(LibOf[t])]
    BY <2>1
  <2>3. /\ ProductIn(f, fl, v, c) = [app |-> fl[App(t)], lib |-> fl[Lib(LibOf[t])]]
        /\ ProductIn(f, fm, w, c) = [app |-> fm[App(t)], lib |-> fm[Lib(LibOf[t])]]
    BY <1>2, ElfOf
  <2> QED BY <2>2, <2>3
<1>3. ASSUME NEW t \in Targets, f = App(t) PROVE ProductIn(f, fl, v, c) = ProductIn(f, fm, w, c)
  <2>1. <<"app.c", t>> \in Needs(f) /\ <<"app.c", t>> \in Sources
    BY <1>3, NeedsOf DEF Sources
  <2>2. v[<<"app.c", t>>] = w[<<"app.c", t>>]
    BY <2>1
  <2>3. /\ ProductIn(f, fl, v, c) = [cfg |-> c, ver |-> v[<<"app.c", t>>]]
        /\ ProductIn(f, fm, w, c) = [cfg |-> c, ver |-> w[<<"app.c", t>>]]
    BY <1>3, AppOf
  <2> QED BY <2>2, <2>3
<1>4. ASSUME NEW l \in Libs, f = Lib(l) PROVE ProductIn(f, fl, v, c) = ProductIn(f, fm, w, c)
  <2>1. <<"lib.c", l>> \in Needs(f) /\ <<"lib.c", l>> \in Sources
    BY <1>4, NeedsOf DEF Sources
  <2>2. v[<<"lib.c", l>>] = w[<<"lib.c", l>>]
    BY <2>1
  <2>3. /\ ProductIn(f, fl, v, c) = [cfg |-> c, ver |-> v[<<"lib.c", l>>]]
        /\ ProductIn(f, fm, w, c) = [cfg |-> c, ver |-> w[<<"lib.c", l>>]]
    BY <1>4, LibraryOf
  <2> QED BY <2>2, <2>3
<1>5. f = Ld => ProductIn(f, fl, v, c) = ProductIn(f, fm, w, c)
  BY LdOf
<1> QED BY <1>1, <1>2, <1>3, <1>4, <1>5, OutputCases

(* A file just made is current. *)
LEMMA ProductCurrent ==
  ASSUME NEW f \in Outputs, NEW fl, NEW v, NEW c, fl[f] = ProductIn(f, fl, v, c)
  PROVE  CurrentIn(f, fl, v)
<1> DEFINE d == fl[f].cfg
<1> SUFFICES ProductIn(f, fl, v, c) = ProductIn(f, fl, v, d)
  BY DEF CurrentIn
<1>1. ASSUME NEW t \in Targets, f = Bin(t) \/ f = Elf(t) PROVE ProductIn(f, fl, v, c) = ProductIn(f, fl, v, d)
  <2> HIDE DEF d
  <2> QED BY <1>1, BinOf, ElfOf
<1>2. ASSUME NEW t \in Targets, f = App(t) PROVE ProductIn(f, fl, v, c) = ProductIn(f, fl, v, d)
  <2>1. fl[f] = [cfg |-> c, ver |-> v[<<"app.c", t>>]]
    BY <1>2, AppOf
  <2>2. d = c
    BY <2>1
  <2> QED BY <2>2
<1>3. ASSUME NEW l \in Libs, f = Lib(l) PROVE ProductIn(f, fl, v, c) = ProductIn(f, fl, v, d)
  <2>1. fl[f] = [cfg |-> c, ver |-> v[<<"lib.c", l>>]]
    BY <1>3, LibraryOf
  <2>2. d = c
    BY <2>1
  <2> QED BY <2>2
<1>4. f = Ld => ProductIn(f, fl, v, c) = ProductIn(f, fl, v, d)
  <2> HIDE DEF d
  <2> QED BY LdOf
<1> QED BY <1>1, <1>2, <1>3, <1>4, OutputCases

LEMMA ProductHere == ASSUME NEW f PROVE Product(f) = ProductIn(f, file, ver, cfg)
BY DEF Product, ProductIn

LEMMA NoneApart == None \notin Configs /\ None # "current" /\ None # "missing" /\ None # "outdated"
BY BuildAssumption DEF BuildAssumption

(* Only the linker script does not wait for platform-sync.                 *)
LEMMA LateReady ==
  ASSUME Shape, Stages, NEW f \in Outputs, f # Ld, Ready(f)
  PROVE  sync = "done"
<1>1. CASE WaitsForSync(f)
  BY <1>1 DEF Ready
<1>2. CASE ~WaitsForSync(f)
  <2>1. PICK t \in Targets : f = Bin(t)
    BY <1>2, OutputCases DEF WaitsForSync, Elf, App, Lib
  <2>2. Elf(t) \in settled
    BY <2>1, NeedsOf, FilesKnown, Apart DEF Ready
  <2> QED BY <2>1, <2>2, FilesKnown DEF Stages
<1> QED BY <1>1, <1>2

(* Files that are removed make others lack an input, never look current.   *)
LEMMA Shrinking ==
  ASSUME Shape, Dated, NeverMixed, NEW S \in SUBSET Outputs, Remove(S), ver' = ver, torn => torn'
  PROVE  /\ file' = [f \in Outputs |-> file'[f]]
         /\ \A f \in Outputs : file'[f] = None \/ (file'[f] = file[f] /\ f \notin S)
         /\ \A f \in S : file'[f] = None
         /\ newer' \subseteq newer
         /\ Dated' /\ NeverMixed'
<1>1. /\ \A f \in Outputs : file'[f] = IF f \in S THEN None ELSE file[f]
      /\ file' = [f \in Outputs |-> file'[f]]
  BY DEF Remove
<1>2. newer' \subseteq newer /\ \A d, f : <<d, f>> \in newer /\ d \notin S /\ f \notin S => <<d, f>> \in newer'
  BY DEF Remove
<1>3. ASSUME NEW f \in Outputs, file'[f] # None
      PROVE  \/ \E d \in Needs(f) : ~Exists(d)'
             \/ \E d \in Needs(f) : <<d, f>> \in newer'
             \/ CurrentIn(f, file', ver')
  <2>1. f \notin S /\ file'[f] = file[f] /\ file[f] # None
    BY <1>1, <1>3
  <2>2. CASE \E d \in Needs(f) : d \in S \/ ~Exists(d)
    BY <1>1, <2>2 DEF Exists
  <2>3. CASE \A d \in Needs(f) : d \notin S /\ Exists(d)
    <3>1. CASE \E d \in Needs(f) : <<d, f>> \in newer
      BY <1>2, <2>1, <2>3, <3>1
    <3>2. CASE CurrentIn(f, file, ver)
      <4> DEFINE c == file[f].cfg
      <4>1. \A d \in Needs(f) \ {Ld} : file[d] = file'[d] \/ d \notin Outputs
        BY <1>1, <2>3
      <4> HIDE DEF c
      <4>2. ProductIn(f, file, ver, c) = ProductIn(f, file', ver', c)
        BY <4>1, ProductSame
      <4> QED BY <2>1, <3>2, <4>2 DEF CurrentIn, c
    <3> QED BY <2>1, <2>3, <3>1, <3>2 DEF Dated
  <2> QED BY <2>2, <2>3
<1>4. Dated'
  BY <1>3 DEF Dated
<1>5. NeverMixed'
  <2>1. \A t \in Targets, e \in {"elf", "bin"} : <<e, t>> \in Outputs
    BY DEF Outputs, Bin, Elf
  <2> QED BY <1>1, <2>1 DEF NeverMixed
<1> QED BY <1>1, <1>2, <1>4, <1>5

LEMMA TreeKept ==
  ASSUME Stamped, NeverMixed, Dated, UNCHANGED <<tree, cfg, torn, sync>>
  PROVE  Stamped' /\ NeverMixed' /\ Dated'
BY DEF Stamped, NeverMixed, Dated, All, CurrentIn, ProductIn, Exists, tree

(* make exits and forgets; what matters then is the tree.                  *)
LEMMA Ended ==
  ASSUME NEW status \in {"ok", "failed"}, Exit(status), cfg \in Configs, goals \subseteq Targets,
         file' = [f \in Outputs |-> file'[f]], ver' = [s \in Sources |-> ver'[s]],
         Dated', NeverMixed', ~torn' => All(stamp)'
  PROVE  IInv'
<1>1. /\ make' = status /\ sync' = "todo" /\ cfg' = cfg /\ goals' = goals
      /\ seen' = [f \in Outputs |-> None] /\ settled' = {} /\ remade' = {} /\ jobs' = {}
  BY DEF Exit
<1>2. Shape'
  BY <1>1, FS_EmptySet DEF Shape
<1>3. Stages'
  BY <1>1 DEF Stages, Blank, Active
<1>4. Stamped'
  BY <1>1 DEF Stamped
<1>5. RunInv'
  BY <1>1 DEF RunInv
<1> QED BY <1>2, <1>3, <1>4, <1>5 DEF IInv

-----------------------------------------------------------------------------
(* Each action keeps the invariant. *)
LEMMA InitInv == Init => IInv
<1> SUFFICES ASSUME Init PROVE IInv
  OBVIOUS
<1>1. Shape
  BY FS_EmptySet DEF Init, Shape
<1>2. \A f \in Outputs : file[f] = None
  BY DEF Init
<1>3. \A t \in Targets, e \in {"elf", "bin"} : <<e, t>> \in Outputs
  BY DEF Outputs, Bin, Elf
<1>4. Stages /\ RunInv
  BY DEF Init, Stages, Blank, RunInv, Active
<1>5. Stamped
  BY <1>2, FilesKnown DEF Init, Stamped, All
<1> QED BY <1>1, <1>2, <1>3, <1>4, <1>5 DEF IInv, NeverMixed, Dated

LEMMA EditInv == ASSUME IInv, NEW s \in Sources, Edit(s) PROVE IInv'
<1>1. /\ ~Active /\ file' = file /\ stamp' = stamp /\ make' = make /\ sync' = sync /\ torn' = torn
      /\ cfg' = cfg /\ goals' = goals /\ slots' = slots /\ seen' = seen /\ settled' = settled /\ remade' = remade /\ jobs' = jobs
      /\ ver' = [ver EXCEPT ![s] = @ + 1]
      /\ newer' = newer \cup {<<s, f>> : f \in {g \in Outputs : Exists(g) /\ s \in Needs(g)}}
  BY DEF Edit, run, memory
<1>2. ver' = [u \in Sources |-> ver'[u]] /\ \A u \in Sources : u # s => ver'[u] = ver[u]
  BY <1>1 DEF IInv, Shape
<1>3. Shape' /\ Stages'
  BY <1>1, <1>2 DEF IInv, Shape, Stages, Blank, Active
<1>4. Stamped' /\ NeverMixed'
  BY <1>1 DEF IInv, Stamped, NeverMixed, All
<1>5. RunInv'
  BY <1>1 DEF RunInv, Active
<1>6. ASSUME NEW f \in Outputs, file[f] # None
      PROVE  \/ \E d \in Needs(f) : ~Exists(d)'
             \/ \E d \in Needs(f) : <<d, f>> \in newer'
             \/ CurrentIn(f, file', ver')
  <2>1. CASE s \in Needs(f)
    BY <1>1, <1>6, <2>1 DEF Exists
  <2>2. CASE s \notin Needs(f)
    <3>1. ProductIn(f, file, ver, file[f].cfg) = ProductIn(f, file', ver', file[f].cfg)
      BY <1>1, <1>2, <2>2, ProductSame
    <3> QED BY <1>1, <1>6, <3>1 DEF IInv, Dated, CurrentIn, Exists
  <2> QED BY <2>1, <2>2
<1>7. Dated'
  BY <1>1, <1>6 DEF Dated
<1> QED BY <1>3, <1>4, <1>5, <1>7 DEF IInv

LEMMA StartMakeInv ==
  ASSUME IInv, NEW c \in Configs, NEW g \in SUBSET Targets, NEW n, StartMake(c, g, n)
  PROVE  IInv'
<1>1. /\ ~Active /\ make' = "running" /\ cfg' = c /\ goals' = g /\ UNCHANGED <<tree, torn, sync>> /\ file' = file /\ stamp' = stamp
      /\ seen' = seen /\ settled' = settled /\ remade' = remade /\ jobs' = jobs /\ ver' = ver
  BY DEF StartMake, memory, tree
<1>2. sync = "todo" /\ sync' = "todo" /\ settled = {} /\ remade = {} /\ jobs = {} /\ Blank
  BY <1>1 DEF IInv, Stages, Shape
<1>3. Shape' /\ Stages'
  BY <1>1, <1>2 DEF IInv, Shape, Stages, Blank, Active
<1>4. Stamped'
  BY <1>1, <1>2 DEF IInv, Stamped, All
<1>5. NeverMixed' /\ Dated'
  BY <1>1 DEF IInv, NeverMixed, Dated, CurrentIn, ProductIn, Exists, tree
<1>6. RunInv'
  BY <1>1, <1>2, NoneApart DEF RunInv, Believed, Kept, Pending, Made, Removed, NotLost, Blank
<1> QED BY <1>3, <1>4, <1>5, <1>6 DEF IInv

(* What a run remembers stays true when only platform-sync proceeds.       *)
LEMMA MemoryKept ==
  ASSUME RunInv, UNCHANGED <<file, newer, make, ver, cfg, seen, settled, remade, jobs>>
  PROVE  make' = "running" => Believed' /\ Kept' /\ Pending' /\ Made'
BY DEF RunInv, Believed, Kept, Pending, Made, ProductIn, Exists

LEMMA SyncStartInv == ASSUME IInv, SyncStart PROVE IInv'
<1>1. /\ make = "running" /\ sync = "todo" /\ sync' = "compare" /\ UNCHANGED <<tree, make, cfg, goals, slots, torn>>
      /\ UNCHANGED <<file, stamp, newer, ver, seen, settled, remade, jobs>>
  BY DEF SyncStart, tree, run, memory, counts
<1>2. Shape' /\ Stages'
  BY <1>1 DEF IInv, Shape, Stages, Blank, Active
<1>3. Stamped' /\ NeverMixed' /\ Dated'
  BY <1>1 DEF IInv, Stamped, NeverMixed, Dated, All, CurrentIn, ProductIn, Exists
<1>4. RunInv'
  BY <1>1, MemoryKept DEF IInv, RunInv, Removed, NotLost
<1> QED BY <1>2, <1>3, <1>4 DEF IInv

LEMMA SyncCompareInv == ASSUME IInv, SyncCompare PROVE IInv'
<1>1. /\ Active /\ sync = "compare" /\ UNCHANGED <<make, cfg, goals, slots, torn>>
      /\ sync' = IF stamp # None /\ stamp # cfg THEN "rm bin" ELSE "truncate"
      /\ UNCHANGED <<file, stamp, newer, ver, seen, settled, remade, jobs>>
  BY DEF SyncCompare, tree, run, memory, counts
<1>2. Shape' /\ Stages'
  BY <1>1 DEF IInv, Shape, Stages, Blank, Active
<1>3. Stamped'
  BY <1>1 DEF IInv, Stamped, All
<1>4. NeverMixed' /\ Dated'
  BY <1>1 DEF IInv, NeverMixed, Dated, CurrentIn, ProductIn, Exists
<1>5. RunInv'
  BY <1>1, MemoryKept DEF IInv, RunInv, Removed, NotLost
<1> QED BY <1>2, <1>3, <1>4, <1>5 DEF IInv

(* Nothing is made while bin, elf and obj are removed but the linker       *)
(* script, so that when all are gone, all that exists is remade.           *)
LEMMA SyncRemoveInv == ASSUME IInv, SyncRemove PROVE IInv'
<1> DEFINE Bins == {Bin(t) : t \in Targets}
           Elfs == {Elf(t) : t \in Targets}
<1>1. /\ Active /\ UNCHANGED <<stamp, make, cfg, goals, slots, torn, ver, seen, settled, remade, jobs>>
      /\ sync \in {"rm bin", "rm elf", "rm obj"} /\ sync' \in {"rm elf", "rm obj", "truncate"}
  BY DEF SyncRemove, run, memory, counts
<1>2. PICK S \in SUBSET Outputs :
        /\ Remove(S)
        /\ \/ sync = "rm bin" /\ sync' = "rm elf" /\ S = Bins
           \/ sync = "rm elf" /\ sync' = "rm obj" /\ S = Elfs
           \/ sync = "rm obj" /\ sync' = "truncate" /\ S = Objects
  <2>1. Bins \in SUBSET Outputs /\ Elfs \in SUBSET Outputs /\ Objects \in SUBSET Outputs
    BY FilesKnown
  <2> QED BY <2>1 DEF SyncRemove
<1>3. /\ file' = [f \in Outputs |-> file'[f]]
      /\ \A f \in Outputs : file'[f] = None \/ file'[f] = file[f]
      /\ \A f \in S : file'[f] = None
      /\ newer' \subseteq newer /\ Dated' /\ NeverMixed'
  BY <1>1, <1>2, Shrinking DEF IInv
<1>4. settled \cup jobs \subseteq {Ld} /\ remade \subseteq {Ld} /\ (slots = 1 => Blank)
  BY <1>1 DEF IInv, Stages, Shape
<1>5. Shape'
  BY <1>1, <1>3 DEF IInv, Shape
<1>6. Stages'
  BY <1>1, <1>4 DEF Stages, Blank, Active
<1>7. Stamped'
  <2>1. ASSUME ~torn, NEW f \in Objects \ {Ld}, file'[f] # None
        PROVE  stamp # None /\ file'[f].cfg = stamp /\ sync' # "truncate"
    <3>1. f \in Outputs /\ file'[f] = file[f]
      BY <1>3, <2>1, FilesKnown
    <3>2. stamp # None /\ file[f].cfg = stamp
      BY <1>1, <2>1, <3>1 DEF IInv, Stamped, All
    <3>3. sync' # "truncate"
      BY <1>2, <1>3, <2>1
    <3> QED BY <3>1, <3>2, <3>3
  <2> QED BY <1>1, <2>1 DEF Stamped, All
<1>8. ASSUME make = "running" PROVE Believed' /\ Kept' /\ Pending' /\ Made'
  <2>1. Believed /\ Kept /\ Pending
    BY <1>8 DEF IInv, RunInv
  <2>2. Believed'
    BY <1>1, <1>3, <2>1 DEF Believed
  <2>3. Kept' /\ Pending'
    BY <1>1, <2>1 DEF Kept, Pending
  <2>4. Made'
    BY <1>1, <1>4 DEF Made
  <2> QED BY <2>2, <2>3, <2>4
<1>9. ASSUME make = "running" PROVE Removed'
  <2>1. Removed
    BY <1>9 DEF IInv, RunInv
  <2>2. slots' = 1 => NotLost'
    BY <1>1, <1>4, NoneApart DEF NotLost, Blank
  <2>3. CASE sync = "rm bin"
    <3>1. \A t \in Targets : file'[Bin(t)] = None
      BY <1>2, <1>3, <2>3
    <3> QED BY <1>2, <2>2, <2>3, <3>1 DEF Removed
  <2>4. CASE sync = "rm elf"
    <3>1. \A t \in Targets : file'[Elf(t)] = None
      BY <1>2, <1>3, <2>4
    <3>2. \A t \in Targets : file'[Bin(t)] = None
      BY <1>3, <2>1, <2>4, FilesKnown DEF Removed
    <3> QED BY <1>2, <2>2, <2>4, <3>1, <3>2 DEF Removed
  <2>5. CASE sync = "rm obj"
    <3>1. S = Objects /\ sync' = "truncate"
      BY <1>2, <2>5
    <3>2. \A t \in Targets : file'[Bin(t)] = None /\ file'[Elf(t)] = None
      BY <1>3, <2>1, <2>5, FilesKnown DEF Removed
    <3>3. \A f \in Outputs : file'[f] = None
      BY <1>3, <3>1, <3>2 DEF Outputs
    <3>4. AllRemade'
      BY <3>3 DEF AllRemade
    <3> QED BY <2>2, <3>1, <3>4 DEF Removed
  <2> QED BY <1>1, <2>3, <2>4, <2>5
<1>10. RunInv'
  BY <1>1, <1>8, <1>9 DEF RunInv
<1> QED BY <1>3, <1>5, <1>6, <1>7, <1>10 DEF IInv

LEMMA SyncWriteInv == ASSUME IInv, SyncWrite PROVE IInv'
<1>1. /\ Active /\ UNCHANGED <<make, cfg, goals, slots, torn, file, newer, ver, seen, settled, remade, jobs>>
      /\ \/ sync = "truncate" /\ sync' = "write" /\ stamp' = None
         \/ sync = "write" /\ sync' = "done" /\ stamp' = cfg
  BY DEF SyncWrite, run, memory, counts
<1>2. Shape' /\ Stages'
  BY <1>1 DEF IInv, Shape, Stages, Blank, Active
<1>3. Stamped'
  BY <1>1 DEF IInv, Stamped, All
<1>4. NeverMixed' /\ Dated'
  BY <1>1 DEF IInv, NeverMixed, Dated, CurrentIn, ProductIn, Exists
<1>5. RunInv'
  BY <1>1, MemoryKept DEF IInv, RunInv, Removed, NotLost, AllRemade
<1> QED BY <1>2, <1>3, <1>4, <1>5 DEF IInv

-----------------------------------------------------------------------------
LEMMA LookInv == ASSUME IInv, NEW f \in Outputs, Look(f) PROVE IInv'
<1>1. /\ make = "running" /\ sync # "todo" /\ (slots = 1 => SlotFree) /\ seen[f] = None
      /\ seen' = [seen EXCEPT ![f] =
           IF ~Exists(f) THEN "missing"
           ELSE IF \E d \in Needs(f) : <<d, f>> \in newer THEN "outdated" ELSE "current"]
      /\ UNCHANGED <<tree, make, sync, cfg, goals, slots, settled, remade, jobs, torn>>
      /\ UNCHANGED <<file, newer, ver, stamp>>
  BY DEF Look, tree, counts
<1>2. /\ seen' = [g \in Outputs |-> seen'[g]] /\ \A g \in Outputs \ {f} : seen'[g] = seen[g]
      /\ seen'[f] = "current" => file[f] # None /\ \A d \in Needs(f) : <<d, f>> \notin newer
  BY <1>1 DEF IInv, Shape, Exists
<1>3. slots = 1 => sync = "done"
  <2> SUFFICES ASSUME slots = 1, SyncRunning PROVE FALSE
    BY <1>1 DEF SyncRunning
  <2>1. Cardinality(jobs) + 1 < 1
    BY <1>1 DEF SlotFree
  <2>2. Cardinality(jobs) \in Nat
    BY FS_CardinalityType DEF IInv, Shape
  <2> QED BY <2>1, <2>2
<1>4. Shape'
  BY <1>1, <1>2 DEF IInv, Shape
<1>5. Stages'
  BY <1>1, <1>3 DEF IInv, Stages, Active
<1>6. Stamped' /\ NeverMixed' /\ Dated'
  BY <1>1, TreeKept DEF IInv
<1>7. Believed /\ Kept /\ Pending /\ Made /\ Removed
  BY <1>1 DEF IInv, RunInv
<1>8. Believed'
  BY <1>1, <1>2, <1>7 DEF Believed
<1>9. Kept'
  <2>1. \A g \in settled \ remade : g # f
    BY <1>1, <1>7, NoneApart DEF Kept
  <2> QED BY <1>1, <1>2, <1>7, <2>1 DEF Kept, IInv, Shape
<1>10. Pending' /\ Made'
  BY <1>1, <1>7 DEF Pending, Made, ProductIn, Exists
<1>11. NotLost => NotLost'
  BY <1>1, <1>2 DEF NotLost
<1>12. Removed'
  BY <1>1, <1>7, <1>11 DEF Removed, AllRemade
<1> QED BY <1>4, <1>5, <1>6, <1>8, <1>9, <1>10, <1>12 DEF IInv, RunInv

LEMMA UpToDateInv == ASSUME IInv, NEW f \in Outputs, UpToDate(f) PROVE IInv'
<1>1. /\ Ready(f) /\ ~MustMake(f) /\ settled' = settled \cup {f}
      /\ UNCHANGED <<tree, make, sync, cfg, goals, slots, seen, remade, jobs, torn>>
      /\ UNCHANGED <<file, newer, ver, stamp>>
  BY DEF UpToDate, tree, counts
<1>2. /\ make = "running" /\ f \notin settled /\ f \notin jobs /\ Needs(f) \subseteq settled \cup Sources
      /\ seen[f] = "current" /\ Needs(f) \cap remade = {} /\ seen[f] # None
  BY <1>1 DEF Ready, MustMake
<1>3. sync # "done" => f = Ld
  BY <1>1, LateReady DEF IInv
<1>4. Shape'
  BY <1>1, <1>2 DEF IInv, Shape
<1>5. Stages'
  BY <1>1, <1>2, <1>3 DEF IInv, Stages, Blank, Active
<1>6. Stamped' /\ NeverMixed' /\ Dated'
  BY <1>1, TreeKept DEF IInv
<1>7. Believed /\ Kept /\ Pending /\ Made /\ Removed
  BY <1>2 DEF IInv, RunInv
<1>8. Believed' /\ Pending'
  BY <1>1, <1>7 DEF Believed, Pending
<1>9. Kept'
  BY <1>1, <1>2, <1>7 DEF Kept
<1>10. Made'
  BY <1>1, <1>7 DEF Made, ProductIn, Exists
<1>11. Removed'
  BY <1>1, <1>7 DEF Removed, NotLost, AllRemade
<1> QED BY <1>4, <1>5, <1>6, <1>8, <1>9, <1>10, <1>11 DEF IInv, RunInv

LEMMA StartJobInv == ASSUME IInv, NEW f \in Outputs, StartJob(f) PROVE IInv'
<1>1. /\ Ready(f) /\ jobs' = jobs \cup {f}
      /\ UNCHANGED <<tree, make, sync, cfg, goals, slots, seen, remade, settled, torn>>
      /\ UNCHANGED <<file, newer, ver, stamp>>
  BY DEF StartJob, tree, counts
<1>2. make = "running" /\ f \notin settled /\ Needs(f) \subseteq settled \cup Sources /\ seen[f] # None
  BY <1>1 DEF Ready
<1>3. sync # "done" => f = Ld
  BY <1>1, LateReady DEF IInv
<1>4. Shape'
  BY <1>1, <1>2, FS_AddElement DEF IInv, Shape
<1>5. Stages'
  BY <1>1, <1>2, <1>3 DEF IInv, Stages, Blank, Active
<1>6. Stamped' /\ NeverMixed' /\ Dated'
  BY <1>1, TreeKept DEF IInv
<1>7. Believed /\ Kept /\ Pending /\ Made /\ Removed
  BY <1>2 DEF IInv, RunInv
<1>8. Believed' /\ Kept' /\ Pending'
  BY <1>1, <1>2, <1>7 DEF Believed, Kept, Pending
<1>9. Made'
  BY <1>1, <1>7 DEF Made, ProductIn, Exists
<1>10. Removed'
  BY <1>1, <1>7 DEF Removed, NotLost, AllRemade
<1> QED BY <1>4, <1>5, <1>6, <1>8, <1>9, <1>10 DEF IInv, RunInv

(* The product is current, and what was believed of its dependents is now  *)
(* false of files that make will remake.                                   *)
(* What a recipe writes is current, and belongs to the stamp.              *)
LEMMA WriteKeeps ==
  ASSUME IInv, NEW f \in Outputs, f \in jobs, Write(f), UNCHANGED <<ver, stamp, sync, cfg, torn>>
  PROVE  /\ file' = [g \in Outputs |-> file'[g]] /\ file'[f] = ProductIn(f, file', ver', cfg)
         /\ \A g \in Outputs \ {f} : file'[g] = file[g]
         /\ Stamped' /\ NeverMixed' /\ Dated'
<1>1. /\ \A d \in Needs(f) : Exists(d)
      /\ file' = [file EXCEPT ![f] = Product(f)]
      /\ newer' = {p \in newer : p[2] # f}
                    \cup {<<f, g>> : g \in {h \in Outputs : Exists(h) /\ f \in Needs(h)}}
      /\ UNCHANGED <<ver, stamp, sync, cfg, torn>>
  BY DEF Write
<1>2. Shape /\ Stages /\ Stamped /\ NeverMixed /\ Dated /\ cfg \in Configs
  BY DEF IInv, Shape
<1> ver' = ver /\ cfg' = cfg
  BY <1>1
<1>3. /\ file' = [g \in Outputs |-> file'[g]] /\ file'[f] = ProductIn(f, file, ver, cfg)
      /\ \A g \in Outputs \ {f} : file'[g] = file[g]
  BY <1>1, <1>2, ProductHere DEF Shape
<1>4. f # Ld => sync = "done"
  BY <1>2 DEF Stages
<1>7. file'[f] = ProductIn(f, file', ver', cfg)
  <2>1. \A d \in Needs(f) \ {Ld} : file[d] = file'[d] \/ d \notin Outputs
    BY <1>3, NeedsKnown
  <2>2. ProductIn(f, file, ver, cfg) = ProductIn(f, file', ver', cfg)
    BY <2>1, ProductSame
  <2> QED BY <1>3, <2>2
<1>8. Stamped'
  <2> SUFFICES ASSUME ~torn PROVE Stamped'
    BY <1>1 DEF Stamped
  <2>1. ASSUME NEW c, All(c), f # Ld => c = cfg PROVE All(c)'
    <3>1. ASSUME NEW t \in Targets, f = App(t), f # Ld PROVE c # None /\ file'[f].cfg = c
      <4>1. file'[f] = [cfg |-> cfg, ver |-> ver[<<"app.c", t>>]]
        BY <1>3, <3>1, AppOf
      <4>2. file'[f].cfg = cfg /\ c = cfg
        BY <2>1, <3>1, <4>1
      <4> QED BY <1>2, <4>2, NoneApart
    <3>2. ASSUME NEW l \in Libs, f = Lib(l), f # Ld PROVE c # None /\ file'[f].cfg = c
      <4>1. file'[f] = [cfg |-> cfg, ver |-> ver[<<"lib.c", l>>]]
        BY <1>3, <3>2, LibraryOf
      <4>2. file'[f].cfg = cfg /\ c = cfg
        BY <2>1, <3>2, <4>1
      <4> QED BY <1>2, <4>2, NoneApart
    <3>3. f \in Objects \ {Ld} => c # None /\ file'[f].cfg = c
      BY <3>1, <3>2 DEF Objects
    <3> QED BY <1>3, <2>1, <3>3, FilesKnown DEF All
  <2>2. sync # "write" => All(stamp)'
    BY <1>1, <1>2, <1>4, <2>1 DEF Stamped, All
  <2>3. sync \in {"truncate", "write", "done"} => All(cfg)'
    BY <1>1, <1>2, <2>1 DEF Stamped, All
  <2> QED BY <1>1, <1>2, <2>2, <2>3 DEF Stamped
<1>9. NeverMixed'
  <2> SUFFICES ASSUME ~torn', NEW t \in Targets, NEW e \in {"elf", "bin"}, file'[<<e, t>>] # None
               PROVE  file'[<<e, t>>].app.cfg = file'[<<e, t>>].lib.cfg
    BY DEF NeverMixed
  <2> ~torn
    BY <1>1
  <2>1. <<e, t>> \in Outputs /\ <<e, t>> # Ld
    BY FilesKnown DEF Bin, Elf
  <2>2. CASE f # <<e, t>>
    BY <1>2, <1>3, <2>1, <2>2 DEF NeverMixed
  <2>3. CASE f = Elf(t)
    <3>1. file'[f] = [app |-> file[App(t)], lib |-> file[Lib(LibOf[t])]]
      BY <1>3, <2>3, ElfOf
    <3>2. file[App(t)] # None /\ file[Lib(LibOf[t])] # None
      BY <1>1, <2>3, NeedsOf, FilesKnown DEF Exists
    <3>3. All(cfg)
      BY <1>2, <1>4, <2>3, FilesKnown DEF Stamped
    <3>4. file[App(t)].cfg = file[Lib(LibOf[t])].cfg
      BY <3>2, <3>3, FilesKnown DEF All
    <3>5. f = <<e, t>> \/ f # <<e, t>>
      OBVIOUS
    <3> QED BY <2>2, <3>1, <3>4, <3>5
  <2>4. CASE f = Bin(t)
    <3>1. file'[f] = file[Elf(t)] /\ file[Elf(t)] # None
      BY <1>1, <1>3, <2>4, BinOf, NeedsOf, FilesKnown DEF Exists
    <3>2. file[Elf(t)].app.cfg = file[Elf(t)].lib.cfg
      BY <1>2, <3>1 DEF NeverMixed, Elf
    <3> QED BY <2>2, <3>1, <3>2
  <2> QED BY <2>2, <2>3, <2>4 DEF Bin, Elf
<1>10. Dated'
  <2> SUFFICES ASSUME NEW g \in Outputs, file'[g] # None
               PROVE  \/ \E d \in Needs(g) : ~Exists(d)'
                      \/ \E d \in Needs(g) : <<d, g>> \in newer'
                      \/ CurrentIn(g, file', ver')
    BY DEF Dated
  <2>1. CASE g = f
    BY <1>7, <2>1, ProductCurrent
  <2>2. CASE g # f /\ f \in Needs(g)
    BY <1>1, <1>3, <2>2 DEF Exists
  <2>3. CASE g # f /\ f \notin Needs(g)
    <3>1. file'[g] = file[g] /\ file[g] # None
      BY <1>3, <2>3
    <3>2. CASE \E d \in Needs(g) : ~Exists(d)
      BY <1>3, <2>3, <3>2 DEF Exists
    <3>3. CASE \E d \in Needs(g) : <<d, g>> \in newer
      BY <1>1, <2>3, <3>3
    <3>4. CASE CurrentIn(g, file, ver)
      <4> DEFINE c == file[g].cfg
      <4>1. \A d \in Needs(g) \ {Ld} : file[d] = file'[d] \/ d \notin Outputs
        BY <1>3, <2>3
      <4> HIDE DEF c
      <4>2. ProductIn(g, file, ver, c) = ProductIn(g, file', ver', c)
        BY <4>1, ProductSame
      <4> QED BY <3>1, <3>4, <4>2 DEF CurrentIn, c
    <3> QED BY <1>2, <3>1, <3>2, <3>3, <3>4 DEF Dated
  <2> QED BY <2>1, <2>2, <2>3
<1> QED BY <1>3, <1>7, <1>8, <1>9, <1>10

LEMMA FinishJobInv == ASSUME IInv, NEW f \in Outputs, FinishJob(f) PROVE IInv'
<1>1. /\ Active /\ f \in jobs /\ \A d \in Needs(f) : Exists(d)
      /\ Write(f)
      /\ newer' = {p \in newer : p[2] # f}
                    \cup {<<f, g>> : g \in {h \in Outputs : Exists(h) /\ f \in Needs(h)}}
      /\ jobs' = jobs \ {f} /\ settled' = settled \cup {f} /\ remade' = remade \cup {f}
      /\ UNCHANGED <<ver, stamp, make, sync, cfg, goals, slots, seen, torn>>
  BY DEF FinishJob, Write, counts
<1>2. Shape /\ Stages /\ Stamped /\ NeverMixed /\ Dated /\ cfg \in Configs
  BY DEF IInv, Shape
<1> ver' = ver /\ cfg' = cfg
  BY <1>1
<1>3. /\ file' = [g \in Outputs |-> file'[g]]
      /\ \A g \in Outputs \ {f} : file'[g] = file[g]
      /\ Stamped' /\ NeverMixed' /\ Dated'
  BY <1>1, WriteKeeps
<1>4. f # Ld => sync = "done"
  BY <1>1, <1>2 DEF Stages
<1>5. Shape'
  BY <1>1, <1>2, <1>3, FS_RemoveElement DEF Shape
<1>6. Stages'
  BY <1>1, <1>2, <1>4 DEF Stages, Blank, Active
<1>7. file'[f] = ProductIn(f, file', ver', cfg)
  BY <1>1, WriteKeeps
<1>11. ASSUME make = "running" PROVE Believed' /\ Kept' /\ Pending' /\ Made' /\ Removed'
  <2>1. Believed /\ Kept /\ Pending /\ Made /\ Removed
    BY <1>11 DEF IInv, RunInv
  <2>2. f \notin Sources /\ f \notin settled /\ Needs(f) \subseteq settled \cup Sources
    BY <1>1, <1>2, <2>1, Apart DEF Pending, Shape
  <2>3. Believed'
    <3> SUFFICES ASSUME NEW g \in Outputs, seen[g] = "current", file'[g] # None,
                        NEW d \in Needs(g), <<d, g>> \in newer'
                 PROVE  d \in remade'
      BY <1>1 DEF Believed
    <3>1. (<<d, g>> \in newer /\ g # f) \/ d = f
      BY <1>1
    <3> QED BY <1>1, <1>3, <2>1, <3>1 DEF Believed
  <2>4. Kept'
    BY <1>1, <2>1, <2>2 DEF Kept
  <2>5. Pending'
    BY <1>1, <2>1 DEF Pending
  <2>6. Made'
    <3> SUFFICES ASSUME NEW g \in remade' \ {Ld}
                 PROVE  /\ file'[g] = ProductIn(g, file', ver', cfg) /\ Needs(g) \subseteq settled' \cup Sources
                        /\ \A d \in Needs(g) \ {Ld} : Exists(d)'
      BY <1>1 DEF Made
    <3>1. CASE g = f
      <4>1. \A d \in Needs(f) : Exists(d)'
        BY <1>1, <1>3, NeedsKnown DEF Exists
      <4> QED BY <1>1, <1>7, <2>2, <3>1, <4>1
    <3>2. CASE g # f
      <4>1. g \in remade \ {Ld} /\ g \in Outputs
        BY <1>1, <1>2, <3>2 DEF Shape
      <4>2. f \notin Needs(g)
        BY <2>1, <2>2, <4>1 DEF Made
      <4>3. \A d \in Needs(g) \ {Ld} : file[d] = file'[d] \/ d \notin Outputs
        BY <1>3, <4>2
      <4>4. ProductIn(g, file, ver, cfg) = ProductIn(g, file', ver', cfg)
        BY <4>1, <4>3, ProductSame
      <4>5. file'[g] = ProductIn(g, file', ver', cfg)
        BY <1>3, <2>1, <3>2, <4>1, <4>4 DEF Made
      <4>6. \A d \in Needs(g) \ {Ld} : Exists(d)'
        BY <2>1, <4>1, <4>3 DEF Made, Exists
      <4> QED BY <1>1, <2>1, <4>1, <4>5, <4>6 DEF Made
    <3> QED BY <3>1, <3>2
  <2>7. Removed'
    <3>1. NotLost => NotLost'
      BY <1>1, <1>3 DEF NotLost
    <3>2. AllRemade => AllRemade'
      BY <1>1, <1>3 DEF AllRemade
    <3>3. sync # "done" => \A t \in Targets : file'[Bin(t)] = file[Bin(t)] /\ file'[Elf(t)] = file[Elf(t)]
      BY <1>3, <1>4, FilesKnown
    <3> QED BY <1>1, <2>1, <3>1, <3>2, <3>3 DEF Removed
  <2> QED BY <2>3, <2>4, <2>5, <2>6, <2>7
<1>12. RunInv'
  BY <1>1, <1>11 DEF RunInv
<1> QED BY <1>3, <1>5, <1>6, <1>12 DEF IInv

(* A file that is removed, or is not, or an ELF file that was written.     *)
LEMMA FailJobInv == ASSUME IInv, NEW f \in Outputs, FailJob(f) PROVE IInv'
<1>1. /\ Active /\ f \in jobs /\ make' = "failing" /\ jobs' = jobs \ {f}
      /\ UNCHANGED <<ver, stamp, sync, cfg, goals, slots, seen, settled, remade, torn>>
      /\ Remove({f}) \/ UNCHANGED <<file, newer>> \/ Write(f)
  BY DEF FailJob
<1>2. /\ file' = [g \in Outputs |-> file'[g]]
      /\ Dated' /\ NeverMixed' /\ Stamped'
  <2>1. CASE Remove({f})
    <3>1. /\ file' = [g \in Outputs |-> file'[g]]
          /\ \A g \in Outputs : file'[g] = None \/ file'[g] = file[g]
          /\ Dated' /\ NeverMixed'
      BY <1>1, <2>1, Shrinking DEF IInv
    <3> QED BY <1>1, <3>1, FilesKnown DEF IInv, Stamped, All
  <2>2. CASE UNCHANGED <<file, newer>>
    <3>1. file' = [g \in Outputs |-> file'[g]] /\ Dated' /\ NeverMixed'
      BY <1>1, <2>2 DEF IInv, Shape, NeverMixed, Dated, CurrentIn, ProductIn, Exists
    <3> QED BY <1>1, <2>2, <3>1 DEF IInv, Stamped, All
  <2>3. CASE Write(f)
    BY <1>1, <2>3, WriteKeeps
  <2> QED BY <1>1, <2>1, <2>2, <2>3
<1>3. Shape'
  BY <1>1, <1>2, FS_RemoveElement DEF IInv, Shape
<1>4. Stages'
  BY <1>1 DEF IInv, Stages, Blank, Active
<1>5. RunInv'
  BY <1>1 DEF RunInv
<1> QED BY <1>2, <1>3, <1>4, <1>5 DEF IInv

LEMMA FailInv == ASSUME IInv, Fail PROVE IInv'
<1>1. /\ Active /\ sync \in {"todo", "done"} /\ Exit("failed") /\ UNCHANGED <<tree, torn>>
      /\ UNCHANGED <<file, newer, ver, stamp>>
  BY DEF Fail, tree, counts, SyncRunning, Active
<1>2. Dated' /\ NeverMixed' /\ (~torn' => All(stamp)')
  BY <1>1 DEF IInv, Dated, NeverMixed, Stamped, All, CurrentIn, ProductIn, Exists
<1> QED BY <1>1, <1>2, Ended DEF IInv, Shape

LEMMA SucceedInv == ASSUME IInv, Succeed PROVE IInv'
<1>1. /\ sync = "done" /\ Exit("ok") /\ UNCHANGED <<file, newer, ver, stamp, torn>>
  BY DEF Succeed, tree, counts
<1>2. Dated' /\ NeverMixed' /\ (~torn' => All(stamp)')
  BY <1>1 DEF IInv, Dated, NeverMixed, Stamped, All, CurrentIn, ProductIn, Exists
<1> QED BY <1>1, <1>2, Ended DEF IInv, Shape

LEMMA InterruptInv == ASSUME IInv, Interrupt PROVE IInv'
<1>1. /\ torn' = (torn \/ sync = "write") /\ Exit("failed") /\ UNCHANGED <<ver, stamp>>
  BY DEF Interrupt
<1>2. PICK S \in SUBSET jobs : Remove(S)
  BY DEF Interrupt
<1>3. /\ file' = [g \in Outputs |-> file'[g]]
      /\ \A g \in Outputs : file'[g] = None \/ file'[g] = file[g]
      /\ Dated' /\ NeverMixed'
  <2>1. S \in SUBSET Outputs
    BY DEF IInv, Shape
  <2> QED BY <1>1, <1>2, <2>1, Shrinking DEF IInv
<1>4. ~torn' => All(stamp)'
  BY <1>1, <1>3, FilesKnown DEF IInv, Stamped, All
<1> QED BY <1>1, <1>3, <1>4, Ended DEF IInv, Shape

LEMMA NextInv == IInv /\ [Next]_vars => IInv'
<1>1. IInv /\ UNCHANGED vars => IInv'
  <2> SUFFICES ASSUME IInv, UNCHANGED vars PROVE IInv'
    OBVIOUS
  <2>1. UNCHANGED <<ver, file, newer, stamp, make, sync, cfg, goals, slots, seen, settled, remade, jobs, torn>>
    BY DEF vars, tree, run, memory, counts
  <2>2. Shape' /\ Stages'
    BY <2>1 DEF IInv, Shape, Stages, Blank, Active
  <2>3. Stamped' /\ NeverMixed' /\ Dated'
    BY <2>1 DEF IInv, Stamped, All, NeverMixed, Dated, CurrentIn, ProductIn, Exists
  <2>4. RunInv'
    BY <2>1, MemoryKept DEF IInv, RunInv, Removed, NotLost, AllRemade
  <2> QED BY <2>2, <2>3, <2>4 DEF IInv
<1>2. IInv /\ Make => IInv'
  BY SyncStartInv, SyncCompareInv, SyncRemoveInv, SyncWriteInv, FailInv, SucceedInv, LookInv, UpToDateInv,
     StartJobInv, FinishJobInv, FailJobInv DEF Make
<1>3. IInv /\ Next => IInv'
  BY <1>2, EditInv, StartMakeInv, InterruptInv DEF Next
<1> QED BY <1>1, <1>3

-----------------------------------------------------------------------------
(* What makes a settled file the product of settled, existing files.       *)
LEMMA SettledCurrent ==
  ASSUME IInv, make = "running", sync = "done", NEW f \in settled \ {Ld}, file[f] # None
  PROVE  /\ CurrentIn(f, file, ver)
         /\ \A d \in Needs(f) \ {Ld} : d \in Outputs => d \in settled /\ file[d] # None
<1>1. /\ Believed /\ Kept /\ Made /\ (NotLost \/ AllRemade) /\ f \in Outputs
      /\ Dated /\ settled \subseteq Outputs
  BY DEF IInv, RunInv, Removed, Shape
<1>2. CASE f \in remade
  <2>1. /\ file[f] = ProductIn(f, file, ver, cfg) /\ Needs(f) \subseteq settled \cup Sources
        /\ \A d \in Needs(f) \ {Ld} : Exists(d)
    BY <1>1, <1>2 DEF Made
  <2> QED BY <1>1, <2>1, ProductCurrent, Apart DEF Exists
<1>3. CASE f \notin remade
  <2>1. NotLost /\ Needs(f) \cap remade = {} /\ Needs(f) \subseteq settled \cup Sources /\ seen[f] = "current"
    BY <1>1, <1>3 DEF AllRemade, Kept
  <2>2. ASSUME NEW d \in Needs(f), d \in Outputs PROVE d \in settled /\ file[d] # None
    <3>1. d \in settled \ remade
      BY <2>1, <2>2, Apart
    <3>2. seen[d] = "current"
      BY <1>1, <3>1 DEF Kept
    <3> QED BY <2>1, <2>2, <3>1, <3>2 DEF NotLost
  <2>3. \A d \in Needs(f) : Exists(d) /\ <<d, f>> \notin newer
    BY <1>1, <2>1, <2>2 DEF Exists, Believed
  <2>4. CurrentIn(f, file, ver)
    BY <1>1, <2>3 DEF Dated
  <2> QED BY <2>2, <2>4
<1> QED BY <1>2, <1>3

LEMMA SettledFresh ==
  ASSUME IInv, ~torn, make = "running", sync = "done", NEW t \in Targets,
         Bin(t) \in settled, file[Bin(t)] # None
  PROVE  Fresh(t)
<1> DEFINE l == LibOf[t]
<1>1. file[Bin(t)] = file[Elf(t)] /\ Elf(t) \in settled /\ file[Elf(t)] # None
  <2>1. Bin(t) \in settled \ {Ld} /\ Elf(t) \in Needs(Bin(t)) \ {Ld} /\ Elf(t) \in Outputs
    BY FilesKnown, NeedsOf
  <2>2. CurrentIn(Bin(t), file, ver) /\ Elf(t) \in settled /\ file[Elf(t)] # None
    BY <2>1, SettledCurrent
  <2> QED BY <2>2, BinOf DEF CurrentIn
<1>2. /\ file[Elf(t)] = [app |-> file[App(t)], lib |-> file[Lib(l)]]
      /\ App(t) \in settled /\ file[App(t)] # None /\ Lib(l) \in settled /\ file[Lib(l)] # None
  <2>1. /\ Elf(t) \in settled \ {Ld}
        /\ App(t) \in Needs(Elf(t)) \ {Ld} /\ App(t) \in Outputs
        /\ Lib(l) \in Needs(Elf(t)) \ {Ld} /\ Lib(l) \in Outputs
    BY <1>1, FilesKnown, NeedsOf
  <2>2. /\ CurrentIn(Elf(t), file, ver)
        /\ App(t) \in settled /\ file[App(t)] # None /\ Lib(l) \in settled /\ file[Lib(l)] # None
    BY <1>1, <2>1, SettledCurrent
  <2> QED BY <2>2, ElfOf DEF CurrentIn
<1>3. file[App(t)].cfg = cfg /\ file[Lib(l)].cfg = cfg
  <2>1. All(cfg)
    BY DEF IInv, Stamped
  <2> QED BY <1>2, <2>1, FilesKnown DEF All
<1>4. file[App(t)] = [cfg |-> cfg, ver |-> ver[<<"app.c", t>>]]
  <2>1. App(t) \in settled \ {Ld}
    BY <1>2, FilesKnown
  <2>2. CurrentIn(App(t), file, ver)
    BY <1>2, <2>1, SettledCurrent
  <2> QED BY <1>3, <2>2, AppOf DEF CurrentIn
<1>5. file[Lib(l)] = [cfg |-> cfg, ver |-> ver[<<"lib.c", l>>]]
  <2>1. Lib(l) \in settled \ {Ld}
    BY <1>2, FilesKnown
  <2>2. CurrentIn(Lib(l), file, ver)
    BY <1>2, <2>1, SettledCurrent
  <2> QED BY <1>3, <2>2, LibraryOf DEF CurrentIn
<1> QED BY <1>1, <1>2, <1>4, <1>5 DEF Fresh

(* With one job slot nothing is looked at before platform-sync is done, so *)
(* nothing believed to be there is gone.                                   *)
LEMMA SerialExists ==
  ASSUME IInv, make = "running", slots = 1, NEW t \in Targets, Bin(t) \in settled
  PROVE  file[Bin(t)] # None
<1>1. Made /\ Kept /\ NotLost
  BY DEF IInv, RunInv, Removed
<1>2. CASE Bin(t) \in remade
  <2>1. Bin(t) \in remade \ {Ld} /\ Elf(t) \in Needs(Bin(t)) \ {Ld} /\ Elf(t) \in Outputs
    BY <1>2, FilesKnown, NeedsOf
  <2>2. file[Bin(t)] = ProductIn(Bin(t), file, ver, cfg) /\ file[Elf(t)] # None
    BY <1>1, <2>1 DEF Made, Exists
  <2> QED BY <2>2, BinOf
<1>3. CASE Bin(t) \notin remade
  BY <1>1, <1>3, FilesKnown DEF Kept, NotLost
<1> QED BY <1>2, <1>3

LEMMA SucceedTree ==
  ASSUME IInv, Succeeds, Next
  PROVE  Succeed /\ sync = "done" /\ UNCHANGED <<file, ver, cfg, goals, torn, stamp>>
         /\ make = "running" /\ \A t \in goals : Bin(t) \in settled
<1>1. Succeed
  <2>1. make = "running" /\ make' = "ok"
    BY DEF Succeeds
  <2>2. ~Interrupt /\ ~Fail
    BY <2>1 DEF Interrupt, Fail, Exit
  <2>3. \A f \in Outputs : ~Look(f) /\ ~UpToDate(f) /\ ~StartJob(f) /\ ~FinishJob(f) /\ ~FailJob(f)
    BY <2>1 DEF Look, UpToDate, StartJob, FinishJob, FailJob
  <2>4. ~SyncStart /\ ~SyncCompare /\ ~SyncRemove /\ ~SyncWrite
    BY <2>1 DEF SyncStart, SyncCompare, SyncRemove, SyncWrite
  <2>5. \A s \in Sources : ~Edit(s)
    BY <2>1 DEF Edit
  <2>6. \A c \in Configs, g \in SUBSET Targets \ {{}}, n \in 1 .. MaxJobs : ~StartMake(c, g, n)
    BY <2>1 DEF StartMake
  <2> QED BY <2>2, <2>3, <2>4, <2>5, <2>6 DEF Next, Make
<1> QED BY <1>1 DEF Succeed, Exit, tree, counts

-----------------------------------------------------------------------------
(* The invariant above, for every history of runs, edits and failures.     *)
THEOREM BuildInvariant == Spec => []IInv
BY InitInv, NextInv, PTL DEF Spec

(* The link never joins objects of two configurations (mk/scheme.mk).      *)
THEOREM LinksNeverMix == Spec => []NeverMixed
<1>1. IInv => NeverMixed
  BY DEF IInv
<1> QED BY BuildInvariant, <1>1, PTL

(* What a run leaves in obj belongs to the stamp, complete or not          *)
(* (platform-sync in Makefile).                                            *)
THEOREM StampTells == Spec => []StampCovers
<1>1. IInv => StampCovers
  BY FilesKnown DEF IInv, Stages, Stamped, All, StampCovers
<1> QED BY BuildInvariant, <1>1, PTL

(* A successful make leaves no stale image, whatever the number of slots:  *)
(* an image it may have lost, but one that is there is of these sources    *)
(* and this configuration.                                                 *)
THEOREM NoStaleImage == Spec => SuccessNotStale
<1>1. ASSUME IInv, Next, Succeeds, ~torn, NEW t \in goals', file'[Bin(t)] # None PROVE Fresh(t)'
  <2>1. UNCHANGED <<file, ver, cfg>> /\ Fresh(t)
    BY <1>1, SucceedTree, SettledFresh DEF IInv, Shape
  <2> QED BY <2>1 DEF Fresh
<1>2. IInv /\ [Next]_vars => [Succeeds /\ ~torn => \A t \in goals' : (file[Bin(t)] = None \/ Fresh(t))']_vars
  BY <1>1
<1> QED BY BuildInvariant, <1>2, PTL DEF Spec, SuccessNotStale

(* With one slot it loses none either: every image asked for is there, and *)
(* freshly built.                                                          *)
THEOREM SerialMakeIsFresh == Spec => SerialIsFresh
<1>1. ASSUME IInv, Next, Succeeds, ~torn, slots = 1, NEW t \in goals' PROVE Fresh(t)'
  <2>1. /\ UNCHANGED <<file, ver, cfg>> /\ t \in Targets /\ Bin(t) \in settled
        /\ make = "running" /\ sync = "done"
    BY <1>1, SucceedTree DEF IInv, Shape
  <2>2. Fresh(t)
    BY <1>1, <2>1, SerialExists, SettledFresh
  <2> QED BY <2>1, <2>2 DEF Fresh
<1>2. IInv /\ [Next]_vars => [Succeeds /\ ~torn /\ slots = 1 => \A t \in goals' : Fresh(t)']_vars
  BY <1>1
<1> QED BY BuildInvariant, <1>2, PTL DEF Spec, SerialIsFresh

-----------------------------------------------------------------------------
(* What the files hold. *)
Contents ==
  /\ stamp \in Configs \cup {None} /\ ver \in [Sources -> Nat]
  /\ \A t \in Targets : {file[Bin(t)], file[Elf(t)]} \subseteq Linked \cup {None}
  /\ \A f \in Objects \ {Ld} : file[f] \in Compiled \cup {None}

Known(p) ==
  p \in (Sources \cup Outputs) \X Outputs /\ p[1] \in Needs(p[2]) /\ Exists(p[1]) /\ Exists(p[2])

(* Times are compared between files and what they need.                     *)
Ages == \A p \in newer : Known(p)

Sorts == Contents /\ Ages /\ slots \in Nat /\ Cardinality(jobs) <= slots

LEMMA OutputsSplit ==
  ASSUME NEW f \in Outputs
  PROVE  (\E t \in Targets : f \in {Bin(t), Elf(t)}) \/ f \in Objects
BY DEF Outputs

(* Removing files. *)
LEMMA RemoveSorts ==
  ASSUME Contents, Ages, NEW S, Remove(S), UNCHANGED ver,
         stamp' \in Configs \cup {None}
  PROVE  Contents' /\ Ages'
<1>1. \A f \in Outputs : file'[f] = IF f \in S THEN None ELSE file[f]
  BY DEF Remove
<1>2. Contents'
  BY <1>1, FilesKnown DEF Contents
<1>3. ASSUME NEW p \in newer' PROVE Known(p)'
  <2>1. p \in newer /\ p[1] \notin S /\ p[2] \notin S
    BY <1>3 DEF Remove
  <2>2. Known(p)
    BY <2>1 DEF Ages
  <2> QED BY <1>1, <2>1, <2>2 DEF Known, Exists
<1> QED BY <1>2, <1>3 DEF Ages

LEMMA WriteSorts ==
  ASSUME IInv, Sorts, NEW f \in Outputs, Write(f), UNCHANGED <<ver, stamp>>
  PROVE  Contents' /\ Ages'
<1>1. /\ file' = [file EXCEPT ![f] = Product(f)] /\ UNCHANGED <<ver, stamp>>
      /\ newer' = {p \in newer : p[2] # f}
                    \cup {<<f, g>> : g \in {h \in Outputs : Exists(h) /\ f \in Needs(h)}}
      /\ \A d \in Needs(f) : Exists(d)
  BY DEF Write
<1>2. /\ file'[f] = Product(f)
      /\ \A g \in Outputs : g # f => file'[g] = file[g]
  BY <1>1 DEF IInv, Shape
<1>3. /\ \A t \in Targets : f = Bin(t) => Product(f) \in Linked
      /\ \A t \in Targets : f = Elf(t) => Product(f) \in Linked
      /\ f \in Objects \ {Ld} => Product(f) \in Compiled
      /\ f = Ld => Product(f) = "generated"
  <2>1. ASSUME NEW t \in Targets, f = Bin(t) PROVE Product(f) \in Linked
    <3>1. file[Elf(t)] # None /\ Product(f) = file[Elf(t)]
      BY <1>1, <2>1, NeedsOf, FilesKnown, ProductHere, BinOf DEF Exists
    <3> QED BY <3>1 DEF Sorts, Contents
  <2>2. ASSUME NEW t \in Targets, f = Elf(t) PROVE Product(f) \in Linked
    <3>1. /\ Product(f) = [app |-> file[App(t)], lib |-> file[Lib(LibOf[t])]]
          /\ file[App(t)] # None /\ file[Lib(LibOf[t])] # None
      BY <1>1, <2>2, NeedsOf, FilesKnown, ProductHere, ElfOf DEF Exists
    <3>2. file[App(t)] \in Compiled /\ file[Lib(LibOf[t])] \in Compiled
      BY <3>1, FilesKnown DEF Sorts, Contents
    <3> QED BY <3>1, <3>2 DEF Linked
  <2>a. cfg \in Configs /\ \A s \in Sources : ver[s] \in Nat
    BY DEF IInv, Shape, Sorts, Contents
  <2>3. ASSUME f \in Objects \ {Ld} PROVE Product(f) \in Compiled
    <3>1. (\E t \in Targets : f = App(t)) \/ \E l \in Libs : f = Lib(l)
      BY <2>3 DEF Objects
    <3>2. CASE \E t \in Targets : f = App(t)
      <4>1. PICK t \in Targets : f = App(t)
        BY <3>2
      <4>2. Product(f) = [cfg |-> cfg, ver |-> ver[<<"app.c", t>>]] /\ <<"app.c", t>> \in Sources
        BY <4>1, ProductHere, AppOf DEF Sources
      <4> QED BY <2>a, <4>2 DEF Compiled
    <3>3. CASE \E l \in Libs : f = Lib(l)
      <4>1. PICK l \in Libs : f = Lib(l)
        BY <3>3
      <4>2. Product(f) = [cfg |-> cfg, ver |-> ver[<<"lib.c", l>>]] /\ <<"lib.c", l>> \in Sources
        BY <4>1, ProductHere, LibraryOf DEF Sources
      <4> QED BY <2>a, <4>2 DEF Compiled
    <3> QED BY <3>1, <3>2, <3>3
  <2>4. f = Ld => Product(f) = "generated"
    BY ProductHere, LdOf
  <2> QED BY <2>1, <2>2, <2>3, <2>4
<1>4. Contents'
  BY <1>1, <1>2, <1>3, FilesKnown DEF Sorts, Contents
<1>5. Product(f) # None
  BY <1>3, OutputsSplit, BuildAssumption DEF BuildAssumption
<1>6. \A g : Exists(g) => Exists(g)'
  BY <1>2, <1>5 DEF Exists
<1>7. ASSUME NEW p \in newer' PROVE Known(p)'
  <2>1. CASE p \in newer
    BY <1>6, <2>1 DEF Sorts, Ages, Known
  <2>2. CASE p \notin newer
    <3>1. PICK g \in Outputs : p = <<f, g>> /\ Exists(g) /\ f \in Needs(g)
      BY <1>1, <2>2
    <3>2. Exists(f)' /\ Exists(g)'
      BY <1>2, <1>5, <1>6, <3>1 DEF Exists
    <3> QED BY <3>1, <3>2 DEF Known
  <2> QED BY <2>1, <2>2
<1> QED BY <1>4, <1>7 DEF Ages

LEMMA EditSorts ==
  ASSUME Sorts, NEW s \in Sources, Edit(s)
  PROVE  Contents' /\ Ages'
<1>1. /\ UNCHANGED <<file, stamp>> /\ ver' = [ver EXCEPT ![s] = @ + 1]
      /\ newer' = newer \cup {<<s, f>> : f \in {g \in Outputs : Exists(g) /\ s \in Needs(g)}}
  BY DEF Edit
<1>2. Contents'
  BY <1>1 DEF Sorts, Contents
<1>3. ASSUME NEW p \in newer' PROVE Known(p)'
  <2>1. CASE p \in newer
    BY <1>1, <2>1 DEF Sorts, Ages, Known, Exists
  <2>2. CASE p \notin newer
    <3>1. PICK g \in Outputs : p = <<s, g>> /\ Exists(g) /\ s \in Needs(g)
      BY <1>1, <2>2
    <3>2. s \notin Outputs
      BY Apart
    <3> QED BY <1>1, <3>1, <3>2 DEF Known, Exists
  <2> QED BY <2>1, <2>2
<1> QED BY <1>2, <1>3 DEF Ages

LEMMA JobsFew ==
  ASSUME IInv, Sorts, [Next]_vars
  PROVE  slots' \in Nat /\ Cardinality(jobs') <= slots'
<1>0. IsFiniteSet(jobs) /\ Cardinality(jobs) \in Nat /\ Cardinality({}) = 0 /\ slots \in Nat
  BY FS_CardinalityType, FS_EmptySet DEF IInv, Shape, Sorts
<1>1. ASSUME NEW f \in Outputs, StartJob(f) PROVE slots' \in Nat /\ Cardinality(jobs') <= slots'
  <2>1. f \notin jobs /\ jobs' = jobs \cup {f} /\ slots' = slots /\ Cardinality(jobs) < slots
    BY <1>0, <1>1 DEF StartJob, Ready, SlotFree
  <2>2. Cardinality(jobs \cup {f}) = Cardinality(jobs) + 1
    BY <1>0, <2>1, FS_AddElement
  <2> QED BY <1>0, <2>1, <2>2
<1>2. ASSUME NEW f \in Outputs, FinishJob(f) \/ FailJob(f) PROVE slots' \in Nat /\ Cardinality(jobs') <= slots'
  <2>1. jobs' = jobs \ {f} /\ slots' = slots
    BY <1>2 DEF FinishJob, FailJob
  <2>2. Cardinality(jobs \ {f}) <= Cardinality(jobs) /\ Cardinality(jobs \ {f}) \in Nat
    BY <1>0, FS_Subset, FS_CardinalityType
  <2> QED BY <1>0, <2>1, <2>2 DEF Sorts
<1>3. ASSUME Fail \/ Succeed \/ Interrupt PROVE slots' \in Nat /\ Cardinality(jobs') <= slots'
  <2>1. jobs' = {} /\ slots' = slots
    BY <1>3 DEF Fail, Succeed, Interrupt, Exit
  <2> QED BY <1>0, <2>1
<1>4. ASSUME NEW c \in Configs, NEW g \in SUBSET Targets \ {{}}, NEW n \in 1 .. MaxJobs, StartMake(c, g, n)
      PROVE  slots' \in Nat /\ Cardinality(jobs') <= slots'
  <2>1. jobs' = {} /\ slots' = n
    BY <1>4 DEF StartMake, memory, IInv, Stages
  <2> QED BY <1>0, <2>1
<1>5. ASSUME UNCHANGED <<jobs, slots>> PROVE slots' \in Nat /\ Cardinality(jobs') <= slots'
  BY <1>5 DEF Sorts
<1>6. CASE SyncStart \/ SyncCompare \/ SyncRemove \/ SyncWrite \/ UNCHANGED vars
  BY <1>5, <1>6 DEF SyncStart, SyncCompare, SyncRemove, SyncWrite, vars, run, memory
<1>7. ASSUME NEW f \in Outputs, Look(f) \/ UpToDate(f) PROVE UNCHANGED <<jobs, slots>>
  BY <1>7 DEF Look, UpToDate
<1>8. ASSUME NEW s \in Sources, Edit(s) PROVE UNCHANGED <<jobs, slots>>
  BY <1>8 DEF Edit, run, memory
<1> QED BY <1>1, <1>2, <1>3, <1>4, <1>5, <1>6, <1>7, <1>8 DEF Next, Make

LEMMA SortsStep == ASSUME IInv, Sorts, [Next]_vars PROVE Sorts'
<1>0. Contents /\ Ages
  BY DEF Sorts
<1>1. ASSUME UNCHANGED <<ver, file, newer, stamp>> PROVE Contents' /\ Ages'
  <2>1. Contents'
    BY <1>0, <1>1 DEF Contents
  <2>2. ASSUME NEW p \in newer' PROVE Known(p)'
    <3>1. Known(p) /\ file' = file
      BY <1>0, <1>1, <2>2 DEF Ages
    <3> QED BY <3>1 DEF Known, Exists
  <2> QED BY <2>1, <2>2 DEF Ages
<1>2. ASSUME SyncStart \/ SyncCompare \/ Fail \/ Succeed \/ UNCHANGED vars PROVE Contents' /\ Ages'
  BY <1>1, <1>2 DEF SyncStart, SyncCompare, Fail, Succeed, vars, tree
<1>3. ASSUME NEW f \in Outputs, Look(f) \/ UpToDate(f) \/ StartJob(f) PROVE UNCHANGED <<ver, file, newer, stamp>>
  BY <1>3 DEF Look, UpToDate, StartJob, tree
<1>4. ASSUME NEW c \in Configs, NEW g \in SUBSET Targets \ {{}}, NEW n \in 1 .. MaxJobs, StartMake(c, g, n)
      PROVE  UNCHANGED <<ver, file, newer, stamp>>
  BY <1>4 DEF StartMake, tree
<1>5. ASSUME SyncRemove \/ Interrupt PROVE Contents' /\ Ages'
  <2>1. ver' = ver /\ stamp' = stamp
    BY <1>5 DEF SyncRemove, Interrupt
  <2>2. ASSUME NEW S, Remove(S) PROVE Contents' /\ Ages'
    BY <1>0, <2>1, <2>2, RemoveSorts DEF Contents
  <2>3. CASE SyncRemove
    <3>1. \/ Remove({Bin(t) : t \in Targets})
          \/ Remove({Elf(t) : t \in Targets})
          \/ Remove(Objects)
      BY <2>3 DEF SyncRemove
    <3> QED BY <2>2, <3>1
  <2>4. CASE Interrupt
    <3>1. PICK begun \in SUBSET jobs : Remove(begun)
      BY <2>4 DEF Interrupt
    <3> QED BY <2>2, <3>1
  <2> QED BY <1>5, <2>3, <2>4
<1>6. ASSUME NEW f \in Outputs, FailJob(f) \/ FinishJob(f) PROVE Contents' /\ Ages'
  <2>1. UNCHANGED <<ver, stamp>> /\ (Remove({f}) \/ UNCHANGED <<file, newer>> \/ Write(f))
    BY <1>6 DEF FailJob, FinishJob
  <2>2. CASE Write(f)
    BY <2>1, <2>2, WriteSorts
  <2> QED BY <1>0, <1>1, <2>1, <2>2, RemoveSorts DEF Contents
<1>7. ASSUME SyncWrite PROVE Contents' /\ Ages'
  <2>1. UNCHANGED <<ver, file, newer>> /\ stamp' \in {None, cfg}
    BY <1>7 DEF SyncWrite
  <2>2. cfg \in Configs
    BY DEF IInv, Shape
  <2>3. Contents'
    BY <1>0, <2>1, <2>2 DEF Contents
  <2>4. ASSUME NEW p \in newer' PROVE Known(p)'
    <3>1. Known(p) /\ file' = file
      BY <1>0, <2>1, <2>4 DEF Ages
    <3> QED BY <3>1 DEF Known, Exists
  <2> QED BY <2>3, <2>4 DEF Ages
<1>8. Contents' /\ Ages'
  BY <1>1, <1>2, <1>3, <1>4, <1>5, <1>6, <1>7, EditSorts DEF Next, Make
<1> QED BY <1>8, JobsFew DEF Sorts

(* What the files hold is what the recipes write, and make runs no more of *)
(* them at once than it has slots (mk/scheme.mk, GNU make -j).             *)
THEOREM BuildTypes == Spec => []TypeOK
<1>1. Init => Sorts
  <2> SUFFICES ASSUME Init PROVE Sorts
    OBVIOUS
  <2>1. \A f \in Outputs : file[f] = None
    BY DEF Init
  <2>2. Contents
    BY <2>1, FilesKnown DEF Init, Contents
  <2>3. newer = {} /\ slots = 1 /\ jobs = {}
    BY DEF Init
  <2> QED BY <2>2, <2>3, FS_EmptySet DEF Sorts, Ages
<1>2. IInv /\ Sorts /\ [Next]_vars => Sorts'
  BY SortsStep
<1>3. IInv /\ Sorts => TypeOK
  BY DEF IInv, Shape, Sorts, Contents, Ages, Known, TypeOK
<1> QED BY <1>1, <1>2, <1>3, BuildInvariant, PTL DEF Spec

-----------------------------------------------------------------------------
(* Every run of make ends: what a run still has to do is a number, and     *)
(* every step that leaves it running takes something from it.              *)
Unseen == {f \in Outputs : seen[f] = None}
Waiting == {f \in Outputs : seen[f] # None} \ (settled \cup jobs)

LEMMA ImageFinite ==
  ASSUME NEW S, IsFiniteSet(S), NEW g, DOMAIN g = S
  PROVE  IsFiniteSet({g[x] : x \in S})
<1> DEFINE T == {g[x] : x \in S}
<1>1. [x \in S |-> g[x]] \in Surjection(S, T)
  BY DEF Surjection
<1> QED BY <1>1, FS_Surjection

LEMMA OutputsFinite == IsFiniteSet(Outputs)
<1>0. IsFiniteSet(Targets)
  BY BuildAssumption DEF BuildAssumption
<1>1. IsFiniteSet({Bin(t) : t \in Targets})
  <2> DEFINE g == [t \in Targets |-> Bin(t)]
  <2>1. {Bin(t) : t \in Targets} = {g[t] : t \in Targets}
    OBVIOUS
  <2>2. DOMAIN g = Targets
    OBVIOUS
  <2> HIDE DEF g
  <2> QED BY <1>0, <2>1, <2>2, ImageFinite
<1>2. IsFiniteSet({Elf(t) : t \in Targets})
  <2> DEFINE g == [t \in Targets |-> Elf(t)]
  <2>1. {Elf(t) : t \in Targets} = {g[t] : t \in Targets}
    OBVIOUS
  <2>2. DOMAIN g = Targets
    OBVIOUS
  <2> HIDE DEF g
  <2> QED BY <1>0, <2>1, <2>2, ImageFinite
<1>3. IsFiniteSet({App(t) : t \in Targets})
  <2> DEFINE g == [t \in Targets |-> App(t)]
  <2>1. {App(t) : t \in Targets} = {g[t] : t \in Targets}
    OBVIOUS
  <2>2. DOMAIN g = Targets
    OBVIOUS
  <2> HIDE DEF g
  <2> QED BY <1>0, <2>1, <2>2, ImageFinite
<1>4. IsFiniteSet({Lib(l) : l \in Libs})
  <2> DEFINE g == [t \in Targets |-> Lib(LibOf[t])]
  <2>1. {Lib(l) : l \in Libs} = {g[t] : t \in Targets}
    BY DEF Libs
  <2>2. DOMAIN g = Targets
    OBVIOUS
  <2> HIDE DEF g
  <2> QED BY <1>0, <2>1, <2>2, ImageFinite
<1>5. IsFiniteSet({Ld})
  BY FS_Singleton
<1>6. IsFiniteSet({App(t) : t \in Targets} \cup {Lib(l) : l \in Libs})
  BY <1>3, <1>4, FS_Union
<1>7. IsFiniteSet(Objects)
  BY <1>5, <1>6, FS_Union DEF Objects
<1>8. IsFiniteSet({Bin(t) : t \in Targets} \cup {Elf(t) : t \in Targets})
  BY <1>1, <1>2, FS_Union
<1> QED BY <1>7, <1>8, FS_Union DEF Outputs

LEMMA Counts ==
  ASSUME Shape
  PROVE  /\ IsFiniteSet(Unseen) /\ IsFiniteSet(Waiting) /\ IsFiniteSet(jobs)
         /\ Cardinality(Unseen) \in Nat /\ Cardinality(Waiting) \in Nat /\ Cardinality(jobs) \in Nat
<1>1. Unseen \subseteq Outputs /\ Waiting \subseteq Outputs
  BY DEF Unseen, Waiting
<1> QED BY <1>1, OutputsFinite, FS_Subset, FS_CardinalityType DEF Shape

(* Work in a state and in the next one, its parts named.                   *)
LEMMA WorkParts ==
  /\ Work = SyncLeft + Cardinality(jobs) +
              IF make = "failing" THEN 0 ELSE 1 + 3 * Cardinality(Unseen) + 2 * Cardinality(Waiting)
  /\ Work' = SyncLeft' + Cardinality(jobs') +
              IF make' = "failing" THEN 0 ELSE 1 + 3 * Cardinality(Unseen') + 2 * Cardinality(Waiting')
BY DEF Work, Unseen, Waiting

LEMMA Remaining == ASSUME Shape PROVE SyncLeft \in Nat
BY DEF Shape, SyncLeft

LEMMA SyncShrinks ==
  ASSUME IInv, IInv', SyncStart \/ SyncCompare \/ SyncRemove \/ SyncWrite
  PROVE  Work' < Work
<1>1. UNCHANGED <<make, seen, settled, jobs>>
  BY DEF SyncStart, SyncCompare, SyncRemove, SyncWrite, run, memory
<1>2. Unseen' = Unseen /\ Waiting' = Waiting
  BY <1>1 DEF Unseen, Waiting
<1>3. /\ SyncStart => sync = "todo" /\ sync' = "compare"
      /\ SyncCompare => sync = "compare" /\ sync' \in {"rm bin", "truncate"}
      /\ SyncRemove => \/ sync = "rm bin" /\ sync' = "rm elf"
                       \/ sync = "rm elf" /\ sync' = "rm obj"
                       \/ sync = "rm obj" /\ sync' = "truncate"
      /\ SyncWrite => \/ sync = "truncate" /\ sync' = "write"
                      \/ sync = "write" /\ sync' = "done"
  BY DEF SyncStart, SyncCompare, SyncRemove, SyncWrite
<1>4. SyncLeft \in Nat /\ SyncLeft' \in Nat /\ SyncLeft' < SyncLeft
  <2>1. /\ sync = "todo" => SyncLeft = 7
        /\ sync = "compare" => SyncLeft = 6
        /\ sync = "rm bin" => SyncLeft = 5
        /\ sync = "rm elf" => SyncLeft = 4
        /\ sync = "rm obj" => SyncLeft = 3
        /\ sync = "truncate" => SyncLeft = 2
        /\ sync = "write" => SyncLeft = 1
    BY DEF SyncLeft
  <2>2. /\ sync' = "compare" => SyncLeft' = 6
        /\ sync' = "rm bin" => SyncLeft' = 5
        /\ sync' = "rm elf" => SyncLeft' = 4
        /\ sync' = "rm obj" => SyncLeft' = 3
        /\ sync' = "truncate" => SyncLeft' = 2
        /\ sync' = "write" => SyncLeft' = 1
        /\ sync' = "done" => SyncLeft' = 0
    BY DEF SyncLeft
  <2>3. \/ SyncLeft = 7 /\ SyncLeft' = 6
        \/ SyncLeft = 6 /\ SyncLeft' \in {5, 2}
        \/ SyncLeft = 5 /\ SyncLeft' = 4
        \/ SyncLeft = 4 /\ SyncLeft' = 3
        \/ SyncLeft = 3 /\ SyncLeft' = 2
        \/ SyncLeft = 2 /\ SyncLeft' = 1
        \/ SyncLeft = 1 /\ SyncLeft' = 0
    BY <1>3, <2>1, <2>2, Zenon
  <2> HIDE DEF SyncLeft
  <2> QED BY <2>3
<1>5. Cardinality(jobs) \in Nat /\ Cardinality(Unseen) \in Nat /\ Cardinality(Waiting) \in Nat
  BY Counts DEF IInv
<1> QED BY <1>1, <1>2, <1>4, <1>5, WorkParts

LEMMA LookShrinks ==
  ASSUME IInv, NEW f \in Outputs, Look(f)
  PROVE  Work' < Work
<1>1. /\ UNCHANGED <<make, sync, settled, jobs>> /\ seen[f] = None /\ make = "running"
      /\ \E w \in {"missing", "outdated", "current"} : seen' = [seen EXCEPT ![f] = w]
  BY DEF Look
<1>2. \A g \in Outputs : g # f => seen'[g] = seen[g]
  BY <1>1 DEF IInv, Shape
<1>3. seen'[f] # None
  BY <1>1, NoneApart DEF IInv, Shape
<1>4. Unseen' = Unseen \ {f} /\ f \in Unseen
  BY <1>1, <1>2, <1>3 DEF Unseen
<1>5. Waiting' \subseteq Waiting \cup {f}
  BY <1>1, <1>2 DEF Waiting
<1>6. Cardinality(Unseen') = Cardinality(Unseen) - 1
  BY <1>4, Counts, FS_RemoveElement DEF IInv
<1>7. Cardinality(Waiting') <= Cardinality(Waiting) + 1 /\ Cardinality(Waiting') \in Nat
  <2>1. /\ IsFiniteSet(Waiting \cup {f})
        /\ Cardinality(Waiting \cup {f}) \in Nat /\ Cardinality(Waiting \cup {f}) <= Cardinality(Waiting) + 1
    <3>1. IsFiniteSet(Waiting) /\ Cardinality(Waiting) \in Nat
      BY Counts DEF IInv
    <3>2. Cardinality(Waiting \cup {f}) = IF f \in Waiting THEN Cardinality(Waiting) ELSE Cardinality(Waiting) + 1
      BY <3>1, FS_AddElement
    <3> QED BY <3>1, <3>2, FS_AddElement
  <2>2. IsFiniteSet(Waiting') /\ Cardinality(Waiting') <= Cardinality(Waiting \cup {f})
    BY <1>5, <2>1, FS_Subset
  <2> QED BY <2>1, <2>2, Counts, FS_CardinalityType DEF IInv
<1>8. SyncLeft' = SyncLeft
  BY <1>1 DEF SyncLeft
<1> QED BY <1>1, <1>6, <1>7, <1>8, Counts, Remaining, WorkParts DEF IInv

LEMMA DecideShrinks ==
  ASSUME IInv, NEW f \in Outputs, UpToDate(f) \/ StartJob(f)
  PROVE  Work' < Work
<1>1. UNCHANGED <<make, sync, seen>> /\ make = "running" /\ f \in Waiting
  BY DEF UpToDate, StartJob, Ready, Waiting
<1>2. Unseen' = Unseen /\ SyncLeft' = SyncLeft
  BY <1>1 DEF Unseen, SyncLeft
<1>3. (settled \cup jobs)' = (settled \cup jobs) \cup {f}
  BY DEF UpToDate, StartJob
<1>4. Waiting' = Waiting \ {f}
  BY <1>1, <1>3 DEF Waiting
<1>5. Cardinality(Waiting') = Cardinality(Waiting) - 1
  BY <1>1, <1>4, Counts, FS_RemoveElement DEF IInv
<1>6. Cardinality(jobs') \in Nat /\ Cardinality(jobs') <= Cardinality(jobs) + 1
  <2>1. jobs' = jobs \/ jobs' = jobs \cup {f}
    BY DEF UpToDate, StartJob
  <2>2. IsFiniteSet(jobs) /\ Cardinality(jobs) \in Nat
    BY Counts DEF IInv
  <2>3. Cardinality(jobs \cup {f}) = IF f \in jobs THEN Cardinality(jobs) ELSE Cardinality(jobs) + 1
    BY <2>2, FS_AddElement
  <2>4. CASE jobs' = jobs
    BY <2>2, <2>4
  <2>5. CASE jobs' = jobs \cup {f}
    BY <2>2, <2>3, <2>5
  <2> QED BY <2>1, <2>4, <2>5
<1> QED BY <1>1, <1>2, <1>5, <1>6, Counts, Remaining, WorkParts DEF IInv

LEMMA JobShrinks ==
  ASSUME IInv, NEW f \in Outputs, FinishJob(f) \/ FailJob(f)
  PROVE  Work' < Work
<1>1. /\ f \in jobs /\ jobs' = jobs \ {f} /\ UNCHANGED <<sync, seen>>
      /\ make' = "failing" \/ (make' = make /\ settled' = settled \cup {f})
  BY DEF FinishJob, FailJob
<1>2. SyncLeft' = SyncLeft
  BY <1>1 DEF SyncLeft
<1>3. Cardinality(jobs') = Cardinality(jobs) - 1
  BY <1>1, Counts, FS_RemoveElement DEF IInv
<1>4. CASE make' = "failing"
  BY <1>2, <1>3, <1>4, Counts, Remaining, WorkParts DEF IInv
<1>5. CASE make' = make /\ settled' = settled \cup {f}
  <2>1. (settled \cup jobs)' = settled \cup jobs
    BY <1>1, <1>5
  <2>2. Unseen' = Unseen /\ Waiting' = Waiting
    BY <1>1, <2>1 DEF Unseen, Waiting
  <2> QED BY <1>2, <1>3, <1>5, <2>2, Counts, Remaining, WorkParts DEF IInv
<1> QED BY <1>1, <1>4, <1>5

(* A run of make does not go on for ever: every step of it, of             *)
(* platform-sync or of a job, leaves less to do or ends it (Makefile,      *)
(* GNU make).                                                              *)
THEOREM RunsEnd == Spec => WorkShrinks
<1>1. ASSUME IInv, IInv', Next, Active, Active' PROVE Work' < Work
  <2>1. ~Fail /\ ~Succeed /\ ~Interrupt
    BY <1>1 DEF Fail, Succeed, Interrupt, Exit, Active
  <2>2. \A s \in Sources : ~Edit(s)
    BY <1>1 DEF Edit
  <2>3. \A c \in Configs, g \in SUBSET Targets \ {{}}, n \in 1 .. MaxJobs : ~StartMake(c, g, n)
    BY <1>1 DEF StartMake
  <2> QED BY <1>1, <2>1, <2>2, <2>3, SyncShrinks, LookShrinks, DecideShrinks, JobShrinks DEF Next, Make
<1>2. IInv /\ IInv' /\ [Next]_vars => [Active /\ Active' => Work' < Work]_vars
  BY <1>1
<1> QED BY BuildInvariant, <1>2, PTL DEF Spec, WorkShrinks

-----------------------------------------------------------------------------
(* The guards of the steps of make, in the order of Make.                  *)
SyncOpen == SyncRunning \/ (make = "running" /\ sync = "todo")
FailOpen == make = "failing" /\ jobs = {} /\ ~SyncRunning
SucceedOpen == make = "running" /\ sync = "done" /\ {Bin(t) : t \in goals} \subseteq settled
LookOpen(f) ==
  /\ make = "running" /\ sync # "todo" /\ (slots = 1 => SlotFree) /\ seen[f] = None
  /\ f \in {Bin(t) : t \in goals} \/ \E g \in Outputs : seen[g] # None /\ f \in Needs(g)
DecideOpen(f) == Ready(f) /\ (MustMake(f) => SlotFree)

StepOpen ==
  \/ SyncOpen \/ FailOpen \/ SucceedOpen \/ jobs # {}
  \/ \E f \in Outputs : LookOpen(f) \/ DecideOpen(f)

Slotted == slots \in Nat \ {0}

(* A file make has reached and not settled leads down to a step.           *)
LEMMA ReachedOpens ==
  ASSUME IInv, Slotted, make = "running", sync = "done", jobs = {},
         NEW f \in Outputs, seen[f] # None, f \notin settled,
         \A d \in Needs(f) : d \in Outputs => d \in settled \/ seen[d] # None
  PROVE  DecideOpen(f) \/ \E d \in Needs(f) : d \in Outputs /\ seen[d] # None /\ d \notin settled
<1>1. SlotFree
  BY FS_EmptySet DEF Slotted, SlotFree, SyncRunning
<1>2. CASE Needs(f) \subseteq settled \cup Sources
  BY <1>1, <1>2 DEF DecideOpen, Ready
<1>3. CASE ~(Needs(f) \subseteq settled \cup Sources)
  BY <1>3, NeedsKnown
<1> QED BY <1>2, <1>3

LEMMA NothingStuck ==
  ASSUME IInv, Slotted, Active
  PROVE  StepOpen
<1> SUFFICES ASSUME ~SyncOpen, ~FailOpen, ~SucceedOpen, jobs = {}
             PROVE  \E f \in Outputs : LookOpen(f) \/ DecideOpen(f)
  BY DEF StepOpen
<1>1. make = "running" /\ sync = "done"
  BY DEF Active, SyncOpen, FailOpen, SyncRunning
<1>2. SlotFree
  BY <1>1, FS_EmptySet DEF Slotted, SlotFree, SyncRunning
<1>3. PICK t \in goals : Bin(t) \notin settled
  BY <1>1 DEF SucceedOpen
<1>4. t \in Targets /\ Bin(t) \in Outputs /\ Elf(t) \in Outputs
  BY FilesKnown DEF IInv, Shape
<1>5. ASSUME \A f \in Outputs : ~LookOpen(f) PROVE \E f \in Outputs : DecideOpen(f)
  <2>1. seen[Bin(t)] # None
    BY <1>1, <1>2, <1>4, <1>5 DEF LookOpen
  <2>2. \A f, d \in Outputs : seen[f] # None /\ d \in Needs(f) => seen[d] # None
    BY <1>1, <1>2, <1>5 DEF LookOpen
  <2> SUFFICES ASSUME \A f \in Outputs : ~DecideOpen(f) PROVE FALSE
    OBVIOUS
  <2>3. \A f \in Outputs : seen[f] # None /\ f \notin settled
          => \E d \in Needs(f) : d \in Outputs /\ seen[d] # None /\ d \notin settled
    BY <1>1, <2>2, ReachedOpens
  <2>4. seen[Elf(t)] # None /\ Elf(t) \notin settled
    BY <1>3, <1>4, <2>1, <2>3, NeedsOf
  <2>5. PICK d \in {App(t), Lib(LibOf[t]), Ld} : d \in Outputs /\ seen[d] # None /\ d \notin settled
    BY <1>4, <2>3, <2>4, NeedsOf
  <2>6. Needs(d) \subseteq Sources
    <3>1. App(t) = d => Needs(d) = {<<"app.c", t>>} /\ <<"app.c", t>> \in Sources
      BY <1>4, NeedsOf DEF Sources
    <3>2. Lib(LibOf[t]) = d => Needs(d) = {<<"lib.c", LibOf[t]>>} /\ <<"lib.c", LibOf[t]>> \in Sources
      BY <1>4, NeedsOf DEF Sources, Libs
    <3> QED BY <3>1, <3>2, NeedsOf
  <2> QED BY <2>3, <2>5, <2>6, Apart
<1> QED BY <1>5

LEMMA SlotsGiven == Spec => []Slotted
<1>1. Init => Slotted
  BY DEF Init, Slotted
<1>2. Slotted /\ [Next]_vars => Slotted'
  <2> SUFFICES ASSUME Slotted, [Next]_vars PROVE Slotted'
    OBVIOUS
  <2>1. ASSUME NEW c \in Configs, NEW g \in SUBSET Targets \ {{}}, NEW n \in 1 .. MaxJobs, StartMake(c, g, n)
        PROVE  Slotted'
    BY <2>1, BuildAssumption DEF StartMake, Slotted, BuildAssumption
  <2>2. CASE SyncStart \/ SyncCompare \/ SyncRemove \/ SyncWrite \/ UNCHANGED vars
    BY <2>2 DEF SyncStart, SyncCompare, SyncRemove, SyncWrite, vars, run, Slotted
  <2>3. ASSUME NEW f \in Outputs, Look(f) \/ UpToDate(f) \/ StartJob(f) \/ FinishJob(f) \/ FailJob(f)
        PROVE  Slotted'
    BY <2>3 DEF Look, UpToDate, StartJob, FinishJob, FailJob, Slotted
  <2>4. ASSUME NEW s \in Sources, Edit(s) PROVE Slotted'
    BY <2>4 DEF Edit, run, Slotted
  <2>5. CASE Fail \/ Succeed \/ Interrupt
    BY <2>5 DEF Fail, Succeed, Interrupt, Exit, Slotted
  <2> QED BY <2>1, <2>2, <2>3, <2>4, <2>5 DEF Next, Make
<1> QED BY <1>1, <1>2, PTL DEF Spec

(* Until a run of make has ended one of its steps is open, whatever was    *)
(* removed, is missing or has failed: its jobs never wait for each other,  *)
(* nor for platform-sync, in a circle (mk/scheme.mk, Makefile).            *)
THEOREM RunsGoOn == Spec => [](Active => StepOpen)
<1>1. IInv /\ Slotted => (Active => StepOpen)
  BY NothingStuck
<1> QED BY BuildInvariant, SlotsGiven, <1>1, PTL

=============================================================================
