------------------------------ MODULE BuildSync ------------------------------
(***************************************************************************)
(* The incremental build: Makefile, mk/scheme.mk and mk/mps2-an386.mk, run *)
(* by GNU make with one or more job slots.  The configuration is kept in    *)
(* the stamp .build-platform; the recipe of platform-sync compares it,     *)
(* removes bin, elf and obj when it changed, and rewrites it.  Meanwhile   *)
(* make looks at the files it may have to build, each once, and remembers  *)
(* what it saw.  Recipes may fail, a run may be interrupted between any    *)
(* two steps, and sources and configuration change between runs.           *)
(*                                                                         *)
(* Modification times are abstracted to the pairs in newer.                *)
(***************************************************************************)
EXTENDS Naturals, FiniteSets

CONSTANTS
  Targets,       \* short targets of one implementation: its applications
  LibOf,         \* the library variant an application links, per target
  Configs,       \* values of PLATFORM, OPT, LTO, USE_KECCAK, ... together
  MaxJobs,       \* bound on the job slots a run is given
  None,          \* a file that does not exist, or a stamp with no text
  MaxMishaps,    \* bound on the edits, errors and interrupts together
  MaxMakes       \* bound on the runs of make

(* What is compiled, and what is linked and converted. *)
Compiled == [cfg : Configs, ver : Nat]
Linked   == [app : Compiled, lib : Compiled]

ASSUME BuildAssumption ==
  /\ IsFiniteSet(Targets)
  /\ MaxJobs \in Nat \ {0}
  /\ None \notin Configs \cup {"missing", "outdated", "current", "generated"}
  /\ None \notin Compiled /\ None \notin Linked

-----------------------------------------------------------------------------
(* Files: per target bin, elf and the object of the application; the       *)
(* libraries, each standing for its objects and the archive; the linker    *)
(* script, generated into obj.                                             *)
Bin(t) == <<"bin", t>>
Elf(t) == <<"elf", t>>
App(t) == <<"app", t>>
Lib(l) == <<"lib", l>>
Ld     == <<"ld", "script">>

Libs    == {LibOf[t] : t \in Targets}
Objects == {App(t) : t \in Targets} \cup {Lib(l) : l \in Libs} \cup {Ld}
Outputs == {Bin(t) : t \in Targets} \cup {Elf(t) : t \in Targets} \cup Objects
Sources == {<<"app.c", t>> : t \in Targets} \cup {<<"lib.c", l>> : l \in Libs}

(* The object of the application does not depend on its source. *)
NeedsNoSource(f) ==
  CASE f[1] = "bin" -> {Elf(f[2])}
    [] f[1] = "elf" -> {App(f[2]), Lib(LibOf[f[2]]), Ld}
    [] f[1] = "lib" -> {<<"lib.c", f[2]>>}
    [] f[1] \in {"app", "ld"} -> {}

(* The prerequisites whose times count; the linker script's own source is  *)
(* taken never to change, and the macros of Configs do not occur in it.    *)
Needs(f) ==
  CASE f[1] = "bin" -> {Elf(f[2])}
    [] f[1] = "elf" -> {App(f[2]), Lib(LibOf[f[2]]), Ld}
    [] f[1] = "app" -> {<<"app.c", f[2]>>}
    [] f[1] = "lib" -> {<<"lib.c", f[2]>>}
    [] f[1] = "ld"  -> {}

(* No file has the order-only prerequisite. *)
NobodyWaits(f) == FALSE

(* Objects and ELF files name platform-sync as an order-only prerequisite, *)
(* the linker script of mk/mps2-an386.mk does not.                         *)
WaitsForSync(f) == f[1] \in {"app", "lib", "elf"}

VARIABLES
  ver,      \* version of each source
  file,     \* contents of each output, or None
  newer,    \* pairs <<d, f>> of existing files with d modified after f
  stamp,    \* contents of .build-platform, or None
  make,     \* "idle", "running", "failing", or the exit of the last run
  cfg, goals, \* configuration and targets of the run
  slots,    \* make -j of the run
  sync,     \* how far the recipe of platform-sync is
  seen,     \* what make remembers of each output, or None
  settled,  \* outputs make has finished with
  remade,   \* outputs whose recipe it ran
  jobs,     \* recipes running
  torn,     \* history: a run was interrupted while the stamp was empty
  makes, mishaps

tree   == <<ver, file, newer, stamp>>
memory == <<seen, settled, remade, jobs>>
run    == <<cfg, goals, slots, memory>>
counts == <<torn, makes, mishaps>>
vars   == <<tree, make, sync, run, counts>>

Init ==
  /\ ver = [s \in Sources |-> 0] /\ file = [f \in Outputs |-> None] /\ newer = {}
  /\ stamp = None /\ make = "idle" /\ sync = "todo"
  /\ cfg \in Configs /\ goals = {} /\ slots = 1
  /\ seen = [f \in Outputs |-> None] /\ settled = {} /\ remade = {} /\ jobs = {}
  /\ torn = FALSE /\ makes = 0 /\ mishaps = 0

Active == make \in {"running", "failing"}
Exists(f) == f \in Outputs => file[f] # None

Edit(s) ==
  /\ ~Active /\ mishaps < MaxMishaps
  /\ ver' = [ver EXCEPT ![s] = @ + 1]
  /\ newer' = newer \cup {<<s, f>> : f \in {g \in Outputs : Exists(g) /\ s \in Needs(g)}}
  /\ mishaps' = mishaps + 1
  /\ UNCHANGED <<file, stamp, make, sync, run, torn, makes>>

(* One make command of build_schemes.py, or of a user. *)
StartMake(c, g, n) ==
  /\ ~Active /\ makes < MaxMakes
  /\ make' = "running" /\ cfg' = c /\ goals' = g /\ slots' = n
  /\ makes' = makes + 1
  /\ UNCHANGED <<tree, sync, memory, torn, mishaps>>

(* The process ends, and with it what it remembers. *)
Exit(status) ==
  /\ make' = status /\ sync' = "todo"
  /\ seen' = [f \in Outputs |-> None] /\ settled' = {} /\ remade' = {} /\ jobs' = {}
  /\ UNCHANGED <<cfg, goals, slots>>

-----------------------------------------------------------------------------
(* The recipe of platform-sync, the first prerequisite of every target.    *)
SyncRunning == sync \notin {"todo", "done"}
SlotFree == Cardinality(jobs) + (IF SyncRunning THEN 1 ELSE 0) < slots

Remove(S) ==
  /\ file' = [f \in Outputs |-> IF f \in S THEN None ELSE file[f]]
  /\ newer' = {p \in newer : p[1] \notin S /\ p[2] \notin S}

SyncStart ==
  /\ make = "running" /\ sync = "todo" /\ sync' = "compare"
  /\ UNCHANGED <<tree, make, run, counts>>

(* The recipe waits for a stamp. *)
SyncCompareNeedsStamp ==
  /\ Active /\ sync = "compare" /\ stamp # None
  /\ sync' = IF stamp # cfg THEN "rm bin" ELSE "truncate"
  /\ UNCHANGED <<tree, make, run, counts>>

SyncCompare ==
  /\ Active /\ sync = "compare"
  /\ sync' = IF stamp # None /\ stamp # cfg THEN "rm bin" ELSE "truncate"
  /\ UNCHANGED <<tree, make, run, counts>>

(* rm -rf bin elf, leaving obj. *)
SyncRemoveNoObj ==
  /\ Active
  /\ \/ sync = "rm bin" /\ sync' = "rm elf" /\ Remove({Bin(t) : t \in Targets})
     \/ sync = "rm elf" /\ sync' = "truncate" /\ Remove({Elf(t) : t \in Targets})
  /\ UNCHANGED <<ver, stamp, make, run, counts>>

(* After the removal the stamp, not yet rewritten, is compared again.      *)
SyncRemoveRepeats ==
  /\ Active
  /\ \/ sync = "rm bin" /\ sync' = "rm elf" /\ Remove({Bin(t) : t \in Targets})
     \/ sync = "rm elf" /\ sync' = "rm obj" /\ Remove({Elf(t) : t \in Targets})
     \/ sync = "rm obj" /\ sync' = "compare" /\ Remove(Objects)
  /\ UNCHANGED <<ver, stamp, make, run, counts>>

(* rm -rf bin elf obj *)
SyncRemove ==
  /\ Active
  /\ \/ sync = "rm bin" /\ sync' = "rm elf" /\ Remove({Bin(t) : t \in Targets})
     \/ sync = "rm elf" /\ sync' = "rm obj" /\ Remove({Elf(t) : t \in Targets})
     \/ sync = "rm obj" /\ sync' = "truncate" /\ Remove(Objects)
  /\ UNCHANGED <<ver, stamp, make, run, counts>>

(* The shell opens, and so empties, the stamp before printf writes to it.  *)
SyncWrite ==
  /\ Active
  /\ \/ sync = "truncate" /\ sync' = "write" /\ stamp' = None
     \/ sync = "write" /\ sync' = "done" /\ stamp' = cfg
  /\ UNCHANGED <<ver, file, newer, make, run, counts>>

-----------------------------------------------------------------------------
(* make reaches a file from a goal or from a file that needs it, and asks  *)
(* the file system about it once; with one slot only while nothing runs.   *)
Look(f) ==
  /\ make = "running" /\ sync # "todo" /\ (slots = 1 => SlotFree)
  /\ seen[f] = None
  /\ f \in {Bin(t) : t \in goals} \/ \E g \in Outputs : seen[g] # None /\ f \in Needs(g)
  /\ seen' = [seen EXCEPT ![f] =
       IF ~Exists(f) THEN "missing"
       ELSE IF \E d \in Needs(f) : <<d, f>> \in newer THEN "outdated" ELSE "current"]
  /\ UNCHANGED <<tree, make, sync, cfg, goals, slots, settled, remade, jobs, counts>>

(* Nothing a file needs is still to be built.                              *)
Ready(f) ==
  /\ make = "running" /\ seen[f] # None /\ f \notin settled \cup jobs
  /\ Needs(f) \subseteq settled \cup Sources
  /\ WaitsForSync(f) => sync = "done"

MustMake(f) == seen[f] # "current" \/ Needs(f) \cap remade # {}

UpToDate(f) ==
  /\ Ready(f) /\ ~MustMake(f)
  /\ settled' = settled \cup {f}
  /\ UNCHANGED <<tree, make, sync, cfg, goals, slots, seen, remade, jobs, counts>>

StartJob(f) ==
  /\ Ready(f) /\ MustMake(f) /\ SlotFree
  /\ jobs' = jobs \cup {f}
  /\ UNCHANGED <<tree, make, sync, cfg, goals, slots, seen, settled, remade, counts>>

(* The image is made from the object of the application alone. *)
ProductOfObject(f) ==
  CASE f[1] = "bin" -> file[App(f[2])]
    [] f[1] = "elf" -> [app |-> file[App(f[2])], lib |-> file[Lib(LibOf[f[2]])]]
    [] f[1] = "app" -> [cfg |-> cfg, ver |-> ver[<<"app.c", f[2]>>]]
    [] f[1] = "lib" -> [cfg |-> cfg, ver |-> ver[<<"lib.c", f[2]>>]]
    [] f[1] = "ld"  -> "generated"

(* What the recipe of f writes. *)
Product(f) ==
  CASE f[1] = "bin" -> file[Elf(f[2])]
    [] f[1] = "elf" -> [app |-> file[App(f[2])], lib |-> file[Lib(LibOf[f[2]])]]
    [] f[1] = "app" -> [cfg |-> cfg, ver |-> ver[<<"app.c", f[2]>>]]
    [] f[1] = "lib" -> [cfg |-> cfg, ver |-> ver[<<"lib.c", f[2]>>]]
    [] f[1] = "ld"  -> "generated"

Write(f) ==
  /\ \A d \in Needs(f) : Exists(d)
  /\ file' = [file EXCEPT ![f] = Product(f)]
  /\ newer' = {p \in newer : p[2] # f}
                \cup {<<f, g>> : g \in {h \in Outputs : Exists(h) /\ f \in Needs(h)}}

FinishJob(f) ==
  /\ Active /\ f \in jobs
  /\ Write(f)
  /\ jobs' = jobs \ {f} /\ settled' = settled \cup {f} /\ remade' = remade \cup {f}
  /\ UNCHANGED <<ver, stamp, make, sync, cfg, goals, slots, seen, counts>>

(* A recipe misses an input, or meets an error; its output is removed or   *)
(* left as it was, or it is the ELF file that LD wrote before SIZE failed. *)
(* make starts nothing more and waits for the others.                      *)
FailJob(f) ==
  /\ Active /\ f \in jobs
  /\ \/ (\E d \in Needs(f) : ~Exists(d)) /\ UNCHANGED mishaps
     \/ mishaps < MaxMishaps /\ mishaps' = mishaps + 1
  /\ Remove({f}) \/ UNCHANGED <<file, newer>> \/ (f[1] = "elf" /\ Write(f))
  /\ make' = "failing" /\ jobs' = jobs \ {f}
  /\ UNCHANGED <<ver, stamp, sync, cfg, goals, slots, seen, settled, remade, torn, makes>>

Fail ==
  /\ make = "failing" /\ jobs = {} /\ ~SyncRunning
  /\ Exit("failed")
  /\ UNCHANGED <<tree, counts>>

(* The interrupted make kills its jobs and deletes the outputs they had    *)
(* begun to write.                                                         *)
Interrupt ==
  /\ Active /\ mishaps < MaxMishaps
  /\ \E begun \in SUBSET jobs : Remove(begun)
  /\ mishaps' = mishaps + 1
  /\ torn' = (torn \/ sync = "write")
  /\ Exit("failed")
  /\ UNCHANGED <<ver, stamp, makes>>

Succeed ==
  /\ make = "running" /\ sync = "done"
  /\ {Bin(t) : t \in goals} \subseteq settled
  /\ Exit("ok")
  /\ UNCHANGED <<tree, counts>>

Make ==
  \/ SyncStart \/ SyncCompare \/ SyncRemove \/ SyncWrite \/ Fail \/ Succeed
  \/ \E f \in Outputs : Look(f) \/ UpToDate(f) \/ StartJob(f) \/ FinishJob(f) \/ FailJob(f)

Next ==
  \/ \E s \in Sources : Edit(s)
  \/ \E c \in Configs, g \in SUBSET Targets \ {{}}, n \in 1 .. MaxJobs : StartMake(c, g, n)
  \/ Make \/ Interrupt

(* make is a running process: it keeps taking steps.                       *)
Spec == Init /\ [][Next]_vars
FairSpec == Spec /\ WF_vars(Make)

-----------------------------------------------------------------------------
(* What the files hold, and that make runs no more recipes than asked.     *)
TypeOK ==
  /\ make \in {"idle", "running", "failing", "ok", "failed"}
  /\ stamp \in Configs \cup {None} /\ cfg \in Configs /\ goals \subseteq Targets
  /\ ver \in [Sources -> Nat]
  /\ \A t \in Targets : {file[Bin(t)], file[Elf(t)]} \subseteq Linked \cup {None}
  /\ \A f \in Objects \ {Ld} : file[f] \in Compiled \cup {None}
  /\ newer \subseteq {p \in (Sources \cup Outputs) \X Outputs :
                        p[1] \in Needs(p[2]) /\ Exists(p[1]) /\ Exists(p[2])}
  /\ remade \subseteq settled /\ settled \cap jobs = {} /\ jobs \subseteq Outputs
  /\ Cardinality(jobs) <= slots

(* The image of target t is what the present sources and the configuration *)
(* of the last run give.                                                   *)
Fresh(t) ==
  file[Bin(t)] = [app |-> [cfg |-> cfg, ver |-> ver[<<"app.c", t>>]],
                  lib |-> [cfg |-> cfg, ver |-> ver[<<"lib.c", LibOf[t]>>]]]

Succeeds == make = "running" /\ make' = "ok"

(* A successful make leaves every requested image freshly built, whatever  *)
(* was built, edited, failed or interrupted before (but for an interrupt   *)
(* that left the stamp empty): "the make system will clean stale bin, elf, *)
(* and obj outputs automatically" (README.md).                             *)
SuccessIsFresh == [][Succeeds /\ ~torn => \A t \in goals' : Fresh(t)']_vars

(* With one job slot it does: whatever went before, a run with more slots  *)
(* that lost images included.                                              *)
SerialIsFresh == [][Succeeds /\ ~torn /\ slots = 1 => \A t \in goals' : Fresh(t)']_vars

(* A successful make may find an image gone, but never leaves a stale one. *)
SuccessNotStale ==
  [][Succeeds /\ ~torn => \A t \in goals' : (file[Bin(t)] = None \/ Fresh(t))']_vars

(* The link never joins an application and a library of two different      *)
(* configurations, however the removal and the jobs interleave; only an    *)
(* interrupt between emptying the stamp and writing it can lead there.     *)
NeverMixed ==
  ~torn => \A t \in Targets, e \in {"elf", "bin"} :
    file[<<e, t>>] # None => file[<<e, t>>].app.cfg = file[<<e, t>>].lib.cfg

(* Every object left by a run, complete or not, belongs to the stamp, so   *)
(* the next run can tell from the stamp alone what to keep.                *)
StampCovers ==
  ~Active /\ ~torn => \A f \in Objects \ {Ld} : file[f] # None => file[f].cfg = stamp

(* The steps a run of make still has before it: those of platform-sync     *)
(* and, unless it is failing, three for each file not looked at.           *)
SyncLeft ==
  CASE sync = "todo" -> 7 [] sync = "compare" -> 6 [] sync = "rm bin" -> 5 [] sync = "rm elf" -> 4
    [] sync = "rm obj" -> 3 [] sync = "truncate" -> 2 [] sync = "write" -> 1 [] sync = "done" -> 0

Work ==
  SyncLeft + Cardinality(jobs) +
    IF make = "failing" THEN 0
    ELSE 1 + 3 * Cardinality({f \in Outputs : seen[f] = None})
           + 2 * Cardinality({f \in Outputs : seen[f] # None} \ (settled \cup jobs))

(* Every run of make ends: a step that leaves it active takes it nearer to *)
(* its end, however removal and jobs interleave and whatever fails ...     *)
WorkShrinks == [][Active /\ Active' => Work' < Work]_vars

(* ... and until then there is a step to take.                             *)
NeverStuck == Active => ENABLED Make
=============================================================================
