---------------------------- MODULE RouterProofs ----------------------------
(***************************************************************************)
(* Theorems about Router for any number of models, HTTP threads and child  *)
(* processes.                                                              *)
(*                                                                         *)
(* Reports, reaping and stopping go by name, entries are replaced, removed *)
(* and renewed meanwhile.  IInv says why the names are never wrong: as     *)
(* long as a model process has not been reaped, or a download has not      *)
(* reported its result, its entry shows it (NormalIsShown,                 *)
(* DownloadIsShown), and an entry that shows one has a thread that         *)
(* whoever replaces or erases the entry joins first (EntryOK).             *)
(* The one way to lose such a thread is two reloads at a time while there  *)
(* are downloads: the second lets a download in between the moment the     *)
(* first looks at the entries it stopped and the moment it takes their     *)
(* threads.  OneReload excludes this.                                      *)
(***************************************************************************)
EXTENDS Router, FiniteSetTheorems, TLAPS

Ops == {"request", "load", "unload", "reload", "list", "download", "remove"}
Entries == [status : {"ABSENT", "UNLOADED", "LOADING", "LOADED", "DOWNLOADING", "DOWNLOADED"},
            inst : 0 .. MaxGen, th : BOOLEAN, failed : BOOLEAN, preset : Nat]
Children == [model : Models, mode : {"none", "normal", "download"},
             proc : {"none", "up", "ready", "dead"}, bad : BOOLEAN, asked : BOOLEAN,
             said : {"none", "ready", "result", "release"}, stopped : BOOLEAN,
             mgr : {"log", "clear", "join", "done"}, stopper : {"wait", "grace", "done"}]
PCs == {"request", "load", "unload", "list", "download", "remove", "proxy", "scan", "done", "count",
        "evict", "evict_wait", "evicted", "spawn", "replace", "ready", "touch", "unload_now",
        "unload_wait", "remove_wait", "remove_join", "diff", "drop", "drop_wait", "join", "commit",
        "abort"}
Rets == {"list", "done", "request", "load", "unload", "proxy"}
Threads == [op : Ops, model : Models, pc : PCs, snap : [Models -> Nat], todo : SUBSET Models,
            gone : SUBSET Models, joins : SUBSET (0 .. MaxGen), victim : SUBSET Models,
            auto : SUBSET Models, inst : 0 .. MaxGen,
            ret : Rets, fresh : BOOLEAN]

TypeOK ==
    /\ mapping \in [Models -> Entries]
    /\ child \in [Gens -> Children]
    /\ me \in [Handlers -> Threads]
    /\ stopping \subseteq Models
    /\ reloading \in BOOLEAN /\ needReload \in BOOLEAN
    /\ holder \in Handlers \cup {NoOne}
    /\ disk \in [Models -> Nat]
    /\ crashes \in Nat /\ edits \in Nat

\* Somebody may download.
Downloads == \E h \in Handlers : Op(h) = "download"

\* With downloads, no two threads are in the locked part of load_models.
Reloads(h) == me[h].pc \in {"drop", "drop_wait", "join", "commit"}
OneReload == Downloads => \A h, i \in Handlers : Reloads(h) /\ Reloads(i) => h = i

ChildOK ==
    \A g \in Gens :
      /\ Alive(g) => child[g].mgr = "log"
      /\ child[g].mgr \in {"clear", "join"} => child[g].proc = "dead"
      /\ child[g].mode = "none" =>
           child[g].mgr = "done" /\ child[g].proc = "none" /\ child[g].stopper = "done"
      /\ child[g].said = "ready" => child[g].mode = "normal"
      /\ child[g].said \in {"result", "release"} => child[g].mode = "download"
      /\ child[g].said # "none" => child[g].mgr = "log" /\ child[g].proc # "up"

\* What the entry of a model says about the process it names.
EntryOK ==
    \A m \in Models :
      /\ mapping[m].inst # 0 =>
           child[mapping[m].inst].model = m /\ child[mapping[m].inst].mode # "none"
      /\ Running(m) =>
           /\ mapping[m].th /\ mapping[m].inst # 0
           /\ child[mapping[m].inst].mode = "normal" /\ child[mapping[m].inst].mgr # "done"
      /\ mapping[m].status = "DOWNLOADING" =>
           /\ mapping[m].th /\ mapping[m].inst # 0 /\ Downloads
           /\ child[mapping[m].inst].mode = "download"

\* The process that the thread which keeps the mutex is putting into its entry.
Replacing(g) == \E h \in Handlers : At(h, "replace") /\ me[h].inst = g

NormalIsShown ==
    \A g \in Gens : child[g].mode = "normal" /\ child[g].mgr # "done" =>
      \/ Running(child[g].model) /\ mapping[child[g].model].inst = g
      \/ Replacing(g)

DownloadIsShown ==
    \A g \in Gens :
      (/\ child[g].mode = "download" /\ child[g].mgr = "log"
       /\ child[g].proc = "up" \/ child[g].said = "result") =>
      \/ mapping[child[g].model].status = "DOWNLOADING" /\ mapping[child[g].model].inst = g
      \/ Replacing(g)

HolderOK ==
    \A h \in Handlers :
      /\ me[h].pc \in {"replace", "remove_join"} => holder = h
      /\ At(h, "replace") =>
           /\ ~reloading
           /\ me[h].inst \in Gens /\ child[me[h].inst].model = Target(h)
           /\ child[me[h].inst].mode = IF Op(h) = "download" THEN "download" ELSE "normal"
           /\ child[me[h].inst].mgr \in {"log", "clear"}
           /\ \A m \in Models : mapping[m].inst # me[h].inst
           /\ Op(h) # "download" => mapping[Target(h)].status = "UNLOADED"
           /\ ModelsMax > 0 => Cardinality(Active) < ModelsMax
      /\ At(h, "remove_join") =>
           ~Running(me[h].model) /\ mapping[me[h].model].status # "DOWNLOADING"

\* No download gets in while a reload waits for the models it stopped.
ReloadOK ==
    \A h \in Handlers : me[h].pc \in {"drop", "drop_wait"} /\ Downloads =>
      reloading /\ \A m \in me[h].gone : mapping[m].status # "DOWNLOADING"

IInv == TypeOK /\ ChildOK /\ EntryOK /\ NormalIsShown /\ DownloadIsShown /\ HolderOK /\ ReloadOK

-----------------------------------------------------------------------------
(* Types.                                                                   *)

\* What a thread starts an operation with has the type of its local state.
LEMMA LocalsFact ==
  ASSUME NEW op \in Ops, NEW m \in Models, NEW pc \in PCs, NEW fresh \in BOOLEAN,
         NEW ret \in Rets
  PROVE  Locals(op, m, pc, ret, fresh) \in Threads
  <1>1. NoSnap \in [Models -> Nat]
    BY DEF NoSnap
  <1>2. QED
    BY <1>1, RouterAssumption DEF Locals, Threads

\* An entry that is absent or unloaded has no instance.
LEMMA UnloadedFact ==
  /\ Absent.status = "ABSENT" /\ Absent.inst = 0
  /\ \A v : Unloaded(v).status = "UNLOADED" /\ Unloaded(v).inst = 0
  BY DEF Absent, Unloaded

\* The entries that are written into the map of models have its type.
LEMMA EntryFact ==
  ASSUME TypeOK, NEW m \in Models
  PROVE  /\ Absent \in Entries /\ Touched(m) \in Entries
         /\ \A v \in Nat : Unloaded(v) \in Entries
         /\ mapping[m] \in Entries
  <1>1. Absent \in Entries
    BY RouterAssumption DEF Absent, Entries
  <1>2. ASSUME NEW v \in Nat PROVE Unloaded(v) \in Entries
    BY RouterAssumption DEF Unloaded, Entries
  <1>3. QED
    BY <1>1, <1>2 DEF TypeOK, Touched

\* A child that is asked to exit or terminated is still a record of its type.
LEMMA ChildFact ==
  ASSUME NEW c \in Children
  PROVE  terminate(c) \in Children /\ request_exit(c) \in Children
  <1>1. terminate(c) \in Children
    BY ZenonT(90) DEF Children, terminate
  <1>2. request_exit(c) \in Children
    BY DEF Children, request_exit
  <1>3. QED
    BY <1>1, <1>2

\* So is a child just spawned, and the place where none was.
LEMMA NewChildFact ==
  ASSUME NEW m \in Models, NEW mode \in {"normal", "download"}
  PROVE  NewChild(m, mode) \in Children /\ NoChild \in Children
  BY RouterAssumption DEF Children, NewChild, NoChild

\* unload asks a process to end, or kills it.
LEMMA UnloadFact ==
  ASSUME TypeOK, NEW m \in Models, unload(m)
  PROVE  /\ child' \in [Gens -> Children] /\ stopping' \subseteq Models
         /\ \A g \in Gens :
              /\ child'[g].model = child[g].model /\ child'[g].mode = child[g].mode
              /\ child'[g].mgr = child[g].mgr /\ child'[g].said = child[g].said
              /\ child'[g].stopper = child[g].stopper
              /\ \/ child'[g].proc = child[g].proc
                 \/ child'[g].proc = "dead" /\ g = mapping[m].inst /\ mapping[m].status = "LOADING"
  <1>1. \A c \in Children : terminate(c) \in Children /\ request_exit(c) \in Children
    BY ChildFact
  <1>2. \A c \in Children :
          /\ request_exit(c).model = c.model /\ request_exit(c).mode = c.mode
          /\ request_exit(c).mgr = c.mgr /\ request_exit(c).said = c.said
          /\ request_exit(c).proc = c.proc /\ request_exit(c).stopper = c.stopper
    BY DEF Children, request_exit
  <1>3. \A c \in Children :
          /\ terminate(c).model = c.model /\ terminate(c).mode = c.mode
          /\ terminate(c).mgr = c.mgr /\ terminate(c).said = c.said
          /\ terminate(c).proc = "dead" /\ terminate(c).stopper = c.stopper
    BY DEF Children, terminate
  <1>4. child \in [Gens -> Children] /\ stopping \subseteq Models
    BY DEF TypeOK
  <1>5. stopping' \subseteq Models
    BY <1>4 DEF unload
  <1>6. CASE mapping[m].status = "DOWNLOADING"
    <2>1. child' = [child EXCEPT ![mapping[m].inst] = request_exit(child[mapping[m].inst])]
      BY <1>6 DEF unload
    <2>2. QED
      BY <1>1, <1>2, <1>4, <1>5, <2>1, ZenonT(90)
  <1>7. CASE mapping[m].status = "LOADING"
    <2>1. child' = [child EXCEPT ![mapping[m].inst] = terminate(child[mapping[m].inst])]
      BY <1>7 DEF unload
    <2>2. QED
      BY <1>1, <1>3, <1>4, <1>5, <1>7, <2>1, ZenonT(90)
  <1>8. CASE mapping[m].status # "DOWNLOADING" /\ mapping[m].status # "LOADING"
    BY <1>4, <1>5, <1>8 DEF unload
  <1>9. QED
    BY <1>6, <1>7, <1>8

\* Thread h goes on at pc.
Moved(h, pc) ==
    /\ me' \in [Handlers -> Threads]
    /\ \A i \in Handlers : i # h => me'[i] = me[i]
    /\ me'[h].pc = pc /\ me'[h].op = me[h].op /\ me'[h].model = me[h].model

\* A handler moves on to another point of its operation, ...
LEMMA GotoFact ==
  ASSUME TypeOK, NEW h \in Handlers, NEW pc \in PCs, Goto(h, pc)
  PROVE  Moved(h, pc) /\ me'[h].gone = me[h].gone /\ me'[h].inst = me[h].inst
  <1>1. me \in [Handlers -> Threads]
    BY DEF TypeOK
  <1>2. me' = [me EXCEPT ![h] = [me[h] EXCEPT !.pc = pc, !.fresh = FALSE]]
    BY <1>1 DEF Goto
  <1>3. [me[h] EXCEPT !.pc = pc, !.fresh = FALSE] \in Threads
    BY <1>1 DEF Threads
  <1> QED
    BY <1>1, <1>2, <1>3 DEF Moved, Threads

\* ... to the end of its operation, ...
LEMMA FinishFact ==
  ASSUME TypeOK, NEW h \in Handlers, Finish(h)
  PROVE  Moved(h, "done")
  <1>1. /\ me \in [Handlers -> Threads] /\ me[h].op \in Ops /\ me[h].model \in Models
        /\ "done" \in PCs /\ "done" \in Rets
    BY DEF TypeOK, Threads, PCs, Rets
  <1>2. me' = [me EXCEPT ![h] = Locals(me[h].op, me[h].model, "done", "done", FALSE)]
    BY DEF Finish, Op
  <1>3. Locals(me[h].op, me[h].model, "done", "done", FALSE) \in Threads
    BY <1>1, LocalsFact
  <1> QED
    BY <1>1, <1>2, <1>3 DEF Moved, Locals

\* ... or, when the sources are read, on to the models to load or back to the
\* operation that called the present one.
LEMMA AutoloadsFact ==
  ASSUME TypeOK, NEW h \in Handlers, NEW models \in SUBSET Models, Autoloads(h, models)
  PROVE  \E pc \in PCs : Moved(h, pc) /\ pc \in Rets \cup {"count"}
  <1>1. /\ me \in [Handlers -> Threads] /\ me[h].op \in Ops /\ me[h].model \in Models
        /\ me[h].ret \in Rets
    BY DEF TypeOK, Threads
  <1>2. me[h].ret \in PCs /\ "count" \in PCs
    BY <1>1 DEF PCs, Rets
  <1>3. CASE models = {}
    <2>1. me' = [me EXCEPT ![h] = Locals(me[h].op, me[h].model, me[h].ret, me[h].ret, TRUE)]
      BY <1>3 DEF Autoloads, Op
    <2>2. Locals(me[h].op, me[h].model, me[h].ret, me[h].ret, TRUE) \in Threads
      BY <1>1, <1>2, LocalsFact
    <2>3. Moved(h, me[h].ret)
      BY <1>1, <2>1, <2>2 DEF Moved, Locals
    <2>4. QED
      BY <1>1, <1>2, <2>3
  <1>4. CASE models # {}
    <2>1. PICK l : l = Locals(me[h].op, me[h].model, "count", me[h].ret, FALSE)
      OBVIOUS
    <2>2. l \in Threads /\ l.op = me[h].op /\ l.model = me[h].model /\ l.pc = "count"
      BY <1>1, <1>2, <2>1, LocalsFact DEF Locals
    <2>3. me' = [me EXCEPT ![h] = [l EXCEPT !.auto = models]]
      BY <1>4, <2>1 DEF Autoloads, Op
    <2>4. PICK k : k = [l EXCEPT !.auto = models]
      OBVIOUS
    <2>5. k \in Threads /\ k.op = me[h].op /\ k.model = me[h].model /\ k.pc = "count"
      BY <2>2, <2>4 DEF Threads
    <2>6. Moved(h, "count")
      BY <1>1, <2>3, <2>4, <2>5 DEF Moved
    <2>7. QED
      BY <1>2, <2>6
  <1>5. QED
    BY <1>3, <1>4

\* What a thread loads is a model.
LEMMA TargetFact ==
  ASSUME TypeOK, NEW h \in Handlers
  PROVE  Target(h) \in Models
  <1>1. me[h].model \in Models /\ me[h].auto \subseteq Models
    BY DEF TypeOK, Threads
  <1>2. me[h].auto # {} => First(me[h].auto) \in me[h].auto
    BY DEF First
  <1>3. QED
    BY <1>1, <1>2 DEF Target

\* A load that is over goes back, on to the next model, or to what follows it.
LEMMA AfterLoadFact ==
  ASSUME TypeOK, NEW h \in Handlers, AfterLoad(h)
  PROVE  \E pc \in PCs : Moved(h, pc) /\ pc \in Rets \cup {"count", "ready"}
  <1>1. CASE me[h].auto # {}
    <2>1. PICK rest \in SUBSET Models : rest = me[h].auto \ {Target(h)}
      BY DEF TypeOK, Threads
    <2>2. Autoloads(h, rest)
      BY <1>1, <2>1 DEF AfterLoad
    <2>3. QED
      BY <2>2, AutoloadsFact
  <1>2. CASE me[h].auto = {} /\ Op(h) = "request"
    <2>1. Goto(h, "ready") /\ "ready" \in PCs
      BY <1>2 DEF AfterLoad, PCs
    <2>2. QED
      BY <2>1, GotoFact
  <1>3. CASE me[h].auto = {} /\ Op(h) # "request"
    <2>1. Finish(h) /\ "done" \in PCs /\ "done" \in Rets
      BY <1>3 DEF AfterLoad, PCs, Rets
    <2>2. QED
      BY <2>1, FinishFact
  <1>4. QED
    BY <1>1, <1>2, <1>3

\* The models that are loaded at startup are few enough for their processes.
LEMMA StartupFact ==
  ASSUME Init
  PROVE  /\ Startup \subseteq Autoload /\ Startup \subseteq Models /\ IsFiniteSet(Startup)
         /\ Cardinality(Startup) \in Nat /\ Cardinality(Startup) <= MaxGen
         /\ Cardinality(Startup) <= ModelsMax
  <1>1. Startup \subseteq Autoload /\ Startup \subseteq Models
    BY RouterAssumption DEF Startup
  <1>2. IsFiniteSet(Startup) /\ Cardinality(Startup) \in Nat
    BY <1>1, RouterAssumption, FS_Subset, FS_CardinalityType
  <1>3. QED
    BY <1>1, <1>2 DEF Init

\* The initial state has its type.
LEMMA TypeInit == Init => TypeOK
  <1> SUFFICES ASSUME Init PROVE TypeOK
    OBVIOUS
  <1>1. PICK gen \in [Startup -> 1..Cardinality(Startup)] :
          /\ mapping = [m \in Models |->
               CASE m \in Startup -> [Unloaded(disk[m]) EXCEPT !.status = "LOADING", !.inst = gen[m], !.th = TRUE]
                 [] disk[m] = 0    -> Absent
                 [] OTHER          -> Unloaded(disk[m])]
          /\ child = [g \in Gens |-> IF \E m \in Startup : gen[m] = g
                                     THEN NewChild(CHOOSE m \in Startup : gen[m] = g, "normal") ELSE NoChild]
    BY DEF Init
  <1>a. disk \in [Models -> {0, 1}]
    BY DEF Init
  <1>b. disk \in [Models -> Nat]
    BY <1>a
  <1>2. /\ disk \in [Models -> Nat] /\ stopping \subseteq Models /\ reloading \in BOOLEAN
        /\ needReload \in BOOLEAN /\ holder \in Handlers \cup {NoOne} /\ crashes \in Nat /\ edits \in Nat
    BY <1>b DEF Init
  <1>3. ASSUME NEW m \in Models PROVE mapping[m] \in Entries
    <2>1. Absent \in Entries /\ Unloaded(disk[m]) \in Entries
      BY <1>2, RouterAssumption DEF Absent, Unloaded, Entries
    <2>2. CASE m \in Startup
      <3>1. gen[m] \in 0 .. MaxGen
        BY <2>2, RouterAssumption, StartupFact
      <3>2. mapping[m] = CASE m \in Startup -> [Unloaded(disk[m]) EXCEPT !.status = "LOADING", !.inst = gen[m], !.th = TRUE]
                           [] disk[m] = 0    -> Absent
                           [] OTHER          -> Unloaded(disk[m])
        BY <1>1
      <3>3. \A u \in Entries : [u EXCEPT !.status = "LOADING", !.inst = gen[m], !.th = TRUE] \in Entries
        BY <3>1 DEF Entries
      <3>4. QED
        BY <2>1, <2>2, <3>2, <3>3
    <2>3. CASE m \notin Startup
      BY <1>1, <2>1, <2>3
    <2>4. QED
      BY <2>2, <2>3
  <1>4. ASSUME NEW g \in Gens PROVE child[g] \in Children
    <2>1. Startup \subseteq Models
      BY StartupFact
    <2>2. child[g] = IF \E m \in Startup : gen[m] = g
                     THEN NewChild(CHOOSE m \in Startup : gen[m] = g, "normal") ELSE NoChild
      BY <1>1
    <2>3. (\E m \in Startup : gen[m] = g) => (CHOOSE m \in Startup : gen[m] = g) \in Models
      BY <2>1
    <2>4. CASE \E m \in Startup : gen[m] = g
      BY <2>2, <2>3, <2>4, NewChildFact
    <2>5. CASE ~ \E m \in Startup : gen[m] = g
      <3>1. PICK m \in Models : TRUE
        BY RouterAssumption
      <3>2. NoChild \in Children
        BY <3>1, NewChildFact
      <3>3. QED
        BY <2>2, <2>5, <3>2
    <2>6. QED
      BY <2>4, <2>5
  <1>5. ASSUME NEW h \in Handlers PROVE me[h] \in Threads
    <2>1. me \in [Handlers -> {Start(r) : r \in Requests}]
      BY DEF Init
    <2>2. PICK r \in Requests : me[h] = Start(r)
      BY <2>1
    <2>3. r.op \in Ops /\ r.model \in Models
      BY RouterAssumption DEF Ops
    <2>4. (IF r.op = "reload" THEN "scan" ELSE r.op) \in PCs /\ "list" \in Rets
      BY <2>3 DEF Ops, PCs, Rets
    <2>5. QED
      BY <2>2, <2>3, <2>4, LocalsFact DEF Start
  <1>6. QED
    BY <1>1, <1>2, <1>3, <1>4, <1>5 DEF TypeOK, Init

-----------------------------------------------------------------------------
(* Steps that leave the entries alone.                                      *)

\* No process comes to life, changes hands or loses its thread.
ChildrenKept ==
    \A g \in Gens :
      /\ child'[g].model = child[g].model /\ child'[g].mode = child[g].mode
      /\ child'[g].mgr = child[g].mgr
      /\ Alive(g)' => Alive(g)
      /\ child[g].proc = "dead" => child'[g].proc = "dead"
      /\ child[g].mode = "none" => child'[g].proc = "none" /\ child'[g].stopper = "done"
      /\ \/ child'[g].said = child[g].said \/ child'[g].said = "none"
         \/ /\ Alive(g) /\ child[g].proc = "up"
            /\ child'[g].said = IF child[g].mode = "normal" THEN "ready" ELSE "result"
      /\ child'[g].proc = "up" \/ child'[g].said = "result"
           => child[g].proc = "up" \/ child[g].said = "result"
      /\ child'[g].proc = "up" =>
           child[g].proc = "up" /\ (child'[g].said = child[g].said \/ child'[g].said = "none")

ThreadsKept ==
    \A h \in Handlers :
      /\ me'[h].op = me[h].op
      /\ me'[h].pc = "replace" =>
           /\ me[h].pc = "replace" /\ me'[h].inst = me[h].inst
           /\ me'[h].model = me[h].model /\ me'[h].auto = me[h].auto
      /\ me[h].pc = "replace" => me'[h].pc = "replace"
      /\ me'[h].pc = "remove_join" =>
           /\ me'[h].model = me[h].model
           /\ \/ me[h].pc = "remove_join"
              \/ /\ holder' = h
                 /\ ~Running(me[h].model) /\ mapping[me[h].model].status # "DOWNLOADING"
      /\ me'[h].pc \in {"drop", "drop_wait"} =>
           me[h].pc \in {"drop", "drop_wait"} /\ me'[h].gone = me[h].gone

\* What a request asks for does not change while it is served.
OpsKept == \A h \in Handlers : me'[h].op = me[h].op

\* A step that leaves the entries and the reload alone, takes at most a free lock and
\* keeps what the children and threads are about preserves the invariant.
LEMMA QuietStep ==
  ASSUME IInv, TypeOK', mapping' = mapping, reloading' = reloading,
         holder' = holder \/ holder = NoOne, ChildrenKept, ThreadsKept
  PROVE  IInv'
  <1>1. /\ mapping \in [Models -> Entries] /\ child \in [Gens -> Children]
        /\ me \in [Handlers -> Threads] /\ TypeOK
    BY DEF IInv, TypeOK
  <1>2. ChildOK'
    BY <1>1 DEF IInv, ChildOK, ChildrenKept, Alive, Children
  <1>3. Downloads' = Downloads /\ Active' = Active /\ \A m \in Models : Running(m)' = Running(m)
    BY DEF Downloads, ThreadsKept, Op, Running, Active
  <1>4. EntryOK'
    <2> SUFFICES ASSUME NEW m \in Models
                 PROVE  /\ mapping[m].inst # 0 =>
                             child'[mapping[m].inst].model = m /\ child'[mapping[m].inst].mode # "none"
                        /\ Running(m) =>
                             /\ mapping[m].th /\ mapping[m].inst # 0
                             /\ child'[mapping[m].inst].mode = "normal" /\ child'[mapping[m].inst].mgr # "done"
                        /\ mapping[m].status = "DOWNLOADING" =>
                             /\ mapping[m].th /\ mapping[m].inst # 0 /\ Downloads
                             /\ child'[mapping[m].inst].mode = "download"
      BY <1>3 DEF EntryOK
    <2>1. mapping[m].inst # 0 => mapping[m].inst \in Gens
      BY <1>1, RouterAssumption DEF Entries, Gens
    <2>2. QED
      BY <2>1 DEF IInv, EntryOK, ChildrenKept
  <1>5. \A g \in Gens : Replacing(g) => Replacing(g)'
    BY DEF Replacing, ThreadsKept, At
  <1>6. NormalIsShown'
    BY <1>1, <1>3, <1>5 DEF IInv, NormalIsShown, ChildrenKept, Running, Children
  <1>7. DownloadIsShown'
    BY <1>1, <1>3, <1>5 DEF IInv, DownloadIsShown, ChildrenKept, Children
  <1>8. HolderOK'
    <2> SUFFICES ASSUME NEW h \in Handlers
                 PROVE  /\ me'[h].pc \in {"replace", "remove_join"} => holder' = h
                        /\ At(h, "replace")' =>
                             /\ ~reloading
                             /\ me'[h].inst \in Gens /\ child'[me'[h].inst].model = Target(h)'
                             /\ child'[me'[h].inst].mode = IF Op(h)' = "download" THEN "download" ELSE "normal"
                             /\ child'[me'[h].inst].mgr \in {"log", "clear"}
                             /\ \A m \in Models : mapping[m].inst # me'[h].inst
                             /\ Op(h)' # "download" => mapping[Target(h)'].status = "UNLOADED"
                             /\ ModelsMax > 0 => Cardinality(Active) < ModelsMax
                        /\ At(h, "remove_join")' =>
                             mapping[me'[h].model].status \notin RunningStatus \cup {"DOWNLOADING"}
      BY <1>3 DEF HolderOK, Running
    <2>1. me[h].pc \in {"replace", "remove_join"} => holder = h /\ holder' = h
      BY RouterAssumption DEF IInv, HolderOK
    <2>2. CASE At(h, "replace")'
      <3>1. At(h, "replace") /\ me'[h].inst = me[h].inst /\ Target(h)' = Target(h) /\ Op(h)' = Op(h)
        BY <2>2 DEF ThreadsKept, At, Op, Target
      <3>2. /\ ~reloading
            /\ me[h].inst \in Gens /\ child[me[h].inst].model = Target(h)
            /\ child[me[h].inst].mode = IF Op(h) = "download" THEN "download" ELSE "normal"
            /\ child[me[h].inst].mgr \in {"log", "clear"}
            /\ \A m \in Models : mapping[m].inst # me[h].inst
            /\ Op(h) # "download" => mapping[Target(h)].status = "UNLOADED"
            /\ ModelsMax > 0 => Cardinality(Active) < ModelsMax
        BY <3>1 DEF IInv, HolderOK
      <3>3. QED
        BY <2>1, <2>2, <3>1, <3>2 DEF ChildrenKept, At
    <2>3. CASE At(h, "remove_join")'
      BY <1>1, <2>1, <2>3 DEF IInv, HolderOK, ThreadsKept, At, Running
    <2>4. QED
      BY <2>2, <2>3 DEF At
  <1>9. ReloadOK'
    BY <1>3 DEF IInv, ReloadOK, ThreadsKept
  <1>10. QED
    BY <1>2, <1>4, <1>6, <1>7, <1>8, <1>9 DEF IInv

\* Asking the child of a model to exit changes nothing else about the children.
LEMMA KeptFact ==
  ASSUME IInv
  PROVE  /\ child' = child => ChildrenKept
         /\ \A m \in Models : unload(m) => ChildrenKept
  <1>1. TypeOK /\ child \in [Gens -> Children] /\ ChildOK
    BY DEF IInv, TypeOK
  <1>2. ASSUME child' = child PROVE ChildrenKept
    BY <1>1, <1>2 DEF ChildrenKept, Alive, ChildOK
  <1>3. ASSUME NEW m \in Models, unload(m) PROVE ChildrenKept
    <2>1. \A g \in Gens : g = mapping[m].inst /\ mapping[m].status = "LOADING" => child[g].mode = "normal"
      BY DEF IInv, EntryOK, Running, RunningStatus
    <2>2. QED
      BY <1>1, <1>3, <2>1, UnloadFact DEF ChildrenKept, Alive, ChildOK
  <1>4. QED
    BY <1>2, <1>3

\* A step of one thread that leaves the entries alone.
LEMMA LocalStep ==
  ASSUME IInv, NEW h \in Handlers, NEW pc \in PCs, Moved(h, pc),
         pc \notin {"replace", "remove_join"}, me[h].pc # "replace",
         pc \in {"drop", "drop_wait"} => me[h].pc \in {"drop", "drop_wait"} /\ me'[h].gone = me[h].gone,
         UNCHANGED <<mapping, reloading, disk, crashes, edits>>,
         child' = child \/ \E m \in Models : unload(m),
         stopping' \subseteq Models, needReload' \in BOOLEAN,
         holder' = holder \/ (holder = NoOne /\ holder' \in Handlers)
  PROVE  IInv' /\ OpsKept
  <1>1. TypeOK /\ ChildrenKept
    BY KeptFact DEF IInv
  <1>2. child' \in [Gens -> Children]
    BY <1>1, UnloadFact DEF TypeOK
  <1>3. TypeOK'
    BY <1>1, <1>2 DEF TypeOK, Moved
  <1>4. ThreadsKept
    BY DEF Moved, ThreadsKept
  <1>5. QED
    BY <1>1, <1>3, <1>4, QuietStep DEF ThreadsKept, OpsKept

\* The steps of an HTTP thread that leave the entries alone.
Local(h) ==
    \/ refresh(h) \/ lookup(h) \/ get_all_meta(h) \/ unload_route(h) \/ unload_wait(h)
    \/ count(h) \/ evict(h) \/ ready(h) \/ proxy(h) \/ download(h) \/ remove(h)
    \/ remove_wait(h) \/ scan(h) \/ drop(h) \/ join(h)

\* A step of a handler that leaves the entries alone preserves the invariant.
LEMMA LocalFact ==
  ASSUME IInv, NEW h \in Handlers, Local(h)
  PROVE  IInv' /\ OpsKept
  <1>1. /\ TypeOK /\ me \in [Handlers -> Threads] /\ me[h] \in Threads
        /\ stopping \subseteq Models /\ needReload \in BOOLEAN /\ disk \in [Models -> Nat]
        /\ me[h].model \in Models
    BY DEF IInv, TypeOK, Threads
  <1> DEFINE Same == UNCHANGED <<mapping, reloading, disk, crashes, edits>>
  <1>2. ASSUME refresh(h) PROVE IInv' /\ OpsKept
    <2>1. me' = [me EXCEPT ![h] = [me[h] EXCEPT !.ret = me[h].pc, !.pc = "scan"]]
      BY <1>1, <1>2 DEF refresh
    <2>2. [me[h] EXCEPT !.ret = me[h].pc, !.pc = "scan"] \in Threads
      BY <1>1, <1>2 DEF refresh, Threads, PCs, Rets
    <2>3. Moved(h, "scan") /\ "scan" \in PCs
      BY <1>1, <2>1, <2>2 DEF Moved, Threads, PCs
    <2>4. QED
      BY <1>1, <1>2, <2>3, LocalStep DEF refresh
  <1>3. ASSUME lookup(h) PROVE IInv' /\ OpsKept
    <2>1. AfterMeta(h) \in {"done", "proxy", "count", "ready", "unload_now"}
      BY DEF AfterMeta
    <2>2. PICK pc \in PCs : Moved(h, pc) /\ pc \in {"done", "proxy", "count", "ready", "unload_now"}
      BY <1>1, <1>3, <2>1, GotoFact, FinishFact DEF lookup, PCs
    <2>3. QED
      BY <1>1, <1>3, <2>2, LocalStep DEF lookup, Looks, At
  <1>4. ASSUME get_all_meta(h) PROVE IInv' /\ OpsKept
    <2>1. Moved(h, "done") /\ "done" \in PCs
      BY <1>1, <1>4, FinishFact DEF get_all_meta, PCs
    <2>2. QED
      BY <1>1, <1>4, <2>1, LocalStep DEF get_all_meta, Looks, At
  <1>5. ASSUME unload_route(h) PROVE IInv' /\ OpsKept
    <2>1. CASE mapping[me[h].model].status = "DOWNLOADING"
      <3>1. me' = [me EXCEPT ![h] = [me[h] EXCEPT !.pc = "unload_wait", !.victim = {me[h].model}]]
        BY <1>1, <1>5, <2>1 DEF unload_route
      <3>2. [me[h] EXCEPT !.pc = "unload_wait", !.victim = {me[h].model}] \in Threads
        BY <1>1 DEF Threads, PCs
      <3>3. Moved(h, "unload_wait") /\ "unload_wait" \in PCs
        BY <1>1, <3>1, <3>2 DEF Moved, Threads, PCs
      <3>4. QED
        BY <1>1, <1>5, <3>3, LocalStep, UnloadFact DEF unload_route, At
    <2>2. CASE mapping[me[h].model].status # "DOWNLOADING"
      <3>1. Moved(h, "done") /\ "done" \in PCs
        BY <1>1, <1>5, <2>2, FinishFact DEF unload_route, PCs
      <3>2. QED
        BY <1>1, <1>5, <3>1, LocalStep, UnloadFact DEF unload_route, At
    <2>3. QED
      BY <2>1, <2>2
  <1>6. ASSUME unload_wait(h) PROVE IInv' /\ OpsKept
    <2>1. AfterWait[me[h].pc] \in {"done", "evicted", "drop"} /\ (AfterWait[me[h].pc] = "drop" => me[h].pc = "drop_wait")
          /\ me[h].pc \in {"unload_wait", "evict_wait", "drop_wait"}
      BY <1>6 DEF unload_wait, AfterWait
    <2>2. PICK pc \in PCs : pc = AfterWait[me[h].pc]
      BY <2>1 DEF PCs
    <2>3. me' = [me EXCEPT ![h] = [me[h] EXCEPT !.pc = pc]]
      BY <1>1, <1>6, <2>2 DEF unload_wait
    <2>4. [me[h] EXCEPT !.pc = pc] \in Threads
      BY <1>1 DEF Threads
    <2>5. Moved(h, pc) /\ me'[h].gone = me[h].gone
      BY <1>1, <2>3, <2>4 DEF Moved, Threads
    <2>6. QED
      BY <1>1, <1>6, <2>1, <2>2, <2>5, LocalStep DEF unload_wait
  <1>7. ASSUME count(h) PROVE IInv' /\ OpsKept
    <2>1. CASE Finish(h)
      <3>1. Moved(h, "done") /\ "done" \in PCs
        BY <1>1, <2>1, FinishFact DEF PCs
      <3>2. QED
        BY <1>1, <1>7, <3>1, LocalStep DEF count, At
    <2>2. CASE Goto(h, "spawn")
      <3>1. Moved(h, "spawn") /\ "spawn" \in PCs
        BY <1>1, <2>2, GotoFact DEF PCs
      <3>2. QED
        BY <1>1, <1>7, <3>1, LocalStep DEF count, At
    <2>3. CASE \E v \in Active : me' = [me EXCEPT ![h].pc = "evict", ![h].victim = {v}]
      <3>1. PICK v \in Active : me' = [me EXCEPT ![h].pc = "evict", ![h].victim = {v}]
        BY <2>3
      <3>2. me' = [me EXCEPT ![h] = [me[h] EXCEPT !.pc = "evict", !.victim = {v}]]
        BY <1>1, <3>1
      <3>3. [me[h] EXCEPT !.pc = "evict", !.victim = {v}] \in Threads
        BY <1>1 DEF Threads, PCs, Active
      <3>4. Moved(h, "evict") /\ "evict" \in PCs
        BY <1>1, <3>2, <3>3 DEF Moved, Threads, PCs
      <3>5. QED
        BY <1>1, <1>7, <3>4, LocalStep DEF count, At
    <2>4. QED
      BY <1>7, <2>1, <2>2, <2>3 DEF count
  <1>8. ASSUME evict(h) PROVE IInv' /\ OpsKept
    <2>1. PICK v \in me[h].victim : unload(v) /\ Goto(h, IF mapping[v].status = "DOWNLOADING" THEN "evict_wait" ELSE "evicted")
      BY <1>8 DEF evict
    <2>2. v \in Models
      BY <1>1 DEF Threads
    <2>3. PICK pc \in PCs : Moved(h, pc) /\ pc \in {"evict_wait", "evicted"}
      BY <1>1, <2>1, GotoFact DEF PCs
    <2>4. QED
      BY <1>1, <1>8, <2>1, <2>2, <2>3, LocalStep, UnloadFact DEF evict, At
  <1>9. ASSUME ready(h) PROVE IInv' /\ OpsKept
    <2>1. PICK pc \in PCs : Moved(h, pc) /\ pc \in {"done", "proxy"}
      BY <1>1, <1>9, GotoFact, FinishFact DEF ready, PCs
    <2>2. QED
      BY <1>1, <1>9, <2>1, LocalStep DEF ready, At
  <1>10. ASSUME proxy(h) PROVE IInv' /\ OpsKept
    <2>1. PICK pc \in PCs : Moved(h, pc) /\ pc \in {"done", "touch"}
      BY <1>1, <1>10, GotoFact, FinishFact DEF proxy, PCs
    <2>2. QED
      BY <1>1, <1>10, <2>1, LocalStep DEF proxy, Looks, At
  <1>11. ASSUME download(h) PROVE IInv' /\ OpsKept
    <2>1. PICK pc \in PCs : Moved(h, pc) /\ pc \in {"done", "spawn"}
      BY <1>1, <1>11, GotoFact, FinishFact DEF download, PCs
    <2>2. QED
      BY <1>1, <1>11, <2>1, LocalStep DEF download, At
  <1>12. ASSUME remove(h) PROVE IInv' /\ OpsKept
    <2>1. CASE mapping[me[h].model] = Absent
      <3>1. Moved(h, "done") /\ "done" \in PCs
        BY <1>1, <1>12, <2>1, FinishFact DEF remove, PCs
      <3>2. QED
        BY <1>1, <1>12, <2>1, <3>1, LocalStep DEF remove, At
    <2>2. CASE mapping[me[h].model] # Absent
      <3>1. Moved(h, "remove_wait") /\ "remove_wait" \in PCs
        BY <1>1, <1>12, <2>2, GotoFact DEF remove, PCs
      <3>2. QED
        BY <1>1, <1>12, <2>2, <3>1, LocalStep, UnloadFact DEF remove, At
    <2>3. QED
      BY <2>1, <2>2
  <1>13. ASSUME remove_wait(h) PROVE IInv' /\ OpsKept
    <2>1. CASE Finish(h) /\ disk' = [disk EXCEPT ![me[h].model] = 0] /\ UNCHANGED holder
      <3>1. Moved(h, "done")
        BY <1>1, <2>1, FinishFact
      <3>2. TypeOK'
        BY <1>1, <1>13, <2>1, <3>1 DEF TypeOK, Moved, remove_wait
      <3>3. ThreadsKept
        BY <1>13, <3>1 DEF Moved, ThreadsKept, remove_wait, At
      <3>4. QED
        BY <1>13, <2>1, <3>2, <3>3, KeptFact, QuietStep DEF ThreadsKept, OpsKept, remove_wait
    <2>2. CASE /\ mapping[me[h].model].status \in {"UNLOADED", "DOWNLOADED"}
               /\ holder' = h
               /\ Goto(h, "remove_join") /\ UNCHANGED disk
      <3>1. Moved(h, "remove_join")
        BY <1>1, <2>2, GotoFact DEF PCs
      <3>2. TypeOK'
        BY <1>1, <1>13, <2>2, <3>1 DEF TypeOK, Moved, remove_wait
      <3>3. ThreadsKept
        BY <1>13, <2>2, <3>1 DEF Moved, ThreadsKept, remove_wait, At, Running, RunningStatus
      <3>4. QED
        BY <1>13, <2>2, <3>2, <3>3, KeptFact, QuietStep DEF ThreadsKept, OpsKept, remove_wait, Free
    <2>3. QED
      BY <1>13, <2>1, <2>2 DEF remove_wait
  <1>14. ASSUME scan(h) PROVE IInv' /\ OpsKept
    <2>1. me' = [me EXCEPT ![h] = [me[h] EXCEPT !.snap = disk, !.pc = "diff"]]
      BY <1>1, <1>14 DEF scan
    <2>2. [me[h] EXCEPT !.snap = disk, !.pc = "diff"] \in Threads
      BY <1>1 DEF Threads, PCs
    <2>3. Moved(h, "diff") /\ "diff" \in PCs
      BY <1>1, <2>1, <2>2 DEF Moved, Threads, PCs
    <2>4. QED
      BY <1>1, <1>14, <2>3, LocalStep DEF scan, At
  <1>15. ASSUME drop(h) PROVE IInv' /\ OpsKept
    <2>1. PICK m \in me[h].todo :
            /\ unload(m)
            /\ me' = [me EXCEPT ![h].todo = @ \ {m},
                                ![h].pc = IF mapping[m].status = "DOWNLOADING" THEN "drop_wait" ELSE "drop",
                                ![h].victim = IF mapping[m].status = "DOWNLOADING" THEN {m} ELSE {}]
      BY <1>15 DEF drop
    <2>2. m \in Models
      BY <1>1 DEF Threads
    <2>3. PICK pc \in PCs : pc = (IF mapping[m].status = "DOWNLOADING" THEN "drop_wait" ELSE "drop")
      BY DEF PCs
    <2>4. PICK v \in SUBSET Models : v = (IF mapping[m].status = "DOWNLOADING" THEN {m} ELSE {})
      BY <2>2
    <2>5. me' = [me EXCEPT ![h] = [me[h] EXCEPT !.todo = me[h].todo \ {m}, !.pc = pc, !.victim = v]]
      BY <1>1, <2>1, <2>3, <2>4
    <2>6. [me[h] EXCEPT !.todo = me[h].todo \ {m}, !.pc = pc, !.victim = v] \in Threads
      BY <1>1, <2>4 DEF Threads
    <2>7. Moved(h, pc) /\ me'[h].gone = me[h].gone
      BY <1>1, <2>5, <2>6 DEF Moved, Threads
    <2>8. QED
      BY <1>1, <1>15, <2>1, <2>2, <2>3, <2>7, LocalStep, UnloadFact DEF drop, At
  <1>16. ASSUME join(h) PROVE IInv' /\ OpsKept
    <2>1. Moved(h, "commit") /\ "commit" \in PCs
      BY <1>1, <1>16, GotoFact DEF join, PCs
    <2>2. QED
      BY <1>1, <1>16, <2>1, LocalStep DEF join, At, Free
  <1>17. QED
    BY <1>2, <1>3, <1>4, <1>5, <1>6, <1>7, <1>8, <1>9, <1>10, <1>11, <1>12, <1>13, <1>14, <1>15, <1>16 DEF Local

-----------------------------------------------------------------------------
(* Steps that change entries, but none that shows a process.                *)

Shows(m) == Running(m) \/ mapping[m].status = "DOWNLOADING"

EntriesKept ==
    \A m \in Models :
      /\ Shows(m) => /\ mapping'[m].status = mapping[m].status
                     /\ mapping'[m].inst = mapping[m].inst /\ mapping'[m].th = mapping[m].th
      /\ ~Shows(m) => /\ ~Shows(m)'
                      /\ \/ mapping'[m].inst = 0
                         \/ mapping'[m].inst = mapping[m].inst /\ mapping'[m].status = mapping[m].status

\* Nobody else keeps the mutex.
Unlocked == \A h \in Handlers : /\ me'[h].op = me[h].op
                                /\ me[h].pc # "replace"
                                /\ me'[h].pc \notin {"replace", "remove_join"}

\* A step under the lock that keeps the entries of running models does so as well.
LEMMA EntriesStep ==
  ASSUME IInv, TypeOK', EntriesKept, child' = child, Unlocked, ReloadOK'
  PROVE  IInv' /\ OpsKept
  <1>1. /\ mapping \in [Models -> Entries] /\ child \in [Gens -> Children]
        /\ me \in [Handlers -> Threads] /\ TypeOK
    BY DEF IInv, TypeOK
  <1>2. ChildOK'
    BY DEF IInv, ChildOK, Alive
  <1>3. Downloads' = Downloads
    BY DEF Downloads, Unlocked, Op
  <1>4. EntryOK'
    BY <1>3 DEF IInv, EntryOK, EntriesKept, Shows, Running
  <1>5. \A g \in Gens : ~Replacing(g)
    BY DEF Replacing, Unlocked, At
  <1>6. NormalIsShown'
    BY <1>1, <1>5 DEF IInv, NormalIsShown, EntriesKept, Shows, Running, Children
  <1>7. DownloadIsShown'
    BY <1>1, <1>5 DEF IInv, DownloadIsShown, EntriesKept, Shows, Children
  <1>8. HolderOK'
    BY DEF HolderOK, Unlocked, At
  <1>9. QED
    BY <1>2, <1>4, <1>6, <1>7, <1>8 DEF IInv, Unlocked, OpsKept

\* Thread h goes on; if anyone keeps the mutex, it is h, which is not replacing.
LEMMA UnlockedFact ==
  ASSUME IInv, NEW h \in Handlers, NEW pc \in PCs, Moved(h, pc),
         pc \notin {"replace", "remove_join"}, me[h].pc # "replace",
         holder = NoOne \/ holder = h
  PROVE  Unlocked
  <1>1. \A i \in Handlers : i # h => me[i].pc \notin {"replace", "remove_join"}
    BY RouterAssumption DEF IInv, HolderOK
  <1>2. QED
    BY <1>1 DEF Moved, Unlocked

\* No reload begins and none is disturbed.
LEMMA ReloadFact ==
  ASSUME IInv, EntriesKept, NEW h \in Handlers, NEW pc \in PCs, Moved(h, pc),
         pc \notin {"drop", "drop_wait"}, reloading' = reloading
  PROVE  ReloadOK'
  <1>1. me \in [Handlers -> Threads] /\ \A i \in Handlers : me[i].gone \subseteq Models
    BY DEF IInv, TypeOK, Threads
  <1>2. Downloads' = Downloads
    BY DEF Downloads, Moved, Op
  <1>3. QED
    BY <1>1, <1>2 DEF IInv, ReloadOK, EntriesKept, Moved, Shows

\* Marking a model as just used keeps its instance.
LEMMA TouchStep ==
  ASSUME IInv, NEW h \in Handlers, NEW m \in Models, NEW pc \in PCs, Moved(h, pc),
         pc \in {"spawn", "done"}, me[h].pc \in {"evicted", "touch", "spawn"}, Free,
         mapping' = [mapping EXCEPT ![m] = Touched(m)],
         UNCHANGED <<stopping, reloading, needReload, holder, child, disk, down, crashes, edits>>
  PROVE  IInv' /\ OpsKept /\ EntriesKept
  <1>1. TypeOK /\ Touched(m) \in Entries /\ mapping \in [Models -> Entries]
    BY EntryFact DEF IInv, TypeOK
  <1>2. TypeOK'
    BY <1>1 DEF TypeOK, Moved
  <1>3. EntriesKept
    BY <1>1, UnloadedFact DEF EntriesKept, Touched, Shows, Running, RunningStatus
  <1>4. Unlocked
    BY UnlockedFact DEF Free
  <1>5. ReloadOK'
    BY <1>3, ReloadFact
  <1>6. QED
    BY <1>2, <1>3, <1>4, <1>5, EntriesStep

\* The steps of a handler that write entries, and spawn no child.
LEMMA EntryStep ==
  ASSUME IInv, NEW h \in Handlers, OneReload,
         evicted(h) \/ touch(h) \/ remove_join(h) \/ diff(h) \/ settle(h) \/ commit(h)
  PROVE  IInv' /\ OpsKept /\ EntriesKept
  <1>1. /\ TypeOK /\ mapping \in [Models -> Entries] /\ child \in [Gens -> Children]
        /\ me \in [Handlers -> Threads] /\ me[h] \in Threads
        /\ me[h].model \in Models /\ me[h].snap \in [Models -> Nat]
        /\ Absent \in Entries /\ \A v \in Nat : Unloaded(v) \in Entries
    BY EntryFact, RouterAssumption DEF IInv, TypeOK, Threads
  <1>2. ASSUME evicted(h) PROVE IInv' /\ OpsKept /\ EntriesKept
    <2>1. PICK v \in me[h].victim : mapping' = [mapping EXCEPT ![v] = Touched(v)]
      BY <1>2 DEF evicted
    <2>2. v \in Models
      BY <1>1 DEF Threads
    <2>3. me' = [me EXCEPT ![h] = [me[h] EXCEPT !.pc = "spawn", !.victim = {}]]
      BY <1>1, <1>2 DEF evicted
    <2>4. [me[h] EXCEPT !.pc = "spawn", !.victim = {}] \in Threads
      BY <1>1 DEF Threads, PCs
    <2>5. Moved(h, "spawn") /\ "spawn" \in PCs
      BY <1>1, <2>3, <2>4 DEF Moved, Threads, PCs
    <2>6. QED
      BY <1>2, <2>1, <2>2, <2>5, TouchStep DEF evicted, At
  <1>3. ASSUME touch(h) PROVE IInv' /\ OpsKept /\ EntriesKept
    <2>1. Moved(h, "done") /\ "done" \in PCs
      BY <1>1, <1>3, FinishFact DEF touch, PCs
    <2>2. QED
      BY <1>1, <1>3, <2>1, TouchStep DEF touch, At
  <1>4. ASSUME remove_join(h) PROVE IInv' /\ OpsKept /\ EntriesKept
    <2>1. Moved(h, "done") /\ "done" \in PCs
      BY <1>1, <1>4, FinishFact DEF remove_join, PCs
    <2>2. ~Shows(me[h].model) /\ mapping' = [mapping EXCEPT ![me[h].model] = Absent]
      BY <1>4 DEF remove_join, IInv, HolderOK, Shows, At
    <2>3. TypeOK'
      BY <1>1, <1>4, <2>1, <2>2 DEF TypeOK, Moved, remove_join
    <2>4. EntriesKept
      BY <1>1, <2>2 DEF EntriesKept, Absent, Shows, Running, RunningStatus
    <2>5. Unlocked /\ ReloadOK'
      BY <1>4, <2>1, <2>4, UnlockedFact, ReloadFact DEF remove_join, At
    <2>6. QED
      BY <1>4, <2>3, <2>4, <2>5, EntriesStep DEF remove_join
  <1>5. ASSUME settle(h) PROVE IInv' /\ OpsKept /\ EntriesKept
    <2>1. me[h].gone \subseteq Models /\ me[h].pc = "drop" /\ Free
      BY <1>1, <1>5 DEF Threads, settle, At
    <2>2. \A m \in me[h].gone : ~Shows(m)
      BY <1>5, <2>1 DEF settle, Settled, IInv, ReloadOK, EntryOK, Shows
    <2>3. PICK taken \in SUBSET Models :
            /\ \A m \in taken : ~Shows(m)
            /\ me' = [me EXCEPT ![h].joins = {mapping[m].inst : m \in taken}, ![h].pc = "join"]
            /\ mapping' = [m \in Models |-> IF m \in taken THEN [mapping[m] EXCEPT !.th = FALSE] ELSE mapping[m]]
      <3> DEFINE T == {m \in Models : /\ mapping[m].th
                                      /\ \/ m \in me[h].gone
                                         \/ /\ mapping[m].status # "DOWNLOADING" /\ ~Running(m)
                                            /\ me[h].snap[m] = 0}
      <3>1. T \in SUBSET Models /\ \A m \in T : ~Shows(m)
        BY <2>2 DEF Shows
      <3>2. QED
        BY <1>5, <3>1 DEF settle
    <2>4. {mapping[m].inst : m \in taken} \subseteq 0 .. MaxGen
      BY <1>1 DEF Entries
    <2>5. me' = [me EXCEPT ![h] = [me[h] EXCEPT !.joins = {mapping[m].inst : m \in taken}, !.pc = "join"]]
      BY <1>1, <2>3
    <2>6. [me[h] EXCEPT !.joins = {mapping[m].inst : m \in taken}, !.pc = "join"] \in Threads
      BY <1>1, <2>4 DEF Threads, PCs
    <2>7. Moved(h, "join") /\ "join" \in PCs
      BY <1>1, <2>5, <2>6 DEF Moved, Threads, PCs
    <2>8. \A m \in Models : mapping'[m] \in Entries
      BY <1>1, <2>3 DEF Entries
    <2>9. TypeOK'
      BY <1>1, <1>5, <2>3, <2>7, <2>8 DEF TypeOK, Moved, settle
    <2>10. EntriesKept
      BY <1>1, <2>3 DEF EntriesKept, Shows, Running, Entries
    <2>11. Unlocked /\ ReloadOK'
      BY <1>5, <2>1, <2>7, <2>10, UnlockedFact, ReloadFact DEF settle, Free
    <2>12. QED
      BY <1>5, <2>9, <2>10, <2>11, EntriesStep DEF settle
  <1>6. ASSUME diff(h) PROVE IInv' /\ OpsKept /\ EntriesKept
    <2>1. holder = NoOne /\ me[h].pc = "diff" /\ child' = child
      BY <1>6 DEF diff, Free, At
    <2>2. CASE \A m \in Models : mapping[m] = Absent
      <3>1. /\ mapping' = [m \in Models |-> IF me[h].snap[m] = 0 THEN Absent ELSE Unloaded(me[h].snap[m])]
            /\ \/ Finish(h) \/ Autoloads(h, {m \in Autoload : me[h].snap[m] # 0})
            /\ UNCHANGED reloading
        BY <1>6, <2>2 DEF diff
      <3>2. PICK pc \in PCs : Moved(h, pc) /\ pc \in Rets \cup {"count"}
        <4>1. CASE Finish(h)
          BY <1>1, <4>1, FinishFact DEF Rets, PCs
        <4>2. CASE Autoloads(h, {m \in Autoload : me[h].snap[m] # 0})
          <5>1. {m \in Autoload : me[h].snap[m] # 0} \in SUBSET Models
            BY RouterAssumption
          <5>2. QED
            BY <1>1, <4>2, <5>1, AutoloadsFact
        <4>3. QED
          BY <3>1, <4>1, <4>2
      <3>3. TypeOK'
        BY <1>1, <1>6, <3>1, <3>2 DEF TypeOK, Moved, diff
      <3>4. EntriesKept
        BY <1>1, <2>2, <3>1, UnloadedFact DEF EntriesKept, Shows, Running, RunningStatus
      <3>5. Unlocked /\ ReloadOK'
        BY <2>1, <3>1, <3>2, <3>4, UnlockedFact, ReloadFact DEF Rets
      <3>6. QED
        BY <2>1, <3>3, <3>4, <3>5, EntriesStep
    <2>3. CASE ~ \A m \in Models : mapping[m] = Absent
      <3>1. PICK out \in SUBSET Active : me' = [me EXCEPT ![h].todo = out, ![h].gone = out, ![h].pc = "drop"]
        BY <1>6, <2>3 DEF diff
      <3>2. mapping' = mapping /\ reloading' = TRUE /\ out \subseteq Models
        BY <1>6, <2>3, <3>1 DEF diff, Active
      <3>3. me' = [me EXCEPT ![h] = [me[h] EXCEPT !.todo = out, !.gone = out, !.pc = "drop"]]
        BY <1>1, <3>1
      <3>4. [me[h] EXCEPT !.todo = out, !.gone = out, !.pc = "drop"] \in Threads
        BY <1>1, <3>2 DEF Threads, PCs
      <3>5. Moved(h, "drop") /\ "drop" \in PCs /\ me'[h].gone = out
        BY <1>1, <3>3, <3>4 DEF Moved, Threads, PCs
      <3>6. TypeOK'
        BY <1>1, <1>6, <3>2, <3>5 DEF TypeOK, Moved, diff
      <3>7. EntriesKept /\ Unlocked
        BY <2>1, <3>2, <3>5, UnlockedFact DEF EntriesKept, Shows, Running
      <3>8. Downloads' = Downloads
        BY <3>5 DEF Downloads, Moved, Op
      <3>9. ReloadOK'
        BY <3>1, <3>2, <3>5, <3>8 DEF IInv, ReloadOK, Moved, Active, Running, RunningStatus
      <3>10. QED
        BY <2>1, <3>6, <3>7, <3>9, EntriesStep
    <2>4. QED
      BY <2>2, <2>3
  <1>7. ASSUME commit(h) PROVE IInv' /\ OpsKept /\ EntriesKept
    <2>1. holder = h /\ me[h].pc = "commit" /\ child' = child
      BY <1>7 DEF commit, At
    <2>2. CASE AssertFails(h)
      <3>1. Moved(h, "abort") /\ "abort" \in PCs /\ mapping' = mapping /\ reloading' = reloading
        BY <1>1, <1>7, <2>2, GotoFact DEF commit, PCs
      <3>2. TypeOK'
        BY <1>1, <1>7, <2>2, <3>1 DEF TypeOK, Moved, commit
      <3>3. EntriesKept
        BY <3>1 DEF EntriesKept, Shows, Running
      <3>4. Unlocked /\ ReloadOK'
        BY <2>1, <3>1, <3>3, UnlockedFact, ReloadFact
      <3>5. QED
        BY <2>1, <3>2, <3>3, <3>4, EntriesStep
    <2>3. CASE ~AssertFails(h)
      <3>1. /\ mapping' = [m \in Models |-> Committed(h, m)]
            /\ reloading' = FALSE /\ holder' = NoOne /\ Autoloads(h, Added(h) \cap Autoload)
        BY <1>7, <2>3 DEF commit
      <3>2. PICK pc \in PCs : Moved(h, pc) /\ pc \in Rets \cup {"count"}
        <4>1. PICK M \in SUBSET Models : Autoloads(h, M)
          <5>1. Added(h) \cap Autoload \in SUBSET Models
            BY DEF Added
          <5>2. QED
            BY <3>1, <5>1
        <4>2. QED
          BY <1>1, <4>1, AutoloadsFact
      <3>3. ASSUME NEW m \in Models
            PROVE  /\ Committed(h, m) \in Entries
                   /\ Shows(m) => /\ Committed(h, m).status = mapping[m].status
                                  /\ Committed(h, m).inst = mapping[m].inst /\ Committed(h, m).th = mapping[m].th
                   /\ ~Shows(m) => /\ Committed(h, m).status \notin RunningStatus \cup {"DOWNLOADING"}
                                   /\ \/ Committed(h, m).inst = 0
                                      \/ /\ Committed(h, m).inst = mapping[m].inst
                                         /\ Committed(h, m).status = mapping[m].status
        <4>1. Shows(m) => mapping[m] # Absent /\ ~Erased(h, m)
          BY <2>3, <3>3 DEF Shows, Absent, Erased, AssertFails, IInv, EntryOK, Running, RunningStatus
        <4>2. me[h].snap[m] \in Nat /\ mapping[m] \in Entries
          BY <1>1
        <4>3. CASE mapping[m] = Absent \/ Erased(h, m)
          <5>1. Committed(h, m) = IF me[h].snap[m] = 0 THEN Absent ELSE Unloaded(me[h].snap[m])
            BY <4>3 DEF Committed
          <5>2. ~Shows(m)
            BY <4>1, <4>3
          <5>3. QED
            BY <1>1, <4>2, <5>1, <5>2, UnloadedFact DEF RunningStatus
        <4>4. CASE ~(mapping[m] = Absent \/ Erased(h, m)) /\ (me[h].snap[m] = 0 \/ Running(m))
          <5>1. Committed(h, m) = mapping[m]
            BY <4>4 DEF Committed
          <5>2. QED
            BY <4>2, <5>1 DEF Shows, Running
        <4>5. CASE ~(mapping[m] = Absent \/ Erased(h, m)) /\ ~(me[h].snap[m] = 0 \/ Running(m))
          <5>1. Committed(h, m) = [mapping[m] EXCEPT !.preset = me[h].snap[m], !.failed = FALSE]
            BY <4>5 DEF Committed
          <5>2. QED
            BY <4>2, <5>1 DEF Shows, Running, Entries
        <4>6. QED
          BY <4>3, <4>4, <4>5
      <3>4. mapping' \in [Models -> Entries]
        BY <3>1, <3>3
      <3>5. TypeOK'
        BY <1>1, <1>7, <3>1, <3>2, <3>4 DEF TypeOK, Moved, commit
      <3>6. EntriesKept
        BY <3>1, <3>3 DEF EntriesKept, Shows, Running
      <3>7. Unlocked
        BY <2>1, <3>2, UnlockedFact DEF Rets
      <3>8. Downloads' = Downloads
        BY <3>2 DEF Downloads, Moved, Op
      <3>9. ReloadOK'
        <4>1. Downloads => \A i \in Handlers : i # h => me[i].pc \notin {"drop", "drop_wait"}
          BY <2>1 DEF OneReload, Reloads
        <4>2. QED
          BY <3>2, <3>8, <4>1 DEF ReloadOK, Moved, Rets
      <3>10. QED
        BY <2>1, <3>5, <3>6, <3>7, <3>9, EntriesStep
    <2>4. QED
      BY <2>2, <2>3
  <1>8. QED
    BY <1>2, <1>3, <1>4, <1>5, <1>6, <1>7

-----------------------------------------------------------------------------
(* Loading a model.                                                         *)

\* The processes when h has started g for its model.
Spawned(h, g, mode) ==
    [f \in Gens |-> IF f = g THEN NewChild(Target(h), mode)
                    ELSE IF f = mapping[Target(h)].inst THEN terminate(child[f])
                    ELSE child[f]]

\* The process is started, the mutex kept until the entry's old thread is joined.
LEMMA SpawnStep ==
  ASSUME IInv, NEW h \in Handlers, NEW g \in Gens, NEW mode \in {"normal", "download"},
         At(h, "spawn"), Free, ~reloading, ~Full,
         mode = IF Op(h) = "download" THEN "download" ELSE "normal",
         mode = "normal" => Touched(Target(h)).status = "UNLOADED",
         child[g].mode = "none",
         child' = Spawned(h, g, mode),
         me' = [me EXCEPT ![h].pc = "replace", ![h].inst = g],
         mapping' = [mapping EXCEPT ![Target(h)] = Touched(Target(h))],
         holder' = h,
         UNCHANGED <<stopping, reloading, needReload, disk, down, crashes, edits>>
  PROVE  IInv' /\ OpsKept
  <1>1. /\ TypeOK /\ mapping \in [Models -> Entries] /\ child \in [Gens -> Children]
        /\ me \in [Handlers -> Threads] /\ me[h] \in Threads /\ Target(h) \in Models
        /\ Touched(Target(h)) \in Entries
    BY EntryFact, TargetFact DEF IInv, TypeOK, Threads
  <1>2. g \in 0 .. MaxGen /\ g # 0
    BY RouterAssumption DEF Gens
  <1>3. Moved(h, "replace") /\ me'[h].inst = g /\ me'[h].auto = me[h].auto /\ "replace" \in PCs
    <2>1. me' = [me EXCEPT ![h] = [me[h] EXCEPT !.pc = "replace", !.inst = g]]
      BY <1>1
    <2>2. [me[h] EXCEPT !.pc = "replace", !.inst = g] \in Threads
      BY <1>1, <1>2 DEF Threads, PCs
    <2>3. QED
      BY <1>1, <2>1, <2>2 DEF Moved, Threads, PCs
  <1>4. /\ child' \in [Gens -> Children]
        /\ child'[g].model = Target(h) /\ child'[g].mode = mode /\ child'[g].proc = "up"
        /\ child'[g].said = "none" /\ child'[g].mgr = "log"
    <2>1. NewChild(Target(h), mode) \in Children
      BY <1>1, NewChildFact
    <2>2. \A f \in Gens : terminate(child[f]) \in Children
      BY <1>1, ChildFact
    <2>3. /\ NewChild(Target(h), mode).model = Target(h) /\ NewChild(Target(h), mode).mode = mode
          /\ NewChild(Target(h), mode).proc = "up" /\ NewChild(Target(h), mode).said = "none"
          /\ NewChild(Target(h), mode).mgr = "log"
      BY DEF NewChild, NoChild
    <2>4. QED
      BY <1>1, <2>1, <2>2, <2>3 DEF Spawned
  <1>5. ASSUME NEW f \in Gens, f # g
        PROVE  /\ child'[f].model = child[f].model /\ child'[f].mode = child[f].mode
               /\ child'[f].said = child[f].said /\ child'[f].mgr = child[f].mgr
               /\ child'[f].stopper = child[f].stopper
               /\ \/ child'[f].proc = child[f].proc
                  \/ child'[f].proc = "dead" /\ child[f].mode # "none"
    <2>1. /\ child[f] \in Children
          /\ \/ child'[f] = child[f]
             \/ child'[f] = terminate(child[f]) /\ f = mapping[Target(h)].inst
      BY <1>1, <1>5 DEF Spawned
    <2>2. f = mapping[Target(h)].inst => child[f].mode # "none"
      BY <1>1, RouterAssumption DEF IInv, EntryOK, Gens
    <2>3. QED
      BY <2>1, <2>2 DEF terminate, Children
  <1>6. TypeOK'
    BY <1>1, <1>3, <1>4 DEF TypeOK, Moved
  <1>7. /\ EntriesKept
        /\ \A m \in Models : mapping'[m].inst # g /\ Running(m)' = Running(m)
        /\ Active' = Active
    <2>1. EntriesKept /\ \A m \in Models : Running(m)' = Running(m)
      BY <1>1, UnloadedFact DEF EntriesKept, Touched, Shows, Running, RunningStatus
    <2>2. \A m \in Models : mapping[m].inst # g
      BY <1>2 DEF IInv, EntryOK
    <2>3. QED
      BY <1>2, <2>1, <2>2 DEF EntriesKept, Active
  <1>8. ReloadOK' /\ Downloads' = Downloads
    BY <1>3, <1>7, ReloadFact DEF Downloads, Moved, Op
  <1>9. ChildOK'
    BY <1>4, <1>5 DEF IInv, ChildOK, Alive
  <1>10. EntryOK'
    <2>1. SUFFICES ASSUME NEW m \in Models
                   PROVE  /\ mapping'[m].inst # 0 =>
                               /\ child'[mapping'[m].inst].model = m
                               /\ child'[mapping'[m].inst].mode # "none"
                          /\ Running(m)' =>
                               /\ mapping'[m].th /\ mapping'[m].inst # 0
                               /\ child'[mapping'[m].inst].mode = "normal"
                               /\ child'[mapping'[m].inst].mgr # "done"
                          /\ mapping'[m].status = "DOWNLOADING" =>
                               /\ mapping'[m].th /\ mapping'[m].inst # 0 /\ Downloads'
                               /\ child'[mapping'[m].inst].mode = "download"
      BY DEF EntryOK
    <2>2. PICK i : i = mapping[m].inst
      OBVIOUS
    <2>3. mapping'[m].inst # 0 => mapping'[m].inst = i /\ i # g
      BY <1>7, <2>2 DEF EntriesKept
    <2>4. i # 0 => i \in Gens
      <3>1. i \in 0 .. MaxGen
        BY <1>1, <2>2 DEF Entries
      <3>2. QED
        BY <3>1, RouterAssumption DEF Gens
    <2>5. i # 0 /\ i # g => /\ child'[i].model = child[i].model /\ child'[i].mode = child[i].mode
                            /\ child'[i].mgr = child[i].mgr
      BY <1>5, <2>4
    <2>6. Running(m)' \/ mapping'[m].status = "DOWNLOADING" =>
            /\ mapping'[m].status = mapping[m].status /\ mapping'[m].inst = i /\ mapping'[m].th = mapping[m].th
      BY <1>7, <2>2 DEF EntriesKept, Shows
    <2>7. /\ i # 0 => child[i].model = m /\ child[i].mode # "none"
          /\ Running(m) => /\ mapping[m].th /\ i # 0
                           /\ child[i].mode = "normal" /\ child[i].mgr # "done"
          /\ mapping[m].status = "DOWNLOADING" =>
               mapping[m].th /\ i # 0 /\ Downloads /\ child[i].mode = "download"
      BY <2>2 DEF IInv, EntryOK
    <2>8. Running(m)' = Running(m) /\ Downloads' = Downloads
      BY <1>7, <1>8
    <2>9. QED
      BY <2>3, <2>5, <2>6, <2>7, <2>8, ZenonT(60)
  <1>11. Replacing(g)' /\ \A f \in Gens : ~Replacing(f)
    BY <1>3, RouterAssumption DEF Replacing, Moved, At, IInv, HolderOK, Free
  <1>12. NormalIsShown'
    <2> SUFFICES ASSUME NEW f \in Gens, f # g, child'[f].mode = "normal", child'[f].mgr # "done"
                 PROVE  mapping'[child'[f].model].status \in RunningStatus /\ mapping'[child'[f].model].inst = f
      BY <1>11 DEF NormalIsShown, Running
    <2>1. Running(child[f].model) /\ mapping[child[f].model].inst = f /\ child[f].model \in Models
      BY <1>1, <1>5, <1>11 DEF IInv, NormalIsShown, Children
    <2>2. child'[f].model = child[f].model
      BY <1>5
    <2>3. QED
      BY <1>7, <2>1, <2>2 DEF EntriesKept, Shows, Running
  <1>13. DownloadIsShown'
    <2> SUFFICES ASSUME NEW f \in Gens, f # g, child'[f].mode = "download", child'[f].mgr = "log",
                        child'[f].proc = "up" \/ child'[f].said = "result"
                 PROVE  mapping'[child'[f].model].status = "DOWNLOADING" /\ mapping'[child'[f].model].inst = f
      BY <1>11 DEF DownloadIsShown
    <2>1. /\ mapping[child[f].model].status = "DOWNLOADING" /\ mapping[child[f].model].inst = f
          /\ child[f].model \in Models
      BY <1>1, <1>5, <1>11 DEF IInv, DownloadIsShown, Children
    <2>2. child'[f].model = child[f].model
      BY <1>5
    <2>3. QED
      BY <1>7, <2>1, <2>2 DEF EntriesKept, Shows
  <1>14. HolderOK'
    <2>1. \A i \in Handlers : i # h => me'[i].pc \notin {"replace", "remove_join"}
      BY <1>3, RouterAssumption DEF Moved, IInv, HolderOK, Free
    <2>2. ~At(h, "remove_join")' /\ Op(h)' = Op(h) /\ Target(h)' = Target(h)
      BY <1>3 DEF At, Op, Moved, Target
    <2>3. Op(h) # "download" => mapping'[Target(h)].status = "UNLOADED"
      BY <1>1
    <2>4. ModelsMax > 0 => Cardinality(Active) < ModelsMax
      <3>1. Cardinality(Active) \in Nat
        BY FS_CardinalityType, FS_Subset, RouterAssumption DEF Active
      <3>2. QED
        BY <3>1, RouterAssumption DEF Full
    <2>5. QED
      BY <1>3, <1>4, <1>7, <2>1, <2>2, <2>3, <2>4, ZenonT(90) DEF HolderOK, At
  <1>15. QED
    BY <1>3, <1>6, <1>8, <1>9, <1>10, <1>12, <1>13, <1>14 DEF IInv, Moved, OpsKept

\* Spawning a child keeps the other entries.
LEMMA SpawnFact ==
  ASSUME IInv, NEW h \in Handlers, spawn(h)
  PROVE  IInv' /\ OpsKept /\ EntriesKept
  <1>1. /\ TypeOK /\ mapping \in [Models -> Entries] /\ me \in [Handlers -> Threads]
        /\ Target(h) \in Models /\ stopping \subseteq Models /\ needReload \in BOOLEAN
    BY TargetFact DEF IInv, TypeOK, Threads
  <1>2. /\ me[h].pc = "spawn" /\ Free /\ ~reloading
        /\ UNCHANGED <<stopping, reloading, needReload, disk, down, crashes, edits>>
    BY DEF spawn, At
  <1>3. CASE AfterLoad(h) /\ UNCHANGED <<mapping, child, holder>>
    <2>1. PICK pc \in PCs : Moved(h, pc) /\ pc \in Rets \cup {"count", "ready"}
      BY <1>1, <1>3, AfterLoadFact
    <2>2. QED
      BY <1>1, <1>2, <1>3, <2>1, LocalStep DEF EntriesKept, Shows, Running, Rets
  <1>4. CASE /\ mapping' = [mapping EXCEPT ![Target(h)] = IF Op(h) = "download" THEN @ ELSE Touched(Target(h))]
             /\ Finish(h)
             /\ UNCHANGED <<child, holder>>
    <2>1. Moved(h, "done") /\ "done" \in PCs
      BY <1>1, <1>4, FinishFact DEF PCs
    <2>2. CASE Op(h) = "download"
      <3>1. mapping' = mapping
        BY <1>1, <1>4, <2>2
      <3>2. QED
        BY <1>1, <1>2, <1>4, <2>1, <3>1, LocalStep DEF EntriesKept, Shows, Running
    <2>3. CASE Op(h) # "download"
      BY <1>1, <1>2, <1>4, <2>1, <2>3, TouchStep
    <2>4. QED
      BY <2>2, <2>3
  <1>5. CASE /\ Op(h) = "download" \/ Touched(Target(h)).status = "UNLOADED"
             /\ ~Full
             /\ \E g \in Gens :
                  /\ child[g].mode = "none" /\ \A f \in Gens : f < g => child[f].mode # "none"
                  /\ child' = [f \in Gens |->
                       IF f = g THEN NewChild(Target(h), IF Op(h) = "download" THEN "download" ELSE "normal")
                       ELSE IF f = mapping[Target(h)].inst THEN terminate(child[f])
                       ELSE child[f]]
                  /\ me' = [me EXCEPT ![h].pc = "replace", ![h].inst = g]
             /\ mapping' = [mapping EXCEPT ![Target(h)] = Touched(Target(h))]
             /\ holder' = h
    <2>1. PICK mode \in {"normal", "download"} : mode = IF Op(h) = "download" THEN "download" ELSE "normal"
      OBVIOUS
    <2>2. PICK g \in Gens :
            /\ child[g].mode = "none"
            /\ child' = [f \in Gens |-> IF f = g THEN NewChild(Target(h), mode)
                                        ELSE IF f = mapping[Target(h)].inst THEN terminate(child[f])
                                        ELSE child[f]]
            /\ me' = [me EXCEPT ![h].pc = "replace", ![h].inst = g]
      BY <1>5, <2>1
    <2>a. child' = Spawned(h, g, mode)
      BY <2>2 DEF Spawned
    <2>3. At(h, "spawn") /\ (mode = "normal" => Touched(Target(h)).status = "UNLOADED")
      BY <1>2, <1>5, <2>1 DEF At
    <2>4. EntriesKept
      BY <1>1, <1>5, UnloadedFact DEF EntriesKept, Touched, Shows, Running, RunningStatus
    <2>5. QED
      BY <1>2, <1>5, <2>1, <2>2, <2>a, <2>3, <2>4, SpawnStep
  <1>6. QED
    BY <1>3, <1>4, <1>5 DEF spawn

\* The entry now shows the new process: nobody shows the old one, which is gone.
LEMMA ReplaceStep ==
  ASSUME IInv, NEW h \in Handlers, replace(h)
  PROVE  IInv' /\ OpsKept
  <1> DEFINE m == Target(h)
             g == me[h].inst
             e == [mapping[m] EXCEPT !.status = IF Op(h) = "download" THEN "DOWNLOADING" ELSE "LOADING",
                                     !.inst = g, !.th = TRUE]
  <1>1. /\ TypeOK /\ mapping \in [Models -> Entries] /\ child \in [Gens -> Children]
        /\ me \in [Handlers -> Threads] /\ me[h] \in Threads /\ m \in Models /\ g \in 0 .. MaxGen
    BY TargetFact DEF IInv, TypeOK, Threads
  <1>2. /\ holder = h /\ holder' = NoOne /\ child' = child /\ Joined(mapping[m])
        /\ UNCHANGED <<stopping, reloading, needReload, disk, down, crashes, edits>>
        /\ mapping' = [mapping EXCEPT ![m] = e]
    BY <1>1 DEF replace
  <1>3. PICK pc \in PCs : Moved(h, pc) /\ pc \in Rets \cup {"count", "ready"}
    <2>1. AfterLoad(h)
      BY DEF replace
    <2>2. QED
      BY <1>1, <2>1, AfterLoadFact
  <1>4. /\ At(h, "replace") /\ ~reloading /\ g \in Gens /\ child[g].model = m
        /\ child[g].mode = IF Op(h) = "download" THEN "download" ELSE "normal"
        /\ child[g].mgr \in {"log", "clear"}
        /\ \A n \in Models : mapping[n].inst # g
    BY DEF replace, IInv, HolderOK
  <1>5. /\ e \in Entries /\ e.inst = g /\ e.th
        /\ e.status = IF Op(h) = "download" THEN "DOWNLOADING" ELSE "LOADING"
    BY <1>1 DEF Entries
  <1> HIDE DEF e
  <1>6. /\ mapping' \in [Models -> Entries] /\ mapping'[m] = e
        /\ \A n \in Models : n # m => mapping'[n] = mapping[n]
    BY <1>1, <1>2, <1>5
  <1>7. TypeOK'
    BY <1>1, <1>2, <1>3, <1>6 DEF TypeOK, Moved
  <1>8. Downloads' = Downloads /\ (Op(h) = "download" => Downloads)
    BY <1>3 DEF Downloads, Moved, Op
  <1>9. ChildOK'
    BY <1>2 DEF IInv, ChildOK, Alive
  <1>10. EntryOK'
    <2>1. g # 0
      BY <1>4, RouterAssumption DEF Gens
    <2>2. QED
      BY <1>1, <1>2, <1>4, <1>5, <1>6, <1>8, <2>1 DEF IInv, EntryOK, Running, RunningStatus
  <1>11. \A i \in Handlers : i # h => me[i].pc \notin {"replace", "remove_join"} /\ me'[i] = me[i]
    BY <1>2, <1>3 DEF IInv, HolderOK, Moved
  <1>12. \A f \in Gens : Replacing(f) => f = g
    BY <1>11 DEF Replacing, At
  <1>13. \A f \in Gens : ~ (child[f].mode = "normal" /\ child[f].mgr # "done" /\ child[f].model = m /\ f # g)
    <2> SUFFICES ASSUME NEW f \in Gens, child[f].mode = "normal", child[f].mgr # "done",
                        child[f].model = m, f # g
                 PROVE  FALSE
      OBVIOUS
    <2>1. Running(m) /\ mapping[m].inst = f
      BY <1>12 DEF IInv, NormalIsShown
    <2>2. QED
      BY <1>1, <1>2, <2>1 DEF IInv, EntryOK, Joined
  <1>14. NormalIsShown'
    <2> SUFFICES ASSUME NEW f \in Gens, child[f].mode = "normal", child[f].mgr # "done"
                 PROVE  mapping'[child[f].model].status \in RunningStatus /\ mapping'[child[f].model].inst = f
      BY <1>2 DEF NormalIsShown, Running
    <2>1. CASE f = g
      BY <1>4, <1>5, <1>6, <2>1 DEF RunningStatus
    <2>2. CASE f # g
      <3>1. child[f].model # m /\ child[f].model \in Models
        BY <1>1, <1>13, <2>2 DEF Children
      <3>2. QED
        BY <1>6, <1>12, <2>2, <3>1 DEF IInv, NormalIsShown, Running
    <2>3. QED
      BY <2>1, <2>2
  <1>15. DownloadIsShown'
    <2> SUFFICES ASSUME NEW f \in Gens, child[f].mode = "download", child[f].mgr = "log",
                        child[f].proc = "up" \/ child[f].said = "result"
                 PROVE  mapping'[child[f].model].status = "DOWNLOADING" /\ mapping'[child[f].model].inst = f
      BY <1>2 DEF DownloadIsShown
    <2>1. CASE f = g
      BY <1>4, <1>5, <1>6, <2>1
    <2>2. CASE f # g
      <3>1. mapping[child[f].model].status = "DOWNLOADING" /\ mapping[child[f].model].inst = f
        BY <1>12, <2>2 DEF IInv, DownloadIsShown
      <3>2. child[f].model # m
        BY <1>1, <1>2, <3>1 DEF IInv, EntryOK, Joined
      <3>3. QED
        BY <1>1, <1>6, <3>1, <3>2 DEF Children
    <2>3. QED
      BY <2>1, <2>2
  <1>16. HolderOK'
    BY <1>3, <1>11 DEF HolderOK, At, Moved, Rets
  <1>17. ReloadOK'
    <2>1. \A i \in Handlers : me'[i].pc \in {"drop", "drop_wait"} => i # h
      BY <1>3 DEF Moved, Rets
    <2>2. QED
      BY <1>4, <1>8, <1>11, <2>1 DEF IInv, ReloadOK
  <1>18. QED
    BY <1>3, <1>7, <1>9, <1>10, <1>14, <1>15, <1>16, <1>17 DEF IInv, Moved, OpsKept

-----------------------------------------------------------------------------
(* The threads of a child, the child, and shutdown.                         *)

\* A report or the reaping changes the entry of this process: it shows it.
LEMMA ChildOfEntry ==
  ASSUME IInv, Free, NEW g \in Gens
  PROVE  /\ child[g].mode = "normal" /\ child[g].mgr # "done" =>
              Running(child[g].model) /\ mapping[child[g].model].inst = g
         /\ child[g].mode = "download" /\ child[g].mgr = "log" /\ child[g].said = "result" =>
              mapping[child[g].model].status = "DOWNLOADING" /\ mapping[child[g].model].inst = g
         /\ \A h \in Handlers : me[h].pc \notin {"replace", "remove_join"}
  BY RouterAssumption DEF IInv, HolderOK, NormalIsShown, DownloadIsShown, Replacing, Free, At

\* Steps that change only processes.
LEMMA ProcessStep ==
  ASSUME IInv, child' \in [Gens -> Children], ChildrenKept, stopping' \subseteq Models,
         disk' \in [Models -> Nat], crashes' \in Nat, edits' \in Nat,
         UNCHANGED <<mapping, reloading, needReload, holder, me>>
  PROVE  IInv'
  <1>1. TypeOK'
    BY DEF IInv, TypeOK
  <1>2. ThreadsKept
    BY DEF ThreadsKept
  <1>3. QED
    BY <1>1, <1>2, QuietStep

\* The steps of the children, of the user who edits the presets and of the shutdown.
LEMMA ProcessFact ==
  ASSUME IInv,
         \/ \E g \in Gens : Stop(g) \/ report(g) \/ exit(g) \/ crash(g)
         \/ \E m \in Editable : edit(m)
         \/ unload_all \/ joined_all
  PROVE  IInv'
  <1>1. /\ TypeOK /\ mapping \in [Models -> Entries] /\ child \in [Gens -> Children] /\ ChildOK
        /\ stopping \subseteq Models /\ disk \in [Models -> Nat] /\ crashes \in Nat /\ edits \in Nat
    BY DEF IInv, TypeOK
  <1>2. ASSUME NEW g \in Gens, NEW c \in Children, Set(g, c), child[g].mode # "none",
               c.model = child[g].model, c.mode = child[g].mode, c.mgr = child[g].mgr,
               c.said = child[g].said, c.proc \in {child[g].proc, "dead"}
        PROVE  child' \in [Gens -> Children] /\ ChildrenKept
    BY <1>1, <1>2 DEF Set, ChildrenKept, ChildOK, Alive
  <1>3. ASSUME NEW g \in Gens, wake(g) PROVE IInv'
    <2>1. PICK c \in Children : /\ Set(g, c) /\ c.model = child[g].model /\ c.mode = child[g].mode
                                /\ c.mgr = child[g].mgr /\ c.said = child[g].said /\ c.proc = child[g].proc
      <3>1. [child[g] EXCEPT !.stopper = "done"] \in Children
        BY <1>1 DEF Children
      <3>2. [child[g] EXCEPT !.asked = TRUE, !.stopper = "grace"] \in Children
        BY <1>1, ZenonT(60) DEF Children
      <3>3. CASE child[g].stopped
        BY <1>1, <1>3, <3>1, <3>3 DEF wake, Children
      <3>4. CASE ~child[g].stopped
        BY <1>1, <1>3, <3>2, <3>4 DEF wake, Children
      <3>5. QED
        BY <3>3, <3>4
    <2>2. child[g].mode # "none"
      BY <1>1, <1>3 DEF wake, ChildOK
    <2>3. child' \in [Gens -> Children] /\ ChildrenKept
      BY <1>2, <2>1, <2>2
    <2>4. QED
      BY <1>1, <1>3, <2>3, ProcessStep DEF wake
  <1>4. ASSUME NEW g \in Gens, grace(g) PROVE IInv'
    <2>1. \A d \in Children :
            LET c == [d EXCEPT !.stopper = "done"]
            IN  /\ c \in Children /\ c.model = d.model /\ c.mode = d.mode /\ c.mgr = d.mgr
                /\ c.said = d.said /\ c.proc = d.proc
      BY DEF Children
    <2>2. \A d \in Children :
            /\ terminate(d) \in Children /\ terminate(d).model = d.model /\ terminate(d).mode = d.mode
            /\ terminate(d).mgr = d.mgr /\ terminate(d).said = d.said /\ terminate(d).proc = "dead"
      BY ChildFact DEF Children, terminate
    <2>a. PICK d \in Children : /\ Set(g, [d EXCEPT !.stopper = "done"])
                                /\ d = child[g] \/ d = terminate(child[g])
      <3>1. CASE Stopping(g) /\ ~child[g].stopped
        BY <1>1, <1>4, <2>2, <3>1 DEF grace
      <3>2. CASE ~(Stopping(g) /\ ~child[g].stopped)
        BY <1>1, <1>4, <3>2 DEF grace
      <3>3. QED
        BY <3>1, <3>2
    <2>b. PICK c \in Children : /\ c = [d EXCEPT !.stopper = "done"] /\ c.model = d.model /\ c.mode = d.mode
                                /\ c.mgr = d.mgr /\ c.said = d.said /\ c.proc = d.proc
      BY <2>1
    <2>3. /\ Set(g, c) /\ c.model = child[g].model /\ c.mode = child[g].mode
          /\ c.mgr = child[g].mgr /\ c.said = child[g].said
          /\ c.proc \in {child[g].proc, "dead"}
      BY <1>1, <2>2, <2>a, <2>b
    <2>4. child[g].mode # "none"
      BY <1>1, <1>4 DEF grace, ChildOK
    <2>5. child' \in [Gens -> Children] /\ ChildrenKept
      BY <1>2, <2>3, <2>4
    <2>6. QED
      BY <1>1, <1>4, <2>5, ProcessStep DEF grace
  <1>5. ASSUME NEW g \in Gens, report(g) PROVE IInv'
    <2> DEFINE c == [child[g] EXCEPT !.proc = "ready", !.said = IF child[g].mode = "normal" THEN "ready" ELSE "result"]
    <2>1. /\ c \in Children /\ c.model = child[g].model /\ c.mode = child[g].mode /\ c.mgr = child[g].mgr
          /\ c.proc = "ready" /\ c.said = (IF child[g].mode = "normal" THEN "ready" ELSE "result")
      BY <1>1, ZenonT(90) DEF Children
    <2>2. child' = [child EXCEPT ![g] = c] /\ child[g].proc = "up" /\ child[g].mode # "none"
      BY <1>1, <1>5 DEF report, Set, ChildOK
    <2> HIDE DEF c
    <2>3. child' \in [Gens -> Children] /\ ChildrenKept
      BY <1>1, <2>1, <2>2 DEF ChildrenKept, ChildOK, Alive
    <2>4. disk' \in [Models -> Nat]
      <3>1. disk' = disk \/ disk' = [disk EXCEPT ![child[g].model] = 1]
        BY <1>5 DEF report
      <3>2. QED
        BY <1>1, <3>1
    <2>5. QED
      BY <1>1, <1>5, <2>3, <2>4, ProcessStep DEF report
  <1>6. ASSUME NEW g \in Gens, exit(g) PROVE IInv'
    <2>1. [child[g] EXCEPT !.proc = "dead"] \in Children /\ child[g].mode # "none"
      BY <1>1, <1>6 DEF Children, exit, Alive, ChildOK
    <2>2. child' \in [Gens -> Children] /\ ChildrenKept
      BY <1>1, <1>2, <1>6, <2>1 DEF exit, Children
    <2>3. QED
      BY <1>1, <1>6, <2>2, ProcessStep DEF exit
  <1>7. ASSUME NEW g \in Gens, crash(g) PROVE IInv'
    <2>1. /\ terminate(child[g]) \in Children /\ child[g].mode # "none"
          /\ terminate(child[g]).model = child[g].model /\ terminate(child[g]).mode = child[g].mode
          /\ terminate(child[g]).mgr = child[g].mgr /\ terminate(child[g]).said = child[g].said
          /\ terminate(child[g]).proc = "dead"
      <3>1. child[g] \in Children /\ child[g].mode # "none" /\ child[g].proc # "dead"
        BY <1>1, <1>7 DEF crash, Alive, ChildOK
      <3>2. terminate(child[g]) \in Children
        BY <3>1, ChildFact
      <3>3. terminate(child[g]) = [child[g] EXCEPT !.proc = "dead", !.bad = TRUE]
        BY <3>1 DEF terminate
      <3>4. QED
        BY <3>1, <3>2, <3>3 DEF Children
    <2>2. child' \in [Gens -> Children] /\ ChildrenKept
      BY <1>2, <1>7, <2>1 DEF crash
    <2>3. crashes' \in Nat
      BY <1>1, <1>7 DEF crash
    <2>4. QED
      BY <1>1, <1>7, <2>2, <2>3, ProcessStep DEF crash
  <1>8. ASSUME NEW m \in Editable, edit(m) PROVE IInv'
    <2>1. disk' \in [Models -> Nat] /\ edits' \in Nat
      <3>1. PICK v \in {0, edits + 2} : disk' = [disk EXCEPT ![m] = v]
        BY <1>8 DEF edit
      <3>2. edits' = edits + 1 /\ v \in Nat
        BY <1>1, <1>8, <3>1 DEF edit
      <3>3. disk' \in [Models -> Nat]
        BY <1>1, <3>1, <3>2
      <3>4. QED
        BY <1>1, <3>2, <3>3
    <2>2. child' \in [Gens -> Children] /\ ChildrenKept
      BY <1>1, <1>8, KeptFact DEF edit
    <2>3. QED
      BY <1>1, <1>8, <2>1, <2>2, ProcessStep DEF edit
  <1>9. ASSUME unload_all PROVE IInv'
    <2>1. stopping' \subseteq Models
      BY <1>1, <1>9 DEF unload_all, Active
    <2>2. \A g \in Gens : [child[g] EXCEPT !.stopped = TRUE] \in Children
      BY <1>1, ZenonT(90) DEF Children
    <2>3. \A g \in Gens : child'[g] = child[g] \/ child'[g] = [child[g] EXCEPT !.stopped = TRUE]
      BY <1>1, <1>9 DEF unload_all
    <2>4. child' \in [Gens -> Children]
      BY <1>1, <1>9, <2>2 DEF unload_all
    <2>a. \A d \in Children :
            LET c == [d EXCEPT !.stopped = TRUE]
            IN  /\ c.model = d.model /\ c.mode = d.mode /\ c.mgr = d.mgr /\ c.said = d.said
                /\ c.proc = d.proc /\ c.stopper = d.stopper
      BY DEF Children
    <2>5. \A g \in Gens : /\ child'[g].model = child[g].model /\ child'[g].mode = child[g].mode
                          /\ child'[g].mgr = child[g].mgr /\ child'[g].said = child[g].said
                          /\ child'[g].proc = child[g].proc /\ child'[g].stopper = child[g].stopper
      BY <1>1, <2>3, <2>a, ZenonT(60)
    <2>6. ChildrenKept
      BY <1>1, <2>5 DEF ChildrenKept, ChildOK, Alive
    <2>7. QED
      BY <1>1, <1>9, <2>1, <2>4, <2>6, ProcessStep DEF unload_all
  <1>10. ASSUME joined_all PROVE IInv'
    <2>1. child' \in [Gens -> Children] /\ ChildrenKept
      BY <1>1, <1>10, KeptFact DEF joined_all
    <2>2. QED
      BY <1>1, <1>10, <2>1, ProcessStep DEF joined_all
  <1>11. QED
    BY <1>3, <1>4, <1>5, <1>6, <1>7, <1>8, <1>9, <1>10 DEF Stop

\* Steps of the thread that watches process g, which change its entry if they
\* change any.
LEMMA ManageStep ==
  ASSUME IInv, NEW g \in Gens, NEW c \in Children, Set(g, c),
         c.model = child[g].model, c.mode = child[g].mode, c.said = "none",
         c.proc = child[g].proc, c.stopper = child[g].stopper, child[g].mode # "none",
         \/ c.mgr = "clear" /\ child[g].mgr = "log" /\ c.proc = "dead" /\ child[g].said = "none"
         \/ c.mgr = "join" /\ child[g].mgr = "clear" /\ Free,
         mapping' = mapping, stopping' \subseteq Models, needReload' \in BOOLEAN,
         UNCHANGED <<reloading, holder, me, disk, crashes, edits>>
  PROVE  IInv'
  <1>1. /\ TypeOK /\ mapping \in [Models -> Entries] /\ child \in [Gens -> Children] /\ ChildOK
    BY DEF IInv, TypeOK
  <1>2. child' \in [Gens -> Children] /\ child'[g] = c /\ \A f \in Gens : f # g => child'[f] = child[f]
    BY <1>1 DEF Set
  <1>3. TypeOK'
    BY <1>1, <1>2 DEF TypeOK
  <1>4. ChildOK'
    BY <1>1, <1>2 DEF ChildOK, Alive
  <1>5. Downloads' = Downloads /\ \A f \in Gens : Replacing(f)' = Replacing(f)
    BY DEF Downloads, Replacing, At, Op
  <1>6. EntryOK'
    <2>1. \A m \in Models : mapping[m].inst # 0 => mapping[m].inst \in Gens
      BY <1>1, RouterAssumption DEF Entries, Gens
    <2>2. \A f \in Gens : /\ child'[f].model = child[f].model /\ child'[f].mode = child[f].mode
                          /\ child[f].mgr # "done" => child'[f].mgr # "done"
      BY <1>2
    <2> SUFFICES ASSUME NEW m \in Models
                 PROVE  /\ mapping[m].inst # 0 =>
                             child'[mapping[m].inst].model = m /\ child'[mapping[m].inst].mode # "none"
                        /\ Running(m) =>
                             /\ mapping[m].th /\ mapping[m].inst # 0
                             /\ child'[mapping[m].inst].mode = "normal" /\ child'[mapping[m].inst].mgr # "done"
                        /\ mapping[m].status = "DOWNLOADING" =>
                             /\ mapping[m].th /\ mapping[m].inst # 0 /\ Downloads
                             /\ child'[mapping[m].inst].mode = "download"
      BY <1>5 DEF EntryOK, Running
    <2>3. QED
      BY <2>1, <2>2 DEF IInv, EntryOK
  <1>7. NormalIsShown'
    BY <1>2, <1>5 DEF IInv, NormalIsShown, Running
  <1>8. DownloadIsShown'
    BY <1>2, <1>5 DEF IInv, DownloadIsShown
  <1>9. HolderOK'
    <2>1. \A f \in Gens : /\ child'[f].model = child[f].model /\ child'[f].mode = child[f].mode
                          /\ ~Free /\ child[f].mgr \in {"log", "clear"} => child'[f].mgr \in {"log", "clear"}
      BY <1>2
    <2>2. \A h \in Handlers : At(h, "replace") => ~Free
      BY RouterAssumption DEF IInv, HolderOK, Free, At
    <2>3. Active' = Active
      BY DEF Active, Running
    <2>4. ASSUME NEW h \in Handlers, At(h, "replace")
          PROVE  /\ ~reloading
                 /\ me[h].inst \in Gens /\ child'[me[h].inst].model = Target(h)
                 /\ child'[me[h].inst].mode = IF Op(h) = "download" THEN "download" ELSE "normal"
                 /\ child'[me[h].inst].mgr \in {"log", "clear"}
                 /\ \A m \in Models : mapping[m].inst # me[h].inst
                 /\ Op(h) # "download" => mapping[Target(h)].status = "UNLOADED"
                 /\ ModelsMax > 0 => Cardinality(Active) < ModelsMax
      <3>1. /\ ~reloading
            /\ me[h].inst \in Gens /\ child[me[h].inst].model = Target(h)
            /\ child[me[h].inst].mode = IF Op(h) = "download" THEN "download" ELSE "normal"
            /\ child[me[h].inst].mgr \in {"log", "clear"}
            /\ \A m \in Models : mapping[m].inst # me[h].inst
            /\ Op(h) # "download" => mapping[Target(h)].status = "UNLOADED"
            /\ ModelsMax > 0 => Cardinality(Active) < ModelsMax
        BY <2>4 DEF IInv, HolderOK
      <3>2. QED
        BY <2>1, <2>2, <2>4, <3>1
    <2>5. QED
      BY <2>3, <2>4 DEF IInv, HolderOK, At, Op, Running, Target
  <1>10. ReloadOK'
    BY <1>5 DEF IInv, ReloadOK
  <1>11. QED
    BY <1>3, <1>4, <1>6, <1>7, <1>8, <1>9, <1>10 DEF IInv

\* Steps that change the entry of process g, under the mutex.
LEMMA ReportStep ==
  ASSUME IInv, Free, NEW g \in Gens, NEW c \in Children, Set(g, c),
         NEW e \in Entries, mapping' = [mapping EXCEPT ![child[g].model] = e],
         mapping[child[g].model].inst = g, e.inst = g, e.th = mapping[child[g].model].th,
         c.model = child[g].model, c.mode = child[g].mode, c.stopper = child[g].stopper,
         c.proc = child[g].proc, child[g].mode # "none",
         \/ /\ c.mode = "normal" /\ c.mgr = "log" /\ child[g].mgr = "log" /\ c.said = "none" /\ e.status = "LOADED"
         \/ /\ c.mode = "download" /\ c.mgr = "log" /\ child[g].mgr = "log" /\ c.said = "release"
            /\ c.proc # "up" /\ e.status = "DOWNLOADED"
         \/ /\ c.mode = "normal" /\ c.mgr = "done" /\ child[g].mgr = "join" /\ c.said = "none"
            /\ e.status = "UNLOADED",
         c.mode = "normal" => Running(child[g].model),
         needReload' \in BOOLEAN,
         UNCHANGED <<stopping, reloading, holder, me, disk, crashes, edits>>
  PROVE  IInv'
  <1> DEFINE n == child[g].model
  <1>1. /\ TypeOK /\ mapping \in [Models -> Entries] /\ child \in [Gens -> Children] /\ ChildOK
        /\ n \in Models /\ me \in [Handlers -> Threads]
    BY DEF IInv, TypeOK, Children
  <1>2. child' \in [Gens -> Children] /\ child'[g] = c /\ \A f \in Gens : f # g => child'[f] = child[f]
    BY <1>1 DEF Set
  <1>3. mapping' \in [Models -> Entries] /\ mapping'[n] = e /\ \A m \in Models : m # n => mapping'[m] = mapping[m]
    BY <1>1
  <1>4. TypeOK'
    BY <1>1, <1>2, <1>3 DEF TypeOK
  <1>5. ChildOK'
    BY <1>1, <1>2 DEF ChildOK, Alive
  <1>6. /\ Downloads' = Downloads /\ \A f \in Gens : ~Replacing(f)
        /\ \A h \in Handlers : me[h].pc \notin {"replace", "remove_join"}
    BY ChildOfEntry DEF Downloads, Replacing, At, Op
  <1>7. ASSUME NEW m \in Models, m # n
        PROVE  /\ mapping[m].inst # 0 => /\ mapping[m].inst \in Gens
                                        /\ child'[mapping[m].inst] = child[mapping[m].inst]
               /\ mapping'[m] = mapping[m]
    BY <1>1, <1>2, <1>3, <1>7, RouterAssumption DEF IInv, EntryOK, Entries, Gens
  <1>8. EntryOK'
    <2>1. g # 0
      BY RouterAssumption DEF Gens
    <2>2. ASSUME NEW m \in Models, m # n
          PROVE  /\ mapping'[m].inst # 0 =>
                      child'[mapping'[m].inst].model = m /\ child'[mapping'[m].inst].mode # "none"
                 /\ mapping'[m].status \in RunningStatus =>
                      /\ mapping'[m].th /\ mapping'[m].inst # 0
                      /\ child'[mapping'[m].inst].mode = "normal" /\ child'[mapping'[m].inst].mgr # "done"
                 /\ mapping'[m].status = "DOWNLOADING" =>
                      /\ mapping'[m].th /\ mapping'[m].inst # 0 /\ Downloads
                      /\ child'[mapping'[m].inst].mode = "download"
      BY <1>7, <2>2 DEF IInv, EntryOK, Running
    <2>3. /\ e.inst = g /\ c.model = n /\ c.mode # "none"
          /\ e.status \in RunningStatus => e.th /\ c.mode = "normal" /\ c.mgr # "done"
          /\ e.status # "DOWNLOADING"
      BY <1>1 DEF IInv, EntryOK, RunningStatus
    <2>4. QED
      BY <1>2, <1>3, <1>6, <2>1, <2>2, <2>3 DEF EntryOK, Running
  <1>9. NormalIsShown'
    <2> SUFFICES ASSUME NEW f \in Gens, child'[f].mode = "normal", child'[f].mgr # "done"
                 PROVE  mapping'[child'[f].model].status \in RunningStatus /\ mapping'[child'[f].model].inst = f
      BY DEF NormalIsShown, Running
    <2>1. CASE f = g
      BY <1>2, <1>3, <2>1 DEF RunningStatus
    <2>2. CASE f # g
      <3>1. Running(child[f].model) /\ mapping[child[f].model].inst = f /\ child'[f] = child[f]
        BY <1>2, <1>6, <2>2 DEF IInv, NormalIsShown
      <3>2. child[f].model # n /\ child[f].model \in Models
        BY <1>1, <2>2, <3>1 DEF Children
      <3>3. QED
        BY <1>3, <3>1, <3>2 DEF Running
    <2>3. QED
      BY <2>1, <2>2
  <1>10. DownloadIsShown'
    <2> SUFFICES ASSUME NEW f \in Gens, child'[f].mode = "download", child'[f].mgr = "log",
                        child'[f].proc = "up" \/ child'[f].said = "result"
                 PROVE  mapping'[child'[f].model].status = "DOWNLOADING" /\ mapping'[child'[f].model].inst = f
      BY DEF DownloadIsShown
    <2>1. f # g
      BY <1>2
    <2>2. mapping[child[f].model].status = "DOWNLOADING" /\ mapping[child[f].model].inst = f /\ child'[f] = child[f]
      BY <1>2, <1>6, <2>1 DEF IInv, DownloadIsShown
    <2>3. child[f].model # n /\ child[f].model \in Models
      BY <1>1, <2>1, <2>2 DEF Children
    <2>4. QED
      BY <1>3, <2>2, <2>3
  <1>11. HolderOK'
    BY <1>6 DEF HolderOK, At
  <1>12. ReloadOK'
    BY <1>1, <1>3, <1>6 DEF IInv, TypeOK, ReloadOK, Threads
  <1>13. QED
    BY <1>4, <1>5, <1>8, <1>9, <1>10, <1>11, <1>12 DEF IInv

\* What the threads of process g do to the entries: at most, they write what
\* the process said, or that it ended, into the entry that shows it.
Reported(g) ==
    \/ mapping' = mapping
    \/ \E e \in Entries :
         /\ mapping' = [mapping EXCEPT ![child[g].model] = e]
         /\ mapping[child[g].model].inst = g /\ e.inst = g
         /\ \/ e.status = "LOADED" /\ child[g].said = "ready" /\ Running(child[g].model)
            \/ e.status = "DOWNLOADED" /\ child[g].said = "result"
            \/ e.status = "UNLOADED" /\ child[g].proc = "dead" /\ child'[g].mgr = "done"

\* The thread that manages a child keeps the invariant and reports on its own instance only.
LEMMA ManageFact ==
  ASSUME IInv, NEW g \in Gens, Manage(g)
  PROVE  IInv' /\ Reported(g)
  <1>1. /\ TypeOK /\ mapping \in [Models -> Entries] /\ child \in [Gens -> Children] /\ ChildOK
        /\ child[g] \in Children /\ child[g].model \in Models
        /\ stopping \subseteq Models /\ needReload \in BOOLEAN
    BY DEF IInv, TypeOK, Children
  <1>2. \A e \in Entries : [e EXCEPT !.status = "LOADED", !.failed = FALSE] \in Entries
    BY DEF Entries
  <1>3. ASSUME eof(g) PROVE IInv' /\ Reported(g)
    <2> DEFINE c == [child[g] EXCEPT !.stopped = TRUE, !.mgr = "clear"]
    <2>1. /\ c \in Children /\ c.model = child[g].model /\ c.mode = child[g].mode /\ c.mgr = "clear"
          /\ c.proc = child[g].proc /\ c.said = child[g].said /\ c.stopper = child[g].stopper
      BY <1>1 DEF Children
    <2>2. Set(g, c) /\ child[g].mode # "none" /\ child[g].mgr = "log" /\ child[g].proc = "dead" /\ child[g].said = "none"
      BY <1>1, <1>3 DEF eof, ChildOK
    <2> HIDE DEF c
    <2>3. QED
      BY <1>1, <1>3, <2>1, <2>2, ManageStep DEF eof, Reported
  <1>4. ASSUME clear(g) PROVE IInv' /\ Reported(g)
    <2> DEFINE c == [child[g] EXCEPT !.mgr = "join"]
    <2>1. /\ c \in Children /\ c.model = child[g].model /\ c.mode = child[g].mode /\ c.mgr = "join"
          /\ c.proc = child[g].proc /\ c.said = child[g].said /\ c.stopper = child[g].stopper
      BY <1>1 DEF Children
    <2>2. Set(g, c) /\ child[g].mode # "none" /\ child[g].mgr = "clear" /\ child[g].said = "none"
      BY <1>1, <1>4 DEF clear, ChildOK
    <2> HIDE DEF c
    <2>3. QED
      BY <1>1, <1>4, <2>1, <2>2, ManageStep DEF clear, Reported
  <1>5. ASSUME reap(g) PROVE IInv' /\ Reported(g)
    <2> DEFINE c == [child[g] EXCEPT !.mgr = "done"]
    <2>1. /\ c \in Children /\ c.model = child[g].model /\ c.mode = child[g].mode /\ c.mgr = "done"
          /\ c.proc = child[g].proc /\ c.said = child[g].said /\ c.stopper = child[g].stopper
      BY <1>1 DEF Children
    <2>2. Set(g, c) /\ child[g].mode # "none" /\ child[g].mgr = "join" /\ child[g].said = "none" /\ c.said = "none"
          /\ child[g].proc = "dead"
      BY <1>1, <1>5, <2>1 DEF reap, ChildOK
    <2> HIDE DEF c
    <2>3. CASE child[g].mode = "download" /\ UNCHANGED mapping
      <3>1. child' \in [Gens -> Children] /\ child'[g] = c /\ \A f \in Gens : f # g => child'[f] = child[f]
        BY <1>1, <2>1, <2>2 DEF Set
      <3>2. TypeOK' /\ ChildOK'
        BY <1>1, <1>5, <2>1, <2>2, <2>3, <3>1 DEF TypeOK, ChildOK, Alive, reap
      <3>3. Downloads' = Downloads /\ \A f \in Gens : Replacing(f)' = Replacing(f)
        BY <1>5 DEF Downloads, Replacing, At, Op, reap
      <3>4. \A f \in Gens : /\ child'[f].model = child[f].model /\ child'[f].mode = child[f].mode
                            /\ (child[f].mode = "normal" \/ child[f].mgr # "join") => child'[f].mgr = child[f].mgr
        BY <2>1, <2>2, <2>3, <3>1
      <3>5. \A m \in Models : mapping'[m] = mapping[m] /\ (mapping[m].inst # 0 => mapping[m].inst \in Gens)
        BY <1>1, <2>3, RouterAssumption DEF Entries, Gens
      <3>6. EntryOK'
        <4> SUFFICES ASSUME NEW m \in Models
                     PROVE  /\ mapping[m].inst # 0 =>
                                 child'[mapping[m].inst].model = m /\ child'[mapping[m].inst].mode # "none"
                            /\ Running(m) =>
                                 /\ mapping[m].th /\ mapping[m].inst # 0
                                 /\ child'[mapping[m].inst].mode = "normal" /\ child'[mapping[m].inst].mgr # "done"
                            /\ mapping[m].status = "DOWNLOADING" =>
                                 /\ mapping[m].th /\ mapping[m].inst # 0 /\ Downloads
                                 /\ child'[mapping[m].inst].mode = "download"
          BY <3>3, <3>5 DEF EntryOK, Running
        <4>1. QED
          BY <3>4, <3>5 DEF IInv, EntryOK
      <3>7. NormalIsShown'
        BY <2>3, <3>3, <3>4 DEF IInv, NormalIsShown, Running
      <3>8. DownloadIsShown'
        BY <2>1, <2>2, <2>3, <3>1, <3>3 DEF IInv, DownloadIsShown
      <3>9. HolderOK'
        <4>1. Active' = Active /\ me' = me /\ mapping' = mapping /\ holder' = holder /\ reloading' = reloading
          BY <1>5, <2>3 DEF Active, Running, reap
        <4>2. ASSUME NEW h \in Handlers, At(h, "replace")
              PROVE  /\ ~reloading
                     /\ me[h].inst \in Gens /\ child'[me[h].inst].model = Target(h)
                     /\ child'[me[h].inst].mode = IF Op(h) = "download" THEN "download" ELSE "normal"
                     /\ child'[me[h].inst].mgr \in {"log", "clear"}
                     /\ \A m \in Models : mapping[m].inst # me[h].inst
                     /\ Op(h) # "download" => mapping[Target(h)].status = "UNLOADED"
                     /\ ModelsMax > 0 => Cardinality(Active) < ModelsMax
          <5>1. /\ ~reloading
                /\ me[h].inst \in Gens /\ child[me[h].inst].model = Target(h)
                /\ child[me[h].inst].mode = IF Op(h) = "download" THEN "download" ELSE "normal"
                /\ child[me[h].inst].mgr \in {"log", "clear"}
                /\ \A m \in Models : mapping[m].inst # me[h].inst
                /\ Op(h) # "download" => mapping[Target(h)].status = "UNLOADED"
                /\ ModelsMax > 0 => Cardinality(Active) < ModelsMax
            BY <4>2 DEF IInv, HolderOK
          <5>2. QED
            BY <3>4, <5>1
        <4>3. QED
          BY <4>1, <4>2 DEF IInv, HolderOK, At, Op, Running, Target
      <3>10. ReloadOK'
        BY <1>5, <2>3, <3>3 DEF IInv, ReloadOK, reap
      <3>11. QED
        BY <2>3, <3>2, <3>6, <3>7, <3>8, <3>9, <3>10 DEF IInv, Reported
    <2>4. CASE /\ child[g].mode = "normal" /\ Free
               /\ mapping' = [mapping EXCEPT ![child[g].model] =
                    IF @ = Absent THEN @ ELSE [@ EXCEPT !.status = "UNLOADED", !.failed = child[g].bad]]
      <3>1. Running(child[g].model) /\ mapping[child[g].model].inst = g
        BY <2>2, <2>4, ChildOfEntry
      <3>2. mapping[child[g].model] # Absent
        BY <3>1, UnloadedFact DEF Running, RunningStatus
      <3>a. child[g].bad \in BOOLEAN /\ mapping[child[g].model] \in Entries
        BY <1>1 DEF Children
      <3>b. \A x \in Entries, b \in BOOLEAN :
              LET e == [x EXCEPT !.status = "UNLOADED", !.failed = b]
              IN  e \in Entries /\ e.status = "UNLOADED" /\ e.inst = x.inst /\ e.th = x.th
        BY DEF Entries
      <3>3. PICK e \in Entries : /\ e = [mapping[child[g].model] EXCEPT !.status = "UNLOADED", !.failed = child[g].bad]
                                 /\ e.status = "UNLOADED" /\ e.inst = mapping[child[g].model].inst
                                 /\ e.th = mapping[child[g].model].th
        BY <3>a, <3>b
      <3>4. mapping' = [mapping EXCEPT ![child[g].model] = e]
        BY <1>1, <2>4, <3>2, <3>3
      <3>5. needReload' \in BOOLEAN /\ UNCHANGED <<stopping, reloading, holder, me, disk, crashes, edits>>
        BY <1>1, <1>5 DEF reap
      <3>6. e.inst = g /\ e.th = mapping[child[g].model].th /\ e.status = "UNLOADED" /\ Free
            /\ child[g].mode = "normal"
        BY <2>4, <3>1, <3>3
      <3>7. child'[g] = c
        BY <1>1, <2>2 DEF Set
      <3>8. Reported(g)
        BY <2>1, <2>2, <3>1, <3>4, <3>6, <3>7 DEF Reported
      <3>9. QED
        BY <2>1, <2>2, <3>1, <3>4, <3>5, <3>6, <3>8, ReportStep
    <2>5. QED
      BY <1>5, <2>3, <2>4 DEF reap
  <1>6. ASSUME handle_child_state(g), child[g].said = "ready" PROVE IInv' /\ Reported(g)
    <2> DEFINE c == [child[g] EXCEPT !.said = "none"]
               n == child[g].model
    <2>1. /\ c \in Children /\ c.model = n /\ c.mode = child[g].mode /\ c.mgr = child[g].mgr
          /\ c.proc = child[g].proc /\ c.said = "none" /\ c.stopper = child[g].stopper
      BY <1>1 DEF Children
    <2>2. /\ Set(g, c) /\ child[g].mode = "normal" /\ child[g].mgr = "log" /\ Free
          /\ mapping' = [mapping EXCEPT ![n] =
                IF @ = Absent THEN @ ELSE [@ EXCEPT !.status = "LOADED", !.failed = FALSE]]
          /\ UNCHANGED <<needReload, stopping, reloading, holder, me, disk, down, crashes, edits>>
      BY <1>1, <1>6 DEF handle_child_state, ChildOK
    <2> HIDE DEF c
    <2>3. Running(n) /\ mapping[n].inst = g
      BY <2>2, ChildOfEntry
    <2>4. mapping[n] # Absent
      BY <2>3, UnloadedFact DEF Running, RunningStatus
    <2>a. \A x \in Entries :
            LET e == [x EXCEPT !.status = "LOADED", !.failed = FALSE]
            IN  e \in Entries /\ e.status = "LOADED" /\ e.inst = x.inst /\ e.th = x.th
      BY DEF Entries
    <2>5. PICK e \in Entries : /\ e = [mapping[n] EXCEPT !.status = "LOADED", !.failed = FALSE]
                               /\ e.status = "LOADED" /\ e.inst = mapping[n].inst /\ e.th = mapping[n].th
      BY <1>1, <2>a
    <2>6. mapping' = [mapping EXCEPT ![n] = e]
      BY <1>1, <2>2, <2>4, <2>5
    <2>7. /\ Set(g, c) /\ child[g].mode = "normal" /\ child[g].mgr = "log" /\ Free /\ needReload' \in BOOLEAN
          /\ UNCHANGED <<stopping, reloading, holder, me, disk, crashes, edits>>
          /\ e.status = "LOADED" /\ e.inst = g /\ e.th = mapping[n].th
      BY <1>1, <2>2, <2>3, <2>5
    <2>8. Reported(g)
      BY <1>6, <2>3, <2>6, <2>7 DEF Reported
    <2>9. QED
      BY <2>1, <2>3, <2>6, <2>7, <2>8, ReportStep
  <1>7. ASSUME handle_child_state(g), child[g].said = "result" PROVE IInv' /\ Reported(g)
    <2> DEFINE c == [child[g] EXCEPT !.said = "release"]
               n == child[g].model
    <2>1. /\ c \in Children /\ c.model = n /\ c.mode = child[g].mode /\ c.mgr = child[g].mgr
          /\ c.proc = child[g].proc /\ c.said = "release" /\ c.stopper = child[g].stopper
      BY <1>1 DEF Children
    <2>2. /\ Set(g, c) /\ child[g].mode = "download" /\ child[g].mgr = "log" /\ Free
          /\ mapping' = [mapping EXCEPT ![n] = IF @ = Absent THEN @ ELSE [@ EXCEPT !.status = "DOWNLOADED"]]
          /\ needReload' \in BOOLEAN
          /\ UNCHANGED <<stopping, reloading, holder, me, disk, down, crashes, edits>>
      BY <1>1, <1>7 DEF handle_child_state, ChildOK
    <2> HIDE DEF c
    <2>3. mapping[n].status = "DOWNLOADING" /\ mapping[n].inst = g
      BY <1>7, <2>2, ChildOfEntry
    <2>4. mapping[n] # Absent /\ child[g].proc # "up"
      BY <1>1, <1>7, <2>3, UnloadedFact DEF ChildOK
    <2>a. \A x \in Entries :
            LET e == [x EXCEPT !.status = "DOWNLOADED"]
            IN  e \in Entries /\ e.status = "DOWNLOADED" /\ e.inst = x.inst /\ e.th = x.th
      BY DEF Entries
    <2>5. PICK e \in Entries : /\ e = [mapping[n] EXCEPT !.status = "DOWNLOADED"]
                               /\ e.status = "DOWNLOADED" /\ e.inst = mapping[n].inst /\ e.th = mapping[n].th
      BY <1>1, <2>a
    <2>6. mapping' = [mapping EXCEPT ![n] = e]
      BY <1>1, <2>2, <2>4, <2>5
    <2>7. /\ Set(g, c) /\ child[g].mode = "download" /\ child[g].mgr = "log" /\ Free /\ needReload' \in BOOLEAN
          /\ UNCHANGED <<stopping, reloading, holder, me, disk, crashes, edits>>
          /\ e.status = "DOWNLOADED" /\ e.inst = g /\ e.th = mapping[n].th
      BY <1>1, <2>2, <2>3, <2>5
    <2>8. Reported(g)
      BY <1>7, <2>3, <2>6, <2>7 DEF Reported
    <2>9. QED
      BY <2>1, <2>3, <2>4, <2>6, <2>7, <2>8, ReportStep
  <1>8. ASSUME handle_child_state(g), child[g].said = "release" PROVE IInv' /\ Reported(g)
    <2> DEFINE d == [child EXCEPT ![g].said = "none"]
               f == mapping[child[g].model].inst
    <2>1. /\ UNCHANGED <<mapping, needReload, stopping, reloading, holder, me, disk, down, crashes, edits>>
          /\ child' = d \/ child' = [d EXCEPT ![f] = request_exit(d[f])]
      BY <1>8 DEF handle_child_state
    <2>2. [child[g] EXCEPT !.said = "none"] \in Children /\ d = [child EXCEPT ![g] = [child[g] EXCEPT !.said = "none"]]
      BY <1>1 DEF Children
    <2>3. d \in [Gens -> Children] /\ \A x \in Gens : /\ d[x].model = child[x].model /\ d[x].mode = child[x].mode
                                                      /\ d[x].mgr = child[x].mgr /\ d[x].proc = child[x].proc
                                                      /\ d[x].stopper = child[x].stopper
                                                      /\ d[x].said \in {"none", child[x].said}
      BY <1>1, <2>2 DEF Children
    <2> HIDE DEF d
    <2>4. \A x \in Children : /\ request_exit(x) \in Children
                              /\ request_exit(x).model = x.model /\ request_exit(x).mode = x.mode
                              /\ request_exit(x).mgr = x.mgr /\ request_exit(x).proc = x.proc
                              /\ request_exit(x).stopper = x.stopper /\ request_exit(x).said = x.said
      BY ChildFact DEF Children, request_exit
    <2>5. child' \in [Gens -> Children] /\ \A x \in Gens : child'[x] = d[x] \/ child'[x] = request_exit(d[x])
      BY <2>1, <2>3, <2>4
    <2>6. \A x \in Gens : /\ child'[x].model = child[x].model /\ child'[x].mode = child[x].mode
                          /\ child'[x].mgr = child[x].mgr /\ child'[x].proc = child[x].proc
                          /\ child'[x].stopper = child[x].stopper
                          /\ child'[x].said \in {"none", child[x].said}
      BY <2>3, <2>4, <2>5
    <2>7. ChildrenKept
      BY <1>1, <2>6 DEF ChildrenKept, ChildOK, Alive
    <2>8. QED
      BY <1>1, <2>1, <2>5, <2>7, ProcessStep DEF TypeOK, Reported
  <1>9. QED
    BY <1>3, <1>4, <1>5, <1>6, <1>7, <1>8 DEF Manage, handle_child_state

-----------------------------------------------------------------------------
(* The invariant.                                                           *)

\* At first the models of Autoload are loading, each with a process of its own.
LEMMA InitFact == Init => IInv
  <1> SUFFICES ASSUME Init PROVE IInv
    OBVIOUS
  <1>1. PICK gen \in [Startup -> 1..Cardinality(Startup)] :
          /\ \A m, n \in Startup : gen[m] = gen[n] => m = n
          /\ mapping = [m \in Models |->
               CASE m \in Startup -> [Unloaded(disk[m]) EXCEPT !.status = "LOADING", !.inst = gen[m], !.th = TRUE]
                 [] disk[m] = 0    -> Absent
                 [] OTHER          -> Unloaded(disk[m])]
          /\ child = [g \in Gens |-> IF \E m \in Startup : gen[m] = g
                                     THEN NewChild(CHOOSE m \in Startup : gen[m] = g, "normal") ELSE NoChild]
    BY DEF Init
  <1>2. TypeOK
    BY TypeInit
  <1>3. \A m \in Startup : m \in Models /\ gen[m] \in Gens /\ gen[m] # 0
    <2>1. Cardinality(Startup) \in Nat
      BY StartupFact
    <2>2. QED
      BY <2>1, StartupFact, RouterAssumption DEF Gens
  <1>4. ASSUME NEW m \in Models
        PROVE  /\ m \in Startup => mapping[m].status = "LOADING" /\ mapping[m].inst = gen[m] /\ mapping[m].th
               /\ m \notin Startup => mapping[m].status \in {"ABSENT", "UNLOADED"} /\ mapping[m].inst = 0
    <2>1. CASE m \in Startup
      <3>1. mapping[m] = CASE m \in Startup -> [Unloaded(disk[m]) EXCEPT !.status = "LOADING", !.inst = gen[m], !.th = TRUE]
                           [] disk[m] = 0    -> Absent
                           [] OTHER          -> Unloaded(disk[m])
        BY <1>1
      <3>2. mapping[m] = [Unloaded(disk[m]) EXCEPT !.status = "LOADING", !.inst = gen[m], !.th = TRUE]
        <4>1. \A n \in Startup : disk[n] = 1
          BY DEF Startup
        <4>2. ~(disk[m] = 0)
          BY <2>1, <4>1
        <4>3. QED
          BY <2>1, <3>1, <4>2, Zenon
      <3>3. \A v, i : LET e == [Unloaded(v) EXCEPT !.status = "LOADING", !.inst = i, !.th = TRUE]
                     IN  e.status = "LOADING" /\ e.inst = i /\ e.th
        BY DEF Unloaded
      <3>4. mapping[m].status = "LOADING" /\ mapping[m].inst = gen[m] /\ mapping[m].th
        BY <3>2, <3>3, SMTT(90)
      <3>5. QED
        BY <2>1, <3>4
    <2>2. CASE m \notin Startup
      BY <1>1, <2>2, UnloadedFact
    <2>3. QED
      BY <2>1, <2>2
  <1>5. \A m \in Models : /\ NewChild(m, "normal").model = m /\ NewChild(m, "normal").mode = "normal"
                          /\ NewChild(m, "normal").proc = "up" /\ NewChild(m, "normal").mgr = "log"
                          /\ NewChild(m, "normal").said = "none"
    BY DEF NewChild, NoChild
  <1>6. /\ NoChild.mode = "none" /\ NoChild.mgr = "done" /\ NoChild.proc = "none"
        /\ NoChild.said = "none" /\ NoChild.stopper = "done"
    BY DEF NoChild
  <1>7. ASSUME NEW g \in Gens
        PROVE  \/ child[g] = NoChild
               \/ \E m \in Startup : gen[m] = g /\ child[g] = NewChild(m, "normal")
    BY <1>1
  <1>8. \A m \in Startup : child[gen[m]] = NewChild(m, "normal")
    BY <1>1, <1>3
  <1>9. ChildOK
    BY <1>3, <1>5, <1>6, <1>7 DEF ChildOK, Alive
  <1>10. EntryOK
    BY <1>3, <1>4, <1>5, <1>8 DEF EntryOK, Running, RunningStatus
  <1>11. NormalIsShown
    BY <1>3, <1>4, <1>5, <1>6, <1>7 DEF NormalIsShown, Running, RunningStatus
  <1>12. DownloadIsShown
    BY <1>3, <1>5, <1>6, <1>7 DEF DownloadIsShown
  <1>13. \A h \in Handlers : me[h].pc \notin {"replace", "remove_join", "drop", "drop_wait"}
    <2> SUFFICES ASSUME NEW h \in Handlers
                 PROVE  me[h].pc \notin {"replace", "remove_join", "drop", "drop_wait"}
      OBVIOUS
    <2>a. me \in [Handlers -> {Start(r) : r \in Requests}]
      BY DEF Init
    <2>1. PICK r \in Requests : me[h] = Start(r)
      BY <2>a
    <2>2. me[h].pc = IF r.op = "reload" THEN "scan" ELSE r.op
      BY <2>1 DEF Start, Locals
    <2>3. QED
      BY <2>2, RouterAssumption
  <1>14. HolderOK /\ ReloadOK
    BY <1>13 DEF HolderOK, ReloadOK, At
  <1>15. QED
    BY <1>2, <1>9, <1>10, <1>11, <1>12, <1>14 DEF IInv

\* Every step of a handler keeps the invariant and, but for replace, the entries.
LEMMA HandleFact ==
  ASSUME IInv, OneReload, NEW h \in Handlers, Handle(h)
  PROVE  IInv' /\ OpsKept /\ (EntriesKept \/ replace(h))
  <1>1. ASSUME Local(h) PROVE IInv' /\ OpsKept /\ EntriesKept
    <2>1. mapping' = mapping
      BY <1>1 DEF Local, refresh, lookup, get_all_meta, unload_route, unload_wait, count, evict, ready, proxy,
                  download, remove, remove_wait, scan, drop, join
    <2>2. QED
      BY <1>1, <2>1, LocalFact DEF EntriesKept, Shows, Running
  <1>2. \/ Local(h) \/ spawn(h) \/ replace(h)
        \/ evicted(h) \/ touch(h) \/ remove_join(h) \/ diff(h) \/ settle(h) \/ commit(h)
    BY DEF Handle, Local
  <1>3. QED
    BY <1>1, <1>2, EntryStep, SpawnFact, ReplaceStep

\* While reloads do not overlap, every step keeps the invariant.
LEMMA StepFact == IInv /\ OneReload /\ [Next]_vars => IInv'
  <1> SUFFICES ASSUME IInv, OneReload, [Next]_vars PROVE IInv'
    OBVIOUS
  <1>1. ASSUME NEW h \in Handlers, Handle(h) PROVE IInv'
    BY <1>1, HandleFact
  <1>2. ASSUME NEW g \in Gens, Manage(g) PROVE IInv'
    BY <1>2, ManageFact
  <1>3. CASE \/ \E g \in Gens : Stop(g) \/ report(g) \/ exit(g) \/ crash(g)
             \/ \E m \in Editable : edit(m)
             \/ unload_all \/ joined_all
    BY <1>3, ProcessFact
  <1>4. CASE UNCHANGED vars
    <2>1. /\ child \in [Gens -> Children] /\ stopping \subseteq Models /\ disk \in [Models -> Nat]
          /\ crashes \in Nat /\ edits \in Nat
      BY DEF IInv, TypeOK
    <2>2. QED
      BY <1>4, <2>1, KeptFact, ProcessStep DEF vars
  <1>5. QED
    BY <1>1, <1>2, <1>3, <1>4 DEF Next

\* What a step does to the entries.
LEMMA EntriesFact ==
  ASSUME IInv, OneReload, [Next]_vars
  PROVE  \/ EntriesKept
         \/ \E h \in Handlers : replace(h)
         \/ \E g \in Gens : Reported(g)
  <1>1. mapping' = mapping => EntriesKept
    BY DEF EntriesKept, Shows, Running
  <1>2. ASSUME \/ \E g \in Gens : Stop(g) \/ report(g) \/ exit(g) \/ crash(g)
               \/ \E m \in Editable : edit(m)
               \/ unload_all \/ joined_all
        PROVE  mapping' = mapping
    BY <1>2 DEF Stop, wake, grace, report, exit, crash, edit, unload_all, joined_all
  <1>3. UNCHANGED vars => mapping' = mapping
    BY DEF vars
  <1>4. QED
    BY <1>1, <1>2, <1>3, HandleFact, ManageFact DEF Next

-----------------------------------------------------------------------------
(* The theorems.                                                            *)

(* Every variable has its type, and the entries, the processes and the       *)
(* threads agree on who is loading, downloading or replacing what: the       *)
(* bookkeeping of server_models behind its mutex.                            *)
THEOREM BooksAgree == Spec /\ []OneReload => []IInv
  <1>1. QED
    BY InitFact, StepFact, PTL DEF Spec

(* The mapping tells the truth about the processes, whatever loads, unloads,  *)
(* reloads, removals, crashes and reports interleave.                         *)
THEOREM StatusTellsTruthHolds == Spec /\ []OneReload => []StatusTellsTruth
  <1>1. ASSUME IInv PROVE StatusTellsTruth
    <2>1. ASSUME NEW g \in Gens, Normal(g)
          PROVE  \/ Running(child[g].model) /\ mapping[child[g].model].inst = g
                 \/ holder # NoOne /\ me[holder].inst = g
      <3>1. child[g].mode = "normal" /\ child[g].mgr = "log"
        BY <1>1, <2>1 DEF IInv, ChildOK, Normal
      <3>2. ASSUME NEW h \in Handlers, At(h, "replace"), me[h].inst = g
            PROVE  holder # NoOne /\ me[holder].inst = g
        BY <1>1, <3>2, RouterAssumption DEF IInv, HolderOK, At
      <3>3. QED
        BY <1>1, <3>1, <3>2 DEF IInv, NormalIsShown, Replacing
    <2>2. ASSUME NEW m \in Models, Running(m)
          PROVE  child[mapping[m].inst].mode = "normal" /\ child[mapping[m].inst].mgr # "done"
      BY <1>1, <2>2 DEF IInv, EntryOK
    <2>3. QED
      BY <2>1, <2>2 DEF StatusTellsTruth
  <1>2. IInv => StatusTellsTruth
    BY <1>1
  <1>3. QED
    BY <1>2, BooksAgree, PTL

(* An entry only changes status by what its own instance said or how its own  *)
(* process ended, although handle_child_state and the reaping go by name.     *)
THEOREM UpdatesOwnEntryHolds == Spec /\ []OneReload => UpdatesOwnEntry
  <1> DEFINE Own(m) ==
        (/\ mapping[m].status # mapping'[m].status
         /\ mapping[m].inst # 0 /\ mapping[m].inst = mapping'[m].inst
         /\ mapping'[m].status # "LOADING") =>
           LET g == mapping[m].inst
           IN  CASE mapping'[m].status = "LOADED"     -> child[g].said = "ready"
                 [] mapping'[m].status = "DOWNLOADED" -> child[g].said = "result"
                 [] OTHER -> child[g].proc = "dead" /\ child'[g].mgr = "done"
  <1>1. ASSUME IInv, OneReload, [Next]_vars, NEW m \in Models PROVE Own(m)
    <2>1. CASE EntriesKept
      BY <2>1 DEF EntriesKept
    <2>2. ASSUME NEW h \in Handlers, replace(h) PROVE Own(m)
      <3>1. mapping[m].inst # me[h].inst /\ Target(h) \in Models
        BY <1>1, <2>2, TargetFact DEF IInv, HolderOK, replace, At
      <3>2. \A e \in Entries, s \in {"DOWNLOADING", "LOADING"}, i \in 0 .. MaxGen :
              [e EXCEPT !.status = s, !.inst = i, !.th = TRUE].inst = i
        BY DEF Entries
      <3>3. mapping \in [Models -> Entries] /\ me[h].inst \in 0 .. MaxGen
        BY <1>1 DEF IInv, TypeOK, Threads
      <3>4. PICK s \in {"DOWNLOADING", "LOADING"} : s = IF Op(h) = "download" THEN "DOWNLOADING" ELSE "LOADING"
        OBVIOUS
      <3>5. mapping' = [mapping EXCEPT ![Target(h)] =
                          [mapping[Target(h)] EXCEPT !.status = s, !.inst = me[h].inst, !.th = TRUE]]
        BY <2>2, <3>1, <3>3, <3>4 DEF replace
      <3>6. /\ m # Target(h) => mapping'[m] = mapping[m]
            /\ m = Target(h) => mapping'[m].inst = me[h].inst
        BY <3>1, <3>2, <3>3, <3>5
      <3>7. QED
        BY <3>1, <3>6
    <2>3. ASSUME NEW g \in Gens, Reported(g) PROVE Own(m)
      <3>1. mapping \in [Models -> Entries] /\ child[g].model \in Models
        BY <1>1 DEF IInv, TypeOK, Children
      <3>2. CASE mapping'[m] = mapping[m]
        BY <3>2
      <3>3. CASE mapping'[m] # mapping[m]
        <4>1. PICK e \in Entries :
                /\ mapping' = [mapping EXCEPT ![child[g].model] = e]
                /\ mapping[child[g].model].inst = g /\ e.inst = g
                /\ \/ e.status = "LOADED" /\ child[g].said = "ready" /\ Running(child[g].model)
                   \/ e.status = "DOWNLOADED" /\ child[g].said = "result"
                   \/ e.status = "UNLOADED" /\ child[g].proc = "dead" /\ child'[g].mgr = "done"
          BY <2>3, <3>3 DEF Reported
        <4>2. mapping'[m] = e /\ m = child[g].model
          BY <3>1, <3>3, <4>1
        <4>3. QED
          BY <4>1, <4>2
      <3>4. QED
        BY <3>2, <3>3
    <2>4. QED
      BY <1>1, <2>1, <2>2, <2>3, EntriesFact
  <1>2. IInv /\ OneReload /\ [Next]_vars => [\A m \in Models : Own(m)]_vars
    BY <1>1
  <1>3. QED
    BY <1>2, BooksAgree, PTL DEF Spec, UpdatesOwnEntry

(* An entry that shows a download keeps its thread: what load_models says of  *)
(* downloads holds while no two reloads overlap.                              *)
THEOREM DownloadsLeftAloneHolds == Spec /\ []OneReload => []DownloadsLeftAlone
  <1>1. IInv => DownloadsLeftAlone
    BY DEF IInv, EntryOK, DownloadsLeftAlone
  <1>2. QED
    BY <1>1, BooksAgree, PTL

(* The limit of --models-max holds for the entries: each load checks it under *)
(* the mutex, which the thread keeps until the new entry is in place.         *)
ActiveOK == ModelsMax > 0 => Cardinality(Active) <= ModelsMax

\* While reloads do not overlap, no step exceeds the limit of active models.
LEMMA ActiveStep ==
  ASSUME IInv, ActiveOK, OneReload, [Next]_vars
  PROVE  ActiveOK'
  <1>1. /\ mapping \in [Models -> Entries] /\ IsFiniteSet(Models) /\ me \in [Handlers -> Threads]
        /\ child \in [Gens -> Children] /\ ModelsMax \in Nat
    BY RouterAssumption DEF IInv, TypeOK
  <1>2. /\ Active \subseteq Models /\ IsFiniteSet(Active)
        /\ Active' \subseteq Models /\ IsFiniteSet(Active')
        /\ Cardinality(Active) \in Nat /\ Cardinality(Active') \in Nat
    BY <1>1, FS_Subset, FS_CardinalityType DEF Active
  <1>3. ASSUME Active' \subseteq Active PROVE ActiveOK'
    <2>1. Cardinality(Active') <= Cardinality(Active)
      BY <1>2, <1>3, FS_Subset
    <2>2. QED
      BY <1>1, <1>2, <2>1 DEF ActiveOK
  <1>4. CASE EntriesKept
    <2>1. Active' \subseteq Active
      BY <1>4 DEF EntriesKept, Shows, Active, Running
    <2>2. QED
      BY <1>3, <2>1
  <1>5. ASSUME NEW h \in Handlers, replace(h) PROVE ActiveOK'
    <2>1. Target(h) \in Models /\ (ModelsMax > 0 => Cardinality(Active) < ModelsMax)
      BY <1>1, <1>5, TargetFact DEF IInv, HolderOK, replace, At
    <2>2. \A m \in Models : m # Target(h) => mapping'[m] = mapping[m]
      BY <1>1, <1>5, <2>1 DEF replace
    <2>3. Active' \subseteq Active \cup {Target(h)}
      BY <2>2 DEF Active, Running
    <2>4. /\ IsFiniteSet(Active \cup {Target(h)})
          /\ Cardinality(Active \cup {Target(h)}) <= Cardinality(Active) + 1
          /\ Cardinality(Active \cup {Target(h)}) \in Nat
      <3>1. /\ IsFiniteSet(Active \cup {Target(h)})
            /\ Cardinality(Active \cup {Target(h)}) =
                 IF Target(h) \in Active THEN Cardinality(Active) ELSE Cardinality(Active) + 1
        BY <1>2, FS_AddElement
      <3>2. QED
        BY <1>2, <3>1
    <2>5. Cardinality(Active') <= Cardinality(Active \cup {Target(h)})
      BY <2>3, <2>4, FS_Subset
    <2>6. QED
      BY <1>1, <1>2, <2>1, <2>4, <2>5 DEF ActiveOK
  <1>6. ASSUME NEW g \in Gens, Reported(g) PROVE ActiveOK'
    <2>1. Active' \subseteq Active
      BY <1>1, <1>6 DEF Reported, Active, Running, RunningStatus, Children
    <2>2. QED
      BY <1>3, <2>1
  <1>7. QED
    BY <1>4, <1>5, <1>6, EntriesFact

\* At first the limit of active models is not exceeded.
LEMMA ActiveInit == Init => ActiveOK
  <1> SUFFICES ASSUME Init PROVE ActiveOK
    OBVIOUS
  <1>1. Active \subseteq Startup
    <2>1. PICK gen \in [Startup -> 1..Cardinality(Startup)] :
            mapping = [m \in Models |->
              CASE m \in Startup -> [Unloaded(disk[m]) EXCEPT !.status = "LOADING", !.inst = gen[m], !.th = TRUE]
                [] disk[m] = 0    -> Absent
                [] OTHER          -> Unloaded(disk[m])]
      BY DEF Init
    <2>2. ASSUME NEW m \in Models, m \notin Startup PROVE mapping[m].status \in {"ABSENT", "UNLOADED"}
      BY <2>1, <2>2, UnloadedFact
    <2>3. QED
      BY <2>2 DEF Active, Running, RunningStatus
  <1>2. IsFiniteSet(Startup) /\ Cardinality(Startup) \in Nat
    BY StartupFact
  <1>3. Cardinality(Active) <= Cardinality(Startup) /\ Cardinality(Active) \in Nat
    BY <1>1, <1>2, FS_Subset, FS_CardinalityType
  <1>4. QED
    BY <1>2, <1>3, StartupFact, RouterAssumption DEF ActiveOK

(* No more model processes live than --models-max allows: each is the         *)
(* instance of an active entry, or the one that a thread which counted the    *)
(* active entries is about to enter.                                          *)
THEOREM CapacityHolds == Spec /\ []OneReload => []Capacity
  <1>1. ASSUME IInv, ActiveOK PROVE Capacity
    <2> DEFINE P == {g \in Gens : Normal(g)}
               S == {g \in P : Running(child[g].model) /\ mapping[child[g].model].inst = g}
    <2> SUFFICES ASSUME ModelsMax > 0 PROVE Cardinality(P) <= ModelsMax
      BY DEF Capacity
    <2>1. /\ IsFiniteSet(Models) /\ Active \subseteq Models /\ ModelsMax \in Nat /\ NoOne \notin Handlers
          /\ \A g \in Gens : child[g].model \in Models
      BY <1>1, RouterAssumption DEF Active, IInv, TypeOK, Children
    <2>2. IsFiniteSet(Active) /\ Cardinality(Active) \in Nat
      BY <2>1, FS_Subset, FS_CardinalityType
    <2>3. [g \in S |-> child[g].model] \in Injection(S, Active)
      BY <2>1 DEF Injection, IsInjective, Active
    <2>4. IsFiniteSet(S) /\ Cardinality(S) <= Cardinality(Active) /\ Cardinality(S) \in Nat
      BY <2>2, <2>3, FS_Injection, FS_CardinalityType
    <2>5. \A g \in P : g \in S \/ Replacing(g)
      BY <1>1 DEF IInv, ChildOK, NormalIsShown, Normal
    <2>6. CASE \E h \in Handlers : At(h, "replace")
      <3>1. PICK h \in Handlers : At(h, "replace")
        BY <2>6
      <3>2. Cardinality(Active) < ModelsMax
        BY <1>1, <3>1 DEF IInv, HolderOK
      <3>3. P \subseteq S \cup {me[h].inst}
        BY <1>1, <2>1, <2>5, <3>1 DEF Replacing, IInv, HolderOK, At
      <3>4. /\ IsFiniteSet(S \cup {me[h].inst}) /\ Cardinality(S \cup {me[h].inst}) <= Cardinality(S) + 1
            /\ Cardinality(S \cup {me[h].inst}) \in Nat
        <4>1. /\ IsFiniteSet(S \cup {me[h].inst})
              /\ Cardinality(S \cup {me[h].inst}) =
                   IF me[h].inst \in S THEN Cardinality(S) ELSE Cardinality(S) + 1
          BY <2>4, FS_AddElement
        <4> HIDE DEF S
        <4>2. QED
          BY <2>4, <4>1
      <3>5. Cardinality(P) <= Cardinality(S \cup {me[h].inst}) /\ Cardinality(P) \in Nat
        BY <3>3, <3>4, FS_Subset, FS_CardinalityType
      <3> HIDE DEF P, S
      <3>6. QED
        BY <2>1, <2>2, <2>4, <3>2, <3>4, <3>5
    <2>7. CASE ~ \E h \in Handlers : At(h, "replace")
      <3>1. P \subseteq S
        BY <2>5, <2>7 DEF Replacing
      <3>2. Cardinality(P) <= Cardinality(S) /\ Cardinality(P) \in Nat
        BY <2>4, <3>1, FS_Subset, FS_CardinalityType
      <3> HIDE DEF P, S
      <3>3. QED
        BY <1>1, <2>1, <2>2, <2>4, <3>2 DEF ActiveOK
    <2>8. QED
      BY <2>6, <2>7
  <1>2. IInv /\ ActiveOK => Capacity
    BY <1>1
  <1>3. IInv /\ ActiveOK /\ OneReload /\ [Next]_vars => ActiveOK'
    BY ActiveStep
  <1>4. QED
    BY <1>2, <1>3, ActiveInit, BooksAgree, PTL DEF Spec

\* No step changes which operation a thread is about.
LEMMA OpsFact ==
  ASSUME IInv, OneReload, [Next]_vars
  PROVE  OpsKept
  <1>1. ASSUME NEW h \in Handlers, Handle(h) PROVE OpsKept
    BY <1>1, HandleFact
  <1>2. ASSUME me' = me PROVE OpsKept
    BY <1>2 DEF OpsKept
  <1>3. ASSUME NEW g \in Gens, Manage(g) \/ Stop(g) \/ report(g) \/ exit(g) \/ crash(g) PROVE me' = me
    BY <1>3 DEF Manage, handle_child_state, eof, clear, reap, Stop, wake, grace, report, exit, crash
  <1>4. ASSUME (\E m \in Editable : edit(m)) \/ unload_all \/ joined_all \/ UNCHANGED vars PROVE me' = me
    BY <1>4 DEF edit, unload_all, joined_all, vars
  <1>5. QED
    BY <1>1, <1>2, <1>3, <1>4 DEF Next

(* While nobody downloads, reloads may come together as they like: then the   *)
(* limit and the truth of the mapping need no condition.                      *)
THEOREM NoDownloadNoCondition ==
  ASSUME \A r \in Requests : r.op # "download"
  PROVE  Spec => [](Capacity /\ StatusTellsTruth)
  <1>1. Init => ~Downloads
    <2> SUFFICES ASSUME Init, NEW h \in Handlers PROVE me[h].op # "download"
      BY DEF Downloads, Op
    <2>1. me \in [Handlers -> {Start(r) : r \in Requests}]
      BY DEF Init
    <2>2. PICK r \in Requests : me[h] = Start(r)
      BY <2>1
    <2>3. QED
      BY <2>2 DEF Start, Locals
  <1>2. ~Downloads => OneReload
    BY DEF OneReload
  <1>3. IInv /\ ~Downloads /\ [Next]_vars => ~Downloads'
    BY <1>2, OpsFact DEF OpsKept, Downloads, Op
  <1>4. Spec => []OneReload
    BY <1>1, <1>2, <1>3, InitFact, StepFact, PTL DEF Spec
  <1>5. QED
    BY <1>4, CapacityHolds, StatusTellsTruthHolds, PTL

=============================================================================
