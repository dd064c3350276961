------------------------------- MODULE Router -------------------------------
(* The router of tools/server/server-models.cpp: HTTP threads that load,      *)
(* unload, evict, download, remove and re-read models, and for every child    *)
(* process a managing thread with its log thread and its stopping thread.     *)
(* One action is one critical section of `mutex`.  A thread that is joined    *)
(* while `mutex` is locked is awaited with holder set.  The condition         *)
(* variables are guards: every change that a predicate reads is followed by   *)
(* notify_all of its variable.                                                *)
(* Abstracted: last_used (the victim of an eviction is any running model),    *)
(* aliases, ports, LOADED and SLEEPING (both are running and accept           *)
(* requests), progress reports.                                               *)
EXTENDS Naturals, FiniteSets

CONSTANTS Models,      \* names
          Handlers,    \* HTTP threads, each serves one request
          Autoload,    \* models with load-on-startup
          Requests,    \* the requests they may get: records [op, model]
          ModelsMax,   \* base_params.models_max, 0 for no limit
          MaxGen,      \* bound: processes that can be spawned
          MaxCrashes,  \* bound: crashes of children
          MaxEdits,    \* bound: edits of the model sources by the user,
          Editable,    \* and the models they are about
          NoOne        \* nobody keeps the mutex

ASSUME RouterAssumption ==
    /\ ModelsMax \in Nat /\ MaxGen \in Nat /\ MaxCrashes \in Nat /\ MaxEdits \in Nat
    /\ NoOne \notin Handlers
    /\ Models # {} /\ IsFiniteSet(Models)
    /\ Editable \subseteq Models /\ Autoload \subseteq Models
    /\ \A r \in Requests :
         /\ r.op \in {"request", "load", "unload", "reload", "list", "download", "remove"}
         /\ r.model \in Models

VARIABLES mapping,     \* name -> entry: status, instance, joinable thread, failed, preset
          stopping,    \* stopping_models
          reloading,   \* is_reloading
          needReload,  \* need_reload
          holder,      \* who keeps the mutex while it joins a thread
          me,          \* locals of the HTTP threads
          child,       \* generation -> process and its managing threads
          disk,        \* the sources: name -> version of its preset, 0 when absent
          down,        \* main: "up", "joining" in unload_all, "down"
          crashes, edits

vars == <<mapping, stopping, reloading, needReload, holder, me, child, disk, down, crashes, edits>>

Gens == 1..MaxGen
RunningStatus == {"LOADING", "LOADED"}

Absent == [status |-> "ABSENT", inst |-> 0, th |-> FALSE, failed |-> FALSE, preset |-> 0]
(* add_model, or what operator[] of the map creates for an unknown name       *)
Unloaded(version) == [status |-> "UNLOADED", inst |-> 0, th |-> FALSE, failed |-> FALSE, preset |-> version]
Touched(m) == IF mapping[m] = Absent THEN Unloaded(0) ELSE mapping[m]

NoChild == [model |-> CHOOSE m \in Models : TRUE, mode |-> "none", proc |-> "none", bad |-> FALSE,
            asked |-> FALSE, said |-> "none", stopped |-> FALSE, mgr |-> "done", stopper |-> "done"]
NewChild(m, mode) == [NoChild EXCEPT !.model = m, !.mode = mode, !.proc = "up",
                                     !.mgr = "log", !.stopper = "wait"]

Alive(g) == child[g].proc \in {"up", "ready"}
Running(m) == mapping[m].status \in RunningStatus
Active == {m \in Models : Running(m)}
(* Mutant: one more than the limit is let in.                                 *)
Full_off_by_one == ModelsMax > 0 /\ Cardinality(Active) > ModelsMax


Full == ModelsMax > 0 /\ Cardinality(Active) >= ModelsMax
Free == holder = NoOne
Joined(e) == e.th => child[e.inst].mgr = "done"

(* server_subproc::request_exit and server_subproc::terminate                 *)
request_exit(c) == [c EXCEPT !.asked = TRUE, !.stopped = TRUE]
terminate(c) == IF c.proc = "dead" THEN c ELSE [c EXCEPT !.proc = "dead", !.bad = TRUE]

At(h, pc) == me[h].pc = pc
Op(h) == me[h].op
NoSnap == [m \in Models |-> 0]
Locals(op, m, pc, ret, fresh) == [op |-> op, model |-> m, pc |-> pc, snap |-> NoSnap, todo |-> {}, gone |-> {},
                           joins |-> {}, victim |-> {}, auto |-> {}, inst |-> 0, ret |-> ret, fresh |-> fresh]
Start(r) == Locals(r.op, r.model, IF r.op = "reload" THEN "scan" ELSE r.op, "list", FALSE)
Goto(h, pc) == me' = [me EXCEPT ![h].pc = pc, ![h].fresh = FALSE]
(* an answer, or an exception that becomes one                                *)
Finish(h) == me' = [me EXCEPT ![h] = Locals(Op(h), me[h].model, "done", "done", FALSE)]

(* What load loads: the model of the request, or, in load_models, the models  *)
(* that have just been added and are to be loaded, in a fixed order of names. *)
First(models) == CHOOSE m \in models : TRUE
Target(h) == IF me[h].auto = {} THEN me[h].model ELSE First(me[h].auto)

(* load_models loads these, then it returns to its caller.                    *)
Autoloads(h, models) ==
    me' = [me EXCEPT ![h] = IF models = {} THEN Locals(Op(h), me[h].model, me[h].ret, me[h].ret, TRUE)
                            ELSE [Locals(Op(h), me[h].model, "count", me[h].ret, FALSE) EXCEPT !.auto = models]]

(* The first load_models: every source gets an entry, those of Autoload are   *)
(* loaded (more of them than models_max end the program, and so does any when *)
(* models_max is 0).                                                          *)
Startup == {m \in Autoload : disk[m] = 1}

Init ==
    /\ disk \in [Models -> {0, 1}]
    /\ Cardinality(Startup) <= ModelsMax /\ Cardinality(Startup) <= MaxGen
    /\ \E gen \in [Startup -> 1..Cardinality(Startup)] :
         /\ \A m, n \in Startup : gen[m] = gen[n] => m = n
         /\ mapping = [m \in Models |->
              CASE m \in Startup -> [Unloaded(disk[m]) EXCEPT !.status = "LOADING", !.inst = gen[m], !.th = TRUE]
                [] disk[m] = 0   -> Absent
                [] OTHER         -> Unloaded(disk[m])]
         /\ child = [g \in Gens |-> IF \E m \in Startup : gen[m] = g
                                    THEN NewChild(CHOOSE m \in Startup : gen[m] = g, "normal") ELSE NoChild]
    /\ stopping = {} /\ reloading = FALSE /\ needReload = FALSE /\ holder = NoOne
    /\ me \in [Handlers -> {Start(r) : r \in Requests}]
    /\ down = "up" /\ crashes = 0 /\ edits = 0

-----------------------------------------------------------------------------
(* The HTTP threads.                                                          *)

(* get_meta and get_all_meta: need_reload makes the caller re-read the        *)
(* sources before it looks.                                                   *)
refresh(h) ==
    /\ Free /\ needReload /\ ~me[h].fresh
    /\ me[h].pc \in {"request", "load", "unload", "list", "proxy"}
    /\ me' = [me EXCEPT ![h].ret = me[h].pc, ![h].pc = "scan"]
    /\ UNCHANGED <<mapping, stopping, reloading, needReload, holder, child, disk, down, crashes, edits>>

Looks(h, pc) == At(h, pc) /\ Free /\ (needReload => me[h].fresh)

(* Where a request goes after get_meta: ensure_model_ready and the routes.    *)
AfterMeta(h) ==
    LET s == mapping[me[h].model].status
        up == Running(me[h].model)
    IN  IF s = "ABSENT" THEN "done"
        ELSE CASE Op(h) = "request" -> (CASE s = "LOADED" -> "proxy" [] s = "UNLOADED" -> "count" [] OTHER -> "ready")
               [] Op(h) = "load"    -> IF up THEN "done" ELSE "count"
               [] OTHER             -> IF up \/ s = "DOWNLOADING" THEN "unload_now" ELSE "done"

lookup(h) ==
    /\ \E pc \in {"request", "load", "unload"} : Looks(h, pc)
    /\ IF AfterMeta(h) = "done" THEN Finish(h) ELSE Goto(h, AfterMeta(h))
    /\ UNCHANGED <<mapping, stopping, reloading, needReload, holder, child, disk, down, crashes, edits>>

get_all_meta(h) ==
    /\ Looks(h, "list")
    /\ Finish(h)
    /\ UNCHANGED <<mapping, stopping, reloading, needReload, holder, child, disk, down, crashes, edits>>

(* unload: told to exit, or asked through the stopping thread; a child that   *)
(* still loads is killed.  (remove does the same.)                            *)
unload(m) ==
    LET e == mapping[m]
    IN  /\ stopping' = IF Running(m) THEN stopping \cup {m} ELSE stopping
        /\ child' = CASE e.status = "DOWNLOADING" -> [child EXCEPT ![e.inst] = request_exit(@)]
                      [] e.status = "LOADING"     -> [child EXCEPT ![e.inst] = terminate(@)]
                      [] OTHER                    -> child

unload_route(h) ==
    /\ At(h, "unload_now") /\ Free
    /\ unload(me[h].model)
    /\ IF mapping[me[h].model].status = "DOWNLOADING"
       THEN me' = [me EXCEPT ![h].pc = "unload_wait", ![h].victim = {me[h].model}]
       ELSE Finish(h)
    /\ UNCHANGED <<mapping, reloading, needReload, holder, disk, down, crashes, edits>>

(* load: has_model and the look of unload_lru; models of equal age to the     *)
(* clock are not chosen, which leaves the capacity check to the last part.    *)
count(h) ==
    /\ At(h, "count") /\ Free
    /\ \/ mapping[Target(h)] = Absent /\ Finish(h)
       \/ mapping[Target(h)] # Absent /\ Goto(h, "spawn")
       \/ /\ mapping[Target(h)] # Absent /\ Full
          /\ \E v \in Active : me' = [me EXCEPT ![h].pc = "evict", ![h].victim = {v}]
    /\ UNCHANGED <<mapping, stopping, reloading, needReload, holder, child, disk, down, crashes, edits>>

evict(h) ==
    /\ At(h, "evict") /\ Free
    /\ \E v \in me[h].victim :
         /\ unload(v)
         /\ Goto(h, IF mapping[v].status = "DOWNLOADING" THEN "evict_wait" ELSE "evicted")
    /\ UNCHANGED <<mapping, reloading, needReload, holder, disk, down, crashes, edits>>

evicted(h) ==
    /\ At(h, "evicted") /\ Free
    /\ \E v \in me[h].victim : Touched(v).status = "UNLOADED" /\ mapping' = [mapping EXCEPT ![v] = Touched(v)]
    /\ me' = [me EXCEPT ![h].pc = "spawn", ![h].victim = {}]
    /\ UNCHANGED <<stopping, reloading, needReload, holder, child, disk, down, crashes, edits>>

(* unload waits for a download to be cancelled, whoever called it.            *)
AfterWait == [unload_wait |-> "done", evict_wait |-> "evicted", drop_wait |-> "drop"]

unload_wait(h) ==
    /\ Free /\ me[h].pc \in DOMAIN AfterWait
    /\ \A m \in me[h].victim : mapping[m].status # "DOWNLOADING"
    /\ me' = [me EXCEPT ![h].pc = AfterWait[@]]
    /\ UNCHANGED <<mapping, stopping, reloading, needReload, holder, child, disk, down, crashes, edits>>

AfterLoad(h) == IF me[h].auto # {} THEN Autoloads(h, me[h].auto \ {Target(h)})
                ELSE IF Op(h) = "request" THEN Goto(h, "ready") ELSE Finish(h)

(* The last part of load, for a model or (custom_meta) for a download.        *)
spawn(h) ==
    LET m == Target(h)
        dl == Op(h) = "download"
    IN  /\ At(h, "spawn") /\ Free /\ ~reloading
        /\ \/ /\ ~dl /\ Touched(m).status # "UNLOADED"     \* already on its way
              /\ AfterLoad(h)
              /\ UNCHANGED <<mapping, child, holder>>
           \/ /\ dl \/ Touched(m).status = "UNLOADED"      \* full, no port, or no process
              /\ mapping' = [mapping EXCEPT ![m] = IF dl THEN @ ELSE Touched(m)]
              /\ Full \/ \A g \in Gens : child[g].mode # "none"
              /\ Finish(h)
              /\ UNCHANGED <<child, holder>>
           \/ /\ dl \/ Touched(m).status = "UNLOADED"
              /\ ~Full
              /\ \E g \in Gens :
                   /\ child[g].mode = "none" /\ \A f \in Gens : f < g => child[f].mode # "none"
                   /\ child' = [f \in Gens |->
                        IF f = g THEN NewChild(m, IF dl THEN "download" ELSE "normal")
                        ELSE IF f = mapping[m].inst THEN terminate(child[f])
                        ELSE child[f]]
                   /\ me' = [me EXCEPT ![h].pc = "replace", ![h].inst = g]
              /\ mapping' = [mapping EXCEPT ![m] = Touched(m)]
              /\ holder' = h
    /\ UNCHANGED <<stopping, reloading, needReload, disk, down, crashes, edits>>

(* The old thread is joined with the mutex locked, then the entry replaced.   *)
replace(h) ==
    LET m == Target(h)
    IN  /\ At(h, "replace") /\ holder = h
        /\ Joined(mapping[m])
        /\ mapping' = [mapping EXCEPT ![m] =
             [@ EXCEPT !.status = IF Op(h) = "download" THEN "DOWNLOADING" ELSE "LOADING",
                       !.inst = me[h].inst, !.th = TRUE]]
        /\ holder' = NoOne
        /\ AfterLoad(h)
        /\ UNCHANGED <<stopping, reloading, needReload, child, disk, down, crashes, edits>>

(* ensure_model_ready waits for the end of LOADING, and gives up on a child   *)
(* that exited with an error.                                                 *)
ready(h) ==
    LET e == mapping[me[h].model]
    IN  /\ At(h, "ready") /\ Free
        /\ e.status # "LOADING"
        /\ IF e.status = "UNLOADED" /\ e.failed THEN Finish(h) ELSE Goto(h, "proxy")
        /\ UNCHANGED <<mapping, stopping, reloading, needReload, holder, child, disk, down, crashes, edits>>

(* proxy_request: looks again, then marks the model as used.                  *)
proxy(h) ==
    /\ Looks(h, "proxy")
    /\ IF Running(me[h].model) THEN Goto(h, "touch") ELSE Finish(h)
    /\ UNCHANGED <<mapping, stopping, reloading, needReload, holder, child, disk, down, crashes, edits>>

touch(h) ==
    /\ At(h, "touch") /\ Free
    /\ mapping' = [mapping EXCEPT ![me[h].model] = Touched(me[h].model)]
    /\ Finish(h)
    /\ UNCHANGED <<stopping, reloading, needReload, holder, child, disk, down, crashes, edits>>

(* POST /models: refuses a known name, then load with a custom meta.          *)
download(h) ==
    /\ At(h, "download") /\ Free
    /\ IF mapping[me[h].model] = Absent THEN Goto(h, "spawn") ELSE Finish(h)
    /\ UNCHANGED <<mapping, stopping, reloading, needReload, holder, child, disk, down, crashes, edits>>

(* remove: stop or cancel, wait, join with the mutex locked, erase.           *)
remove(h) ==
    /\ At(h, "remove") /\ Free
    /\ IF mapping[me[h].model] = Absent
       THEN Finish(h) /\ UNCHANGED <<stopping, child>>
       ELSE Goto(h, "remove_wait") /\ unload(me[h].model)
    /\ UNCHANGED <<mapping, reloading, needReload, holder, disk, down, crashes, edits>>

remove_wait(h) ==
    LET m == me[h].model
    IN  /\ At(h, "remove_wait") /\ Free
        /\ \/ /\ mapping[m] = Absent
              /\ disk' = [disk EXCEPT ![m] = 0]
              /\ Finish(h) /\ UNCHANGED holder
           \/ /\ mapping[m].status \in {"UNLOADED", "DOWNLOADED"}
              /\ holder' = h
              /\ Goto(h, "remove_join") /\ UNCHANGED disk
        /\ UNCHANGED <<mapping, stopping, reloading, needReload, child, down, crashes, edits>>

remove_join(h) ==
    LET m == me[h].model
    IN  /\ At(h, "remove_join") /\ holder = h
        /\ Joined(mapping[m])
        /\ mapping' = [mapping EXCEPT ![m] = Absent]
        /\ disk' = [disk EXCEPT ![m] = 0]
        /\ holder' = NoOne
        /\ Finish(h)
        /\ UNCHANGED <<stopping, reloading, needReload, child, down, crashes, edits>>

-----------------------------------------------------------------------------
(* load_models, called by an HTTP thread.                                     *)

(* Phase 1 reads the sources without the lock.                                *)
scan(h) ==
    /\ At(h, "scan")
    /\ me' = [me EXCEPT ![h].snap = disk, ![h].pc = "diff"]
    /\ UNCHANGED <<mapping, stopping, reloading, needReload, holder, child, disk, down, crashes, edits>>

(* Phase 2: an empty mapping is filled, and more models to load than          *)
(* models_max are an error; otherwise the running models whose preset changed *)
(* or is gone are listed.                                                     *)
diff(h) ==
    LET snap == me[h].snap
        new == {m \in Autoload : snap[m] # 0}
        out == {m \in Active : snap[m] # mapping[m].preset}
    IN  /\ At(h, "diff") /\ Free
        /\ needReload' = FALSE
        /\ IF \A m \in Models : mapping[m] = Absent
           THEN /\ mapping' = [m \in Models |-> IF snap[m] = 0 THEN Absent ELSE Unloaded(snap[m])]
                /\ IF Cardinality(new) > ModelsMax THEN Finish(h) ELSE Autoloads(h, new)
                /\ UNCHANGED reloading
           ELSE /\ reloading' = TRUE
                /\ me' = [me EXCEPT ![h].todo = out, ![h].gone = out, ![h].pc = "drop"]
                /\ UNCHANGED mapping
        /\ UNCHANGED <<stopping, holder, child, disk, down, crashes, edits>>

(* They are unloaded one by one, the lock released for each.                  *)
drop(h) ==
    /\ At(h, "drop") /\ Free
    /\ \E m \in me[h].todo :
         /\ unload(m)
         /\ me' = [me EXCEPT ![h].todo = @ \ {m},
                             ![h].pc = IF mapping[m].status = "DOWNLOADING" THEN "drop_wait" ELSE "drop",
                             ![h].victim = IF mapping[m].status = "DOWNLOADING" THEN {m} ELSE {}]
    /\ UNCHANGED <<mapping, reloading, needReload, holder, disk, down, crashes, edits>>

(* Mutant: the reload goes on without waiting for the models it stopped.      *)
Settled_at_once(h) == me[h].todo = {}

Settled(h) == \A m \in me[h].gone : ~Running(m)

(* When none of them runs, the threads to join are taken out of the mapping.  *)
settle(h) ==
    LET taken == {m \in Models : /\ mapping[m].th
                                 /\ \/ m \in me[h].gone
                                    \/ /\ mapping[m].status # "DOWNLOADING" /\ ~Running(m)
                                       /\ me[h].snap[m] = 0}
    IN  /\ At(h, "drop") /\ Free /\ me[h].todo = {}
        /\ Settled(h)
        /\ me' = [me EXCEPT ![h].joins = {mapping[m].inst : m \in taken}, ![h].pc = "join"]
        /\ mapping' = [m \in Models |-> IF m \in taken THEN [mapping[m] EXCEPT !.th = FALSE] ELSE mapping[m]]
        /\ UNCHANGED <<stopping, reloading, needReload, holder, child, disk, down, crashes, edits>>

(* They are joined without the lock; then the lock is kept to the end.        *)
join(h) ==
    /\ At(h, "join") /\ Free
    /\ \A g \in me[h].joins : child[g].mgr = "done"
    /\ holder' = h
    /\ Goto(h, "commit")
    /\ UNCHANGED <<mapping, stopping, reloading, needReload, child, disk, down, crashes, edits>>

Erased(h, m) == \/ mapping[m].status = "DOWNLOADED"
                \/ mapping[m].status # "DOWNLOADING" /\ me[h].snap[m] = 0

(* Finished downloads are joined and erased, models without a source erased   *)
(* (which asserts that they were joined), presets renewed, new names added.   *)
Committed(h, m) ==
    LET v == me[h].snap[m]
    IN  IF mapping[m] = Absent \/ Erased(h, m) THEN IF v = 0 THEN Absent ELSE Unloaded(v)
        ELSE IF v = 0 \/ Running(m) THEN mapping[m]
        ELSE [mapping[m] EXCEPT !.preset = v, !.failed = FALSE]

AssertFails(h) == \E m \in Models : Erased(h, m) /\ mapping[m].status # "DOWNLOADED" /\ mapping[m].th

(* The new names, a finished download among them: it was erased before.       *)
Added(h) == {m \in Models : /\ mapping[m] = Absent \/ Erased(h, m)
                            /\ me[h].snap[m] # 0}

(* Mutant: the flag goes down when the new models are loaded.                 *)
commit_flag_late(h) ==
    /\ At(h, "commit") /\ holder = h
    /\ \A m \in Models : mapping[m].status = "DOWNLOADED" => Joined(mapping[m])
    /\ IF AssertFails(h)
       THEN Goto(h, "abort") /\ UNCHANGED <<mapping, reloading, holder>>
       ELSE /\ mapping' = [m \in Models |-> Committed(h, m)]
            /\ reloading' = (Added(h) \cap Autoload # {})
            /\ holder' = NoOne
            /\ Autoloads(h, Added(h) \cap Autoload)
    /\ UNCHANGED <<stopping, needReload, child, disk, down, crashes, edits>>

(* The flag goes down before the new models are loaded: load waits for it.    *)
commit(h) ==
    /\ At(h, "commit") /\ holder = h
    /\ \A m \in Models : mapping[m].status = "DOWNLOADED" => Joined(mapping[m])
    /\ IF AssertFails(h)
       THEN Goto(h, "abort") /\ UNCHANGED <<mapping, reloading, holder>>
       ELSE /\ mapping' = [m \in Models |-> Committed(h, m)]
            /\ reloading' = FALSE
            /\ holder' = NoOne
            /\ Autoloads(h, Added(h) \cap Autoload)
    /\ UNCHANGED <<stopping, needReload, child, disk, down, crashes, edits>>

-----------------------------------------------------------------------------
(* The threads of a child: generation g of model child[g].model.              *)

Set(g, c) == child' = [child EXCEPT ![g] = c]

(* The log thread handles a line the child printed: by name, not by instance. *)
handle_child_state(g) ==
    LET c == child[g]
        m == c.model
    IN  /\ c.mgr = "log" /\ c.said # "none" /\ Free
        /\ \/ /\ c.said = "ready"
              /\ mapping' = [mapping EXCEPT ![m] =
                   IF @ = Absent THEN @ ELSE [@ EXCEPT !.status = "LOADED", !.failed = FALSE]]
              /\ Set(g, [c EXCEPT !.said = "none"])
              /\ UNCHANGED needReload
           \/ /\ c.said = "result"        \* update_download_progress(done)
              /\ mapping' = [mapping EXCEPT ![m] = IF @ = Absent THEN @ ELSE [@ EXCEPT !.status = "DOWNLOADED"]]
              /\ needReload' = (needReload \/ mapping[m] # Absent)
              /\ Set(g, [c EXCEPT !.said = "release"])
           \/ /\ c.said = "release"       \* request_exit of the entry's process
              /\ child' = LET d == [child EXCEPT ![g].said = "none"]
                          IN  IF mapping[m].inst = 0 THEN d ELSE [d EXCEPT ![mapping[m].inst] = request_exit(@)]
              /\ UNCHANGED <<mapping, needReload>>
        /\ UNCHANGED <<stopping, reloading, holder, me, disk, down, crashes, edits>>

(* Mutant: the log thread stops reading while the process lives.              *)
eof_early(g) ==
    /\ child[g].mgr = "log" /\ child[g].said = "none"
    /\ Set(g, [child[g] EXCEPT !.stopped = TRUE, !.mgr = "clear"])
    /\ UNCHANGED <<mapping, stopping, reloading, needReload, holder, me, disk, down, crashes, edits>>

(* The log thread saw the end of the output and was joined.                   *)
eof(g) ==
    /\ child[g].mgr = "log" /\ child[g].proc = "dead" /\ child[g].said = "none"
    /\ Set(g, [child[g] EXCEPT !.stopped = TRUE, !.mgr = "clear"])
    /\ UNCHANGED <<mapping, stopping, reloading, needReload, holder, me, disk, down, crashes, edits>>

clear(g) ==
    /\ child[g].mgr = "clear" /\ Free
    /\ stopping' = stopping \ {child[g].model}
    /\ Set(g, [child[g] EXCEPT !.mgr = "join"])
    /\ UNCHANGED <<mapping, reloading, needReload, holder, me, disk, down, crashes, edits>>

(* Mutant: the end of a process that failed is not reported.                  *)
reap_silent(g) ==
    LET c == child[g]
    IN  /\ c.mgr = "join" /\ c.stopper = "done" /\ Free
        /\ mapping' = IF c.bad \/ c.mode = "download" \/ mapping[c.model] = Absent THEN mapping
                      ELSE [mapping EXCEPT ![c.model].status = "UNLOADED", ![c.model].failed = FALSE]
        /\ Set(g, [c EXCEPT !.mgr = "done"])
        /\ UNCHANGED <<stopping, reloading, needReload, holder, me, disk, down, crashes, edits>>

(* The stopping thread joined, the process reaped, UNLOADED reported; the     *)
(* thread of a download reports nothing.                                      *)
reap(g) ==
    LET c == child[g]
    IN  /\ c.mgr = "join" /\ c.stopper = "done"
        /\ \/ c.mode = "download" /\ UNCHANGED mapping
           \/ /\ c.mode = "normal" /\ Free
              /\ mapping' = [mapping EXCEPT ![c.model] =
                   IF @ = Absent THEN @ ELSE [@ EXCEPT !.status = "UNLOADED", !.failed = c.bad]]
        /\ Set(g, [c EXCEPT !.mgr = "done"])
        /\ UNCHANGED <<stopping, reloading, needReload, holder, me, disk, down, crashes, edits>>

Stopping(g) == child[g].model \in stopping

(* The stopping thread wakes up for a request to stop or the end of the child *)
wake(g) ==
    /\ child[g].stopper = "wait" /\ Free
    /\ Stopping(g) \/ child[g].stopped
    /\ Set(g, IF child[g].stopped THEN [child[g] EXCEPT !.stopper = "done"]
              ELSE [child[g] EXCEPT !.asked = TRUE, !.stopper = "grace"])
    /\ UNCHANGED <<mapping, stopping, reloading, needReload, holder, me, disk, down, crashes, edits>>

(* Mutant: the stopping thread waits for the child and never kills it.        *)
grace_patient(g) ==
    /\ child[g].stopper = "grace" /\ Free
    /\ ~Stopping(g) \/ child[g].stopped
    /\ Set(g, [child[g] EXCEPT !.stopper = "done"])
    /\ UNCHANGED <<mapping, stopping, reloading, needReload, holder, me, disk, down, crashes, edits>>

(* ... and waits: the child ended, or stop_timeout passed and it is killed.   *)
grace(g) ==
    /\ child[g].stopper = "grace" /\ Free
    /\ Set(g, [IF Stopping(g) /\ ~child[g].stopped THEN terminate(child[g]) ELSE child[g]
               EXCEPT !.stopper = "done"])
    /\ UNCHANGED <<mapping, stopping, reloading, needReload, holder, me, disk, down, crashes, edits>>

(* The process: it reports that it is ready, or the result of the download    *)
(* (which puts the model on disk, or failed or was cancelled).                *)
report(g) ==
    LET c == child[g]
    IN  /\ c.proc = "up" /\ c.said = "none"
        /\ \/ c.mode = "normal" /\ UNCHANGED disk
           \/ c.mode = "download" /\ UNCHANGED disk
           \/ c.mode = "download" /\ ~c.asked /\ disk' = [disk EXCEPT ![c.model] = 1]
        /\ Set(g, [c EXCEPT !.proc = "ready", !.said = IF c.mode = "normal" THEN "ready" ELSE "result"])
        /\ UNCHANGED <<mapping, stopping, reloading, needReload, holder, me, down, crashes, edits>>

(* It exits when told to; a download reports its result first.                *)
exit(g) ==
    /\ Alive(g) /\ child[g].asked
    /\ child[g].mode = "download" => child[g].proc = "ready"
    /\ Set(g, [child[g] EXCEPT !.proc = "dead"])
    /\ UNCHANGED <<mapping, stopping, reloading, needReload, holder, me, disk, down, crashes, edits>>

crash(g) ==
    /\ Alive(g) /\ crashes < MaxCrashes
    /\ crashes' = crashes + 1
    /\ Set(g, terminate(child[g]))
    /\ UNCHANGED <<mapping, stopping, reloading, needReload, holder, me, disk, down, edits>>

(* The user edits a source: a model appears, changes or goes.                 *)
edit(m) ==
    /\ edits < MaxEdits
    /\ edits' = edits + 1
    /\ \E v \in {0, edits + 2} : v # disk[m] /\ disk' = [disk EXCEPT ![m] = v]
    /\ UNCHANGED <<mapping, stopping, reloading, needReload, holder, me, child, down, crashes>>

(* Mutant: unload_all joins the threads and asks nobody to stop.              *)
unload_all_quiet ==
    /\ down = "up" /\ Free
    /\ \A h \in Handlers : At(h, "done")
    /\ down' = "joining"
    /\ UNCHANGED <<mapping, stopping, child, reloading, needReload, holder, me, disk, crashes, edits>>

(* main: once the HTTP threads are gone, unload_all takes every thread and    *)
(* joins it.  A download is only flagged.                                     *)
unload_all ==
    /\ down = "up" /\ Free
    /\ \A h \in Handlers : At(h, "done")
    /\ down' = "joining"
    /\ stopping' = stopping \cup Active
    /\ child' = [g \in Gens |-> IF \E m \in Models : mapping[m].status = "DOWNLOADING" /\ mapping[m].inst = g
                                THEN [child[g] EXCEPT !.stopped = TRUE] ELSE child[g]]
    /\ UNCHANGED <<mapping, reloading, needReload, holder, me, disk, crashes, edits>>

joined_all ==
    /\ down = "joining"
    /\ \A m \in Models : Joined(mapping[m])
    /\ down' = "down"
    /\ UNCHANGED <<mapping, stopping, reloading, needReload, holder, me, child, disk, crashes, edits>>

-----------------------------------------------------------------------------
Handle(h) ==
    \/ refresh(h) \/ lookup(h) \/ get_all_meta(h) \/ unload_route(h) \/ unload_wait(h)
    \/ count(h) \/ evict(h) \/ evicted(h) \/ spawn(h) \/ replace(h)
    \/ ready(h) \/ proxy(h) \/ touch(h)
    \/ download(h) \/ remove(h) \/ remove_wait(h) \/ remove_join(h)
    \/ scan(h) \/ diff(h) \/ drop(h) \/ settle(h) \/ join(h) \/ commit(h)

Manage(g) == handle_child_state(g) \/ eof(g) \/ clear(g) \/ reap(g)
Stop(g) == wake(g) \/ grace(g)

Next ==
    \/ \E h \in Handlers : Handle(h)
    \/ \E g \in Gens : Manage(g) \/ Stop(g) \/ report(g) \/ exit(g) \/ crash(g)
    \/ \E m \in Editable : edit(m)
    \/ unload_all \/ joined_all

(* The router's threads do not all rest while one of them can take a step, a  *)
(* child that loads or downloads ends or reports, and a download exits when   *)
(* told to.  Nobody promises that a child which serves requests obeys.  (Every*)
(* thread's steps are bounded, so one condition for all of them is enough.)   *)
Working == \/ \E h \in Handlers : Handle(h)
           \/ \E g \in Gens : \/ Manage(g) \/ Stop(g) \/ report(g)
                              \/ child[g].mode = "download" /\ exit(g)
           \/ joined_all

Fairness == WF_vars(Working)

Spec == Init /\ [][Next]_vars /\ Fairness

-----------------------------------------------------------------------------
Normal(g) == Alive(g) /\ child[g].mode = "normal"

(* However requests, evictions, reloads, crashes and removals interleave, no  *)
(* more model processes live than --models-max allows: load counts entries    *)
(* of the mapping, this counts processes.                                     *)
Capacity == ModelsMax > 0 => Cardinality({g \in Gens : Normal(g)}) <= ModelsMax

(* The mapping tells the truth: a process that serves a model is the instance *)
(* of a running entry (or is just replacing it under the mutex), and a        *)
(* running entry has a managing thread which will report its end.             *)
StatusTellsTruth ==
    /\ \A g \in Gens : Normal(g) =>
         \/ Running(child[g].model) /\ mapping[child[g].model].inst = g
         \/ holder # NoOne /\ me[holder].inst = g
    /\ \A m \in Models : Running(m) =>
         LET g == mapping[m].inst IN child[g].mode = "normal" /\ child[g].mgr # "done"

(* Reports carry a name and no instance; still an entry only ever changes     *)
(* status by what its own instance said or how its own process ended.         *)
UpdatesOwnEntry ==
    [][\A m \in Models :
         (/\ mapping[m].status # mapping'[m].status
          /\ mapping[m].inst # 0 /\ mapping[m].inst = mapping'[m].inst
          /\ mapping'[m].status # "LOADING") =>
            LET g == mapping[m].inst
            IN  CASE mapping'[m].status = "LOADED"     -> child[g].said = "ready"
                  [] mapping'[m].status = "DOWNLOADED" -> child[g].said = "result"
                  [] OTHER -> child[g].proc = "dead" /\ child'[g].mgr = "done"]_vars

(* The comment in load_models (server-models.cpp:536) says of downloads "leave *)
(* them alone": an entry that shows a download keeps the thread that whoever  *)
(* replaces or erases the entry has to join.                                  *)
DownloadsLeftAlone == \A m \in Models : mapping[m].status = "DOWNLOADING" => mapping[m].th

(* Requests without downloads and removals (which deadlock, see README), and   *)
(* no two reloads at a time.                                                  *)
Calm == /\ \A h \in Handlers : Op(h) \notin {"download", "remove"}
        /\ Cardinality({h \in Handlers : Op(h) = "reload"}) <= 1

(* A model that somebody asked to stop ends, even if its process ignores the  *)
(* request: the stopping thread kills it when stop_timeout has passed.        *)
UnloadEnds ==
    []<>(Calm => \A g \in Gens : ~(Stopping(g) /\ Normal(g)))

(* Every HTTP thread ends, whatever it waits for (a load, a reload, the end   *)
(* of a model), except that unload_lru waits as long as another thread has    *)
(* loaded the evicted model again.                                            *)
WaitsEnd ==
    []<>(Calm => \A h \in Handlers :
                   At(h, "done") \/ (At(h, "evicted") /\ \A v \in me[h].victim : Running(v)))

(* Shutdown comes to an end and leaves no process behind.                     *)
ShutdownEnds == /\ [](down = "down" => \A g \in Gens : ~Alive(g))
                /\ (down = "joining") ~> (down = "down")

=============================================================================
