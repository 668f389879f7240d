----------------------------- MODULE BackendPools -----------------------------
(***************************************************************************)
(* The worker pools of a streamer and the lock of its object storage       *)
(* plugin, under concurrent submitters: Streamer::lock_object_plugin, then *)
(* BackendPools::lock_object_plugin (a lock-free test, then the mutex) and *)
(* BackendPools::push.  One action per access to shared state.             *)
(*                                                                         *)
(* A submission is the set of the backends of its files: reads for those   *)
(* with ranges, empties for those without.                                 *)
(***************************************************************************)
EXTENDS Naturals, FiniteSets

CONSTANTS
  Submitters,   \* threads that call async_request
  Submissions,  \* what they may submit
  Plugins,      \* object storage plugins
  FileSystem,   \* the file system
  None

Backends == Plugins \cup {FileSystem}

ASSUME BackendPoolsAssumption ==
  /\ FileSystem \notin Plugins
  /\ IsFiniteSet(Plugins)
  /\ Submissions \subseteq [reads : SUBSET Backends, empties : SUBSET Backends]
  /\ None \notin Plugins \cup Submitters

VARIABLES
  ready,    \* _ready_plugin
  mutex,    \* the submitter that has _plugin_mutex
  plugin,   \* _plugin
  objPools, \* object storage pools made so far; the last is the current one
  once,     \* _filesystem_once: "unset", "running" or "set"
  fsPools,  \* file system pools made so far
  sub,      \* the submission of a submitter
  pc

shared == <<ready, mutex, plugin, objPools, once, fsPools>>
vars == <<shared, sub, pc>>

PluginOf(p) == CHOOSE q \in Plugins : q \in sub[p].reads
Goto(p, label) == pc' = [pc EXCEPT ![p] = label]
Nothing == [reads |-> {}, empties |-> {}]

Init ==
  /\ ready = None
  /\ mutex = None
  /\ plugin = None
  /\ objPools = 0
  /\ once = "unset"
  /\ fsPools = 0
  /\ sub = [p \in Submitters |-> Nothing]
  /\ pc = [p \in Submitters |-> "returned"]

(* The next call of async_request. *)
Request(p) ==
  \E s \in Submissions :
    /\ pc[p] \in {"returned", "rejected", "threw"}
    /\ sub' = [sub EXCEPT ![p] = s]
    /\ Goto(p, "classify")
    /\ UNCHANGED shared

(* Mutant of Classified: files without ranges count. *)
ClassifiedAll(p) == sub[p].reads \cup sub[p].empties

(* The backends that lock_object_plugin sees: not those of empty files. *)
Classified(p) == sub[p].reads

Mixes(p) == Cardinality(Classified(p)) > 1

(* Streamer::lock_object_plugin.  A submission that reads nothing goes on, *)
(* but has no workload to push.                                            *)
Classify(p) ==
  /\ pc[p] = "classify"
  /\ Goto(p, IF Mixes(p) THEN "rejected"
             ELSE IF Classified(p) = {} THEN "returned"
             ELSE IF Classified(p) = {FileSystem} THEN "push"
             ELSE "load")
  /\ UNCHANGED <<sub, shared>>

(* Mutant of Compared: any plugin will do. *)
ComparedNot(p, locked) == "push"

(* A submission is served by the plugin that is locked, or by none. *)
Compared(p, locked) == IF locked = PluginOf(p) THEN "push" ELSE "rejected"

(* The fast path. *)
LoadReady(p) ==
  /\ pc[p] = "load"
  /\ Goto(p, IF ready # None THEN Compared(p, ready) ELSE "lock")
  /\ UNCHANGED <<sub, shared>>

LockMutex(p) ==
  /\ pc[p] = "lock"
  /\ mutex = None
  /\ mutex' = p
  /\ Goto(p, "check")
  /\ UNCHANGED <<sub, ready, plugin, objPools, once, fsPools>>

(* The slow path: the plugin was locked meanwhile, or the pool is made. *)
CheckPlugin(p) ==
  /\ pc[p] = "check"
  /\ IF plugin # None
     THEN mutex' = None /\ Goto(p, Compared(p, plugin))
     ELSE UNCHANGED mutex /\ Goto(p, "create")
  /\ UNCHANGED <<sub, ready, plugin, objPools, once, fsPools>>

CreatePool(p) ==
  /\ pc[p] = "create"
  /\ objPools' = objPools + 1
  /\ Goto(p, "commit")
  /\ UNCHANGED <<sub, ready, mutex, plugin, once, fsPools>>

(* Mutant of CreatePoolThrows: the plugin was committed before. *)
CreatePoolThrowsLocked(p) ==
  /\ pc[p] = "create"
  /\ plugin' = PluginOf(p)
  /\ mutex' = None
  /\ Goto(p, "threw")
  /\ UNCHANGED <<sub, ready, objPools, once, fsPools>>

(* The constructor of the pool throws. *)
CreatePoolThrows(p) ==
  /\ pc[p] = "create"
  /\ mutex' = None
  /\ Goto(p, "threw")
  /\ UNCHANGED <<sub, ready, plugin, objPools, once, fsPools>>

CommitPlugin(p) ==
  /\ pc[p] = "commit"
  /\ plugin' = PluginOf(p)
  /\ Goto(p, "publish")
  /\ UNCHANGED <<sub, ready, mutex, objPools, once, fsPools>>

(* _ready_plugin is stored, and the mutex released. *)
PublishReady(p) ==
  /\ pc[p] = "publish"
  /\ ready' = PluginOf(p)
  /\ mutex' = None
  /\ Goto(p, "push")
  /\ UNCHANGED <<sub, plugin, objPools, once, fsPools>>

-----------------------------------------------------------------------------
(* push *)

PushesTo(p, backends) == pc[p] = "push" /\ sub[p].reads \subseteq backends

PushObject(p) ==
  /\ PushesTo(p, Plugins)
  /\ objPools > 0  \* the ASSERT of push
  /\ Goto(p, "returned")
  /\ sub' = [sub EXCEPT ![p] = Nothing]
  /\ UNCHANGED shared

(* call_once: one thread runs the function, the others wait for it; after  *)
(* an exception another one runs it.                                       *)
OnceBegin(p) ==
  /\ PushesTo(p, {FileSystem})
  /\ once = "unset"
  /\ once' = "running"
  /\ Goto(p, "once")
  /\ UNCHANGED <<sub, ready, mutex, plugin, objPools, fsPools>>

OncePool(p) ==
  /\ pc[p] = "once"
  /\ fsPools' = fsPools + 1
  /\ once' = "set"
  /\ Goto(p, "push")
  /\ UNCHANGED <<sub, ready, mutex, plugin, objPools>>

OnceThrows(p) ==
  /\ pc[p] = "once"
  /\ once' = "unset"
  /\ Goto(p, "threw")
  /\ UNCHANGED <<sub, ready, mutex, plugin, objPools, fsPools>>

PushFile(p) ==
  /\ PushesTo(p, {FileSystem})
  /\ once = "set"
  /\ Goto(p, "returned")
  /\ sub' = [sub EXCEPT ![p] = Nothing]
  /\ UNCHANGED shared

-----------------------------------------------------------------------------
Submitter(p) ==
  \/ Request(p)
  \/ Classify(p)
  \/ LoadReady(p)
  \/ LockMutex(p)
  \/ CheckPlugin(p)
  \/ CreatePool(p)
  \/ CreatePoolThrows(p)
  \/ CommitPlugin(p)
  \/ PublishReady(p)
  \/ PushObject(p)
  \/ OnceBegin(p)
  \/ OncePool(p)
  \/ OnceThrows(p)
  \/ PushFile(p)

Next == \E p \in Submitters : Submitter(p)

Spec == Init /\ [][Next]_vars

-----------------------------------------------------------------------------
(* Properties *)

Labels == {"returned", "rejected", "threw", "classify", "load", "lock", "check",
           "create", "commit", "publish", "push", "once"}

(* Where a submitter has the mutex. *)
Critical == {"check", "create", "commit", "publish"}

(* The types of the state of BackendPools and of the submitters; only a    *)
(* submitter between lock and unlock has _plugin_mutex.                    *)
TypeOK ==
  /\ ready \in Plugins \cup {None}
  /\ mutex \in {None} \cup {p \in Submitters : pc[p] \in Critical}
  /\ plugin \in Plugins \cup {None}
  /\ objPools \in Nat
  /\ once \in {"unset", "running", "set"}
  /\ fsPools \in Nat
  /\ sub \in [Submitters -> Submissions \cup {Nothing}]
  /\ pc \in [Submitters -> Labels]

(* The assertion in push: an object storage workload is dispatched only    *)
(* when there is a pool, also by a submitter that never took the mutex.    *)
DispatchFindsPool ==
  \A p \in Submitters : PushesTo(p, Plugins) => objPools > 0

(* A submission that is dispatched reads from one backend; if that is a    *)
(* plugin, it is the one the streamer is locked to.                        *)
OnePluginServes ==
  \A p \in Submitters :
    pc[p] = "push" => sub[p].reads = {FileSystem} \/ sub[p].reads = {plugin}

(* Each kind has at most one pool, however the submitters race: a second   *)
(* one would replace the first, with the workloads it has.                 *)
OnePoolPerKind == objPools <= 1 /\ fsPools <= 1

(* A submission is rejected only if it mixes backends, or reads from a     *)
(* plugin other than the locked one: never because of a file it does not   *)
(* read, nor because of a submission that failed.                          *)
RejectedOnlyOnConflict ==
  \A p \in Submitters :
    pc[p] = "rejected" =>
      \/ Cardinality(sub[p].reads) > 1
      \/ objPools > 0 /\ plugin # None /\ sub[p].reads # {plugin}

(* The lock is permanent, and published only when it is complete. *)
LockIsPermanent ==
  [][/\ plugin # None => plugin' = plugin
     /\ ready' # None => ready' = plugin' /\ objPools' > 0]_vars
=============================================================================
