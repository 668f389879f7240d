------------------------------ MODULE LockProofs ------------------------------
(***************************************************************************)
(* Proofs about the two places of the repository that look twice before    *)
(* they build something: BackendPools (a load, then a mutex) and           *)
(* ObjectStorageModel (a shared flock, then an exclusive one).  For any    *)
(* number of submitters, plugins and submissions; and for any processes,   *)
(* files and number of attempts.                                           *)
(***************************************************************************)
EXTENDS BackendPools, ObjectStorageModel, FiniteSetTheorems, TLAPS

-----------------------------------------------------------------------------
(* BackendPools *)

(* A submitter that is on its way through lock_object_plugin. *)
Locking == {"load", "lock"} \cup Critical

-----------------------------------------------------------------------------
(* The inductive invariant *)

(* Whoever is between lock and unlock is the one that has the mutex. *)
MutexHeld == \A p \in Submitters : pc[p] \in Critical => mutex = p

(* What is left of a submission after Classify: one backend. *)
SingleBackend ==
  \A p \in Submitters :
    /\ pc[p] \in Locking => \E q \in Plugins : sub[p].reads = {q}
    /\ pc[p] = "publish" => sub[p].reads = {plugin}
    /\ pc[p] = "push" => \/ sub[p].reads = {FileSystem}
                         \/ plugin # None /\ sub[p].reads = {plugin}
    /\ pc[p] = "once" => sub[p].reads = {FileSystem}

(* How far the lock is: first the pool, then the plugin, then ready. *)
LockOrder ==
  /\ \A p \in Submitters :
       /\ pc[p] \in {"create", "commit"} => plugin = None
       /\ pc[p] = "create" => objPools = 0
       /\ pc[p] = "commit" => objPools = 1
       /\ pc[p] = "publish" => plugin # None
  /\ plugin # None => objPools = 1
  /\ plugin = None /\ (\A p \in Submitters : pc[p] # "commit") => objPools = 0
  /\ ready # None => ready = plugin

(* call_once: one thread in the function, one pool after it. *)
OnceOrder ==
  /\ \A p \in Submitters : pc[p] = "once" => once = "running"
  /\ \A p, q \in Submitters : pc[p] = "once" /\ pc[q] = "once" => p = q
  /\ fsPools = IF once = "set" THEN 1 ELSE 0

IInv == TypeOK /\ MutexHeld /\ SingleBackend /\ LockOrder /\ OnceOrder
          /\ RejectedOnlyOnConflict

-----------------------------------------------------------------------------
(* A set with at most one element, and with an element, is a singleton. *)
LEMMA AtMostOne ==
  ASSUME NEW S, IsFiniteSet(S), ~(Cardinality(S) > 1), NEW x \in S
  PROVE  S = {x}
<1>1. /\ IsFiniteSet(S \ {x})
      /\ Cardinality(S \ {x}) = Cardinality(S) - 1
  BY FS_RemoveElement
<1>2. Cardinality(S) \in Nat /\ Cardinality(S \ {x}) \in Nat
  BY <1>1, FS_CardinalityType
<1>3. Cardinality(S \ {x}) = 0
  BY <1>1, <1>2
<1>4. S \ {x} = {}
  BY <1>1, <1>3, FS_EmptySet
<1> QED BY <1>4

(* PluginOf finds the one plugin of a submission. *)
LEMMA PluginIsIt ==
  ASSUME NEW p \in Submitters, NEW q \in Plugins, sub[p].reads = {q}
  PROVE  PluginOf(p) = q
BY DEF PluginOf

(* A submission that is neither mixed, nor of files, nor empty has one     *)
(* plugin.                                                                 *)
LEMMA ClassifiedPlugin ==
  ASSUME TypeOK, NEW p \in Submitters, ~Mixes(p), Classified(p) # {},
         Classified(p) # {FileSystem}
  PROVE  \E q \in Plugins : sub[p].reads = {q}
<1>1. sub[p].reads \in SUBSET Backends
  BY BackendPoolsAssumption DEF TypeOK, Nothing, Backends
<1>2. IsFiniteSet(Backends)
  BY BackendPoolsAssumption, FS_AddElement DEF Backends
<1>3. IsFiniteSet(sub[p].reads)
  BY <1>1, <1>2, FS_Subset
<1>4. PICK x : x \in sub[p].reads
  BY DEF Classified
<1>5. sub[p].reads = {x}
  BY <1>3, <1>4, AtMostOne DEF Mixes, Classified
<1>6. x \in Plugins
  BY <1>1, <1>5 DEF Classified, Backends
<1> QED BY <1>5, <1>6

(* Initially nothing is locked, built or submitted. *)
LEMMA InitIInv == Init => IInv
<1> SUFFICES ASSUME Init PROVE IInv
  OBVIOUS
<1> USE DEF Init
<1>1. TypeOK
  BY DEF TypeOK, Labels
<1>2. MutexHeld /\ SingleBackend
  BY DEF MutexHeld, SingleBackend, Critical, Locking
<1>3. LockOrder
  BY DEF LockOrder
<1>4. OnceOrder /\ RejectedOnlyOnConflict
  BY DEF OnceOrder, RejectedOnlyOnConflict
<1> QED BY <1>1, <1>2, <1>3, <1>4 DEF IInv

(* Every step of a submitter keeps the invariant. *)
LEMMA StepIInv ==
  ASSUME IInv, NEW p \in Submitters, Submitter(p)
  PROVE  IInv'
<1> USE BackendPoolsAssumption DEF IInv
<1>1. CASE Request(p)
  <2>1. PICK s \in Submissions : sub' = [sub EXCEPT ![p] = s]
    BY <1>1 DEF Request
  <2>2. /\ pc' = [pc EXCEPT ![p] = "classify"]
        /\ pc[p] \in {"returned", "rejected", "threw"}
    BY <1>1 DEF Request, Goto
  <2>3. UNCHANGED shared
    BY <1>1 DEF Request
  <2>4. TypeOK'
    BY <2>1, <2>2, <2>3 DEF TypeOK, shared, Labels, Critical
  <2>5. MutexHeld' /\ SingleBackend'
    BY <2>1, <2>2, <2>3
    DEF TypeOK, MutexHeld, SingleBackend, shared, Critical, Locking
  <2>6. LockOrder'
    BY <2>1, <2>2, <2>3 DEF TypeOK, LockOrder, shared
  <2>7. OnceOrder' /\ RejectedOnlyOnConflict'
    BY <2>1, <2>2, <2>3 DEF TypeOK, OnceOrder, RejectedOnlyOnConflict, shared
  <2> QED BY <2>4, <2>5, <2>6, <2>7
<1>2. CASE Classify(p)
  <2> DEFINE next == IF Mixes(p) THEN "rejected"
                     ELSE IF Classified(p) = {} THEN "returned"
                     ELSE IF Classified(p) = {FileSystem} THEN "push"
                     ELSE "load"
  <2>1. /\ pc[p] = "classify" /\ pc' = [pc EXCEPT ![p] = next]
        /\ UNCHANGED <<sub, shared>>
    BY <1>2 DEF Classify, Goto
  <2>2. next \in {"rejected", "returned", "push", "load"}
    OBVIOUS
  <2>3. next = "load" => \E q \in Plugins : sub[p].reads = {q}
    BY ClassifiedPlugin
  <2>4. next = "push" => sub[p].reads = {FileSystem}
    BY DEF Classified
  <2>5. next = "rejected" => Cardinality(sub[p].reads) > 1
    BY DEF Mixes, Classified
  <2> HIDE DEF next
  <2>6. TypeOK'
    BY <2>1, <2>2 DEF TypeOK, shared, Labels, Critical
  <2>7. MutexHeld'
    BY <2>1, <2>2 DEF TypeOK, MutexHeld, shared, Critical
  <2>8. SingleBackend'
    BY <2>1, <2>2, <2>3, <2>4
    DEF TypeOK, SingleBackend, shared, Critical, Locking
  <2>9. LockOrder'
    BY <2>1, <2>2 DEF TypeOK, LockOrder, shared
  <2>10. OnceOrder'
    BY <2>1, <2>2 DEF TypeOK, OnceOrder, shared
  <2>11. RejectedOnlyOnConflict'
    BY <2>1, <2>2, <2>5 DEF TypeOK, RejectedOnlyOnConflict, shared
  <2> QED BY <2>6, <2>7, <2>8, <2>9, <2>10, <2>11
<1>3. CASE LoadReady(p)
  <2> DEFINE next == IF ready # None THEN Compared(p, ready) ELSE "lock"
  <2>1. /\ pc[p] = "load" /\ pc' = [pc EXCEPT ![p] = next]
        /\ UNCHANGED <<sub, shared>>
    BY <1>3 DEF LoadReady, Goto
  <2>2. PICK q \in Plugins : sub[p].reads = {q}
    BY <2>1 DEF SingleBackend, Locking
  <2>3. next \in {"push", "rejected", "lock"}
    BY DEF Compared
  <2>4. next = "push" => plugin # None /\ sub[p].reads = {plugin}
    BY <2>2, PluginIsIt DEF Compared, LockOrder
  <2>5. next = "rejected" =>
          objPools > 0 /\ plugin # None /\ sub[p].reads # {plugin}
    BY <2>2, PluginIsIt DEF Compared, LockOrder
  <2> HIDE DEF next
  <2>6. TypeOK'
    BY <2>1, <2>3 DEF TypeOK, shared, Labels, Critical
  <2>7. MutexHeld'
    BY <2>1, <2>3 DEF TypeOK, MutexHeld, shared, Critical
  <2>8. SingleBackend'
    BY <2>1, <2>2, <2>3, <2>4
    DEF TypeOK, SingleBackend, shared, Critical, Locking
  <2>9. LockOrder'
    BY <2>1, <2>3 DEF TypeOK, LockOrder, shared
  <2>10. OnceOrder'
    BY <2>1, <2>3 DEF TypeOK, OnceOrder, shared
  <2>11. RejectedOnlyOnConflict'
    BY <2>1, <2>3, <2>5 DEF TypeOK, RejectedOnlyOnConflict, shared
  <2> QED BY <2>6, <2>7, <2>8, <2>9, <2>10, <2>11
<1>4. CASE LockMutex(p)
  <2> USE <1>4 DEF LockMutex, Goto
  <2>1. TypeOK'
    BY DEF TypeOK, Labels, Critical
  <2>2. MutexHeld'
    BY DEF TypeOK, MutexHeld, Critical
  <2>3. SingleBackend'
    BY DEF TypeOK, SingleBackend, Critical, Locking
  <2>4. LockOrder'
    BY DEF TypeOK, LockOrder
  <2>5. OnceOrder'
    BY DEF TypeOK, OnceOrder
  <2>6. RejectedOnlyOnConflict'
    BY DEF TypeOK, RejectedOnlyOnConflict
  <2> QED BY <2>1, <2>2, <2>3, <2>4, <2>5, <2>6
<1>5. CASE CheckPlugin(p)
  <2>1. PICK q \in Plugins : sub[p].reads = {q}
    BY <1>5 DEF CheckPlugin, SingleBackend, Locking, Critical
  <2>2. CASE plugin # None
    <3> DEFINE next == Compared(p, plugin)
    <3>1. /\ pc[p] = "check" /\ mutex' = None /\ pc' = [pc EXCEPT ![p] = next]
          /\ UNCHANGED <<sub, ready, plugin, objPools, once, fsPools>>
      BY <1>5, <2>2 DEF CheckPlugin, Goto
    <3>2. /\ next \in {"push", "rejected"}
          /\ next = "push" => sub[p].reads = {plugin}
          /\ next = "rejected" => objPools > 0 /\ sub[p].reads # {plugin}
      BY <2>1, <2>2, PluginIsIt DEF Compared, LockOrder
    <3> HIDE DEF next
    <3>3. mutex = p
      BY <3>1 DEF MutexHeld, Critical
    <3>4. TypeOK'
      BY <3>1, <3>2 DEF TypeOK, Labels
    <3>5. MutexHeld'
      BY <3>1, <3>2, <3>3 DEF TypeOK, MutexHeld, Critical
    <3>6. SingleBackend'
      BY <2>2, <3>1, <3>2 DEF TypeOK, SingleBackend, Critical, Locking
    <3>7. LockOrder'
      BY <2>2, <3>1, <3>2 DEF TypeOK, LockOrder
    <3>8. OnceOrder'
      BY <3>1, <3>2 DEF TypeOK, OnceOrder
    <3>9. RejectedOnlyOnConflict'
      BY <2>2, <3>1, <3>2 DEF TypeOK, RejectedOnlyOnConflict
    <3> QED BY <3>4, <3>5, <3>6, <3>7, <3>8, <3>9
  <2>3. CASE plugin = None
    <3>1. /\ pc[p] = "check" /\ pc' = [pc EXCEPT ![p] = "create"]
          /\ UNCHANGED <<sub, shared>>
      BY <1>5, <2>3 DEF CheckPlugin, Goto, shared
    <3>2. \A r \in Submitters : pc[r] # "commit"
      BY <3>1 DEF MutexHeld, Critical
    <3>3. TypeOK'
      BY <3>1 DEF TypeOK, shared, Labels, Critical
    <3>4. MutexHeld'
      BY <3>1 DEF TypeOK, MutexHeld, shared, Critical
    <3>5. SingleBackend'
      BY <2>1, <3>1 DEF TypeOK, SingleBackend, shared, Critical, Locking
    <3>6. LockOrder'
      BY <2>3, <3>1, <3>2 DEF TypeOK, LockOrder, shared
    <3>7. OnceOrder'
      BY <3>1 DEF TypeOK, OnceOrder, shared
    <3>8. RejectedOnlyOnConflict'
      BY <3>1 DEF TypeOK, RejectedOnlyOnConflict, shared
    <3> QED BY <3>3, <3>4, <3>5, <3>6, <3>7, <3>8
  <2> QED BY <2>2, <2>3
<1>6. CASE CreatePool(p)
  <2> USE <1>6 DEF CreatePool, Goto
  <2>a. \A q \in Submitters : pc[q] \in Critical => q = p
    BY DEF MutexHeld, Critical
  <2>1. TypeOK'
    BY <2>a DEF TypeOK, Labels, Critical
  <2>2. MutexHeld'
    BY <2>a DEF TypeOK, MutexHeld, Critical
  <2>3. SingleBackend'
    BY DEF TypeOK, SingleBackend, Critical, Locking
  <2>4. LockOrder'
    BY <2>a DEF TypeOK, LockOrder, Critical
  <2>5. OnceOrder'
    BY DEF TypeOK, OnceOrder
  <2>6. RejectedOnlyOnConflict'
    BY DEF TypeOK, RejectedOnlyOnConflict
  <2> QED BY <2>1, <2>2, <2>3, <2>4, <2>5, <2>6
<1>7. CASE CreatePoolThrows(p)
  <2> USE <1>7 DEF CreatePoolThrows, Goto
  <2>a. \A q \in Submitters : pc[q] \in Critical => q = p
    BY DEF MutexHeld, Critical
  <2>1. TypeOK'
    BY <2>a DEF TypeOK, Labels, Critical
  <2>2. MutexHeld'
    BY <2>a DEF TypeOK, MutexHeld, Critical
  <2>3. SingleBackend'
    BY DEF TypeOK, SingleBackend, Critical, Locking
  <2>4. LockOrder'
    BY <2>a DEF TypeOK, LockOrder, Critical
  <2>5. OnceOrder'
    BY DEF TypeOK, OnceOrder
  <2>6. RejectedOnlyOnConflict'
    BY DEF TypeOK, RejectedOnlyOnConflict
  <2> QED BY <2>1, <2>2, <2>3, <2>4, <2>5, <2>6
<1>8. CASE CommitPlugin(p)
  <2> USE <1>8 DEF CommitPlugin, Goto
  <2>a. \A q \in Submitters : pc[q] \in Critical => q = p
    BY DEF MutexHeld, Critical
  <2>b. PICK q \in Plugins : sub[p].reads = {q} /\ PluginOf(p) = q
    BY PluginIsIt DEF SingleBackend, Locking, Critical
  <2>1. TypeOK'
    BY <2>a, <2>b DEF TypeOK, Labels, Critical
  <2>2. MutexHeld'
    BY <2>a, <2>b DEF TypeOK, MutexHeld, Critical
  <2>3. SingleBackend'
    BY <2>a, <2>b DEF TypeOK, SingleBackend, LockOrder, Critical, Locking
  <2>4. LockOrder'
    BY <2>a, <2>b DEF TypeOK, LockOrder, Critical
  <2>5. OnceOrder'
    BY DEF TypeOK, OnceOrder
  <2>6. RejectedOnlyOnConflict'
    BY <2>a, <2>b DEF TypeOK, LockOrder, RejectedOnlyOnConflict
  <2> QED BY <2>1, <2>2, <2>3, <2>4, <2>5, <2>6
<1>9. CASE PublishReady(p)
  <2> USE <1>9 DEF PublishReady, Goto
  <2>a. \A q \in Submitters : pc[q] \in Critical => q = p
    BY DEF MutexHeld, Critical
  <2>b. PICK q \in Plugins : sub[p].reads = {q} /\ PluginOf(p) = q
    BY PluginIsIt DEF SingleBackend, Locking, Critical
  <2>1. TypeOK'
    BY <2>a, <2>b DEF TypeOK, Labels, Critical
  <2>2. MutexHeld'
    BY <2>a, <2>b DEF TypeOK, MutexHeld, Critical
  <2>3. SingleBackend'
    BY <2>a, <2>b DEF TypeOK, SingleBackend, LockOrder, Critical, Locking
  <2>4. LockOrder'
    BY <2>a, <2>b DEF TypeOK, SingleBackend, LockOrder, Critical
  <2>5. OnceOrder'
    BY DEF TypeOK, OnceOrder
  <2>6. RejectedOnlyOnConflict'
    BY <2>a, <2>b DEF TypeOK, LockOrder, RejectedOnlyOnConflict
  <2> QED BY <2>1, <2>2, <2>3, <2>4, <2>5, <2>6
<1>10. CASE PushObject(p)
  <2> USE <1>10 DEF PushObject, Goto
  <2> USE DEF PushesTo, shared
  <2>1. TypeOK'
    BY DEF TypeOK, Labels, Critical
  <2>2. MutexHeld'
    BY DEF TypeOK, MutexHeld, Critical
  <2>3. SingleBackend'
    BY DEF TypeOK, SingleBackend, Critical, Locking
  <2>4. LockOrder'
    BY DEF TypeOK, LockOrder
  <2>5. OnceOrder'
    BY DEF TypeOK, OnceOrder
  <2>6. RejectedOnlyOnConflict'
    BY DEF TypeOK, RejectedOnlyOnConflict
  <2> QED BY <2>1, <2>2, <2>3, <2>4, <2>5, <2>6
<1>11. CASE OnceBegin(p)
  <2> USE <1>11 DEF OnceBegin, Goto
  <2> USE DEF PushesTo, shared
  <2>1. TypeOK'
    BY DEF TypeOK, Labels, Critical
  <2>2. MutexHeld'
    BY DEF TypeOK, MutexHeld, Critical
  <2>3. SingleBackend'
    BY DEF TypeOK, SingleBackend, Critical, Locking
  <2>4. LockOrder'
    BY DEF TypeOK, LockOrder
  <2>5. OnceOrder'
    BY DEF TypeOK, OnceOrder
  <2>6. RejectedOnlyOnConflict'
    BY DEF TypeOK, RejectedOnlyOnConflict
  <2> QED BY <2>1, <2>2, <2>3, <2>4, <2>5, <2>6
<1>12. CASE OncePool(p)
  <2> USE <1>12 DEF OncePool, Goto
  <2>1. TypeOK'
    BY DEF TypeOK, Labels, Critical
  <2>2. MutexHeld'
    BY DEF TypeOK, MutexHeld, Critical
  <2>3. SingleBackend'
    BY DEF TypeOK, SingleBackend, Critical, Locking
  <2>4. LockOrder'
    BY DEF TypeOK, LockOrder
  <2>5. OnceOrder'
    BY DEF TypeOK, OnceOrder
  <2>6. RejectedOnlyOnConflict'
    BY DEF TypeOK, RejectedOnlyOnConflict
  <2> QED BY <2>1, <2>2, <2>3, <2>4, <2>5, <2>6
<1>13. CASE OnceThrows(p)
  <2> USE <1>13 DEF OnceThrows, Goto
  <2>1. TypeOK'
    BY DEF TypeOK, Labels, Critical
  <2>2. MutexHeld'
    BY DEF TypeOK, MutexHeld, Critical
  <2>3. SingleBackend'
    BY DEF TypeOK, SingleBackend, Critical, Locking
  <2>4. LockOrder'
    BY DEF TypeOK, LockOrder
  <2>5. OnceOrder'
    BY DEF TypeOK, OnceOrder
  <2>6. RejectedOnlyOnConflict'
    BY DEF TypeOK, RejectedOnlyOnConflict
  <2> QED BY <2>1, <2>2, <2>3, <2>4, <2>5, <2>6
<1>14. CASE PushFile(p)
  <2> USE <1>14 DEF PushFile, Goto
  <2> USE DEF PushesTo, shared
  <2>1. TypeOK'
    BY DEF TypeOK, Labels, Critical
  <2>2. MutexHeld'
    BY DEF TypeOK, MutexHeld, Critical
  <2>3. SingleBackend'
    BY DEF TypeOK, SingleBackend, Critical, Locking
  <2>4. LockOrder'
    BY DEF TypeOK, LockOrder
  <2>5. OnceOrder'
    BY DEF TypeOK, OnceOrder
  <2>6. RejectedOnlyOnConflict'
    BY DEF TypeOK, RejectedOnlyOnConflict
  <2> QED BY <2>1, <2>2, <2>3, <2>4, <2>5, <2>6
<1> QED
  BY <1>1, <1>2, <1>3, <1>4, <1>5, <1>6, <1>7, <1>8, <1>9, <1>10, <1>11, <1>12,
     <1>13, <1>14 DEF Submitter

-----------------------------------------------------------------------------
(* The invariant holds of every behaviour, whatever the submitters race    *)
(* for.                                                                    *)
THEOREM InvariantHolds == Spec => []IInv
<1>1. IInv /\ [Next]_vars => IInv'
  <2> SUFFICES ASSUME IInv, [Next]_vars PROVE IInv'
    OBVIOUS
  <2>1. CASE Next
    BY <2>1, StepIInv DEF Next
  <2>2. CASE UNCHANGED vars
    <3> USE <2>2 DEF IInv, vars, shared
    <3>1. TypeOK' /\ MutexHeld'
      BY DEF TypeOK, MutexHeld
    <3>2. SingleBackend' /\ LockOrder'
      BY DEF SingleBackend, LockOrder
    <3>3. OnceOrder' /\ RejectedOnlyOnConflict'
      BY DEF OnceOrder, RejectedOnlyOnConflict
    <3> QED BY <3>1, <3>2, <3>3
  <2> QED BY <2>1, <2>2
<1> QED BY <1>1, InitIInv, PTL DEF Spec

(* The variables keep their types; the mutex is nobody's or that of a      *)
(* submitter between lock and unlock.                                      *)
THEOREM PoolsTypeCorrect == Spec => []TypeOK
BY InvariantHolds, PTL DEF IInv

(* The assertion in push never fails: whoever dispatches an object storage *)
(* workload, also past the mutex, finds a pool.                            *)
THEOREM DispatchCorrect == Spec => []DispatchFindsPool
<1>1. IInv => DispatchFindsPool
  BY BackendPoolsAssumption
     DEF IInv, DispatchFindsPool, SingleBackend, LockOrder, PushesTo
<1> QED BY <1>1, InvariantHolds, PTL

(* What is dispatched reads files, or from the plugin of the streamer. *)
THEOREM PluginCorrect == Spec => []OnePluginServes
<1>1. IInv => OnePluginServes
  BY DEF IInv, OnePluginServes, SingleBackend
<1> QED BY <1>1, InvariantHolds, PTL

(* No race makes a second pool of a kind. *)
THEOREM OnePoolCorrect == Spec => []OnePoolPerKind
<1>1. IInv => OnePoolPerKind
  <2> SUFFICES ASSUME IInv PROVE objPools <= 1 /\ fsPools <= 1
    BY DEF OnePoolPerKind
  <2>1. fsPools <= 1
    BY DEF IInv, OnceOrder
  <2>2. objPools = 0 \/ objPools = 1
    BY DEF IInv, LockOrder
  <2> QED BY <2>1, <2>2
<1> QED BY <1>1, InvariantHolds, PTL

(* lock_object_plugin rejects only what conflicts. *)
THEOREM RejectionCorrect == Spec => []RejectedOnlyOnConflict
BY InvariantHolds, PTL DEF IInv

(* The plugin never changes, and _ready_plugin is set only to it and after *)
(* its pool is there.                                                      *)
THEOREM LockCorrect == Spec => LockIsPermanent
<1> DEFINE Kept == /\ plugin # None => plugin' = plugin
                   /\ ready' # None => ready' = plugin' /\ objPools' > 0
<1>1. IInv /\ IInv' /\ [Next]_vars => [Kept]_vars
  <2> SUFFICES ASSUME IInv, IInv', Next PROVE Kept
    OBVIOUS
  <2>1. PICK p \in Submitters : Submitter(p)
    BY DEF Next
  <2>2. plugin # None => plugin' = plugin
    <3>1. CASE CommitPlugin(p)
      BY <3>1 DEF CommitPlugin, IInv, LockOrder
    <3>2. CASE ~CommitPlugin(p)
      BY <2>1, <3>2
      DEF Submitter, Request, Classify, LoadReady, LockMutex, CheckPlugin,
          CreatePool, CreatePoolThrows, PublishReady, PushObject, OnceBegin,
          OncePool, OnceThrows, PushFile, shared
    <3> QED BY <3>1, <3>2
  <2>3. ready' # None => ready' = plugin' /\ objPools' > 0
    <3>1. ready' # None => ready' = plugin'
      BY DEF IInv, LockOrder
    <3>2. plugin' # None => objPools' = 1
      BY DEF IInv, LockOrder
    <3> QED BY <3>1, <3>2
  <2> QED BY <2>2, <2>3
<1> QED BY <1>1, InvariantHolds, PTL DEF Spec, LockIsPermanent

-----------------------------------------------------------------------------
(***************************************************************************)
(* ObjectStorageModel: the lock excludes, the sentinel means a whole       *)
(* download, who has it keeps it, and a complete download is never touched *)
(* again.                                                                  *)
(***************************************************************************)

(* Places that are reached only while there is no sentinel: the process    *)
(* looked for it under the exclusive lock it still has.                    *)
Absent ==
  \A p \in Procs : place[p] \in {"clean", "pull", "pulled"} => ~sentinel

(* Places where the sentinel has been seen or written. *)
Present ==
  \A p \in Procs :
    place[p] \in {"downgrade", "reshare", "skip", "written", "done"} =>
      sentinel

Pulled ==
  \A p \in Procs :
    place[p] = "pulled" => \A f \in stored : file[f] = "whole"

(* What is in the directory while files are pulled into it: only files of  *)
(* the model, so that one that is not absent shows that the model has one. *)
OnlyStored ==
  \A p \in Procs :
    place[p] \in {"pull", "pulled"} =>
      \A f \in Files : file[f] # "absent" => f \in stored

ModelInv ==
  /\ ModelTypeOK
  /\ Exclusion
  /\ Absent
  /\ Present
  /\ Pulled
  /\ OnlyStored
  /\ SentinelMeansWhole

(* At first no process has started and there is no sentinel. *)
LEMMA ModelInitInv == ModelInit => ModelInv
<1> SUFFICES ASSUME ModelInit
             PROVE  ModelInv
  OBVIOUS
<1>1. \A p \in Procs : place[p] = "failed" /\ lock[p] = "none"
  BY DEF ModelInit
<1>2. ModelTypeOK
  <2>1. stored \subseteq Files /\ sentinel \in BOOLEAN
    BY DEF ModelInit
  <2>2. /\ place \in [Procs -> Ended \cup Constructor \cup Block]
        /\ lock \in [Procs -> {"none", "SH", "EX"}]
        /\ attempts \in [Procs -> Nat]
    BY DEF ModelInit, Ended
  <2>3. file \in [Files -> {"absent", "partial", "whole"}]
    BY DEF ModelInit
  <2> QED
    BY <1>1, <2>1, <2>2, <2>3 DEF ModelTypeOK
<1>3. Exclusion /\ Absent /\ Present /\ Pulled /\ OnlyStored
  BY <1>1 DEF Exclusion, Absent, Present, Pulled, OnlyStored
<1>4. SentinelMeansWhole
  BY DEF ModelInit, SentinelMeansWhole
<1> QED
  BY <1>2, <1>3, <1>4 DEF ModelInv

(* Two processes at places that need the exclusive lock are one. *)
LEMMA OneOwner ==
  ASSUME ModelInv, NEW p \in Procs, NEW q \in Procs, lock[p] = "EX", q # p
  PROVE  /\ lock[q] = "none"
         /\ place[q] \notin {"shared", "unlock", "skip", "exclusive",
                             "downgrade", "clean", "pull", "pulled", "written"}
  BY DEF ModelInv, ModelTypeOK, Exclusion

(* The invariant is inductive.  *)
LEMMA ModelNextInv == ModelInv /\ [ModelNext]_modelVars => ModelInv'
<1> SUFFICES ASSUME ModelInv, [ModelNext]_modelVars
             PROVE  ModelInv'
  OBVIOUS
<1> USE DEF ModelInv
<1>1. CASE UNCHANGED modelVars
  BY <1>1 DEF modelVars, ModelTypeOK, Exclusion, Absent, Present, Pulled,
              OnlyStored, SentinelMeansWhole
<1>2. ASSUME NEW p \in Procs, Start(p)
      PROVE  ModelInv'
  BY <1>2 DEF Start, ModelTypeOK, Exclusion, Absent, Present, Pulled,
              OnlyStored, SentinelMeansWhole, Ended, Constructor, Block
<1>3. ASSUME NEW p \in Procs, LockShared(p)
      PROVE  ModelInv'
  BY <1>3 DEF LockShared, Go, TakeShared, ModelTypeOK, Exclusion, Absent,
              Present, Pulled, OnlyStored, SentinelMeansWhole, Ended,
              Constructor, Block
<1>4. ASSUME NEW p \in Procs, Check(p)
      PROVE  ModelInv'
  BY <1>4 DEF Check, Go, ModelTypeOK, Exclusion, Absent, Present, Pulled,
              OnlyStored, SentinelMeansWhole, Ended, Constructor, Block
<1>5. ASSUME NEW p \in Procs, Unlock(p)
      PROVE  ModelInv'
  BY <1>5 DEF Unlock, Go, ModelTypeOK, Exclusion, Absent, Present, Pulled,
              OnlyStored, SentinelMeansWhole, Ended, Constructor, Block
<1>6. ASSUME NEW p \in Procs, LockExclusive(p)
      PROVE  ModelInv'
  BY <1>6 DEF LockExclusive, Go, ModelTypeOK, Exclusion, Absent, Present,
              Pulled, OnlyStored, SentinelMeansWhole, Ended, Constructor, Block
<1>7. ASSUME NEW p \in Procs, Recheck(p)
      PROVE  ModelInv'
  BY <1>7 DEF Recheck, Go, ModelTypeOK, Exclusion, Absent, Present, Pulled,
              OnlyStored, SentinelMeansWhole, Ended, Constructor, Block
<1>8. ASSUME NEW p \in Procs, Downgrade(p)
      PROVE  ModelInv'
  BY <1>8 DEF Downgrade, Go, ModelTypeOK, Exclusion, Absent, Present, Pulled,
              OnlyStored, SentinelMeansWhole, Ended, Constructor, Block
<1>9. ASSUME NEW p \in Procs, Reshare(p)
      PROVE  ModelInv'
  BY <1>9 DEF Reshare, Go, TakeShared, ModelTypeOK, Exclusion, Absent, Present,
              Pulled, OnlyStored, SentinelMeansWhole, Ended, Constructor, Block
<1>10. ASSUME NEW p \in Procs, RemoveFile(p)
       PROVE  ModelInv'
  <2>1. ~sentinel /\ UNCHANGED sentinel
    BY <1>10 DEF RemoveFile, Absent, ModelTypeOK
  <2>2. \A q \in Procs \ {p} : place[q] \notin {"pull", "pulled"}
    BY <1>10, OneOwner DEF RemoveFile, ModelTypeOK
  <2>3. ModelTypeOK'
    BY <1>10 DEF RemoveFile, ModelTypeOK, Ended, Constructor, Block
  <2>4. Exclusion' /\ Absent' /\ Present' /\ SentinelMeansWhole'
    BY <1>10, <2>1 DEF RemoveFile, Exclusion, Absent, Present,
                       SentinelMeansWhole
  <2>5. Pulled' /\ OnlyStored'
    BY <1>10, <2>2 DEF RemoveFile, Pulled, OnlyStored
  <2> QED
    BY <2>3, <2>4, <2>5
<1>11. ASSUME NEW p \in Procs, MakeDirs(p)
       PROVE  ModelInv'
  BY <1>11 DEF MakeDirs, Go, ModelTypeOK, Exclusion, Absent, Present, Pulled,
               OnlyStored, SentinelMeansWhole, Ended, Constructor, Block
<1>12. ASSUME NEW p \in Procs, Pull(p)
       PROVE  ModelInv'
  <2>1. ~sentinel /\ UNCHANGED sentinel
    BY <1>12 DEF Pull, Absent, ModelTypeOK
  <2>2. \A q \in Procs : place[q] # "pulled"
    BY <1>12, OneOwner DEF Pull, ModelTypeOK
  <2>3. ModelTypeOK'
    BY <1>12 DEF Pull, ModelTypeOK, Ended, Constructor, Block
  <2>4. Exclusion' /\ Absent' /\ Present' /\ SentinelMeansWhole'
    BY <1>12, <2>1 DEF Pull, Exclusion, Absent, Present, SentinelMeansWhole
  <2>5. Pulled' /\ OnlyStored'
    BY <1>12, <2>2 DEF Pull, Pulled, OnlyStored, ModelTypeOK
  <2> QED
    BY <2>3, <2>4, <2>5
<1>13. ASSUME NEW p \in Procs, PullsReturn(p)
       PROVE  ModelInv'
  BY <1>13 DEF PullsReturn, Go, ModelTypeOK, Exclusion, Absent, Present,
               Pulled, OnlyStored, SentinelMeansWhole, Ended, Constructor,
               Block
<1>14. ASSUME NEW p \in Procs, WriteSentinel(p)
       PROVE  ModelInv'
  <2>1. place[p] = "pulled" /\ lock[p] = "EX"
    BY <1>14 DEF WriteSentinel, Go, ModelTypeOK
  <2>2. stored # {} /\ \A f \in stored : file[f] = "whole"
    BY <1>14, <2>1 DEF WriteSentinel, Pulled, OnlyStored
  <2>3. \A q \in Procs \ {p} : place[q] \notin {"clean", "pull", "pulled"}
    BY <2>1, OneOwner
  <2>4. ModelTypeOK' /\ Exclusion'
    BY <1>14 DEF WriteSentinel, Go, ModelTypeOK, Exclusion, Ended, Constructor,
                 Block
  <2>5. Absent' /\ Pulled' /\ OnlyStored'
    BY <1>14, <2>3 DEF WriteSentinel, Go, ModelTypeOK, Absent, Pulled,
                       OnlyStored
  <2>6. Present' /\ SentinelMeansWhole'
    BY <1>14, <2>2 DEF WriteSentinel, Present, SentinelMeansWhole
  <2> QED
    BY <2>4, <2>5, <2>6
<1>15. ASSUME NEW p \in Procs, Exit(p)
       PROVE  ModelInv'
  BY <1>15 DEF Exit, ModelTypeOK, Exclusion, Absent, Present, Pulled,
               OnlyStored, SentinelMeansWhole, Ended, Constructor, Block
<1>16. ASSUME NEW p \in Procs, ConstructorRaises(p)
       PROVE  ModelInv'
  BY <1>16 DEF ConstructorRaises, ModelTypeOK, Exclusion, Absent, Present,
               Pulled, OnlyStored, SentinelMeansWhole, Ended, Constructor,
               Block
<1>17. ASSUME NEW p \in Procs, BlockRaises(p)
       PROVE  ModelInv'
  BY <1>17 DEF BlockRaises, ModelTypeOK, Exclusion, Absent, Present, Pulled,
               OnlyStored, SentinelMeansWhole, Ended, Constructor, Block
<1>18. ASSUME NEW p \in Procs, Kill(p)
       PROVE  ModelInv'
  BY <1>18 DEF Kill, ModelTypeOK, Exclusion, Absent, Present, Pulled,
               OnlyStored, SentinelMeansWhole, Ended, Constructor, Block
<1> QED
  BY <1>1, <1>2, <1>3, <1>4, <1>5, <1>6, <1>7, <1>8, <1>9, <1>10, <1>11,
     <1>12, <1>13, <1>14, <1>15, <1>16, <1>17, <1>18
     DEF ModelNext, Step

(* The invariant holds in every state of the specification. *)
THEOREM ModelInvariance == ModelSpec => []ModelInv
  BY ModelInitInv, ModelNextInv, PTL DEF ModelSpec

(* ModelTypeOK: the types, and the lock each place of the code has. *)
THEOREM ModelTypeCorrect == ModelSpec => []ModelTypeOK
<1>1. ModelInv => ModelTypeOK
  BY DEF ModelInv
<1> QED
  BY <1>1, ModelInvariance, PTL

(* Exclusion: flock's promise is kept by every step of the protocol. *)
THEOREM LockExcludes == ModelSpec => []Exclusion
<1>1. ModelInv => Exclusion
  BY DEF ModelInv
<1> QED
  BY <1>1, ModelInvariance, PTL

(* SentinelMeansWhole: .runai_complete is never beside a partial download. *)
THEOREM SentinelIsTrue == ModelSpec => []SentinelMeansWhole
<1>1. ModelInv => SentinelMeansWhole
  BY DEF ModelInv
<1> QED
  BY <1>1, ModelInvariance, PTL

(* UsersKeepFiles: a process that was told the download is complete, or    *)
(* has completed it, has its files as long as it wants.                    *)
THEOREM UsersAreSafe == ModelSpec => []UsersKeepFiles
<1>1. ModelInv => UsersKeepFiles
  BY DEF ModelInv, Present, SentinelMeansWhole, UsersKeepFiles
<1> QED
  BY <1>1, ModelInvariance, PTL

(* CompleteIsFinal: no step removes the sentinel or changes a file once    *)
(* the sentinel is there; only those who hold the exclusive lock and saw   *)
(* no sentinel change anything.                                            *)
THEOREM CompleteStays == ModelSpec => CompleteIsFinal
<1>1. ModelInv /\ [ModelNext]_modelVars =>
        [sentinel => sentinel' /\ file' = file]_modelVars
  <2> SUFFICES ASSUME ModelInv, sentinel, ModelNext
               PROVE  sentinel' /\ file' = file
    OBVIOUS
  <2>1. \A p \in Procs : place[p] \notin {"clean", "pull", "pulled"}
    BY DEF ModelInv, Absent
  <2>2. \A p \in Procs : ~RemoveFile(p) /\ ~Pull(p)
    BY <2>1 DEF RemoveFile, Pull
  <2> QED
    BY <2>2 DEF ModelNext, Step, Start, LockShared, TakeShared, Check, Unlock,
                LockExclusive, Recheck, Downgrade, Reshare, MakeDirs,
                PullsReturn, WriteSentinel, Exit, ConstructorRaises,
                BlockRaises, Kill
<1> QED
  BY <1>1, ModelInvariance, PTL DEF ModelSpec, CompleteIsFinal

=============================================================================
