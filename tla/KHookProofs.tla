---------------------------- MODULE KHookProofs ----------------------------
(***************************************************************************)
(* Proofs about the kretprobe of src/src/hook/khook.c, for any number of   *)
(* tasks, instances and mounts: the pool keyed by a recycled address never *)
(* mixes two mounts up, and memory is lost only where the model says so.   *)
(***************************************************************************)
EXTENDS KHook, FiniteSetTheorems, TLAPS

USE KHookAssumption

Modules == {"none", "loaded", "disarmed", "drained", "cleared", "gone"}
Labels == {"out", "e_alloc", "e_insert", "inside", "r_pop", "r_free"}

TypeOK ==
  /\ module \in Modules
  /\ pool \in [Instances -> Params \cup {None}]
  /\ freed \in BOOLEAN /\ oops \in BOOLEAN
  /\ ri \in [Tasks -> Instances \cup {None}]
  /\ pc \in [Tasks -> Labels]
  /\ params \in [Tasks -> Params \cup {None}]
  /\ mounts \in Nat /\ lost \in Nat /\ paths \in Nat
  /\ calls \in [Tasks -> Nat]
  /\ flags \in [Tasks -> Flags]

(* A call that handlers run for has an instance, and no two calls share one. *)
InstancesExclusive ==
  /\ \A t \in Tasks : pc[t] = "out" => ri[t] = None
  /\ \A t \in Tasks : InHandler(t) => ri[t] # None
  /\ \A t, u \in Tasks : t # u /\ ri[t] # None => ri[t] # ri[u]

(* The entry under the instance of a call was made by this call, in its    *)
(* entry handler, and is gone after its return handler has looked it up.   *)
EntriesOwned ==
  /\ \A t \in Tasks : pc[t] \in {"e_alloc", "e_insert", "r_free"} => pool[ri[t]] = None
  /\ \A t \in Tasks : ri[t] # None /\ pool[ri[t]] # None =>
       pool[ri[t]].task = t /\ pool[ri[t]].call = calls[t]
  /\ \A t \in Tasks : params[t] # None =>
       /\ pc[t] \in {"e_insert", "r_free"}
       /\ params[t].task = t /\ params[t].call = calls[t]

(* While the probe is armed there is no entry without its call.            *)
NoOrphan == module = "loaded" => \A i \in Saved : \E t \in Tasks : ri[t] = i

(* The unload has waited for the handlers before it touches the pool.      *)
UnloadOrdered ==
  /\ freed => module = "gone"
  /\ module \in {"drained", "cleared"} \/ freed => \A t \in Tasks : ~InHandler(t)
  /\ lost > 0 => module \in {"cleared", "gone"}

(* The instances whose call has arguments saved, or about to be saved, and *)
(* those whose call is about to allocate.                                  *)
Keeping == Saved \cup {ri[t] : t \in {u \in Tasks : pc[u] = "e_insert"}}
Starting == {ri[t] : t \in {u \in Tasks : pc[u] = "e_alloc"}}

(* Every saved argument has its path buffer, every path buffer its mount.  *)
PathsCounted ==
  /\ lost =< Cardinality(Instances)
  /\ lost + Cardinality(Keeping) =< paths
  /\ paths + Cardinality(Starting) =< mounts

IInv ==
  TypeOK /\ InstancesExclusive /\ EntriesOwned /\ NoOrphan /\ UnloadOrdered /\ PathsCounted

-----------------------------------------------------------------------------
(* What entry_handler stores are params of its own mount.                  *)
LEMMA ArgsType ==
  ASSUME TypeOK, NEW t \in Tasks, NEW regs \in pt_regs(t)
  PROVE  /\ Args(t, regs) \in Params /\ Args(t, regs) # None
         /\ Args(t, regs).task = t /\ Args(t, regs).call = calls[t]
<1>1. pt_regs_params(regs, 3) \in Flags
  BY DEF pt_regs, pt_regs_params
<1>2. calls[t] \in Nat
  BY DEF TypeOK
<1> QED
  BY <1>1, <1>2 DEF Args, Params

(* An instance of a call is not None.                                      *)
LEMMA InstanceOf ==
  ASSUME TypeOK, NEW t \in Tasks, ri[t] # None
  PROVE  ri[t] \in Instances
BY DEF TypeOK

(* Initially nothing is saved and nobody mounts.                           *)
LEMMA InitIInv ==
  ASSUME Init
  PROVE  IInv
<1>1. TypeOK
  BY DEF Init, TypeOK, Modules, Labels
<1>2. InstancesExclusive /\ EntriesOwned /\ UnloadOrdered
  BY DEF Init, InstancesExclusive, EntriesOwned, UnloadOrdered, InHandler
<1>3. Saved = {} /\ Keeping = {} /\ Starting = {}
  BY DEF Init, Saved, Keeping, Starting
<1>4. NoOrphan
  BY <1>3 DEF NoOrphan
<1>5. Cardinality(Instances) \in Nat /\ Cardinality({}) = 0
  BY FS_CardinalityType, FS_EmptySet
<1>6. PathsCounted
  BY <1>3, <1>5 DEF Init, PathsCounted
<1> QED
  BY <1>1, <1>2, <1>4, <1>6 DEF IInv

(* Every step keeps the types.                                             *)
LEMMA TypeInductive ==
  ASSUME IInv, [Next]_vars
  PROVE  TypeOK'
<1> USE DEF TypeOK
<1>0. TypeOK /\ InstancesExclusive
  BY DEF IInv
<1>l. Labels = {"out", "e_alloc", "e_insert", "inside", "r_pop", "r_free"}
  BY DEF Labels
<1>m. Modules = {"none", "loaded", "disarmed", "drained", "cleared", "gone"}
  BY DEF Modules
<1>u. CASE UNCHANGED vars
  BY <1>0, <1>u DEF vars
<1>1. CASE hook_init
  BY <1>0, <1>1, <1>m DEF hook_init, call
<1>2. CASE unregister_kretprobe
  BY <1>0, <1>2, <1>m DEF unregister_kretprobe, call
<1>3. CASE handlers_drained
  BY <1>0, <1>3, <1>m DEF handlers_drained, call
<1>4. CASE probe_pool_clear
  <2>1. IsFiniteSet(Saved)
    BY FS_Subset DEF Saved
  <2>2. Cardinality(Saved) \in Nat
    BY <2>1, FS_CardinalityType
  <2> QED
    BY <1>0, <1>4, <1>m, <2>2 DEF probe_pool_clear, call
<1>5. CASE hook_exit
  BY <1>0, <1>5, <1>m DEF hook_exit, call
<1>6. ASSUME NEW t \in Tasks, path_mount(t) PROVE TypeOK'
  <2>1. ri' \in [Tasks -> Instances \cup {None}]
    BY <1>0, <1>6 DEF path_mount, Free
  <2>2. pc' \in [Tasks -> Labels]
    BY <1>0, <1>6, <1>l DEF path_mount
  <2>3. flags' \in [Tasks -> Flags] /\ calls' \in [Tasks -> Nat] /\ mounts' \in Nat
    BY <1>0, <1>6 DEF path_mount
  <2> QED
    BY <1>0, <1>6, <2>1, <2>2, <2>3 DEF path_mount
<1>7. ASSUME NEW t \in Tasks, entry_handler(t) PROVE TypeOK'
  <2>1. params' \in [Tasks -> Params \cup {None}]
    BY <1>0, <1>7, ArgsType DEF entry_handler
  <2> QED
    BY <1>0, <1>7, <1>l, <2>1 DEF entry_handler
<1>8. ASSUME NEW t \in Tasks, insert_params(t) PROVE TypeOK'
  <2>1. pool' \in [Instances -> Params \cup {None}]
    BY <1>0, <1>8 DEF insert_params, insert_node, InstancesExclusive, InHandler
  <2> QED
    BY <1>0, <1>8, <1>l, <2>1 DEF insert_params
<1>9. ASSUME NEW t \in Tasks, mount_returns(t) PROVE TypeOK'
  BY <1>0, <1>9, <1>l DEF mount_returns
<1>10. ASSUME NEW t \in Tasks, pop_params(t) PROVE TypeOK'
  <2>1. ri[t] \in Instances
    BY <1>0, <1>10 DEF pop_params, InstancesExclusive, InHandler
  <2> QED
    BY <1>0, <1>10, <1>l, <2>1 DEF pop_params
<1>11. ASSUME NEW t \in Tasks, ret_handler(t) PROVE TypeOK'
  BY <1>0, <1>11, <1>l DEF ret_handler
<1> QED
  BY <1>u, <1>1, <1>2, <1>3, <1>4, <1>5, <1>6, <1>7, <1>8, <1>9, <1>10, <1>11
     DEF Next, Exit, TaskStep

(* Every step keeps the instances apart, the entries with their calls, and *)
(* the unload behind the handlers.                                         *)
LEMMA OwnershipInductive ==
  ASSUME IInv, [Next]_vars
  PROVE  InstancesExclusive' /\ EntriesOwned' /\ NoOrphan' /\ UnloadOrdered'
<1> DEFINE Owned == InstancesExclusive /\ EntriesOwned /\ NoOrphan /\ UnloadOrdered
<1> USE DEF InstancesExclusive, EntriesOwned, NoOrphan, UnloadOrdered, InHandler, Saved
<1>0. TypeOK /\ Owned
  BY DEF IInv
<1>1. pc \in [Tasks -> Labels] /\ ri \in [Tasks -> Instances \cup {None}]
      /\ calls \in [Tasks -> Nat] /\ params \in [Tasks -> Params \cup {None}]
      /\ pool \in [Instances -> Params \cup {None}] /\ lost \in Nat
  BY <1>0 DEF TypeOK
<1>u. CASE UNCHANGED vars
  BY <1>0, <1>u DEF vars
<1>2. CASE hook_init
  BY <1>0, <1>1, <1>2 DEF hook_init, call
<1>3. CASE unregister_kretprobe
  BY <1>0, <1>3 DEF unregister_kretprobe, call
<1>4. CASE handlers_drained
  BY <1>0, <1>4 DEF handlers_drained, call
<1>5. CASE probe_pool_clear
  BY <1>0, <1>1, <1>5 DEF probe_pool_clear, call
<1>6. CASE hook_exit
  BY <1>0, <1>6 DEF hook_exit, call
<1>7. ASSUME NEW t \in Tasks, path_mount(t) PROVE Owned'
  <2>1. CASE UNCHANGED ri /\ pc' = [pc EXCEPT ![t] = "inside"]
    BY <1>0, <1>1, <1>7, <2>1 DEF path_mount
  <2>2. CASE module = "loaded" /\ pc' = [pc EXCEPT ![t] = "e_alloc"]
    <3>1. PICK i \in Free : ri' = [ri EXCEPT ![t] = i]
      BY <1>1, <1>7, <2>2 DEF path_mount
    <3>2. i \in Instances /\ pool[i] = None /\ \A u \in Tasks : ri[u] # i
      BY <1>0, <2>2, <3>1 DEF Free
    <3>3. UNCHANGED <<module, pool, freed, params, lost>>
          /\ calls' = [calls EXCEPT ![t] = mounts + 1]
      BY <1>7 DEF path_mount
    <3>4. InstancesExclusive'
      BY <1>0, <1>1, <1>7, <2>2, <3>1, <3>2 DEF path_mount
    <3>5. EntriesOwned'
      BY <1>0, <1>1, <1>7, <2>2, <3>1, <3>2, <3>3 DEF path_mount
    <3>6. NoOrphan' /\ UnloadOrdered'
      BY <1>0, <1>1, <1>7, <2>2, <3>1, <3>2, <3>3 DEF path_mount
    <3> QED
      BY <3>4, <3>5, <3>6
  <2> QED
    BY <1>7, <2>1, <2>2 DEF path_mount
<1>8. ASSUME NEW t \in Tasks, entry_handler(t) PROVE Owned'
  <2>1. CASE /\ \E regs \in pt_regs(t) : params' = [params EXCEPT ![t] = Args(t, regs)]
             /\ pc' = [pc EXCEPT ![t] = "e_insert"]
    <3>1. /\ params'[t].task = t /\ params'[t].call = calls[t]
          /\ \A u \in Tasks \ {t} : params'[u] = params[u]
      BY <1>0, <1>1, <2>1, ArgsType
    <3> QED
      BY <1>0, <1>1, <1>8, <2>1, <3>1 DEF entry_handler
  <2>2. CASE pc' = [pc EXCEPT ![t] = "inside"] /\ UNCHANGED params
    BY <1>0, <1>1, <1>8, <2>2 DEF entry_handler
  <2> QED
    BY <1>8, <2>1, <2>2 DEF entry_handler
<1>9. ASSUME NEW t \in Tasks, insert_params(t) PROVE Owned'
  <2>1. ri[t] \in Instances /\ pool[ri[t]] = None /\ pool' = [pool EXCEPT ![ri[t]] = params[t]]
    BY <1>0, <1>1, <1>9 DEF insert_params, insert_node
  <2>2. UNCHANGED <<module, freed, ri, calls>> /\ lost' = lost
    BY <1>9, <2>1 DEF insert_params
  <2>3. pc' = [pc EXCEPT ![t] = "inside"] /\ params' = [params EXCEPT ![t] = None]
    BY <1>9 DEF insert_params
  <2>4. InstancesExclusive' /\ UnloadOrdered'
    BY <1>0, <1>1, <1>9, <2>2, <2>3
  <2>5. EntriesOwned'
    BY <1>0, <1>1, <2>1, <2>2, <2>3
  <2>6. NoOrphan'
    BY <1>0, <1>1, <2>1, <2>2
  <2> QED
    BY <2>4, <2>5, <2>6
<1>10. ASSUME NEW t \in Tasks, mount_returns(t) PROVE Owned'
  <2>1. CASE UNCHANGED <<ri, calls>> /\ pc' = [pc EXCEPT ![t] = "r_pop"]
    BY <1>0, <1>1, <1>10, <2>1 DEF mount_returns
  <2>2. CASE ri' = [ri EXCEPT ![t] = None] /\ pc' = [pc EXCEPT ![t] = "out"]
    <3>1. InstancesExclusive'
      BY <1>0, <1>1, <1>10, <2>2 DEF mount_returns
    <3>2. EntriesOwned' /\ UnloadOrdered'
      BY <1>0, <1>1, <1>10, <2>2 DEF mount_returns
    <3>3. NoOrphan'
      BY <1>0, <1>1, <1>10, <2>2 DEF mount_returns
    <3> QED
      BY <3>1, <3>2, <3>3
  <2> QED
    BY <1>10, <2>1, <2>2 DEF mount_returns
<1>11. ASSUME NEW t \in Tasks, pop_params(t) PROVE Owned'
  <2>1. ri[t] \in Instances
    BY <1>0, <1>1, <1>11 DEF pop_params
  <2>2. InstancesExclusive' /\ NoOrphan' /\ UnloadOrdered'
    BY <1>0, <1>1, <1>11, <2>1 DEF pop_params
  <2>3. EntriesOwned'
    BY <1>0, <1>1, <1>11, <2>1 DEF pop_params
  <2> QED
    BY <2>2, <2>3
<1>12. ASSUME NEW t \in Tasks, ret_handler(t) PROVE Owned'
  <2>1. InstancesExclusive' /\ UnloadOrdered'
    BY <1>0, <1>1, <1>12 DEF ret_handler
  <2>2. EntriesOwned'
    BY <1>0, <1>1, <1>12 DEF ret_handler
  <2>3. NoOrphan'
    BY <1>0, <1>1, <1>12 DEF ret_handler
  <2> QED
    BY <2>1, <2>2, <2>3
<1> QED
  BY <1>u, <1>2, <1>3, <1>4, <1>5, <1>6, <1>7, <1>8, <1>9, <1>10, <1>11, <1>12
     DEF Next, Exit, TaskStep

(* One element more is at most one more to count.                          *)
LEMMA AddOne ==
  ASSUME NEW S, IsFiniteSet(S), NEW x
  PROVE  /\ IsFiniteSet(S \cup {x}) /\ Cardinality(S \cup {x}) \in Nat
         /\ Cardinality(S \cup {x}) =< Cardinality(S) + 1
<1>1. Cardinality(S) \in Nat
  BY FS_CardinalityType
<1>2. IsFiniteSet(S \cup {x})
  BY FS_AddElement
<1>3. Cardinality(S \cup {x}) \in Nat
  BY <1>2, FS_CardinalityType
<1>4. CASE x \in S
  <2>1. S \cup {x} = S
    BY <1>4
  <2> QED
    BY <1>1, <1>2, <1>3, <2>1
<1>5. CASE x \notin S
  <2>1. Cardinality(S \cup {x}) = Cardinality(S) + 1
    BY <1>5, FS_AddElement
  <2> QED
    BY <1>1, <1>2, <1>3, <2>1
<1> QED
  BY <1>4, <1>5

(* One element less is one less to count.                                  *)
LEMMA RemoveOne ==
  ASSUME NEW S, IsFiniteSet(S), NEW x \in S
  PROVE  /\ IsFiniteSet(S \ {x}) /\ Cardinality(S \ {x}) \in Nat
         /\ Cardinality(S \ {x}) = Cardinality(S) - 1
<1>1. IsFiniteSet(S \ {x}) /\ Cardinality(S \ {x}) = Cardinality(S) - 1
  BY FS_RemoveElement
<1> QED
  BY <1>1, FS_CardinalityType

(* The instances that are counted are finitely many.                       *)
LEMMA CountedSets ==
  ASSUME TypeOK, InstancesExclusive
  PROVE  /\ Saved \subseteq Keeping /\ Keeping \subseteq Instances
         /\ Starting \subseteq Instances
         /\ IsFiniteSet(Saved) /\ IsFiniteSet(Keeping) /\ IsFiniteSet(Starting)
         /\ Cardinality(Saved) \in Nat /\ Cardinality(Keeping) \in Nat
         /\ Cardinality(Starting) \in Nat /\ Cardinality(Instances) \in Nat
         /\ Cardinality(Saved) =< Cardinality(Keeping)
         /\ Cardinality(Saved) =< Cardinality(Instances)
<1>1. Saved \subseteq Keeping /\ Saved \subseteq Instances
  BY DEF Saved, Keeping
<1>2. Keeping \subseteq Instances /\ Starting \subseteq Instances
  BY DEF TypeOK, InstancesExclusive, InHandler, Saved, Keeping, Starting
<1>3. IsFiniteSet(Saved) /\ IsFiniteSet(Keeping) /\ IsFiniteSet(Starting)
  BY <1>1, <1>2, FS_Subset
<1> QED
  BY <1>1, <1>2, <1>3, FS_Subset, FS_CardinalityType

(* A step that saves no more and starts no more, and loses nothing, keeps  *)
(* the count.                                                              *)
LEMMA CountKept ==
  ASSUME TypeOK, InstancesExclusive, TypeOK', InstancesExclusive', PathsCounted,
         Keeping' \subseteq Keeping, Starting' \subseteq Starting,
         UNCHANGED <<lost, paths, mounts>>
  PROVE  PathsCounted'
<1>1. /\ IsFiniteSet(Keeping) /\ IsFiniteSet(Starting)
      /\ Cardinality(Keeping) \in Nat /\ Cardinality(Starting) \in Nat
  BY CountedSets
<1>2. Cardinality(Keeping') =< Cardinality(Keeping) /\ Cardinality(Starting') =< Cardinality(Starting)
  BY <1>1, FS_Subset
<1>3. Cardinality(Keeping') \in Nat /\ Cardinality(Starting') \in Nat
  BY <1>1, FS_Subset, FS_CardinalityType
<1> QED
  BY <1>1, <1>2, <1>3 DEF PathsCounted, TypeOK

(* Every step keeps the count.                                             *)
LEMMA CountInductive ==
  ASSUME IInv, [Next]_vars
  PROVE  PathsCounted'
<1>0. TypeOK /\ InstancesExclusive /\ EntriesOwned /\ UnloadOrdered /\ PathsCounted
  BY DEF IInv
<1>1. TypeOK' /\ InstancesExclusive'
  BY TypeInductive, OwnershipInductive
<1>2. /\ pc \in [Tasks -> Labels] /\ ri \in [Tasks -> Instances \cup {None}]
      /\ pool \in [Instances -> Params \cup {None}]
      /\ lost \in Nat /\ paths \in Nat /\ mounts \in Nat
  BY <1>0 DEF TypeOK
<1>3. /\ IsFiniteSet(Keeping) /\ IsFiniteSet(Starting)
      /\ Cardinality(Keeping) \in Nat /\ Cardinality(Starting) \in Nat
      /\ Cardinality(Saved) \in Nat /\ Cardinality(Saved) =< Cardinality(Keeping)
      /\ Cardinality(Instances) \in Nat /\ Cardinality(Saved) =< Cardinality(Instances)
  BY <1>0, CountedSets
<1> DEFINE NoMore == /\ Keeping' \subseteq Keeping /\ Starting' \subseteq Starting
                     /\ UNCHANGED <<lost, paths, mounts>>
<1>n. ASSUME NoMore PROVE PathsCounted'
  BY <1>0, <1>1, <1>n, CountKept
<1> USE DEF Keeping, Starting, Saved
<1>u. CASE UNCHANGED vars
  <2>1. NoMore
    BY <1>u DEF vars
  <2> QED
    BY <2>1, <1>n
<1>4. CASE hook_init
  <2>1. NoMore
    BY <1>4 DEF hook_init, call
  <2> QED
    BY <2>1, <1>n
<1>5. CASE unregister_kretprobe \/ handlers_drained \/ hook_exit
  <2>1. NoMore
    BY <1>5 DEF unregister_kretprobe, handlers_drained, hook_exit, call
  <2> QED
    BY <2>1, <1>n
<1>6. CASE probe_pool_clear
  <2>1. module = "drained" /\ lost = 0 /\ \A t \in Tasks : ~InHandler(t)
    BY <1>0, <1>2, <1>6 DEF probe_pool_clear, UnloadOrdered
  <2>2. Keeping' = {} /\ Starting' = {}
    BY <1>6, <2>1 DEF probe_pool_clear, call, InHandler
  <2>3. lost' = Cardinality(Saved) /\ UNCHANGED <<paths, mounts>>
    BY <1>3, <1>6, <2>1 DEF probe_pool_clear, call
  <2>4. Cardinality(Keeping') = 0 /\ Cardinality(Starting') = 0
    BY <2>2, FS_EmptySet
  <2> HIDE DEF Keeping, Starting, Saved
  <2> QED
    BY <1>0, <1>2, <1>3, <2>1, <2>3, <2>4 DEF PathsCounted
<1>7. ASSUME NEW t \in Tasks, path_mount(t) PROVE PathsCounted'
  <2>1. pc[t] = "out" /\ mounts' = mounts + 1 /\ UNCHANGED <<pool, lost, paths>>
    BY <1>7 DEF path_mount
  <2>2. \E l \in {"e_alloc", "inside"} : pc' = [pc EXCEPT ![t] = l]
    BY <1>7 DEF path_mount
  <2>3. \A u \in Tasks \ {t} : ri'[u] = ri[u] /\ pc'[u] = pc[u]
    BY <1>2, <1>7, <2>2 DEF path_mount
  <2>4. Keeping' \subseteq Keeping
    BY <1>2, <2>1, <2>2, <2>3
  <2>5. Starting' \subseteq Starting \cup {ri'[t]}
    BY <1>2, <2>1, <2>2, <2>3
  <2> HIDE DEF Keeping, Starting, Saved
  <2>6. Cardinality(Keeping') =< Cardinality(Keeping) /\ Cardinality(Keeping') \in Nat
    BY <1>3, <2>4, FS_Subset, FS_CardinalityType
  <2>7. /\ IsFiniteSet(Starting \cup {ri'[t]})
        /\ Cardinality(Starting \cup {ri'[t]}) =< Cardinality(Starting) + 1
        /\ Cardinality(Starting \cup {ri'[t]}) \in Nat
    BY <1>3, AddOne
  <2>8. /\ Cardinality(Starting') =< Cardinality(Starting \cup {ri'[t]})
        /\ Cardinality(Starting') \in Nat
    BY <2>5, <2>7, FS_Subset, FS_CardinalityType
  <2> QED
    BY <1>0, <1>2, <1>3, <2>1, <2>6, <2>7, <2>8 DEF PathsCounted
<1>8. ASSUME NEW t \in Tasks, entry_handler(t) PROVE PathsCounted'
  <2>1. pc[t] = "e_alloc" /\ UNCHANGED <<pool, ri, lost, mounts>>
    BY <1>8 DEF entry_handler
  <2>2. CASE pc' = [pc EXCEPT ![t] = "inside"] /\ UNCHANGED paths
    <3>1. NoMore
      BY <1>2, <2>1, <2>2
    <3> QED
      BY <1>n, <3>1
  <2>3. CASE pc' = [pc EXCEPT ![t] = "e_insert"] /\ paths' = paths + 1
    <3>1. Keeping' = Keeping \cup {ri[t]}
      BY <1>2, <2>1, <2>3
    <3>2. ri[t] \in Starting /\ ri[t] # None
      BY <1>0, <2>1 DEF InstancesExclusive, InHandler
    <3>3. Starting' = Starting \ {ri[t]}
      BY <1>0, <1>2, <2>1, <2>3, <3>2 DEF InstancesExclusive
    <3> HIDE DEF Keeping, Starting, Saved
    <3>4. Cardinality(Keeping') =< Cardinality(Keeping) + 1 /\ Cardinality(Keeping') \in Nat
      BY <1>3, <3>1, AddOne
    <3>5. Cardinality(Starting') = Cardinality(Starting) - 1
      BY <1>3, <3>2, <3>3, RemoveOne
    <3> QED
      BY <1>0, <1>2, <1>3, <2>1, <2>3, <3>4, <3>5 DEF PathsCounted
  <2> QED
    BY <1>8, <2>2, <2>3 DEF entry_handler
<1>9. ASSUME NEW t \in Tasks, insert_params(t) PROVE PathsCounted'
  <2>1. pc[t] = "e_insert" /\ ri[t] \in Instances /\ pool[ri[t]] = None
    BY <1>0, <1>2, <1>9 DEF insert_params, InstancesExclusive, InHandler, EntriesOwned
  <2>2. UNCHANGED <<ri, lost, paths, mounts>> /\ pc' = [pc EXCEPT ![t] = "inside"]
    BY <1>9, <2>1 DEF insert_params
  <2>3. pool' = [pool EXCEPT ![ri[t]] = params[t]]
    BY <1>9, <2>1 DEF insert_params, insert_node
  <2>4. NoMore
    BY <1>2, <2>1, <2>2, <2>3
  <2> QED
    BY <1>n, <2>4
<1>10. ASSUME NEW t \in Tasks, mount_returns(t) PROVE PathsCounted'
  <2>1. pc[t] = "inside" /\ UNCHANGED <<pool, lost, paths, mounts>>
    BY <1>10 DEF mount_returns
  <2>2. \E l \in {"r_pop", "out"} : pc' = [pc EXCEPT ![t] = l]
    BY <1>10 DEF mount_returns
  <2>3. \A u \in Tasks \ {t} : ri'[u] = ri[u] /\ pc'[u] = pc[u]
    BY <1>2, <1>10, <2>2 DEF mount_returns
  <2>4. NoMore
    BY <1>2, <2>1, <2>2, <2>3
  <2> QED
    BY <1>n, <2>4
<1>11. ASSUME NEW t \in Tasks, pop_params(t) PROVE PathsCounted'
  <2>1. NoMore
    BY <1>2, <1>11 DEF pop_params
  <2> QED
    BY <1>n, <2>1
<1>12. ASSUME NEW t \in Tasks, ret_handler(t) PROVE PathsCounted'
  <2>1. NoMore
    BY <1>2, <1>12 DEF ret_handler
  <2> QED
    BY <1>n, <2>1
<1> QED
  BY <1>u, <1>4, <1>5, <1>6, <1>7, <1>8, <1>9, <1>10, <1>11, <1>12
     DEF Next, Exit, TaskStep

-----------------------------------------------------------------------------
(* The inductive invariant holds in every run of the module.               *)
THEOREM KHookIInv == Spec => []IInv
<1>1. Init => IInv
  BY InitIInv
<1>2. IInv /\ [Next]_vars => IInv'
  BY TypeInductive, OwnershipInductive, CountInductive DEF IInv
<1> QED
  BY <1>1, <1>2, PTL DEF Spec

(* However the handlers of different mounts interleave, and whenever the   *)
(* module is unloaded, ret_handler logs the arguments of its own mount     *)
(* and insert_params never meets a key that is in the tree.                *)
THEOREM OwnArgumentsTheorem == Spec => []OwnArguments
<1>1. IInv => OwnArguments
  BY DEF IInv, EntriesOwned, OwnArguments
<1> QED
  BY <1>1, KHookIInv, PTL

(* No handler uses the pool that hook_exit has freed; arguments are lost   *)
(* by an unload only, one for an instance at most; and a mount costs one   *)
(* path buffer at most.                                                    *)
THEOREM MemoryAccountedTheorem == Spec => []MemoryAccounted
<1>1. ASSUME IInv PROVE MemoryAccounted
  <2>1. TypeOK /\ InstancesExclusive /\ UnloadOrdered /\ PathsCounted
    BY <1>1 DEF IInv
  <2>2. /\ Cardinality(Saved) \in Nat /\ Cardinality(Keeping) \in Nat
        /\ Cardinality(Starting) \in Nat /\ Cardinality(Saved) =< Cardinality(Keeping)
    BY <2>1, CountedSets
  <2>3. lost \in Nat /\ paths \in Nat /\ mounts \in Nat
    BY <2>1 DEF TypeOK
  <2>4. lost + Cardinality(Saved) =< paths /\ paths =< mounts
    BY <2>1, <2>2, <2>3 DEF PathsCounted
  <2> QED
    BY <2>1, <2>4 DEF UnloadOrdered, PathsCounted, MemoryAccounted
<1> QED
  BY <1>1, KHookIInv, PTL
=============================================================================
