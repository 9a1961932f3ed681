---------------------------- MODULE TenantShards ----------------------------
(***************************************************************************)
(* ZanzibarTenantShards (src/src/api.rs): threads look a tenant's engine   *)
(* up in an immutable map behind an atomic pointer without taking a lock.  *)
(* A miss takes the creation gate, looks again, copies the map, builds an  *)
(* engine, inserts it in the copy and stores the copy.                     *)
(*                                                                         *)
(* An engine is the number of engines built before it, plus one.  `handed` *)
(* is a history variable: the (tenant, engine) pairs calls have returned.  *)
(***************************************************************************)
EXTENDS Naturals, FiniteSets

CONSTANTS Threads,
          Tenants,
          MaxSpawnFailures,    \* bound: how often the OS refuses a writer thread
          None                 \* no tenant, no engine, a free gate

ASSUME ShardConstants ==
    /\ MaxSpawnFailures \in Nat
    /\ None \notin Threads /\ None \notin Tenants /\ None \notin Nat

VARIABLES shards,      \* the ShardMap behind the ArcSwap: tenant -> engine
          gate,        \* the thread holding create_gate
          pc,          \* what each thread is doing
          tenant,      \* the tenant it asks for
          next,        \* its private copy of the map
          engine,      \* the engine it built, or returns
          built,       \* engines built so far
          failures,    \* spawn failures so far
          handed       \* history: pairs returned to callers

vars == <<shards, gate, pc, tenant, next, engine, built, failures, handed>>

NoShards == [t \in {} |-> None]

Init ==
    /\ shards = NoShards
    /\ gate = None
    /\ pc = [h \in Threads |-> "idle"]
    /\ tenant = [h \in Threads |-> None]
    /\ next = [h \in Threads |-> NoShards]
    /\ engine = [h \in Threads |-> None]
    /\ built = 0 /\ failures = 0
    /\ handed = {}

Insert(map, t, e) == [u \in DOMAIN map \cup {t} |-> IF u = t THEN e ELSE map[u]]

Move(h, to) == pc' = [pc EXCEPT ![h] = to]

(* The call of h ends with the engine e (None: get found nothing).         *)
Return(h, e) ==
    /\ Move(h, "idle")
    /\ tenant' = [tenant EXCEPT ![h] = None]
    /\ next' = [next EXCEPT ![h] = NoShards]
    /\ engine' = [engine EXCEPT ![h] = None]
    /\ handed' = IF e = None THEN handed ELSE handed \cup {<<tenant[h], e>>}

Call(h) ==
    /\ pc[h] = "idle"
    /\ \E op \in {"get", "lookup"} : Move(h, op)
    /\ \E t \in Tenants : tenant' = [tenant EXCEPT ![h] = t]
    /\ UNCHANGED <<shards, gate, next, engine, built, failures, handed>>

(* get: one load of the pointer.                                           *)
Get(h) ==
    /\ pc[h] = "get"
    /\ Return(h, IF tenant[h] \in DOMAIN shards THEN shards[tenant[h]] ELSE None)
    /\ UNCHANGED <<shards, gate, built, failures>>

(* get_or_create: the first, lock-free look.                               *)
Lookup(h) ==
    /\ pc[h] = "lookup"
    /\ IF tenant[h] \in DOMAIN shards
       THEN Return(h, shards[tenant[h]])
       ELSE Move(h, "gate") /\ UNCHANGED <<tenant, next, engine, handed>>
    /\ UNCHANGED <<shards, gate, built, failures>>

Lock(h) ==
    /\ pc[h] = "gate" /\ gate = None
    /\ gate' = h
    /\ Move(h, "recheck")
    /\ UNCHANGED <<shards, tenant, next, engine, built, failures, handed>>

(* Mutant: nobody looks again under the gate.                              *)
RecheckSkipped(h) ==
    /\ pc[h] = "recheck"
    /\ Move(h, "copy")
    /\ UNCHANGED <<shards, gate, tenant, next, engine, built, failures, handed>>

(* The second look, under the gate, which is released on return.           *)
Recheck(h) ==
    /\ pc[h] = "recheck"
    /\ IF tenant[h] \in DOMAIN shards
       THEN Return(h, shards[tenant[h]]) /\ gate' = None
       ELSE Move(h, "copy") /\ UNCHANGED <<gate, tenant, next, engine, handed>>
    /\ UNCHANGED <<shards, built, failures>>

Copy(h) ==
    /\ pc[h] = "copy"
    /\ next' = [next EXCEPT ![h] = shards]
    /\ Move(h, "build")
    /\ UNCHANGED <<shards, gate, tenant, engine, built, failures, handed>>

Build(h) ==
    /\ pc[h] = "build"
    /\ built' = built + 1
    /\ engine' = [engine EXCEPT ![h] = built + 1]
    /\ next' = [next EXCEPT ![h] = Insert(@, tenant[h], built + 1)]
    /\ Move(h, "store")
    /\ UNCHANGED <<shards, gate, tenant, failures, handed>>

(* Mutant: a failed build leaves the gate locked for good.                 *)
BuildPanicsPoisoned(h) ==
    /\ pc[h] = "build" /\ failures < MaxSpawnFailures
    /\ failures' = failures + 1
    /\ Return(h, None)
    /\ UNCHANGED <<shards, gate, built>>

(* Mutant: the tenant's slot is reserved before its engine is built.       *)
BuildPanicsReserved(h) ==
    /\ pc[h] = "build" /\ failures < MaxSpawnFailures
    /\ failures' = failures + 1
    /\ shards' = Insert(shards, tenant[h], None)
    /\ Return(h, None)
    /\ gate' = None
    /\ UNCHANGED built

(* thread::spawn panics: the unwinding call drops the guard, which poisons *)
(* the gate; later callers take the poisoned gate all the same.            *)
BuildPanics(h) ==
    /\ pc[h] = "build" /\ failures < MaxSpawnFailures
    /\ failures' = failures + 1
    /\ Return(h, None)
    /\ gate' = None
    /\ UNCHANGED <<shards, built>>

(* Mutant: the stored map holds the new tenant only.                       *)
StoreAlone(h) ==
    /\ pc[h] = "store"
    /\ shards' = Insert(NoShards, tenant[h], engine[h])
    /\ Return(h, engine[h])
    /\ gate' = None
    /\ UNCHANGED <<built, failures>>

Store(h) ==
    /\ pc[h] = "store"
    /\ shards' = next[h]
    /\ Return(h, engine[h])
    /\ gate' = None
    /\ UNCHANGED <<built, failures>>

Finish(h) ==
    \/ Get(h) \/ Lookup(h) \/ Recheck(h) \/ Copy(h) \/ Build(h) \/ Store(h)

Next ==
    \E h \in Threads : Call(h) \/ Finish(h) \/ Lock(h) \/ BuildPanics(h)

Spec == Init /\ [][Next]_vars

(* A running thread is scheduled, and one that waits for a gate that stays *)
(* free takes it.  Nothing orders the waiters.                             *)
FairSpec == Spec /\ \A h \in Threads : WF_vars(Finish(h)) /\ WF_vars(Lock(h))

-----------------------------------------------------------------------------
(* Types.  A map holds engines that were built.                            *)
TypeOK ==
    /\ DOMAIN shards \subseteq Tenants /\ shards \in [DOMAIN shards -> 1..built]
    /\ gate \in Threads \cup {None}
    /\ pc \in [Threads -> {"idle", "get", "lookup", "gate", "recheck", "copy", "build", "store"}]
    /\ tenant \in [Threads -> Tenants \cup {None}]
    /\ DOMAIN next = Threads
    /\ \A h \in Threads : DOMAIN next[h] \subseteq Tenants
                          /\ next[h] \in [DOMAIN next[h] -> 1..built]
    /\ engine \in [Threads -> 1..built \cup {None}]
    /\ built \in Nat
    /\ failures \in 0..MaxSpawnFailures
    /\ handed \in SUBSET (Tenants \X (1..built))

(* Every engine a caller ever got is the one its tenant has now, and no    *)
(* two tenants share one: racing callers, stale maps and failed builds     *)
(* never split a tenant over two engines (api.rs get_or_create).           *)
OneEnginePerTenant ==
    /\ \A pair \in handed : pair[1] \in DOMAIN shards /\ shards[pair[1]] = pair[2]
    /\ \A t, u \in DOMAIN shards : shards[t] = shards[u] => t = u

(* A store never takes a tenant away nor gives it another engine, though   *)
(* it replaces the whole map by a private copy (api.rs get_or_create).     *)
NoShardLost ==
    [][\A t \in DOMAIN shards : t \in DOMAIN shards' /\ shards'[t] = shards[t]]_vars

(* A call returns, also when another caller's build panics under the gate  *)
(* (api.rs get_or_create, PoisonError::into_inner).                        *)
CallsReturn == \A h \in Threads : pc[h] # "idle" ~> pc[h] = "idle"

=============================================================================
