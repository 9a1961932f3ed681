------------------------- MODULE TenantShardsProofs -------------------------
(***************************************************************************)
(* For any number of threads and tenants, a tenant has one engine and no   *)
(* store loses another tenant's.  The argument: the gate's holder alone    *)
(* stores, so between its second look and its store the map cannot change; *)
(* its copy is then the map itself, plus a tenant the map does not have    *)
(* and an engine nobody has.                                               *)
(***************************************************************************)
EXTENDS TenantShards, TLAPS

(* Threads between taking and releasing the gate.                          *)
Inside == {"recheck", "copy", "build", "store"}

GateInv ==
    \A h \in Threads : pc[h] \in Inside <=> gate = h

CallInv ==
    \A h \in Threads : pc[h] # "idle" => tenant[h] \in Tenants

(* What the holder knows of the map.                                       *)
HolderInv ==
    \A h \in Threads :
        /\ pc[h] \in {"copy", "build", "store"} => tenant[h] \notin DOMAIN shards
        /\ pc[h] = "build" => next[h] = shards
        /\ pc[h] = "store" =>
              /\ engine[h] \in 1..built
              /\ \A t \in DOMAIN shards : shards[t] # engine[h]
              /\ next[h] = Insert(shards, tenant[h], engine[h])

ShardInv == TypeOK /\ GateInv /\ CallInv /\ HolderInv /\ OneEnginePerTenant

(* A map into the engines built so far is one into those built later.      *)
LEMMA MapsGrow ==
    ASSUME NEW n \in Nat, NEW map, map \in [DOMAIN map -> 1..n]
    PROVE  map \in [DOMAIN map -> 1..(n + 1)]
<1>1. 1..n \subseteq 1..(n + 1)
  OBVIOUS
<1>. QED  BY <1>1

LEMMA InitShardInv == Init => ShardInv
<1>. SUFFICES ASSUME Init PROVE ShardInv
  OBVIOUS
<1>. USE ShardConstants DEF Init
<1>1. DOMAIN NoShards = {} /\ NoShards \in [{} -> 1..built]
  BY DEF NoShards
<1>2. TypeOK
  BY <1>1 DEF TypeOK
<1>3. GateInv /\ CallInv /\ HolderInv
  BY DEF GateInv, CallInv, HolderInv, Inside
<1>4. OneEnginePerTenant
  BY <1>1 DEF OneEnginePerTenant
<1>. QED  BY <1>2, <1>3, <1>4 DEF ShardInv

(* A call that ends without touching the map or the counters.              *)
LEMMA ReturnStep ==
    ASSUME ShardInv, NEW h \in Threads, NEW e,
           pc[h] # "idle",
           Return(h, e), UNCHANGED <<shards, built>>,
           failures' \in 0..MaxSpawnFailures,
           e = None \/ (tenant[h] \in DOMAIN shards /\ e = shards[tenant[h]]),
           gate' = IF gate = h THEN None ELSE gate
    PROVE  ShardInv'
<1>. USE ShardConstants DEF ShardInv, Return, Move
<1>0. tenant[h] \in Tenants
  BY DEF CallInv
<1>1. DOMAIN NoShards = {} /\ NoShards \in [{} -> 1..built]
  BY DEF NoShards
<1>2. TypeOK'
  <2>1. \A g \in Threads : DOMAIN next'[g] \subseteq Tenants
                           /\ next'[g] \in [DOMAIN next'[g] -> 1..built']
    BY <1>1 DEF TypeOK
  <2>2. handed' \in SUBSET (Tenants \X (1..built'))
    BY <1>0 DEF TypeOK
  <2>3. gate' \in Threads \cup {None}
    BY DEF TypeOK
  <2>4. pc' \in [Threads -> {"idle", "get", "lookup", "gate", "recheck", "copy", "build", "store"}]
    BY DEF TypeOK
  <2>5. tenant' \in [Threads -> Tenants \cup {None}] /\ engine' \in [Threads -> 1..built' \cup {None}]
    BY DEF TypeOK
  <2>. QED  BY <2>1, <2>2, <2>3, <2>4, <2>5 DEF TypeOK
<1>3. GateInv'
  BY DEF GateInv, Inside, TypeOK
<1>4. CallInv'
  BY DEF CallInv, TypeOK
<1>5. HolderInv'
  BY DEF HolderInv, TypeOK
<1>6. OneEnginePerTenant'
  BY DEF OneEnginePerTenant
<1>. QED  BY <1>2, <1>3, <1>4, <1>5, <1>6

LEMMA StoreFacts ==
    ASSUME ShardInv, NEW h \in Threads, Store(h)
    PROVE  /\ DOMAIN shards' = DOMAIN shards \cup {tenant[h]}
           /\ shards'[tenant[h]] = engine[h]
           /\ tenant[h] \in Tenants /\ tenant[h] \notin DOMAIN shards
           /\ engine[h] \in 1..built
           /\ \A t \in DOMAIN shards : shards'[t] = shards[t] /\ shards[t] # engine[h]
           /\ shards' \in [DOMAIN shards' -> 1..built]
<1>. USE DEF ShardInv, Store
<1>1. /\ tenant[h] \in Tenants /\ tenant[h] \notin DOMAIN shards
      /\ engine[h] \in 1..built
      /\ \A t \in DOMAIN shards : shards[t] # engine[h]
      /\ shards' = Insert(shards, tenant[h], engine[h])
  BY DEF HolderInv, CallInv
<1>2. shards' \in [DOMAIN shards' -> 1..built]
  BY DEF TypeOK
<1>3. /\ DOMAIN shards' = DOMAIN shards \cup {tenant[h]}
      /\ shards'[tenant[h]] = engine[h]
      /\ \A t \in DOMAIN shards : shards'[t] = shards[t]
  BY <1>1 DEF Insert
<1>. QED  BY <1>1, <1>2, <1>3

LEMMA NextShardInv == ShardInv /\ [Next]_vars => ShardInv'
<1>. SUFFICES ASSUME ShardInv, [Next]_vars PROVE ShardInv'
  OBVIOUS
<1>. USE ShardConstants
<1>0. CASE UNCHANGED vars
  BY <1>0 DEF ShardInv, TypeOK, GateInv, CallInv, HolderInv, OneEnginePerTenant, vars
<1>1. ASSUME NEW h \in Threads, Call(h) PROVE ShardInv'
  <2>. USE <1>1 DEF ShardInv, Call, Move
  <2>1. TypeOK'
    BY DEF TypeOK
  <2>2. GateInv' /\ CallInv' /\ HolderInv'
    BY DEF GateInv, CallInv, HolderInv, Inside, TypeOK
  <2>3. OneEnginePerTenant'
    BY DEF OneEnginePerTenant
  <2>. QED  BY <2>1, <2>2, <2>3
<1>2. ASSUME NEW h \in Threads, Get(h) PROVE ShardInv'
  <2>1. gate # h
    BY <1>2 DEF ShardInv, GateInv, Inside, Get
  <2>. QED  BY <1>2, <2>1, ReturnStep DEF Get, ShardInv, TypeOK
<1>3. ASSUME NEW h \in Threads, Lookup(h) PROVE ShardInv'
  <2>1. gate # h
    BY <1>3 DEF ShardInv, GateInv, Inside, Lookup
  <2>2. CASE tenant[h] \in DOMAIN shards
    BY <1>3, <2>1, <2>2, ReturnStep DEF Lookup, ShardInv, TypeOK
  <2>3. CASE tenant[h] \notin DOMAIN shards
    <3>. USE <1>3, <2>3 DEF ShardInv, Lookup, Move
    <3>1. TypeOK'
      BY DEF TypeOK
    <3>2. GateInv' /\ CallInv' /\ HolderInv'
      BY DEF GateInv, CallInv, HolderInv, Inside, TypeOK
    <3>3. OneEnginePerTenant'
      BY DEF OneEnginePerTenant
    <3>. QED  BY <3>1, <3>2, <3>3
  <2>. QED  BY <2>2, <2>3
<1>4. ASSUME NEW h \in Threads, Lock(h) PROVE ShardInv'
  <2>. USE <1>4 DEF ShardInv, Lock, Move
  <2>1. TypeOK'
    BY DEF TypeOK
  <2>2. GateInv' /\ CallInv' /\ HolderInv'
    BY DEF GateInv, CallInv, HolderInv, Inside, TypeOK
  <2>3. OneEnginePerTenant'
    BY DEF OneEnginePerTenant
  <2>. QED  BY <2>1, <2>2, <2>3
<1>5. ASSUME NEW h \in Threads, Recheck(h) PROVE ShardInv'
  <2>1. gate = h
    BY <1>5 DEF ShardInv, GateInv, Inside, Recheck
  <2>2. CASE tenant[h] \in DOMAIN shards
    BY <1>5, <2>1, <2>2, ReturnStep DEF Recheck, ShardInv, TypeOK
  <2>3. CASE tenant[h] \notin DOMAIN shards
    <3>. USE <1>5, <2>3 DEF ShardInv, Recheck, Move
    <3>1. TypeOK'
      BY DEF TypeOK
    <3>2. GateInv' /\ CallInv' /\ HolderInv'
      BY DEF GateInv, CallInv, HolderInv, Inside, TypeOK
    <3>3. OneEnginePerTenant'
      BY DEF OneEnginePerTenant
    <3>. QED  BY <3>1, <3>2, <3>3
  <2>. QED  BY <2>2, <2>3
<1>6. ASSUME NEW h \in Threads, Copy(h) PROVE ShardInv'
  <2>. USE <1>6 DEF ShardInv, Copy, Move
  <2>1. TypeOK'
    <3>1. \A g \in Threads : DOMAIN next'[g] \subseteq Tenants
                             /\ next'[g] \in [DOMAIN next'[g] -> 1..built']
      BY DEF TypeOK
    <3>. QED  BY <3>1 DEF TypeOK
  <2>2. GateInv' /\ CallInv' /\ HolderInv'
    BY DEF GateInv, CallInv, HolderInv, Inside, TypeOK
  <2>3. OneEnginePerTenant'
    BY DEF OneEnginePerTenant
  <2>. QED  BY <2>1, <2>2, <2>3
<1>7. ASSUME NEW h \in Threads, Build(h) PROVE ShardInv'
  <2>. USE <1>7 DEF ShardInv, Build, Move
  <2>1. /\ built \in Nat /\ tenant[h] \in Tenants
        /\ next[h] = shards /\ tenant[h] \notin DOMAIN shards
        /\ 1..built \subseteq 1..built'
    BY DEF TypeOK, HolderInv, CallInv
  <2>2. \A t \in DOMAIN shards : shards[t] \in 1..built
    BY DEF TypeOK
  <2>3. TypeOK'
    <3>1. shards' \in [DOMAIN shards' -> 1..built']
      BY MapsGrow DEF TypeOK
    <3>2. ASSUME NEW g \in Threads
          PROVE  DOMAIN next'[g] \subseteq Tenants /\ next'[g] \in [DOMAIN next'[g] -> 1..built']
      <4>1. CASE g # h
        BY <3>2, <4>1, MapsGrow DEF TypeOK
      <4>2. CASE g = h
        <5>1. next'[h] = Insert(shards, tenant[h], built')
          BY <2>1 DEF TypeOK
        <5>2. \A u \in DOMAIN next'[h] : next'[h][u] \in 1..built'
          BY <2>1, <2>2, <5>1 DEF Insert
        <5>3. next'[h] = [u \in DOMAIN next'[h] |-> next'[h][u]]
          BY <5>1 DEF Insert
        <5>4. DOMAIN next'[h] \subseteq Tenants
          BY <2>1, <5>1 DEF TypeOK, Insert
        <5>. QED  BY <4>2, <5>2, <5>3, <5>4
      <4>. QED  BY <4>1, <4>2
    <3>3. engine' \in [Threads -> 1..built' \cup {None}]
      BY <2>1 DEF TypeOK
    <3>4. handed' \in SUBSET (Tenants \X (1..built'))
      BY <2>1 DEF TypeOK
    <3>5. pc' \in [Threads -> {"idle", "get", "lookup", "gate", "recheck", "copy", "build", "store"}]
      BY DEF TypeOK
    <3>. QED  BY <2>1, <3>1, <3>2, <3>3, <3>4, <3>5 DEF TypeOK
  <2>4. GateInv' /\ CallInv'
    BY DEF GateInv, CallInv, Inside, TypeOK
  <2>5. HolderInv'
    <3>. SUFFICES ASSUME NEW g \in Threads
         PROVE  /\ pc'[g] \in {"copy", "build", "store"} => tenant'[g] \notin DOMAIN shards'
                /\ pc'[g] = "build" => next'[g] = shards'
                /\ pc'[g] = "store" =>
                      /\ engine'[g] \in 1..built'
                      /\ \A t \in DOMAIN shards' : shards'[t] # engine'[g]
                      /\ next'[g] = Insert(shards', tenant'[g], engine'[g])
      BY DEF HolderInv
    <3>1. CASE g = h
      BY <2>1, <2>2, <3>1 DEF TypeOK
    <3>2. CASE g # h
      <4>1. pc'[g] = pc[g] /\ pc[g] \notin Inside
        BY <3>2 DEF GateInv, TypeOK, Inside
      <4>. QED  BY <4>1 DEF Inside
    <3>. QED  BY <3>1, <3>2
  <2>6. OneEnginePerTenant'
    BY DEF OneEnginePerTenant
  <2>. QED  BY <2>3, <2>4, <2>5, <2>6
<1>8. ASSUME NEW h \in Threads, BuildPanics(h) PROVE ShardInv'
  <2>1. gate = h /\ failures \in Nat
    BY <1>8 DEF ShardInv, GateInv, Inside, BuildPanics, TypeOK
  <2>2. failures' \in 0..MaxSpawnFailures
    BY <1>8, <2>1 DEF BuildPanics
  <2>. QED  BY <1>8, <2>1, <2>2, ReturnStep DEF BuildPanics
<1>9. ASSUME NEW h \in Threads, Store(h) PROVE ShardInv'
  <2>. USE <1>9, StoreFacts DEF ShardInv, Store, Return, Move
  <2>1. /\ DOMAIN shards' = DOMAIN shards \cup {tenant[h]}
        /\ shards'[tenant[h]] = engine[h]
        /\ tenant[h] \in Tenants /\ tenant[h] \notin DOMAIN shards
        /\ engine[h] \in 1..built
        /\ \A t \in DOMAIN shards : shards'[t] = shards[t] /\ shards[t] # engine[h]
        /\ shards' \in [DOMAIN shards' -> 1..built]
    BY StoreFacts
  <2>2. TypeOK'
    <3>0. DOMAIN NoShards = {} /\ NoShards \in [{} -> 1..built]
      BY DEF NoShards
    <3>1. \A g \in Threads : DOMAIN next'[g] \subseteq Tenants
                             /\ next'[g] \in [DOMAIN next'[g] -> 1..built']
      BY <3>0 DEF TypeOK
    <3>2. handed' \in SUBSET (Tenants \X (1..built'))
      BY <2>1 DEF TypeOK
    <3>3. /\ tenant' \in [Threads -> Tenants \cup {None}]
          /\ engine' \in [Threads -> 1..built' \cup {None}]
      BY DEF TypeOK
    <3>4. pc' \in [Threads -> {"idle", "get", "lookup", "gate", "recheck", "copy", "build", "store"}]
      BY DEF TypeOK
    <3>5. DOMAIN shards' \subseteq Tenants
      BY <2>1 DEF TypeOK
    <3>. QED  BY <2>1, <3>1, <3>2, <3>3, <3>4, <3>5 DEF TypeOK
  <2>3. GateInv' /\ CallInv'
    BY DEF GateInv, CallInv, Inside, TypeOK
  <2>4. HolderInv'
    <3>1. \A g \in Threads : pc'[g] \notin Inside
      BY DEF GateInv, Inside, TypeOK
    <3>. QED  BY <3>1 DEF HolderInv, Inside
  <2>5. OneEnginePerTenant'
    <3>1. ASSUME NEW pair \in handed' PROVE pair[1] \in DOMAIN shards' /\ shards'[pair[1]] = pair[2]
      <4>1. CASE pair \in handed
        BY <2>1, <4>1 DEF OneEnginePerTenant
      <4>2. CASE pair = <<tenant[h], engine[h]>>
        BY <2>1, <4>2
      <4>. QED  BY <3>1, <4>1, <4>2
    <3>2. \A t, u \in DOMAIN shards' : shards'[t] = shards'[u] => t = u
      BY <2>1 DEF OneEnginePerTenant
    <3>. QED  BY <3>1, <3>2 DEF OneEnginePerTenant
  <2>. QED  BY <2>2, <2>3, <2>4, <2>5
<1>. QED
  BY <1>0, <1>1, <1>2, <1>3, <1>4, <1>5, <1>6, <1>7, <1>8, <1>9 DEF Next, Finish

(* The strengthening holds of every reachable state of get_or_create.      *)
THEOREM ShardInvariance == Spec => []ShardInv
BY InitShardInv, NextShardInv, PTL DEF Spec

(* Every map, shared or private, sends known tenants to engines that were  *)
(* built, and every engine handed out is one of them (get_or_create).      *)
THEOREM ShardTypes == Spec => []TypeOK
<1>1. ShardInv => TypeOK
  BY DEF ShardInv
<1>. QED  BY <1>1, ShardInvariance, PTL

(* For any number of threads and tenants: every caller of get and          *)
(* get_or_create gets its tenant's one engine, and no tenants share one.   *)
THEOREM TenantsHaveOneEngine == Spec => []OneEnginePerTenant
<1>1. ShardInv => OneEnginePerTenant
  BY DEF ShardInv
<1>. QED  BY <1>1, ShardInvariance, PTL

(* Storing a private copy of the map never loses or redirects a tenant     *)
(* (get_or_create).                                                        *)
THEOREM StoresLoseNothing == Spec => NoShardLost
<1>1. ShardInv /\ [Next]_vars =>
        [\A t \in DOMAIN shards : t \in DOMAIN shards' /\ shards'[t] = shards[t]]_vars
  <2>. SUFFICES ASSUME ShardInv, Next
       PROVE  \A t \in DOMAIN shards : t \in DOMAIN shards' /\ shards'[t] = shards[t]
    OBVIOUS
  <2>1. ASSUME NEW h \in Threads, Store(h)
        PROVE  \A t \in DOMAIN shards : t \in DOMAIN shards' /\ shards'[t] = shards[t]
    BY <2>1, StoreFacts
  <2>2. ASSUME NEW h \in Threads, ~Store(h), Call(h) \/ Finish(h) \/ Lock(h) \/ BuildPanics(h)
        PROVE  shards' = shards
    BY <2>2 DEF Call, Finish, Get, Lookup, Recheck, Copy, Build, Lock, BuildPanics
  <2>. QED  BY <2>1, <2>2 DEF Next
<1>. QED  BY <1>1, ShardInvariance, PTL DEF Spec, NoShardLost

=============================================================================
