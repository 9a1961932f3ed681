---------------------------- MODULE EngineProofs ----------------------------
(***************************************************************************)
(* Theorems about Engine for every number of clients, queue capacity,      *)
(* retention, import batch size, set of commands and hash function.  They  *)
(* rest on one inductive invariant of the threads, EngineInv.              *)
(***************************************************************************)
EXTENDS Engine, EngineOpsProofs, FiniteSetTheorems

(* Recording a publication: old entries stay, the new history is genuine   *)
(* and well formed like them.                                              *)
LEMMA ExtendOK ==
    ASSUME NEW w \in Writer, WriterOK(w), w.schema,
           NEW com, NEW last \in Nat, ComType(com, last), last <= w.last,
           RecordOK(com, w.origin),
           \A i \in 1..Len(w.history) : w.history[i].rev <= last => Genuine(w.history[i], com)
    PROVE  /\ ComType(Extend(com, w.history), w.last)
           /\ Extends(Extend(com, w.history), com)
           /\ RecordOK(Extend(com, w.history), w.origin)
           /\ \A i \in 1..Len(w.history) : Genuine(w.history[i], Extend(com, w.history))
<1> DEFINE h == w.history
           new == {i \in 1..Len(h) : h[i].rev \notin DOMAIN com}
           pick(r) == CHOOSE i \in new : h[i].rev = r
           com2 == Extend(com, h)
<1>1. h \in Seq(Snapshot) /\ w.last \in Nat /\ Len(h) \in Nat
  BY EngineConstants DEF Writer
<1>2. \A i \in 1..Len(h) : h[i] \in Snapshot /\ h[i].rev = w.last - Len(h) + i
  BY <1>1 DEF WriterOK
<1>3. \A i \in 1..Len(h) : h[i].rev \in 1..w.last
  <2> TAKE i \in 1..Len(h)
  <2>1. h[i].rev \in 1..MaxRevision
    BY <1>2 DEF Snapshot
  <2> QED BY <1>1, <1>2, <2>1, EngineConstants
<1>4. com2 = [r \in DOMAIN com \cup {h[i].rev : i \in new} |->
                IF r \in DOMAIN com THEN com[r] ELSE h[pick(r)]]
  BY DEF Extend
<1> HIDE DEF com2
<1>5. \A i \in new : pick(h[i].rev) = i
  <2> TAKE i \in new
  <2>1. pick(h[i].rev) \in new /\ h[pick(h[i].rev)].rev = h[i].rev
    OBVIOUS
  <2> HIDE DEF pick
  <2> QED BY <1>1, <1>2, <2>1
<1>6. Extends(com2, com)
  BY <1>4 DEF Extends
<1>7. \A i \in new : h[i].rev \in DOMAIN com2 /\ com2[h[i].rev] = h[i]
  <2> HIDE DEF pick
  <2> QED BY <1>4, <1>5
<1>8. \A i \in 1..Len(h) : h[i].rev \in DOMAIN com2 /\ com2[h[i].rev] = h[i]
  <2> TAKE i \in 1..Len(h)
  <2>1. CASE i \in new
    BY <1>7, <2>1
  <2>2. CASE i \notin new
    <3>1. h[i].rev \in DOMAIN com /\ h[i].rev <= last
      BY <2>2 DEF ComType
    <3>2. com[h[i].rev] = h[i]
      BY <3>1 DEF Genuine
    <3> QED BY <1>6, <3>1, <3>2 DEF Extends
  <2> QED BY <2>1, <2>2
<1>9. \A i \in 1..Len(h) : Genuine(h[i], com2)
  BY <1>8 DEF WriterOK, Genuine
<1>10. ComType(com2, w.last)
  <2>1. DOMAIN com2 = DOMAIN com \cup {h[i].rev : i \in new}
    BY <1>4
  <2>2. DOMAIN com2 \subseteq 1..w.last
    BY <1>1, <1>3, <2>1 DEF ComType
  <2>3. ASSUME NEW r \in DOMAIN com2 PROVE com2[r] \in Snapshot
    <3>1. CASE r \in DOMAIN com
      BY <1>6, <3>1 DEF Extends, ComType
    <3>2. CASE r \notin DOMAIN com
      <4>1. PICK i \in new : r = h[i].rev
        BY <2>1, <2>3, <3>2
      <4> QED BY <1>2, <1>7, <4>1
    <3> QED BY <3>1, <3>2
  <2>4. com2 \in [DOMAIN com2 -> Snapshot]
    <3>1. com2 = [r \in DOMAIN com2 |-> com2[r]]
      BY <1>4
    <3> QED BY <2>3, <3>1
  <2> QED BY <2>2, <2>4 DEF ComType
<1>11. RecordOK(com2, w.origin)
  <2> SUFFICES ASSUME NEW r \in DOMAIN com2 PROVE WellFormedBut(com2[r], w.origin)
    BY DEF RecordOK
  <2>1. CASE r \in DOMAIN com
    BY <1>6, <2>1 DEF Extends, RecordOK
  <2>2. CASE r \notin DOMAIN com
    <3>1. PICK i \in new : r = h[i].rev
      BY <1>4, <2>2
    <3>2. com2[r] = h[i] /\ i \in 1..Len(h)
      BY <1>7, <3>1
    <3> QED BY <3>2 DEF WriterOK
  <2> QED BY <2>1, <2>2
<1> QED BY <1>6, <1>9, <1>10, <1>11 DEF com2

-----------------------------------------------------------------------------
(* The inductive invariant of the threads.                         *)

Busy == {"executing", "publishing", "answering", "rejecting"}

(* The writer's state is in order, it is what is published, and every      *)
(* snapshot of it is on record.                                            *)
StoreInv ==
    /\ WriterOK(writer)
    /\ published = EngineState(writer)
    /\ ComType(committed, writer.last) /\ RecordOK(committed, writer.origin)
    /\ \A i \in 1..Len(writer.history) : Genuine(writer.history[i], committed)

(* What the actor is about to publish continues what is published.         *)
NextOK(n) ==
    /\ WriterOK(n) /\ n.schema
    /\ n.retained = writer.retained /\ n.origin = writer.origin /\ n.last > writer.last
    /\ \A i \in 1..Len(n.history) : n.history[i].rev <= writer.last =>
          \E j \in 1..Len(writer.history) : n.history[i] = writer.history[j]

(* The actor serves a client that waits for it.                            *)
ActorInv ==
    /\ actor.at \in Busy =>
          /\ actor.client \in Clients /\ Waiting(actor.client) /\ reply[actor.client] = Empty
    /\ actor.at \notin Busy => actor.client = NoCall
    /\ actor.at = "publishing" => NextOK(actor.next)
    /\ actor.at = "answering" => writer.schema

(* A queued command belongs to a client that waits and is not being served *)
(* already, and no client is queued twice.                                 *)
QueueInv ==
    /\ \A i \in 1..Len(queue) : queue[i] # Shutdown =>
          /\ Waiting(queue[i].client) /\ reply[queue[i].client] = Empty
          /\ actor.client # queue[i].client
    /\ \A i, j \in 1..Len(queue) : queue[i] = queue[j] => i = j

(* Calls carry what they were started with, and no client has been shown   *)
(* or promised a revision that is not published.                           *)
ClientInv ==
    \A c \in Clients :
        /\ pc[c] \in {"sending", "waiting"} => arg[c] \in Commands
        /\ pc[c] = "sending" => reply[c] = Empty
        /\ pc[c] \in {"loading", "resolving"} => arg[c] \in Requests
        /\ reply[c].kind = "token" => reply[c].token.rev <= writer.last
        /\ seen[c] <= writer.last
        /\ pc[c] = "resolving" => loaded[c].last >= seen[c]
        /\ StateOK(loaded[c], writer.retained, writer.last, committed)

(* Once the last handle is being dropped nobody is in a call and the       *)
(* shutdown command is the only one in the queue until it is received.     *)
DropInv ==
    IF shutdown
    THEN /\ \A c \in Clients : pc[c] \in {"joining", "gone"}
         /\ ActorGone \/ queue = <<Shutdown>>
    ELSE /\ \A c \in Clients : pc[c] # "joining"
         /\ \A i \in 1..Len(queue) : queue[i] # Shutdown

EngineInv == TypeOK /\ StoreInv /\ ActorInv /\ QueueInv /\ ClientInv /\ DropInv

-----------------------------------------------------------------------------
(* Facts about the parts.                                                  *)

Item == {Shutdown} \cup {Envelope(c) : c \in Clients}

LEMMA ItemFacts ==
    /\ \A c \in Clients : Envelope(c) \in Item /\ Envelope(c).client = c /\ Envelope(c) # Shutdown
    /\ \A x \in Item : x # Shutdown => x.client \in Clients /\ x = Envelope(x.client)
<1>1. ASSUME NEW c \in Clients
      PROVE  Envelope(c) \in Item /\ Envelope(c).client = c /\ Envelope(c) # Shutdown
  <2>1. Envelope(c).op = "command" /\ Shutdown.op = "shutdown"
    BY DEF Envelope, Shutdown
  <2>2. Envelope(c) # Shutdown
    BY <2>1
  <2>3. Envelope(c).client = c
    BY DEF Envelope
  <2> QED BY <2>2, <2>3 DEF Item
<1>2. \A x \in Item : x # Shutdown => \E c \in Clients : x = Envelope(c)
  BY DEF Item
<1> QED BY <1>1, <1>2

LEMMA QueueItems ==
    ASSUME TypeOK
    PROVE  /\ queue \in Seq(Item) /\ Len(queue) \in Nat
           /\ \A i \in 1..Len(queue) : queue[i] \in Item
           /\ \A i \in 1..Len(queue) : queue[i] # Shutdown =>
                 queue[i].client \in Clients /\ queue[i] = Envelope(queue[i].client)
<1>1. queue \in Seq(Item)
  BY DEF TypeOK, Item
<1>2. \A i \in 1..Len(queue) : queue[i] \in Item
  BY <1>1
<1> QED BY <1>1, <1>2, ItemFacts

LEMMA ResultFacts ==
    /\ Closed \in Result /\ Closed # Empty /\ Closed.kind = "error"
    /\ Error("Rejected") \in Result /\ Error("Rejected") # Empty /\ Error("Rejected").kind = "error"
    /\ Empty.kind = "empty" /\ Empty \notin Result
<1>1. Closed = [kind |-> "error", error |-> "WriterUnavailable"]
  BY DEF Closed, Error
<1>2. Error("Rejected") = [kind |-> "error", error |-> "Rejected"]
  BY DEF Error
<1>3. Empty = [kind |-> "empty"]
  BY DEF Empty
<1>4. \A x \in Result : x.kind \in {"snapshot", "token", "error"}
  BY DEF Result
<1>5. Closed \in Result /\ Error("Rejected") \in Result
  BY <1>1, <1>2 DEF Result, WriteErrors
<1> QED BY <1>1, <1>2, <1>3, <1>4, <1>5

(* A committed write's answer.                                             *)
LEMMA TokenFacts ==
    ASSUME NEW w \in Writer, WriterOK(w), w.schema
    PROVE  LET r == Committed(TokenOf(w.current))
           IN  r \in Result /\ r # Empty /\ r.kind = "token" /\ r.token.rev = w.last
<1> DEFINE r == Committed(TokenOf(w.current))
<1>1. w.current \in Snapshot /\ w.last \in Nat /\ Len(w.history) \in 1..Len(w.history)
  BY EngineConstants DEF WriterOK, Writer
<1>2. w.current.rev = w.last - Len(w.history) + Len(w.history)
  BY <1>1 DEF WriterOK
<1>3. w.current.rev = w.last
  BY <1>1, <1>2
<1>4. TokenOf(w.current) \in Token /\ TokenOf(w.current).rev = w.last
  BY <1>1, <1>3 DEF TokenOf, Token, Snapshot
<1>5. r.kind = "token" /\ r.token = TokenOf(w.current) /\ r \in Result
  BY <1>4 DEF Committed, Result
<1> QED BY <1>4, <1>5, ResultFacts

LEMMA NewStateFacts ==
    ASSUME NEW retained, NEW last \in Nat, NEW com
    PROVE  /\ NewWriter \in Writer /\ WriterOK(NewWriter)
           /\ EngineState(NewWriter) \in State /\ EngineState(NewWriter).last = 0
           /\ StateOK(EngineState(NewWriter), retained, last, com)
<1>1. [n \in {} |-> {}] \in Configs
  BY ConfigsShape
<1>2. NewWriter \in Writer /\ WriterOK(NewWriter)
  BY <1>1, EngineConstants DEF NewWriter, Writer, WriterOK
<1>3. EngineState(NewWriter) = [latest |-> NoSnapshot, history |-> <<>>, last |-> 0]
  BY DEF EngineState, NewWriter
<1>4. EngineState(NewWriter) \in State
  BY <1>3, EngineConstants DEF State
<1> QED BY <1>2, <1>3, <1>4 DEF StateOK

-----------------------------------------------------------------------------
(* The initial states.                                                     *)

LEMMA InitInv == Init => EngineInv
<1> SUFFICES ASSUME Init PROVE EngineInv
  OBVIOUS
<1> USE DEF Init
<1> DEFINE none == [r \in {} |-> NoSnapshot]
<1>0. ComType(none, 0) /\ DOMAIN none = {} /\ RecordOK(none, writer.origin)
  BY DEF ComType, RecordOK
<1>1. writer \in Writer /\ WriterOK(writer)
  <2>1. CASE writer = NewWriter
    BY <2>1, NewStateFacts
  <2>2. ASSUME NEW f \in Files, writer = LoadedWriter(f) PROVE writer \in Writer /\ WriterOK(writer)
    <3>1. f \in Snapshot /\ WellFormedBut(f, f) /\ f.hash = SchemaHash(f.configs)
      BY FilesLoad, EngineConstants DEF WellFormedBut
    <3>2. /\ f.rev \in 1..MaxRevision /\ f.configs \in Configs /\ f.rows \in SUBSET Relationships
      BY <3>1 DEF Snapshot
    <3>3. writer = [configs |-> f.configs, schema |-> TRUE, rows |-> f.rows,
                    current |-> f, history |-> <<f>>, last |-> f.rev, retained |-> 1,
                    origin |-> f]
      BY <2>2 DEF LoadedWriter
    <3>4. <<f>> \in Seq(Snapshot) /\ Len(<<f>>) = 1 /\ <<f>>[1] = f
      BY <3>1
    <3>5. writer \in Writer
      BY <3>1, <3>2, <3>3, <3>4, EngineConstants DEF Writer
    <3>6. f.rev > 0 /\ f.rev = f.rev - 1 + 1
      BY <3>2, EngineConstants
    <3>7. WriterOK(writer)
      BY <3>1, <3>3, <3>4, <3>6 DEF WriterOK
    <3> QED BY <3>5, <3>7
  <2> QED BY <2>1, <2>2
<1>2. /\ ComType(committed, writer.last) /\ RecordOK(committed, writer.origin)
      /\ \A i \in 1..Len(writer.history) : Genuine(writer.history[i], committed)
  <2>1. CASE writer.schema
    <3>1. \A i \in 1..Len(writer.history) : ~(writer.history[i].rev <= 0)
      <4>1. writer.history \in Seq(Snapshot)
        BY <1>1 DEF Writer
      <4>2. \A i \in 1..Len(writer.history) : writer.history[i] \in Snapshot
        <5> HIDE DEF Init
        <5> QED BY <4>1
      <4>3. \A i \in 1..Len(writer.history) : writer.history[i].rev \in 1..MaxRevision
        <5> HIDE DEF Init
        <5> QED BY <4>2 DEF Snapshot
      <4> HIDE DEF Init
      <4> QED BY <4>3, EngineConstants
    <3>2. 0 <= writer.last
      BY <1>1, EngineConstants DEF Writer
    <3> HIDE DEF Init
    <3>3. /\ ComType(Extend(none, writer.history), writer.last)
          /\ RecordOK(Extend(none, writer.history), writer.origin)
          /\ \A i \in 1..Len(writer.history) : Genuine(writer.history[i], Extend(none, writer.history))
      BY <1>0, <1>1, <2>1, <3>1, <3>2, ExtendOK
    <3> QED BY <3>3 DEF Init
  <2>2. CASE ~writer.schema
    <3>1. writer.history = <<>> /\ writer.last = 0
      BY <1>1, <2>2 DEF WriterOK
    <3>2. committed = Extend(none, <<>>)
      BY <3>1
    <3> HIDE DEF Init
    <3>3. {i \in 1..Len(<<>>) : <<>>[i].rev \notin DOMAIN none} = {}
      OBVIOUS
    <3>4. DOMAIN committed = {}
      BY <1>0, <3>2, <3>3 DEF Extend
    <3>5. committed = [r \in {} |-> committed[r]]
      BY <3>2, <3>4 DEF Extend
    <3> HIDE DEF none
    <3>6. ComType(committed, 0) /\ RecordOK(committed, writer.origin)
      BY <3>4, <3>5 DEF ComType, RecordOK
    <3> QED BY <3>1, <3>6
  <2> QED BY <2>1, <2>2
<1>3. StoreInv
  BY <1>1, <1>2 DEF StoreInv
<1>4. published \in State
  BY <1>1 DEF EngineState, State, Writer
<1>5. writer.last \in Nat /\ writer.last <= MaxRevision
  BY <1>1, EngineConstants DEF Writer
<1>6. TypeOK
  <2>1. DOMAIN committed \subseteq 1..MaxRevision /\ committed \in [DOMAIN committed -> Snapshot]
    BY <1>2, <1>5, EngineConstants DEF ComType
  <2>2. actor \in [at : {"recv", "executing", "publishing", "answering", "rejecting",
                         "stopped", "panicked"},
                   client : Clients \cup {NoCall}, next : Writer]
    BY NewStateFacts DEF NoWriter
  <2>3. loaded \in [Clients -> State]
    BY NewStateFacts
  <2>4. seen \in [Clients -> 0..MaxRevision]
    BY EngineConstants
  <2>5. queue \in Seq(Item)
    BY EmptySeq
  <2>6. /\ pc \in [Clients -> {"idle", "sending", "waiting", "loading", "resolving",
                             "joining", "gone"}]
        /\ arg \in [Clients -> Commands \cup Requests \cup {NoCall}]
        /\ reply \in [Clients -> Result \cup {Empty}]
        /\ shutdown \in BOOLEAN
    OBVIOUS
  <2> HIDE DEF Init
  <2> QED BY <1>1, <1>4, <2>1, <2>2, <2>3, <2>4, <2>5, <2>6 DEF TypeOK, Item
<1>7. ClientInv
  <2>1. \A c \in Clients : StateOK(loaded[c], writer.retained, writer.last, committed)
    BY <1>5, NewStateFacts
  <2> QED BY <1>5, <2>1, ResultFacts DEF ClientInv
<1>8. ActorInv /\ QueueInv /\ DropInv
  BY DEF ActorInv, QueueInv, DropInv, Busy
<1> QED BY <1>3, <1>6, <1>7, <1>8 DEF EngineInv

-----------------------------------------------------------------------------
(* The client threads' steps.                                              *)

LEMMA SubmitWriteStep ==
    ASSUME EngineInv, NEW c \in Clients, SubmitWrite(c)
    PROVE  EngineInv'
<1> USE DEF EngineInv, SubmitWrite
<1>1. PICK cmd \in Commands : arg' = [arg EXCEPT ![c] = cmd]
  OBVIOUS
<1>2. TypeOK'
  BY <1>1 DEF TypeOK
<1>3. StoreInv'
  BY DEF StoreInv
<1>4. ActorInv'
  <2>1. actor.at \in Busy => actor.client # c
    BY DEF ActorInv, Waiting
  <2> QED BY <2>1 DEF ActorInv, TypeOK, Waiting, NextOK
<1>5. QueueInv'
  <2>1. \A i \in 1..Len(queue) : queue[i] # Shutdown => queue[i].client # c
    BY DEF QueueInv, Waiting
  <2>2. \A i \in 1..Len(queue) : queue[i] # Shutdown => queue[i].client \in Clients
    BY QueueItems
  <2> QED BY <2>1, <2>2 DEF QueueInv, TypeOK, Waiting
<1>6. ClientInv'
  BY <1>1, ResultFacts DEF ClientInv, TypeOK
<1>7. DropInv'
  <2>1. ~shutdown
    BY DEF DropInv
  <2> QED BY <2>1 DEF DropInv, TypeOK
<1> QED BY <1>2, <1>3, <1>4, <1>5, <1>6, <1>7

LEMMA SendStep ==
    ASSUME EngineInv, NEW c \in Clients, Send(c)
    PROVE  EngineInv'
<1> USE DEF EngineInv, Send
<1>1. queue \in Seq(Item) /\ queue' = Append(queue, Envelope(c)) /\ Envelope(c) \in Item
  BY ItemFacts DEF TypeOK, Item
<1>2. /\ queue' \in Seq(Item) /\ Len(queue') = Len(queue) + 1 /\ Len(queue) \in Nat
      /\ \A i \in 1..Len(queue) : queue'[i] = queue[i]
      /\ queue'[Len(queue) + 1] = Envelope(c)
  BY <1>1, AppendProperties
<1>3. TypeOK'
  BY <1>2 DEF TypeOK, Item
<1>4. StoreInv'
  BY DEF StoreInv
<1>5. ActorInv'
  BY DEF ActorInv, TypeOK, Waiting, NextOK
<1>6. QueueInv'
  <2>1. reply[c] = Empty /\ actor.client # c
    BY NoCallAssumption DEF ClientInv, ActorInv, Waiting
  <2>2. \A i \in 1..Len(queue) : queue[i] # Shutdown => queue[i].client # c
    BY DEF QueueInv, Waiting
  <2>3. \A i \in 1..Len(queue) : queue[i] # Envelope(c)
    BY <2>2, ItemFacts
  <2>4. \A i \in 1..Len(queue') : i \in 1..Len(queue) \/ i = Len(queue) + 1
    BY <1>2
  <2> QED BY <1>2, <2>1, <2>2, <2>3, <2>4, ItemFacts DEF QueueInv, TypeOK, Waiting
<1>7. ClientInv'
  BY DEF ClientInv, TypeOK
<1>8. DropInv'
  BY <1>2, ItemFacts DEF DropInv, TypeOK
<1> QED BY <1>3, <1>4, <1>5, <1>6, <1>7, <1>8

LEMMA SendFailsStep ==
    ASSUME EngineInv, NEW c \in Clients, SendFails(c)
    PROVE  EngineInv'
<1> USE DEF EngineInv, SendFails
<1>1. TypeOK'
  BY ResultFacts DEF TypeOK
<1>2. StoreInv'
  BY DEF StoreInv
<1>3. ActorInv'
  <2>1. actor.at \in Busy => actor.client # c
    BY DEF ActorInv, Waiting
  <2> QED BY <2>1 DEF ActorInv, TypeOK, Waiting, NextOK
<1>4. QueueInv'
  <2>1. \A i \in 1..Len(queue) : queue[i] # Shutdown => queue[i].client # c
    BY DEF QueueInv, Waiting
  <2> QED BY <2>1, QueueItems DEF QueueInv, TypeOK, Waiting
<1>5. ClientInv'
  BY ResultFacts DEF ClientInv, TypeOK
<1>6. DropInv'
  <2>1. ~shutdown
    BY DEF DropInv
  <2> QED BY <2>1 DEF DropInv, TypeOK
<1> QED BY <1>1, <1>2, <1>3, <1>4, <1>5, <1>6

LEMMA ReceiveReplyStep ==
    ASSUME EngineInv, NEW c \in Clients, ReceiveReply(c)
    PROVE  EngineInv'
<1> USE DEF EngineInv, ReceiveReply, Waiting
<1>0. /\ writer.last \in Nat /\ writer.last <= MaxRevision /\ MaxRevision \in Nat
      /\ seen[c] \in Nat
  BY EngineConstants DEF TypeOK, Writer
<1>1. seen'[c] \in 0..MaxRevision /\ seen'[c] <= writer.last
  <2>1. CASE reply[c].kind = "token" /\ reply[c].token.rev > seen[c]
    <3>1. seen'[c] = reply[c].token.rev
      BY <2>1 DEF TypeOK
    <3>2. reply[c] \in Result /\ reply[c].token \in Token
      BY <2>1, ResultFacts DEF TypeOK, Result
    <3>3. reply[c].token.rev \in 1..MaxRevision
      BY <3>2 DEF Token
    <3> QED BY <1>0, <2>1, <3>1, <3>3 DEF ClientInv
  <2>2. CASE ~(reply[c].kind = "token" /\ reply[c].token.rev > seen[c])
    BY <2>2 DEF TypeOK, ClientInv
  <2> QED BY <2>1, <2>2
<1>2. TypeOK'
  BY <1>1 DEF TypeOK
<1>3. StoreInv'
  BY DEF StoreInv
<1>4. ActorInv'
  <2>1. actor.at \in Busy => actor.client # c
    BY DEF ActorInv
  <2> QED BY <2>1 DEF ActorInv, TypeOK, NextOK
<1>5. QueueInv'
  <2>1. \A i \in 1..Len(queue) : queue[i] # Shutdown => queue[i].client # c
    BY DEF QueueInv
  <2> QED BY <2>1, QueueItems DEF QueueInv, TypeOK
<1>6. ClientInv'
  <2>1. \A d \in Clients \ {c} : seen'[d] = seen[d] /\ pc'[d] = pc[d] /\ arg'[d] = arg[d]
    BY DEF TypeOK
  <2>2. pc'[c] = "idle"
    BY DEF TypeOK
  <2> QED BY <1>1, <2>1, <2>2 DEF ClientInv, TypeOK
<1>7. DropInv'
  <2>1. ~shutdown
    BY DEF DropInv
  <2> QED BY <2>1 DEF DropInv, TypeOK
<1> QED BY <1>2, <1>3, <1>4, <1>5, <1>6, <1>7

LEMMA BeginReadStep ==
    ASSUME EngineInv, NEW c \in Clients, BeginRead(c)
    PROVE  EngineInv'
<1> USE DEF EngineInv, BeginRead, Waiting
<1>1. PICK r \in Requests : arg' = [arg EXCEPT ![c] = r]
  OBVIOUS
<1>2. TypeOK'
  BY <1>1 DEF TypeOK
<1>3. StoreInv'
  BY DEF StoreInv
<1>4. ActorInv'
  <2>1. actor.at \in Busy => actor.client # c
    BY DEF ActorInv
  <2> QED BY <2>1 DEF ActorInv, TypeOK, NextOK
<1>5. QueueInv'
  <2>1. \A i \in 1..Len(queue) : queue[i] # Shutdown => queue[i].client # c
    BY DEF QueueInv
  <2> QED BY <2>1, QueueItems DEF QueueInv, TypeOK
<1>6. ClientInv'
  BY <1>1, ResultFacts DEF ClientInv, TypeOK
<1>7. DropInv'
  <2>1. ~shutdown
    BY DEF DropInv
  <2> QED BY <2>1 DEF DropInv, TypeOK
<1> QED BY <1>2, <1>3, <1>4, <1>5, <1>6, <1>7

(* The pointer is loaded once, and it is at least as new as what the       *)
(* client has seen.                                                        *)
LEMMA LoadStateStep ==
    ASSUME EngineInv, NEW c \in Clients, LoadState(c)
    PROVE  EngineInv'
<1> USE DEF EngineInv, LoadState, Waiting
<1>1. TypeOK'
  BY DEF TypeOK
<1>2. StoreInv'
  BY DEF StoreInv
<1>3. ActorInv'
  <2>1. actor.at \in Busy => actor.client # c
    BY DEF ActorInv
  <2> QED BY <2>1 DEF ActorInv, TypeOK, NextOK
<1>4. QueueInv'
  <2>1. \A i \in 1..Len(queue) : queue[i] # Shutdown => queue[i].client # c
    BY DEF QueueInv
  <2> QED BY <2>1, QueueItems DEF QueueInv, TypeOK
<1>5. ClientInv'
  <2>1. published.last = writer.last
    BY DEF StoreInv, EngineState
  <2>2. StateOK(published, writer.retained, writer.last, committed)
    BY WriterStateOK DEF StoreInv, TypeOK
  <2>3. writer.last \in Nat /\ seen[c] \in Nat
    BY EngineConstants DEF TypeOK, Writer
  <2>4. loaded'[c] = published /\ \A d \in Clients \ {c} : loaded'[d] = loaded[d] /\ pc'[d] = pc[d]
    BY DEF TypeOK
  <2> QED BY <2>1, <2>2, <2>3, <2>4 DEF ClientInv, TypeOK
<1>6. DropInv'
  <2>1. ~shutdown
    BY DEF DropInv
  <2> QED BY <2>1 DEF DropInv, TypeOK
<1> QED BY <1>1, <1>2, <1>3, <1>4, <1>5, <1>6

LEMMA ResolveReadStep ==
    ASSUME EngineInv, NEW c \in Clients, ResolveRead(c)
    PROVE  EngineInv'
<1> USE DEF EngineInv, ResolveRead, Waiting
<1> DEFINE result == Resolve(loaded[c], arg[c])
<1>0. /\ writer.last \in Nat /\ writer.last <= MaxRevision /\ MaxRevision \in Nat
      /\ seen[c] \in 0..MaxRevision /\ loaded[c] \in State /\ arg[c] \in Request
  BY EngineConstants DEF TypeOK, Writer, ClientInv
<1>1. /\ result \in Result /\ result.kind # "token"
      /\ result.kind = "snapshot" => result.snap \in Snapshot /\ result.snap.rev <= loaded[c].last
  <2>1. StateOK(loaded[c], writer.retained, writer.last, committed)
    BY DEF ClientInv
  <2>2. /\ result \in Result /\ result.kind # "token"
        /\ result.kind = "snapshot" => result.snap.rev <= loaded[c].last
    BY <1>0, <2>1, ResolveOK
  <2>3. \A x \in Result : x.kind = "snapshot" => x.snap \in Snapshot
    BY DEF Result
  <2> QED BY <2>2, <2>3
<1>2. /\ reply' = [reply EXCEPT ![c] = result]
      /\ seen' = [seen EXCEPT ![c] = IF result.kind = "snapshot" /\ result.snap.rev > @
                                     THEN result.snap.rev ELSE @]
  OBVIOUS
<1> HIDE DEF result
<1>3. seen'[c] \in 0..MaxRevision /\ seen'[c] <= writer.last
  <2>1. CASE result.kind = "snapshot" /\ result.snap.rev > seen[c]
    <3>1. seen'[c] = result.snap.rev
      BY <1>2, <2>1 DEF TypeOK
    <3>2. result.snap.rev \in 1..MaxRevision /\ result.snap.rev <= loaded[c].last
      BY <1>1, <2>1 DEF Snapshot
    <3>3. loaded[c].last <= writer.last /\ loaded[c].last \in Nat
      BY <1>0, EngineConstants DEF ClientInv, StateOK, State
    <3> QED BY <1>0, <3>1, <3>2, <3>3
  <2>2. CASE ~(result.kind = "snapshot" /\ result.snap.rev > seen[c])
    BY <1>0, <1>2, <2>2 DEF TypeOK, ClientInv
  <2> QED BY <2>1, <2>2
<1>4. TypeOK'
  <2>1. loaded' \in [Clients -> State]
    BY <1>0, NewStateFacts DEF TypeOK
  <2>2. reply' \in [Clients -> Result \cup {Empty}]
    BY <1>1, <1>2 DEF TypeOK
  <2>3. seen' \in [Clients -> 0..MaxRevision]
    BY <1>2, <1>3 DEF TypeOK
  <2> QED BY <2>1, <2>2, <2>3 DEF TypeOK
<1>5. StoreInv'
  BY DEF StoreInv
<1>6. ActorInv'
  <2>1. actor.at \in Busy => actor.client # c
    BY DEF ActorInv
  <2> QED BY <1>2, <2>1 DEF ActorInv, TypeOK, NextOK
<1>7. QueueInv'
  <2>1. \A i \in 1..Len(queue) : queue[i] # Shutdown => queue[i].client # c
    BY DEF QueueInv
  <2> QED BY <1>2, <2>1, QueueItems DEF QueueInv, TypeOK
<1>8. ClientInv'
  <2>1. \A d \in Clients \ {c} : /\ seen'[d] = seen[d] /\ pc'[d] = pc[d] /\ arg'[d] = arg[d]
                                /\ reply'[d] = reply[d] /\ loaded'[d] = loaded[d]
    BY <1>2 DEF TypeOK
  <2>2. pc'[c] = "idle" /\ reply'[c] = result /\ loaded'[c] = EngineState(NewWriter)
    BY <1>2 DEF TypeOK
  <2>3. StateOK(loaded'[c], writer.retained, writer.last, committed)
    BY <1>0, <2>2, NewStateFacts
  <2> QED BY <1>1, <1>3, <2>1, <2>2, <2>3 DEF ClientInv
<1>9. DropInv'
  <2>1. ~shutdown
    BY DEF DropInv
  <2> QED BY <2>1 DEF DropInv, TypeOK
<1> QED BY <1>4, <1>5, <1>6, <1>7, <1>8, <1>9

LEMMA DropHandleStep ==
    ASSUME EngineInv, NEW c \in Clients, DropHandle(c)
    PROVE  EngineInv'
<1> USE DEF EngineInv, DropHandle, Waiting
<1>1. TypeOK'
  BY DEF TypeOK
<1>2. StoreInv'
  BY DEF StoreInv
<1>3. ActorInv'
  <2>1. actor.at \in Busy => actor.client # c
    BY DEF ActorInv
  <2> QED BY <2>1 DEF ActorInv, TypeOK, NextOK
<1>4. QueueInv'
  <2>1. \A i \in 1..Len(queue) : queue[i] # Shutdown => queue[i].client # c
    BY DEF QueueInv
  <2> QED BY <2>1, QueueItems DEF QueueInv, TypeOK
<1>5. ClientInv'
  BY DEF ClientInv, TypeOK
<1>6. DropInv'
  BY DEF DropInv, TypeOK, ActorGone
<1> QED BY <1>1, <1>2, <1>3, <1>4, <1>5, <1>6

(* Nobody is in a call when the last handle goes, so nothing is queued and *)
(* the single try_send finds a free slot.                                  *)
LEMMA DropEngineStep ==
    ASSUME EngineInv, NEW c \in Clients, DropEngine(c)
    PROVE  EngineInv'
<1> USE DEF EngineInv, DropEngine, Waiting
<1>1. ~shutdown /\ \A d \in Clients : pc[d] # "waiting"
  BY DEF DropInv, LastHandle
<1>2. Len(queue) = 0 /\ queue = <<>>
  <2>1. \A i \in 1..Len(queue) : FALSE
    BY <1>1, QueueItems DEF QueueInv, DropInv
  <2>2. queue \in Seq(Item) /\ Len(queue) \in Nat
    BY QueueItems
  <2>3. Len(queue) = 0
    BY <2>1, <2>2
  <2> QED BY <2>2, <2>3, EmptySeq
<1>3. actor.at \notin Busy
  BY <1>1 DEF ActorInv
<1>4. queue' = IF ActorGone THEN <<>> ELSE <<Shutdown>>
  <2>1. Len(queue) < QueueCapacity
    BY <1>2, QueueAssumption
  <2> QED BY <1>2, <2>1
<1>5. queue' \in Seq(Item)
  <2>1. <<>> \in Seq(Item) /\ <<Shutdown>> \in Seq(Item)
    BY DEF Item
  <2> QED BY <1>4, <2>1
<1>6. TypeOK'
  BY <1>5 DEF TypeOK, Item
<1>7. StoreInv'
  BY DEF StoreInv
<1>8. ActorInv'
  BY <1>3 DEF ActorInv, Busy
<1>9. QueueInv'
  <2>1. CASE queue' = <<>>
    BY <2>1 DEF QueueInv
  <2>2. CASE queue' = <<Shutdown>>
    BY <2>2 DEF QueueInv
  <2> QED BY <1>4, <2>1, <2>2
<1>10. ClientInv'
  BY DEF ClientInv, TypeOK
<1>11. DropInv'
  <2>1. shutdown' /\ \A d \in Clients : pc'[d] \in {"joining", "gone"}
    BY DEF LastHandle, TypeOK
  <2>2. ActorGone' \/ queue' = <<Shutdown>>
    BY <1>4 DEF ActorGone
  <2> QED BY <2>1, <2>2 DEF DropInv
<1> QED BY <1>6, <1>7, <1>8, <1>9, <1>10, <1>11

LEMMA JoinStep ==
    ASSUME EngineInv, NEW c \in Clients, Join(c)
    PROVE  EngineInv'
<1> USE DEF EngineInv, Join, Waiting
<1>1. TypeOK'
  BY DEF TypeOK
<1>2. StoreInv'
  BY DEF StoreInv
<1>3. ActorInv'
  BY DEF ActorInv, ActorGone, Busy
<1>4. QueueInv'
  <2>1. \A i \in 1..Len(queue) : queue[i] # Shutdown => queue[i].client # c
    BY DEF QueueInv
  <2> QED BY <2>1, QueueItems DEF QueueInv, TypeOK
<1>5. ClientInv'
  BY DEF ClientInv, TypeOK
<1>6. DropInv'
  BY DEF DropInv, TypeOK, ActorGone
<1> QED BY <1>1, <1>2, <1>3, <1>4, <1>5, <1>6

-----------------------------------------------------------------------------
(* The writer actor's steps.                                               *)

LEMMA ReceiveCommandStep ==
    ASSUME EngineInv, ReceiveCommand
    PROVE  EngineInv'
<1> USE DEF EngineInv, ReceiveCommand, clientVars, Waiting
<1>1. /\ queue \in Seq(Item) /\ queue # <<>> /\ Len(queue) \in Nat /\ Len(queue) >= 1
      /\ Head(queue) = queue[1] /\ queue' = Tail(queue)
  BY QueueItems, EmptySeq
<1>2. /\ queue' \in Seq(Item) /\ Len(queue') = Len(queue) - 1
      /\ \A i \in 1..Len(queue') : queue'[i] = queue[i + 1] /\ i + 1 \in 1..Len(queue)
  <2>1. /\ queue' \in Seq(Item) /\ Len(queue') = Len(queue) - 1
        /\ \A i \in 1..Len(queue') : queue'[i] = queue[i + 1]
    BY <1>1, HeadTailProperties
  <2> QED BY <1>1, <2>1
<1>3. 1 \in 1..Len(queue)
  BY <1>1
<1>4. queue[1] # Shutdown => /\ queue[1].client \in Clients /\ queue[1] = Envelope(queue[1].client)
                             /\ Waiting(queue[1].client) /\ reply[queue[1].client] = Empty
  BY <1>3, QueueItems DEF QueueInv
<1>5. actor' = IF queue[1] = Shutdown
               THEN [actor EXCEPT !.at = "stopped"]
               ELSE [actor EXCEPT !.at = "executing", !.client = queue[1].client]
  BY <1>1
<1>6. TypeOK'
  <2>1. actor' \in [at : {"recv", "executing", "publishing", "answering", "rejecting",
                          "stopped", "panicked"},
                    client : Clients \cup {NoCall}, next : Writer]
    BY <1>4, <1>5 DEF TypeOK
  <2> QED BY <1>2, <2>1 DEF TypeOK, Item
<1>7. StoreInv'
  BY DEF StoreInv
<1>8. /\ queue[1] = Shutdown => actor'.at = "stopped" /\ actor'.client = actor.client
      /\ queue[1] # Shutdown => actor'.at = "executing" /\ actor'.client = queue[1].client
  BY <1>5 DEF TypeOK
<1>9. actor.client = NoCall
  BY DEF ActorInv, Busy
<1>10. ActorInv'
  BY <1>4, <1>8, <1>9 DEF ActorInv, Busy
<1>11. QueueInv'
  <2>1. \A i, j \in 1..Len(queue') : queue'[i] = queue'[j] => i = j
    <3> TAKE i, j \in 1..Len(queue')
    <3> HAVE queue'[i] = queue'[j]
    <3>1. i + 1 = j + 1
      BY <1>2 DEF QueueInv
    <3> QED BY <1>1, <1>2, <3>1
  <2>2. \A i \in 1..Len(queue') : queue'[i] # queue[1]
    <3> TAKE i \in 1..Len(queue')
    <3>1. i + 1 # 1
      BY <1>1, <1>2
    <3> QED BY <1>2, <1>3, <3>1 DEF QueueInv
  <2>3. \A i \in 1..Len(queue') : queue'[i] # Shutdown =>
           /\ Waiting(queue'[i].client) /\ reply[queue'[i].client] = Empty
           /\ actor'.client # queue'[i].client
    <3> SUFFICES ASSUME NEW i \in 1..Len(queue'), queue'[i] # Shutdown
                 PROVE  /\ Waiting(queue'[i].client) /\ reply[queue'[i].client] = Empty
                        /\ actor'.client # queue'[i].client
      OBVIOUS
    <3>1. /\ Waiting(queue'[i].client) /\ reply[queue'[i].client] = Empty
          /\ queue'[i].client \in Clients /\ queue'[i] = Envelope(queue'[i].client)
      BY <1>2, QueueItems DEF QueueInv
    <3>2. actor'.client # queue'[i].client
      BY <1>4, <1>8, <1>9, <2>2, <3>1, NoCallAssumption
    <3> QED BY <3>1, <3>2
  <2> QED BY <2>1, <2>3 DEF QueueInv
<1>12. ClientInv'
  BY DEF ClientInv
<1>13. DropInv'
  <2>1. CASE shutdown
    <3>1. queue[1] = Shutdown
      BY <2>1 DEF DropInv, ActorGone
    <3> QED BY <1>8, <2>1, <3>1 DEF DropInv, ActorGone
  <2>2. CASE ~shutdown
    BY <1>2, <2>2 DEF DropInv
  <2> QED BY <2>1, <2>2
<1> QED BY <1>6, <1>7, <1>10, <1>11, <1>12, <1>13

LEMMA ExecuteStep ==
    ASSUME EngineInv, NEW op, Execute(op)
    PROVE  EngineInv'
<1> USE DEF EngineInv, Execute, clientVars, Waiting
<1> DEFINE cmd == arg[actor.client]
           next == NextWriter(writer, cmd)
<1>1. /\ actor.client \in Clients /\ pc[actor.client] = "waiting"
      /\ reply[actor.client] = Empty
  BY DEF ActorInv, Busy
<1>2. cmd \in Commands
  BY <1>1 DEF ClientInv
<1>3. CASE Succeeds(writer, cmd)
  <2>1. next \in Writer /\ NextOK(next)
    BY <1>2, <1>3, NextWriterOK DEF TypeOK, StoreInv, NextOK
  <2>2. actor' = [actor EXCEPT !.at = "publishing", !.next = next]
    BY <1>3
  <2> HIDE DEF next, cmd
  <2>3. actor'.at = "publishing" /\ actor'.client = actor.client /\ actor'.next = next
    BY <2>2 DEF TypeOK
  <2>4. TypeOK'
    BY <2>1, <2>2 DEF TypeOK
  <2>5. ActorInv'
    BY <1>1, <2>1, <2>3 DEF ActorInv, NextOK, Busy
  <2>6. QueueInv' /\ ClientInv' /\ StoreInv'
    BY <2>3 DEF QueueInv, ClientInv, StoreInv
  <2>7. DropInv'
    BY <1>1 DEF DropInv
  <2> QED BY <2>4, <2>5, <2>6, <2>7
<1>4. CASE ~Succeeds(writer, cmd)
  <2>1. actor' = [actor EXCEPT !.at = "rejecting"]
    BY <1>4
  <2>2. actor'.at = "rejecting" /\ actor'.client = actor.client
    BY <2>1 DEF TypeOK
  <2>3. TypeOK'
    BY <2>1 DEF TypeOK
  <2>4. ActorInv'
    BY <1>1, <2>2 DEF ActorInv, Busy
  <2>5. QueueInv' /\ ClientInv' /\ StoreInv'
    BY <2>2 DEF QueueInv, ClientInv, StoreInv
  <2>6. DropInv'
    BY <1>1 DEF DropInv
  <2> QED BY <2>3, <2>4, <2>5, <2>6
<1> QED BY <1>3, <1>4

(* The pointer swap: readers that already loaded keep a valid state, and   *)
(* no recorded revision changes.                                           *)
LEMMA PublishStep ==
    ASSUME EngineInv, Publish
    PROVE  EngineInv' /\ published'.last > published.last
<1> USE DEF EngineInv, Publish, clientVars, Waiting
<1> DEFINE n == actor.next
<1>1. n \in Writer /\ NextOK(n)
  BY DEF TypeOK, ActorInv
<1>2. /\ writer.last \in Nat /\ n.last \in Nat /\ writer.last <= n.last /\ n.last > writer.last
      /\ n.last <= MaxRevision /\ MaxRevision \in Nat
      /\ n.retained = writer.retained
  <2>1. writer.last \in Nat /\ n.last \in Nat /\ n.last <= MaxRevision /\ MaxRevision \in Nat
    BY <1>1, EngineConstants DEF TypeOK, Writer
  <2>2. n.last > writer.last /\ n.retained = writer.retained
    BY <1>1 DEF NextOK
  <2> QED BY <2>1, <2>2
<1>3. \A i \in 1..Len(n.history) : n.history[i].rev <= writer.last =>
         Genuine(n.history[i], committed)
  BY <1>1 DEF NextOK, StoreInv
<1>4. /\ ComType(committed', n.last) /\ Extends(committed', committed)
      /\ RecordOK(committed', n.origin)
      /\ \A i \in 1..Len(n.history) : Genuine(n.history[i], committed')
  <2>1. /\ ComType(committed, writer.last) /\ RecordOK(committed, n.origin)
        /\ WriterOK(n) /\ n.schema
    BY <1>1 DEF StoreInv, NextOK
  <2> QED BY <1>1, <1>2, <1>3, <2>1, ExtendOK
<1>5. StoreInv'
  BY <1>1, <1>4 DEF StoreInv, NextOK
<1>6. /\ actor'.at = "answering" /\ actor'.client = actor.client
      /\ actor' = [actor EXCEPT !.at = "answering", !.next = NoWriter]
  BY DEF TypeOK
<1>7. TypeOK'
  <2>1. published' \in State
    BY <1>1 DEF EngineState, State, Writer
  <2>2. DOMAIN committed' \subseteq 1..MaxRevision /\ committed' \in [DOMAIN committed' -> Snapshot]
    BY <1>2, <1>4 DEF ComType
  <2>3. NoWriter \in Writer
    BY <1>2, NewStateFacts DEF NoWriter
  <2>4. actor' \in [at : {"recv", "executing", "publishing", "answering", "rejecting",
                          "stopped", "panicked"},
                    client : Clients \cup {NoCall}, next : Writer]
    BY <1>6, <2>3 DEF TypeOK
  <2> QED BY <1>1, <2>1, <2>2, <2>4 DEF TypeOK
<1>8. ActorInv'
  BY <1>1, <1>6 DEF ActorInv, NextOK, Busy
<1>9. QueueInv'
  BY <1>6 DEF QueueInv
<1>10. ClientInv'
  <2> SUFFICES ASSUME NEW c \in Clients
               PROVE  /\ reply[c].kind = "token" => reply[c].token.rev <= n.last
                      /\ seen[c] <= n.last
                      /\ StateOK(loaded[c], n.retained, n.last, committed')
    BY DEF ClientInv
  <2>1. reply[c].kind = "token" => reply[c].token.rev <= n.last
    <3>1. reply[c].kind = "token" => reply[c].token \in Token
      BY ResultFacts DEF TypeOK, Result
    <3>2. reply[c].kind = "token" => reply[c].token.rev \in Nat
      BY <3>1, EngineConstants DEF Token
    <3>3. reply[c].kind = "token" => reply[c].token.rev <= writer.last
      BY DEF ClientInv
    <3> QED BY <1>2, <3>2, <3>3
  <2>2. seen[c] <= n.last
    <3>1. seen[c] \in Nat /\ seen[c] <= writer.last
      BY <1>2 DEF TypeOK, ClientInv
    <3> QED BY <1>2, <3>1
  <2>3. StateOK(loaded[c], n.retained, n.last, committed')
    <3>1. loaded[c].last \in Nat
      BY <1>2 DEF TypeOK, State
    <3>2. StateOK(loaded[c], n.retained, writer.last, committed)
      BY <1>2 DEF ClientInv
    <3> QED BY <1>2, <1>4, <3>1, <3>2, StateStable
  <2> QED BY <2>1, <2>2, <2>3
<1>11. DropInv'
  <2>1. ~shutdown
    BY DEF ActorInv, DropInv, Busy
  <2> QED BY <2>1 DEF DropInv
<1>12. published'.last > published.last
  BY <1>2 DEF StoreInv, EngineState
<1> QED BY <1>5, <1>7, <1>8, <1>9, <1>10, <1>11, <1>12

LEMMA RespondStep ==
    ASSUME EngineInv, Respond
    PROVE  EngineInv'
<1> USE DEF EngineInv, Respond, Waiting
<1> DEFINE who == actor.client
           answer == IF actor.at = "answering" THEN Committed(TokenOf(writer.current))
                     ELSE Error("Rejected")
<1>1. who \in Clients /\ pc[who] = "waiting" /\ reply[who] = Empty
  BY DEF ActorInv, Busy
<1>2. writer.last \in Nat
  BY EngineConstants DEF TypeOK, Writer
<1>3. /\ answer \in Result /\ answer # Empty
      /\ answer.kind = "token" => answer.token.rev <= writer.last
  <2>1. CASE actor.at = "answering"
    <3>1. LET r == Committed(TokenOf(writer.current))
          IN  r \in Result /\ r # Empty /\ r.kind = "token" /\ r.token.rev = writer.last
      BY <2>1, TokenFacts DEF ActorInv, StoreInv, TypeOK
    <3> QED BY <1>2, <2>1, <3>1
  <2>2. CASE actor.at # "answering"
    BY <2>2, ResultFacts
  <2> QED BY <2>1, <2>2
<1>4. reply' = [reply EXCEPT ![who] = answer]
  OBVIOUS
<1> HIDE DEF answer
<1>5. /\ actor' = [actor EXCEPT !.at = "recv", !.client = NoCall]
      /\ actor'.at = "recv" /\ actor'.client = NoCall
  BY DEF TypeOK
<1>6. TypeOK'
  <2>1. reply' \in [Clients -> Result \cup {Empty}]
    BY <1>1, <1>3, <1>4 DEF TypeOK
  <2>2. actor' \in [at : {"recv", "executing", "publishing", "answering", "rejecting",
                          "stopped", "panicked"},
                    client : Clients \cup {NoCall}, next : Writer]
    BY <1>5 DEF TypeOK
  <2> QED BY <2>1, <2>2 DEF TypeOK
<1>7. StoreInv'
  BY DEF StoreInv
<1>8. ActorInv'
  BY <1>5 DEF ActorInv, Busy
<1>9. QueueInv'
  <2>1. \A i \in 1..Len(queue) : queue[i] # Shutdown =>
           queue[i].client # who /\ queue[i].client \in Clients
    BY QueueItems DEF QueueInv
  <2> QED BY <1>4, <1>5, <2>1, NoCallAssumption DEF QueueInv, TypeOK
<1>10. ClientInv'
  <2>1. reply'[who] = answer /\ \A d \in Clients \ {who} : reply'[d] = reply[d]
    BY <1>1, <1>4 DEF TypeOK
  <2> QED BY <1>1, <1>3, <2>1 DEF ClientInv
<1>11. DropInv'
  <2>1. ~shutdown
    BY <1>1 DEF DropInv
  <2> QED BY <2>1 DEF DropInv
<1> QED BY <1>6, <1>7, <1>8, <1>9, <1>10, <1>11

(* Every client the dead thread held gets an error.                        *)
LEMMA PanicStep ==
    ASSUME EngineInv, Panic
    PROVE  EngineInv'
<1> USE DEF EngineInv, Panic, Waiting
<1>1. /\ actor' = [actor EXCEPT !.at = "panicked", !.client = NoCall]
      /\ actor'.at = "panicked" /\ actor'.client = NoCall
  BY DEF TypeOK
<1>2. \A c \in Clients : reply'[c] = reply[c] \/ (pc[c] = "waiting" /\ reply'[c] = Closed)
  OBVIOUS
<1>3. TypeOK'
  <2>1. reply' \in [Clients -> Result \cup {Empty}]
    BY ResultFacts DEF TypeOK
  <2>2. queue' \in Seq(Item)
    BY EmptySeq
  <2> QED BY <1>1, <2>1, <2>2 DEF TypeOK, Item
<1>4. StoreInv'
  BY DEF StoreInv
<1>5. ActorInv'
  BY <1>1 DEF ActorInv, Busy
<1>6. QueueInv'
  BY DEF QueueInv
<1>7. ClientInv'
  BY <1>2, ResultFacts DEF ClientInv
<1>8. DropInv'
  <2>1. ~shutdown
    BY DEF ActorInv, DropInv, Busy
  <2> QED BY <2>1 DEF DropInv
<1> QED BY <1>3, <1>4, <1>5, <1>6, <1>7, <1>8

-----------------------------------------------------------------------------
(* Every step keeps the invariant.                                         *)

LEMMA UnchangedStep ==
    ASSUME EngineInv, UNCHANGED vars
    PROVE  EngineInv'
<1> USE DEF vars
<1>1. TypeOK' = TypeOK
  BY DEF TypeOK
<1>2. StoreInv' = StoreInv
  BY DEF StoreInv
<1>3. ActorInv' = ActorInv
  BY DEF ActorInv, NextOK, Waiting
<1>4. QueueInv' = QueueInv
  BY DEF QueueInv, Waiting
<1>5. ClientInv' = ClientInv
  BY DEF ClientInv
<1>6. DropInv' = DropInv
  BY DEF DropInv, ActorGone
<1> QED BY <1>1, <1>2, <1>3, <1>4, <1>5, <1>6 DEF EngineInv

LEMMA NextInv == EngineInv /\ [Next]_vars => EngineInv'
<1> SUFFICES ASSUME EngineInv, [Next]_vars PROVE EngineInv'
  OBVIOUS
<1>1. ASSUME NEW c \in Clients, ClientStep(c) PROVE EngineInv'
  BY <1>1, SubmitWriteStep, SendStep, SendFailsStep, ReceiveReplyStep, BeginReadStep,
     LoadStateStep, ResolveReadStep, DropHandleStep, DropEngineStep, JoinStep
     DEF ClientStep
<1>2. CASE ActorStep
  BY <1>2, ReceiveCommandStep, ExecuteStep, PublishStep, RespondStep
     DEF ActorStep, WriteRelationships, ApplySchema, ReplaceSchema, ApplyConfigs,
         RemoveNamespace, RemoveRelation, ApplyPolicy
<1>3. CASE Panic
  BY <1>3, PanicStep
<1>4. CASE AllGone \/ UNCHANGED vars
  BY <1>4, UnchangedStep DEF AllGone
<1> QED BY <1>1, <1>2, <1>3, <1>4 DEF Next

(* EngineInv is an invariant of the engine.                                *)
THEOREM Invariance == Spec => []EngineInv
BY InitInv, NextInv, PTL DEF Spec

-----------------------------------------------------------------------------
(* What the invariant says of the code.                                    *)

(* Every variable keeps its type: all the writer publishes and all a       *)
(* reader holds are snapshots with positive revisions and known hashes.    *)
THEOREM TypeCorrect == Spec => []TypeOK
<1>1. EngineInv => TypeOK
  BY DEF EngineInv
<1> QED BY <1>1, Invariance, PTL

LEMMA ReadableOK ==
    ASSUME EngineInv, NEW s \in ReadableStates
    PROVE  s \in State /\ StateOK(s, writer.retained, writer.last, committed)
<1>1. StateOK(published, writer.retained, writer.last, committed)
  BY WriterStateOK DEF EngineInv, StoreInv, TypeOK
<1>2. \A c \in Clients : StateOK(loaded[c], writer.retained, writer.last, committed)
  BY DEF EngineInv, ClientInv
<1> QED BY <1>1, <1>2 DEF ReadableStates, EngineInv, TypeOK

(* The history of every state a reader holds is a gap-free window ending   *)
(* in its head, for every retention and import batch size (lib.rs          *)
(* publish_snapshot, policy.rs import).                                    *)
THEOREM HistoryIsAWindow == Spec => []HistoryWindow
<1>1. EngineInv => HistoryWindow
  BY ReadableOK DEF HistoryWindow, HistoryContiguous, StateOK
<1> QED BY <1>1, Invariance, PTL

(* No reader of an engine that started empty reaches a snapshot whose rows *)
(* its schema does not know, whatever schema changes and writes came       *)
(* before; one that was loaded from a file shows such rows only when they  *)
(* are the file's, and only under the file's schema (lib.rs                *)
(* revalidate_relationship_store, apply_relationship_mutations,            *)
(* load_snapshot_with_publisher).                                          *)
THEOREM OnlyWellFormedSnapshots == Spec => []SnapshotsWellFormed
<1>1. ASSUME EngineInv PROVE SnapshotsWellFormed
  <2> SUFFICES ASSUME NEW s \in ReadableStates, NEW i \in 1..Len(s.history)
               PROVE  /\ WellFormedBut(s.history[i], writer.origin)
                      /\ s.history[i].hash = SchemaHash(s.history[i].configs)
    BY DEF SnapshotsWellFormed
  <2>1. Genuine(s.history[i], committed)
    BY <1>1, ReadableOK DEF StateOK
  <2>2. RecordOK(committed, writer.origin)
    BY <1>1 DEF EngineInv, StoreInv
  <2> QED BY <2>1, <2>2 DEF Genuine, RecordOK
<1> QED BY <1>1, Invariance, PTL

(* A revision stands for one snapshot for ever (lib.rs publish_snapshot,   *)
(* policy.rs apply_policy_text_to_service).                                *)
THEOREM RevisionsStand == Spec => []RevisionsNeverReused
<1>1. EngineInv => RevisionsNeverReused
  BY ReadableOK DEF RevisionsNeverReused, StateOK, Genuine
<1> QED BY <1>1, Invariance, PTL

(* An exact read finds the snapshot its token was issued for, or reports   *)
(* it expired, for every token and every hash function (runtime.rs         *)
(* snapshot_for_token).                                                    *)
THEOREM ExactReadsAreExact == Spec => []ExactReads
<1>1. ASSUME EngineInv PROVE ExactReads
  <2> SUFFICES ASSUME NEW c \in Clients, pc[c] = "resolving", arg[c].mode = "exact",
                      loaded[c].last > 0
               PROVE  LET t == arg[c].token
                          result == Resolve(loaded[c], arg[c])
                          issued == /\ t.own /\ t.rev \in DOMAIN committed
                                    /\ t.hash = committed[t.rev].hash
                      IN  /\ result.kind = "snapshot" => issued /\ result.snap = committed[t.rev]
                          /\ issued /\ t.rev <= loaded[c].last =>
                                 result \in {Ok(committed[t.rev]), Error("RevisionExpired")}
    BY DEF ExactReads
  <2> DEFINE t == arg[c].token
             result == Resolve(loaded[c], arg[c])
  <2>1. /\ loaded[c] \in State /\ StateOK(loaded[c], writer.retained, writer.last, committed)
        /\ arg[c] \in Request
    BY <1>1, EngineConstants DEF EngineInv, TypeOK, ClientInv
  <2>2. /\ result.kind = "snapshot" =>
              /\ Genuine(result.snap, committed)
              /\ t.own /\ result.snap.rev = t.rev /\ result.snap.hash = t.hash
        /\ /\ t.own /\ t.rev \in DOMAIN committed /\ t.hash = committed[t.rev].hash
           /\ t.rev <= loaded[c].last
           => result \in {Ok(committed[t.rev]), Error("RevisionExpired")}
    BY <2>1, ResolveOK
  <2> HIDE DEF result, t
  <2>3. result.kind = "snapshot" => /\ t.own /\ t.rev \in DOMAIN committed
                                   /\ t.hash = committed[t.rev].hash
                                   /\ result.snap = committed[t.rev]
    BY <2>2 DEF Genuine
  <2> QED BY <2>2, <2>3 DEF result, t
<1> QED BY <1>1, Invariance, PTL

(* No client reads a state older than one it has been shown, its own       *)
(* writes included (api.rs WriterActor::start answers after the swap).     *)
THEOREM ReadsFollowWrites == Spec => []ReadYourWrites
<1>1. EngineInv => ReadYourWrites
  BY DEF EngineInv, ClientInv, ReadYourWrites
<1> QED BY <1>1, Invariance, PTL

(* Drop's one try_send always reaches a thread that still waits, for every *)
(* queue capacity (api.rs Drop for WriterActor).                           *)
THEOREM ShutdownReachesTheActor == Spec => []ShutdownDelivered
<1>1. EngineInv => ShutdownDelivered
  BY DEF EngineInv, DropInv, ShutdownDelivered
<1> QED BY <1>1, Invariance, PTL

(* Publication only moves the head forward (lib.rs publish_snapshot).      *)
THEOREM HeadOnlyAdvances == Spec => HeadAdvances
<1>1. EngineInv /\ [Next]_vars => [published' # published => published'.last > published.last]_vars
  <2> SUFFICES ASSUME EngineInv, Next, published' # published
               PROVE  published'.last > published.last
    BY DEF vars
  <2>1. CASE Publish
    BY <2>1, PublishStep
  <2>2. CASE \E c \in Clients : ClientStep(c)
    BY <2>2 DEF ClientStep, SubmitWrite, Send, SendFails, ReceiveReply, BeginRead, LoadState,
                ResolveRead, DropHandle, DropEngine, Join
  <2>3. CASE ActorStep /\ ~Publish
    BY <2>3 DEF ActorStep, ReceiveCommand, Execute, Respond, WriteRelationships, ApplySchema,
                ReplaceSchema, ApplyConfigs, RemoveNamespace, RemoveRelation, ApplyPolicy
  <2>4. CASE Panic \/ AllGone
    BY <2>4 DEF Panic, AllGone, vars
  <2> QED BY <2>1, <2>2, <2>3, <2>4 DEF Next
<1> QED BY <1>1, Invariance, PTL DEF Spec, HeadAdvances

-----------------------------------------------------------------------------
(***************************************************************************)
(* The engine implements LinearStore: its calls take effect atomically,    *)
(* for every number of clients, queue capacity, retention, set of commands *)
(* and hash function.                                                      *)
(***************************************************************************)

(* The instance's operators are the ones the engine uses.                  *)
LEMMA SameOperators ==
    /\ \A w, cmd : Linear!Succeeds(w, cmd) = Succeeds(w, cmd)
    /\ \A w, cmd : Linear!NextWriter(w, cmd) = NextWriter(w, cmd)
    /\ \A state, request : Linear!Resolve(state, request) = Resolve(state, request)
    /\ \A w : Linear!EngineState(w) = EngineState(w)
    /\ \A snap : Linear!TokenOf(snap) = TokenOf(snap)
    /\ \A token : Linear!Committed(token) = Committed(token)
    /\ \A e : Linear!Error(e) = Error(e)
    /\ Linear!NewWriter = NewWriter
    /\ \A f : Linear!LoadedWriter(f) = LoadedWriter(f)
<1> USE DEF Linear!Candidates, Candidates, Linear!Defines, Defines,
            Linear!ValidateExpression, ValidateExpression, Linear!Compiles, Compiles,
            Linear!ValidateRelationship, ValidateRelationship,
            Linear!ValidatePrecondition, ValidatePrecondition, Linear!WellFormed, WellFormed,
            Linear!SchemaCandidate, SchemaCandidate, Linear!Merge, Merge,
            Linear!ApplyNamespaceConfigs, ApplyNamespaceConfigs, Linear!AddDsl, AddDsl,
            Linear!ReplaceDsl, ReplaceDsl, Linear!DeleteNamespace, DeleteNamespace,
            Linear!DeleteRelation, DeleteRelation, Linear!Rows, Rows,
            Linear!MutationsApply, MutationsApply,
            Linear!ApplyRelationshipMutations, ApplyRelationshipMutations,
            Linear!Batches, Batches, Linear!ApplyPolicyText, ApplyPolicyText
<1>1. \A w, cmd : Linear!Succeeds(w, cmd) = Succeeds(w, cmd)
  BY DEF Linear!Succeeds, Succeeds
<1>2. \A w, cmd : Linear!NextWriter(w, cmd) = NextWriter(w, cmd)
  <2>1. \A w, cmd : Linear!Candidates(w, cmd) = Candidates(w, cmd)
    OBVIOUS
  <2>2. \A last, cands : Linear!Snapshots(last, cands) = Snapshots(last, cands)
    BY DEF Linear!Snapshots, Snapshots
  <2>3. \A history, n : Linear!Retain(history, n) = Retain(history, n)
    BY DEF Linear!Retain, Retain
  <2> HIDE DEF Linear!Candidates, Candidates
  <2> QED BY <2>1, <2>2, <2>3, Zenon DEF Linear!NextWriter, NextWriter
<1>3. \A state, request : Linear!Resolve(state, request) = Resolve(state, request)
  BY DEF Linear!Resolve, Resolve, Linear!ResolveToken, ResolveToken, Linear!Error, Error,
         Linear!Ok, Ok
<1>4. \A w : Linear!EngineState(w) = EngineState(w)
  BY DEF Linear!EngineState, EngineState
<1>5. /\ \A snap : Linear!TokenOf(snap) = TokenOf(snap)
      /\ \A token : Linear!Committed(token) = Committed(token)
      /\ \A e : Linear!Error(e) = Error(e)
  BY DEF Linear!TokenOf, TokenOf, Linear!Committed, Committed, Linear!Error, Error
<1>6. Linear!NewWriter = NewWriter /\ \A f : Linear!LoadedWriter(f) = LoadedWriter(f)
  BY DEF Linear!NewWriter, NewWriter, Linear!LoadedWriter, LoadedWriter
<1> QED BY <1>1, <1>2, <1>3, <1>4, <1>5, <1>6

-----------------------------------------------------------------------------
(* What the refinement needs beyond EngineInv.                             *)

(* An unanswered write is in the writer's hands.                           *)
HeldInv ==
    /\ Len(queue) <= QueueCapacity
    /\ \A c \in Clients : Waiting(c) /\ reply[c] = Empty =>
          actor.client = c \/ \E i \in 1..Len(queue) : queue[i] = Envelope(c)

(* What is about to be published is what the command makes of the state    *)
(* that is published now.                                                  *)
PreparedInv ==
    actor.at = "publishing" =>
        /\ Succeeds(writer, arg[actor.client])
        /\ actor.next = NextWriter(writer, arg[actor.client])

LinearInv == EngineInv /\ HeldInv /\ PreparedInv

LEMMA InitLinear == Init => LinearInv
<1> SUFFICES ASSUME Init PROVE LinearInv
  OBVIOUS
<1>1. EngineInv
  BY InitInv
<1>2. HeldInv
  BY QueueAssumption DEF Init, HeldInv, Waiting
<1>3. PreparedInv
  BY DEF Init, PreparedInv
<1> QED BY <1>1, <1>2, <1>3 DEF LinearInv

(* Sending puts the caller into the queue, the shutdown command takes a    *)
(* free slot, and whoever is in the queue stays there until it is served.  *)
LEMMA AppendHeld ==
    ASSUME EngineInv, HeldInv, NEW x \in Item, queue' = Append(queue, x),
           Len(queue) < QueueCapacity
    PROVE  /\ Len(queue') <= QueueCapacity
           /\ \A y \in Item : (\E i \in 1..Len(queue) : queue[i] = y) \/ y = x =>
                 \E i \in 1..Len(queue') : queue'[i] = y
<1>1. queue \in Seq(Item) /\ Len(queue) \in Nat
  BY QueueItems DEF EngineInv
<1>2. /\ Len(queue') = Len(queue) + 1
      /\ \A i \in 1..Len(queue) : queue'[i] = queue[i]
      /\ queue'[Len(queue) + 1] = x
  BY <1>1, AppendProperties
<1>3. \A i \in 1..Len(queue) : i \in 1..Len(queue')
  BY <1>1, <1>2
<1>4. Len(queue) + 1 \in 1..Len(queue')
  BY <1>1, <1>2
<1> QED BY <1>1, <1>2, <1>3, <1>4, QueueAssumption

LEMMA HeldStep ==
    ASSUME EngineInv, HeldInv, Next
    PROVE  HeldInv'
<1> USE DEF Waiting
<1>1. ASSUME NEW c \in Clients, Send(c) PROVE HeldInv'
  <2>1. Envelope(c) \in Item /\ \A d \in Clients : Envelope(d) \in Item
    BY ItemFacts
  <2>2. /\ Len(queue') <= QueueCapacity
        /\ \A y \in Item : (\E i \in 1..Len(queue) : queue[i] = y) \/ y = Envelope(c) =>
              \E i \in 1..Len(queue') : queue'[i] = y
    BY <1>1, <2>1, AppendHeld DEF Send
  <2> SUFFICES ASSUME NEW d \in Clients, Waiting(d)', reply'[d] = Empty
               PROVE  actor'.client = d \/ \E i \in 1..Len(queue') : queue'[i] = Envelope(d)
    BY <2>2 DEF HeldInv
  <2>3. CASE d = c
    BY <2>1, <2>2, <2>3
  <2>4. CASE d # c
    <3>1. Waiting(d) /\ reply[d] = Empty /\ actor' = actor
      BY <1>1, <2>4 DEF Send, EngineInv, TypeOK
    <3> QED BY <2>1, <2>2, <3>1 DEF HeldInv
  <2> QED BY <2>3, <2>4
<1>2. ASSUME NEW c \in Clients, DropEngine(c) PROVE HeldInv'
  <2>1. \A d \in Clients : ~Waiting(d)'
    BY <1>2 DEF DropEngine, LastHandle, EngineInv, TypeOK
  <2>2. Len(queue') <= QueueCapacity
    <3>1. CASE queue' = queue
      BY <3>1 DEF HeldInv
    <3>2. CASE queue' # queue
      <4>1. Shutdown \in Item
        BY DEF Item
      <4> QED BY <1>2, <3>2, <4>1, AppendHeld DEF DropEngine
    <3> QED BY <3>1, <3>2
  <2> QED BY <2>1, <2>2 DEF HeldInv
<1>3. ASSUME NEW c \in Clients,
             SubmitWrite(c) \/ SendFails(c) \/ ReceiveReply(c) \/ BeginRead(c) \/ LoadState(c)
               \/ ResolveRead(c) \/ DropHandle(c) \/ Join(c)
      PROVE  HeldInv'
  <2>1. queue' = queue /\ actor' = actor
    BY <1>3 DEF SubmitWrite, SendFails, ReceiveReply, BeginRead, LoadState, ResolveRead,
                DropHandle, Join
  <2>2. \A d \in Clients : pc'[d] = "waiting" /\ reply'[d] = Empty =>
           pc[d] = "waiting" /\ reply[d] = Empty
    BY <1>3, ResultFacts DEF SubmitWrite, SendFails, ReceiveReply, BeginRead, LoadState,
         ResolveRead, DropHandle, Join, EngineInv, TypeOK
  <2> QED BY <2>1, <2>2 DEF HeldInv
<1>4. CASE ReceiveCommand
  <2>1. /\ queue \in Seq(Item) /\ queue # <<>> /\ Len(queue) \in Nat /\ Len(queue) >= 1
        /\ Head(queue) = queue[1] /\ queue' = Tail(queue)
    BY <1>4, QueueItems, EmptySeq DEF EngineInv, ReceiveCommand
  <2>2. /\ Len(queue') = Len(queue) - 1
        /\ \A i \in 1..Len(queue') : queue'[i] = queue[i + 1]
    BY <2>1, HeadTailProperties
  <2>3. Len(queue') <= QueueCapacity
    BY <2>1, <2>2, QueueAssumption DEF HeldInv
  <2> SUFFICES ASSUME NEW d \in Clients, Waiting(d), reply[d] = Empty
               PROVE  actor'.client = d \/ \E i \in 1..Len(queue') : queue'[i] = Envelope(d)
    BY <1>4, <2>3 DEF HeldInv, ReceiveCommand, clientVars
  <2>4. actor.client # d
    BY <1>4, NoCallAssumption DEF ReceiveCommand, EngineInv, ActorInv, Busy
  <2>5. PICK i \in 1..Len(queue) : queue[i] = Envelope(d)
    BY <2>4 DEF HeldInv
  <2>6. CASE i = 1
    <3>1. Head(queue) # Shutdown /\ Head(queue).client = d
      BY <2>1, <2>5, <2>6, ItemFacts
    <3> QED BY <1>4, <3>1 DEF ReceiveCommand, EngineInv, TypeOK
  <2>7. CASE i # 1
    <3>1. i - 1 \in 1..Len(queue') /\ (i - 1) + 1 = i
      BY <2>1, <2>2, <2>5, <2>7
    <3> QED BY <2>2, <2>5, <3>1
  <2> QED BY <2>6, <2>7
<1>5. ASSUME NEW op, Execute(op) PROVE HeldInv'
  BY <1>5 DEF Execute, clientVars, HeldInv, EngineInv, TypeOK
<1>6. CASE Publish
  BY <1>6 DEF Publish, clientVars, HeldInv, EngineInv, TypeOK
<1>7. CASE Respond
  <2>1. actor.client \in Clients /\ actor.at \in Busy
    BY <1>7 DEF Respond, EngineInv, ActorInv, Busy
  <2>2. reply'[actor.client] # Empty
    BY <1>7, <2>1, ResultFacts, TokenFacts DEF Respond, EngineInv, TypeOK, StoreInv, ActorInv
  <2>3. \A d \in Clients : d # actor.client => reply'[d] = reply[d]
    BY <1>7, <2>1 DEF Respond, EngineInv, TypeOK
  <2>4. queue' = queue /\ pc' = pc
    BY <1>7 DEF Respond
  <2> QED BY <2>2, <2>3, <2>4 DEF HeldInv
<1>8. CASE Panic
  <2>1. \A d \in Clients : ~(Waiting(d)' /\ reply'[d] = Empty)
    BY <1>8, ResultFacts DEF Panic
  <2>2. Len(queue') <= QueueCapacity
    BY <1>8, QueueAssumption DEF Panic
  <2> QED BY <2>1, <2>2 DEF HeldInv
<1>9. CASE AllGone
  BY <1>9 DEF AllGone, vars, HeldInv
<1> QED BY <1>1, <1>2, <1>3, <1>4, <1>5, <1>6, <1>7, <1>8, <1>9
        DEF Next, ClientStep, ActorStep, WriteRelationships, ApplySchema, ReplaceSchema,
            ApplyConfigs, RemoveNamespace, RemoveRelation, ApplyPolicy

LEMMA PreparedStep ==
    ASSUME EngineInv, PreparedInv, Next
    PROVE  PreparedInv'
<1>1. ASSUME NEW c \in Clients, ClientStep(c) PROVE PreparedInv'
  <2> SUFFICES ASSUME actor.at = "publishing"
               PROVE  PreparedInv'
    BY <1>1 DEF PreparedInv, ClientStep, SubmitWrite, Send, SendFails, ReceiveReply, BeginRead,
                LoadState, ResolveRead, DropHandle, DropEngine, Join
  <2>1. actor.client \in Clients /\ pc[actor.client] = "waiting" /\ reply[actor.client] = Empty
    BY DEF EngineInv, ActorInv, Busy, Waiting
  <2>2. arg'[actor.client] = arg[actor.client]
    BY <1>1, <2>1 DEF ClientStep, SubmitWrite, Send, SendFails, ReceiveReply, BeginRead,
         LoadState, ResolveRead, DropHandle, DropEngine, Join, EngineInv, TypeOK
  <2>3. writer' = writer /\ actor' = actor
    BY <1>1 DEF ClientStep, SubmitWrite, Send, SendFails, ReceiveReply, BeginRead, LoadState,
                ResolveRead, DropHandle, DropEngine, Join
  <2> QED BY <2>2, <2>3 DEF PreparedInv
<1>2. ASSUME NEW op, Execute(op) PROVE PreparedInv'
  BY <1>2 DEF Execute, clientVars, PreparedInv, EngineInv, TypeOK
<1>3. CASE ReceiveCommand \/ Publish \/ Respond \/ Panic
  BY <1>3 DEF ReceiveCommand, Publish, Respond, Panic, PreparedInv, EngineInv, TypeOK
<1>4. CASE AllGone
  BY <1>4 DEF AllGone, vars, PreparedInv
<1> QED BY <1>1, <1>2, <1>3, <1>4
        DEF Next, ActorStep, WriteRelationships, ApplySchema, ReplaceSchema, ApplyConfigs,
            RemoveNamespace, RemoveRelation, ApplyPolicy

(* LinearInv is an invariant of the engine.                                *)
THEOREM LinearInvariance == Spec => []LinearInv
<1>1. LinearInv /\ [Next]_vars => LinearInv'
  <2>1. CASE UNCHANGED vars
    BY <2>1, NextInv DEF LinearInv, HeldInv, PreparedInv, Waiting, vars
  <2>2. CASE Next
    BY <2>2, NextInv, HeldStep, PreparedStep DEF LinearInv
  <2> QED BY <2>1, <2>2
<1> QED BY <1>1, InitLinear, PTL DEF Spec

(* A write that waits for its answer is in the queue or being executed,    *)
(* once, and the queue never exceeds its capacity, for every capacity and  *)
(* any number of clients (api.rs submit_write, WriterActor::start).        *)
THEOREM WritesAreHeldOnce == Spec => []EveryWriteHeldOnce
<1>1. ASSUME LinearInv PROVE EveryWriteHeldOnce
  <2> SUFFICES ASSUME NEW c \in Clients
               PROVE  Cardinality({i \in 1..Len(queue) : queue[i] = Envelope(c)})
                          + (IF actor.client = c THEN 1 ELSE 0)
                        = (IF Waiting(c) /\ reply[c] = Empty THEN 1 ELSE 0)
    BY <1>1 DEF LinearInv, HeldInv, EveryWriteHeldOnce
  <2> DEFINE at == {i \in 1..Len(queue) : queue[i] = Envelope(c)}
             held == Waiting(c) /\ reply[c] = Empty
  <2>1. Envelope(c) # Shutdown /\ Envelope(c).client = c
    BY ItemFacts
  <2>2. \A i \in at : held /\ actor.client # c
    BY <1>1, <2>1 DEF LinearInv, EngineInv, QueueInv
  <2>3. actor.client = c => held /\ at = {}
    <3>1. actor.client = c => actor.at \in Busy
      BY <1>1, NoCallAssumption DEF LinearInv, EngineInv, ActorInv
    <3> QED BY <1>1, <2>2, <3>1 DEF LinearInv, EngineInv, ActorInv
  <2>4. held => actor.client = c \/ at # {}
    BY <1>1 DEF LinearInv, HeldInv
  <2>5. \A i \in at : at = {i}
    BY <1>1 DEF LinearInv, EngineInv, QueueInv
  <2>6. Cardinality({}) = 0 /\ \A i : Cardinality({i}) = 1
    BY FS_EmptySet, FS_Singleton
  <2>7. at = {} => Cardinality(at) = 0
    BY <2>6
  <2>8. at # {} => Cardinality(at) = 1
    BY <2>5, <2>6
  <2> HIDE DEF at, held
  <2>9. Cardinality(at) + (IF actor.client = c THEN 1 ELSE 0) = (IF held THEN 1 ELSE 0)
    BY <2>2, <2>3, <2>4, <2>7, <2>8
  <2> QED BY <2>9 DEF at, held
<1> QED BY <1>1, LinearInvariance, PTL

-----------------------------------------------------------------------------
(* The refinement.  `Now` is what the callers see.                         *)

Now == [c \in Clients |-> CallOf(c)]

Pend(a) == [phase |-> "pending", arg |-> a]
Fin(result) == [phase |-> "done", result |-> result]
WriteCall(cmd) == Pend([mode |-> "write", cmd |-> cmd])
ReadCall(request) == Pend([mode |-> "read", request |-> request])

(* A call is never mistaken for no call.                                   *)
LEMMA CallsAreCalls ==
    /\ \A cmd \in Commands : WriteCall(cmd) # NoCall
    /\ \A request \in Requests : ReadCall(request) # NoCall
    /\ \A result \in Result : Fin(result) # NoCall
<1>1. \A cmd \in Commands : WriteCall(cmd) \in Call
  BY DEF WriteCall, Pend, Call, CallArg
<1>2. \A request \in Requests : ReadCall(request) \in Call
  BY DEF ReadCall, Pend, Call, CallArg
<1>3. \A result \in Result : Fin(result) \in Call
  BY DEF Fin, Call
<1> QED BY <1>1, <1>2, <1>3, NoCallAssumption

(* The steps of LinearStore in these terms.                                *)
LEMMA LinearSteps ==
    ASSUME LinearInv, NEW c \in Clients
    PROVE  /\ \A cmd \in Commands :
                 CallOf(c) = NoCall /\ Now' = [Now EXCEPT ![c] = WriteCall(cmd)]
                   /\ writer' = writer => Linear!Next
           /\ \A request \in Requests :
                 CallOf(c) = NoCall /\ Now' = [Now EXCEPT ![c] = ReadCall(request)]
                   /\ writer' = writer => Linear!Next
           /\ \A cmd \in Commands :
                 /\ CallOf(c) = WriteCall(cmd) /\ Succeeds(writer, cmd)
                 /\ writer' = NextWriter(writer, cmd)
                 /\ Now' = [Now EXCEPT ![c] = Fin(Committed(TokenOf(writer'.current)))]
                 => Linear!Next
           /\ \A cmd \in Commands :
                 /\ CallOf(c) = WriteCall(cmd) /\ ~Succeeds(writer, cmd) /\ writer' = writer
                 /\ Now' = [Now EXCEPT ![c] = Fin(Error("Rejected"))]
                 => Linear!Next
           /\ \A request \in Requests :
                 /\ CallOf(c) = ReadCall(request) /\ writer' = writer
                 /\ Now' = [Now EXCEPT ![c] = Fin(Resolve(EngineState(writer), request))]
                 => Linear!Next
           /\ \A result \in Result :
                 CallOf(c) = Fin(result) /\ Now' = [Now EXCEPT ![c] = NoCall]
                   /\ writer' = writer => Linear!Next
<1> USE DEF Now
<1>1. ASSUME NEW cmd \in Commands, CallOf(c) = NoCall,
             Now' = [Now EXCEPT ![c] = WriteCall(cmd)], writer' = writer
      PROVE  Linear!Next
  <2>1. Linear!WriteArg(cmd) \in Linear!Args /\ Linear!Pending(Linear!WriteArg(cmd)) = WriteCall(cmd)
    BY DEF Linear!Args, Linear!WriteArg, Linear!Pending, WriteCall, Pend
  <2>2. Linear!Invoke(c)
    BY <1>1, <2>1 DEF Linear!Invoke
  <2> QED BY <2>2 DEF Linear!Next
<1>2. ASSUME NEW request \in Requests, CallOf(c) = NoCall,
             Now' = [Now EXCEPT ![c] = ReadCall(request)], writer' = writer
      PROVE  Linear!Next
  <2>1. /\ Linear!ReadArg(request) \in Linear!Args
        /\ Linear!Pending(Linear!ReadArg(request)) = ReadCall(request)
    BY DEF Linear!Args, Linear!ReadArg, Linear!Pending, ReadCall, Pend
  <2>2. Linear!Invoke(c)
    BY <1>2, <2>1 DEF Linear!Invoke
  <2> QED BY <2>2 DEF Linear!Next
<1>3. ASSUME NEW cmd \in Commands, CallOf(c) = WriteCall(cmd)
      PROVE  /\ Linear!IsPending(c, "write")
             /\ [d \in Clients |-> CallOf(d)][c].arg.cmd = cmd
  BY <1>3, CallsAreCalls DEF Linear!IsPending, WriteCall, Pend
<1>4. ASSUME NEW cmd \in Commands, CallOf(c) = WriteCall(cmd), Succeeds(writer, cmd),
             writer' = NextWriter(writer, cmd),
             Now' = [Now EXCEPT ![c] = Fin(Committed(TokenOf(writer'.current)))]
      PROVE  Linear!Next
  <2>1. Linear!Commit(c)
    BY <1>3, <1>4, SameOperators DEF Linear!Commit, Linear!Done, Fin
  <2> QED BY <2>1 DEF Linear!Next
<1>5. ASSUME NEW cmd \in Commands, CallOf(c) = WriteCall(cmd), ~Succeeds(writer, cmd),
             writer' = writer, Now' = [Now EXCEPT ![c] = Fin(Error("Rejected"))]
      PROVE  Linear!Next
  <2>1. Linear!Reject(c)
    BY <1>3, <1>5, SameOperators DEF Linear!Reject, Linear!Done, Fin
  <2> QED BY <2>1 DEF Linear!Next
<1>6. ASSUME NEW request \in Requests, CallOf(c) = ReadCall(request), writer' = writer,
             Now' = [Now EXCEPT ![c] = Fin(Resolve(EngineState(writer), request))]
      PROVE  Linear!Next
  <2>1. /\ Linear!IsPending(c, "read")
        /\ [d \in Clients |-> CallOf(d)][c].arg.request = request
    BY <1>6, CallsAreCalls DEF Linear!IsPending, ReadCall, Pend
  <2>2. Linear!Read(c)
    BY <1>6, <2>1, SameOperators DEF Linear!Read, Linear!Done, Fin
  <2> QED BY <2>2 DEF Linear!Next
<1>7. ASSUME NEW result \in Result, CallOf(c) = Fin(result),
             Now' = [Now EXCEPT ![c] = NoCall], writer' = writer
      PROVE  Linear!Next
  <2>1. Linear!Return(c)
    BY <1>7, CallsAreCalls DEF Linear!Return, Fin
  <2> QED BY <2>1 DEF Linear!Next
<1> QED BY <1>1, <1>2, <1>4, <1>5, <1>6, <1>7

(* What the callers see of each client, by what it does.                   *)
LEMMA CallsNow ==
    ASSUME NEW c \in Clients
    PROVE  /\ pc[c] = "sending" => CallOf(c) = WriteCall(arg[c])
           /\ pc[c] = "waiting" => CallOf(c) =
                 IF reply[c] # Empty THEN Fin(reply[c])
                 ELSE IF actor.client = c /\ actor.at = "answering"
                 THEN Fin(Committed(TokenOf(writer.current)))
                 ELSE IF actor.client = c /\ actor.at = "rejecting"
                 THEN Fin(Error("Rejected"))
                 ELSE WriteCall(arg[c])
           /\ pc[c] = "loading" => CallOf(c) = ReadCall(arg[c])
           /\ pc[c] = "resolving" => CallOf(c) = Fin(Resolve(loaded[c], arg[c]))
           /\ pc[c] \in {"idle", "joining", "gone"} => CallOf(c) = NoCall
BY DEF CallOf, WriteCall, ReadCall, Pend, Fin

(* The same in the next state.                                             *)
LEMMA CallsNext ==
    ASSUME NEW c \in Clients
    PROVE  /\ pc'[c] = "sending" => CallOf(c)' = WriteCall(arg'[c])
           /\ pc'[c] = "waiting" => CallOf(c)' =
                 IF reply'[c] # Empty THEN Fin(reply'[c])
                 ELSE IF actor'.client = c /\ actor'.at = "answering"
                 THEN Fin(Committed(TokenOf(writer'.current)))
                 ELSE IF actor'.client = c /\ actor'.at = "rejecting"
                 THEN Fin(Error("Rejected"))
                 ELSE WriteCall(arg'[c])
           /\ pc'[c] = "loading" => CallOf(c)' = ReadCall(arg'[c])
           /\ pc'[c] = "resolving" => CallOf(c)' = Fin(Resolve(loaded'[c], arg'[c]))
           /\ pc'[c] \in {"idle", "joining", "gone"} => CallOf(c)' = NoCall
BY DEF CallOf, WriteCall, ReadCall, Pend, Fin

LEMMA OneCallChanges ==
    ASSUME NEW c \in Clients, NEW x, CallOf(c)' = x,
           \A d \in Clients \ {c} : CallOf(d)' = CallOf(d)
    PROVE  Now' = [Now EXCEPT ![c] = x]
BY DEF Now

(* A client's step leaves the other calls as they are.                     *)
LEMMA OtherCalls ==
    ASSUME EngineInv, NEW c \in Clients, ClientStep(c)
    PROVE  writer' = writer /\ \A d \in Clients \ {c} : CallOf(d)' = CallOf(d)
<1> USE DEF ClientStep, SubmitWrite, Send, SendFails, ReceiveReply, BeginRead, LoadState,
            ResolveRead, DropHandle, DropEngine, Join
<1>1. writer' = writer /\ actor' = actor
  OBVIOUS
<1>2. ASSUME NEW d \in Clients \ {c}
      PROVE  /\ pc'[d] = pc[d] /\ arg'[d] = arg[d] /\ reply'[d] = reply[d]
             /\ loaded'[d] = loaded[d]
  BY DEF EngineInv, TypeOK
<1> QED BY <1>1, <1>2 DEF CallOf

LEMMA ClientRefines ==
    ASSUME LinearInv, NEW c \in Clients, ClientStep(c)
    PROVE  Linear!Next \/ (Now' = Now /\ writer' = writer)
<1> USE DEF LinearInv
<1>1. writer' = writer /\ \A d \in Clients \ {c} : CallOf(d)' = CallOf(d)
  BY OtherCalls
<1>2. /\ pc \in [Clients -> {"idle", "sending", "waiting", "loading", "resolving",
                             "joining", "gone"}]
      /\ DOMAIN arg = Clients /\ reply \in [Clients -> Result \cup {Empty}]
      /\ DOMAIN loaded = Clients
  BY DEF EngineInv, TypeOK
<1>3. CASE SubmitWrite(c)
  <2>1. PICK cmd \in Commands : arg' = [arg EXCEPT ![c] = cmd]
    BY <1>3 DEF SubmitWrite
  <2>2. CallOf(c) = NoCall /\ CallOf(c)' = WriteCall(cmd)
    BY <1>2, <1>3, <2>1, CallsNow, CallsNext DEF SubmitWrite
  <2> QED BY <1>1, <2>2, OneCallChanges, LinearSteps
<1>4. CASE Send(c)
  <2>1. reply[c] = Empty /\ actor.client # c /\ actor'.client # c /\ reply'[c] = Empty
    BY <1>4, NoCallAssumption DEF Send, EngineInv, ClientInv, ActorInv, Waiting
  <2>2. CallOf(c)' = CallOf(c)
    BY <1>2, <1>4, <2>1, CallsNow, CallsNext DEF Send
  <2> QED BY <1>1, <2>2 DEF Now
<1>5. CASE SendFails(c)
  <2>1. CallOf(c) = WriteCall(arg[c]) /\ CallOf(c)' = Fin(Closed) /\ arg[c] \in Commands
    BY <1>2, <1>5, ResultFacts, CallsNow, CallsNext DEF SendFails, EngineInv, ClientInv
  <2>2. Linear!IsPending(c, "write")
    BY <2>1, CallsAreCalls DEF Linear!IsPending, WriteCall, Pend
  <2>3. Linear!Done(Linear!Error("WriterUnavailable")) = Fin(Closed)
    BY SameOperators DEF Linear!Done, Fin, Closed
  <2>4. Linear!Abandon
    <3> DEFINE S == {c}
    <3>1. S \in SUBSET {d \in Clients : Linear!IsPending(d, "write")}
      BY <2>2
    <3>2. Now' = [d \in Clients |-> IF d \in S THEN Fin(Closed) ELSE Now[d]]
      BY <1>1, <2>1 DEF Now
    <3> HIDE DEF S
    <3> QED BY <1>1, <2>3, <3>1, <3>2 DEF Linear!Abandon, Now
  <2> QED BY <2>4 DEF Linear!Next
<1>6. CASE ReceiveReply(c)
  <2>1. reply[c] \in Result /\ CallOf(c) = Fin(reply[c]) /\ CallOf(c)' = NoCall
    BY <1>2, <1>6, CallsNow, CallsNext DEF ReceiveReply, Waiting
  <2> QED BY <1>1, <2>1, OneCallChanges, LinearSteps
<1>7. CASE BeginRead(c)
  <2>1. PICK request \in Requests : arg' = [arg EXCEPT ![c] = request]
    BY <1>7 DEF BeginRead
  <2>2. CallOf(c) = NoCall /\ CallOf(c)' = ReadCall(request)
    BY <1>2, <1>7, <2>1, CallsNow, CallsNext DEF BeginRead
  <2> QED BY <1>1, <2>2, OneCallChanges, LinearSteps
<1>8. CASE LoadState(c)
  <2>1. arg[c] \in Requests /\ published = EngineState(writer)
    BY <1>8 DEF LoadState, EngineInv, ClientInv, StoreInv
  <2>2. /\ CallOf(c) = ReadCall(arg[c])
        /\ CallOf(c)' = Fin(Resolve(EngineState(writer), arg[c]))
    BY <1>2, <1>8, <2>1, CallsNow, CallsNext DEF LoadState
  <2> QED BY <1>1, <2>1, <2>2, OneCallChanges, LinearSteps
<1>9. CASE ResolveRead(c)
  <2>1. CallOf(c) = Fin(Resolve(loaded[c], arg[c])) /\ CallOf(c)' = NoCall
    BY <1>2, <1>9, CallsNow, CallsNext DEF ResolveRead
  <2>2. Resolve(loaded[c], arg[c]) \in Result
    <3>1. /\ loaded[c] \in State /\ arg[c] \in Request
          /\ StateOK(loaded[c], writer.retained, writer.last, committed)
      BY <1>9, EngineConstants DEF ResolveRead, EngineInv, TypeOK, ClientInv
    <3> QED BY <3>1, ResolveOK
  <2> QED BY <1>1, <2>1, <2>2, OneCallChanges, LinearSteps
<1>10. CASE DropHandle(c) \/ DropEngine(c) \/ Join(c)
  <2>1. CallOf(c) = NoCall /\ CallOf(c)' = NoCall
    BY <1>2, <1>10, CallsNow, CallsNext DEF DropHandle, DropEngine, Join
  <2> QED BY <1>1, <2>1 DEF Now
<1> QED BY <1>3, <1>4, <1>5, <1>6, <1>7, <1>8, <1>9, <1>10 DEF ClientStep

(* A step that leaves the clients alone and in which the actor neither     *)
(* comes to an answer nor has one is not seen by any caller.               *)
LEMMA ActorHidden ==
    ASSUME UNCHANGED <<pc, arg, reply, loaded>>,
           actor.at \notin {"answering", "rejecting"}, actor'.at \notin {"answering", "rejecting"}
    PROVE  Now' = Now
<1>1. \A d \in Clients : CallOf(d)' = CallOf(d)
  BY DEF CallOf
<1> QED BY <1>1 DEF Now

LEMMA ActorRefines ==
    ASSUME LinearInv, ActorStep
    PROVE  Linear!Next \/ (Now' = Now /\ writer' = writer)
<1> USE DEF LinearInv
<1>0. actor \in [at : {"recv", "executing", "publishing", "answering", "rejecting",
                       "stopped", "panicked"},
                 client : Clients \cup {NoCall}, next : Writer]
  BY DEF EngineInv, TypeOK
<1>b. actor.at \in Busy => \E c \in Clients : /\ c = actor.client /\ pc[c] = "waiting"
                                              /\ reply[c] = Empty /\ arg[c] \in Commands
  BY DEF EngineInv, ActorInv, ClientInv, Waiting
<1>1. CASE ReceiveCommand
  <2>1. actor'.at \in {"stopped", "executing"} /\ actor.at = "recv"
    BY <1>0, <1>1 DEF ReceiveCommand
  <2> QED BY <1>1, <2>1, ActorHidden DEF ReceiveCommand, clientVars
<1>2. ASSUME NEW op, Execute(op)
      PROVE  Linear!Next \/ (Now' = Now /\ writer' = writer)
  <2>1. /\ actor.at = "executing" /\ writer' = writer
        /\ UNCHANGED <<pc, arg, reply, loaded>>
    BY <1>2 DEF Execute, clientVars
  <2>2. PICK c \in Clients : c = actor.client /\ pc[c] = "waiting" /\ reply[c] = Empty
                             /\ arg[c] \in Commands
    BY <1>b, <2>1 DEF Busy
  <2>3. CASE Succeeds(writer, arg[c])
    <3>1. actor'.at = "publishing"
      BY <1>0, <1>2, <2>2, <2>3 DEF Execute
    <3> QED BY <2>1, <3>1, ActorHidden
  <2>4. CASE ~Succeeds(writer, arg[c])
    <3>1. actor'.at = "rejecting" /\ actor'.client = c
      BY <1>0, <1>2, <2>2, <2>4 DEF Execute
    <3>2. CallOf(c) = WriteCall(arg[c]) /\ CallOf(c)' = Fin(Error("Rejected"))
      BY <2>1, <2>2, <3>1, CallsNow, CallsNext
    <3>3. \A d \in Clients \ {c} : CallOf(d)' = CallOf(d)
      BY <2>1, <2>2, <3>1 DEF CallOf
    <3>4. Now' = [Now EXCEPT ![c] = Fin(Error("Rejected"))]
      BY <2>2, <3>2, <3>3, OneCallChanges
    <3> QED BY <2>1, <2>2, <2>4, <3>2, <3>4, LinearSteps
  <2> QED BY <2>3, <2>4
<1>3. CASE Publish
  <2>1. actor.at = "publishing" /\ writer' = actor.next /\ UNCHANGED <<pc, arg, reply, loaded>>
    BY <1>3 DEF Publish, clientVars
  <2>2. PICK c \in Clients : c = actor.client /\ pc[c] = "waiting" /\ reply[c] = Empty
                             /\ arg[c] \in Commands
    BY <1>b, <2>1 DEF Busy
  <2>3. Succeeds(writer, arg[c]) /\ writer' = NextWriter(writer, arg[c])
    BY <2>1, <2>2 DEF PreparedInv
  <2>4. actor'.at = "answering" /\ actor'.client = c
    BY <1>0, <1>3, <2>2 DEF Publish
  <2>5. /\ CallOf(c) = WriteCall(arg[c])
        /\ CallOf(c)' = Fin(Committed(TokenOf(writer'.current)))
    BY <2>1, <2>2, <2>4, CallsNow, CallsNext
  <2>6. \A d \in Clients \ {c} : CallOf(d)' = CallOf(d)
    BY <2>1, <2>2, <2>4 DEF CallOf
  <2>7. Now' = [Now EXCEPT ![c] = Fin(Committed(TokenOf(writer'.current)))]
    BY <2>2, <2>5, <2>6, OneCallChanges
  <2> QED BY <2>2, <2>3, <2>5, <2>7, LinearSteps
<1>4. CASE Respond
  <2>1. /\ actor.at \in {"answering", "rejecting"} /\ writer' = writer
        /\ UNCHANGED <<pc, arg, loaded>>
    BY <1>4 DEF Respond
  <2>2. PICK c \in Clients : c = actor.client /\ pc[c] = "waiting" /\ reply[c] = Empty
    BY <1>b, <2>1 DEF Busy
  <2> DEFINE answer == IF actor.at = "answering" THEN Committed(TokenOf(writer.current))
                       ELSE Error("Rejected")
  <2>3. reply' = [reply EXCEPT ![c] = answer] /\ DOMAIN reply = Clients
    BY <1>4, <2>2 DEF Respond, EngineInv, TypeOK
  <2>4. answer # Empty
    BY ResultFacts, TokenFacts DEF EngineInv, TypeOK, StoreInv, ActorInv
  <2>5. actor'.client = NoCall /\ c # NoCall
    BY <1>0, <1>4, <2>2, NoCallAssumption DEF Respond
  <2> HIDE DEF answer
  <2>6. CallOf(c)' = Fin(answer)
    BY <2>1, <2>2, <2>3, <2>4, CallsNext
  <2>7. CallOf(c) = Fin(answer)
    BY <2>1, <2>2, CallsNow DEF answer
  <2>8. \A d \in Clients \ {c} : CallOf(d)' = CallOf(d)
    BY <2>1, <2>2, <2>3, <2>5, NoCallAssumption DEF CallOf
  <2> QED BY <2>1, <2>6, <2>7, <2>8 DEF Now
<1> QED BY <1>1, <1>2, <1>3, <1>4
        DEF ActorStep, WriteRelationships, ApplySchema, ReplaceSchema, ApplyConfigs,
            RemoveNamespace, RemoveRelation, ApplyPolicy

(* A panic abandons every write that has no answer yet.                    *)
LEMMA PanicRefines ==
    ASSUME LinearInv, Panic
    PROVE  Linear!Next
<1> USE DEF LinearInv
<1> DEFINE S == {d \in Clients : Waiting(d) /\ reply[d] = Empty}
<1>1. /\ actor.at = "executing" /\ writer' = writer /\ UNCHANGED <<pc, arg, loaded>>
      /\ reply' = [d \in Clients |-> IF d \in S THEN Closed ELSE reply[d]]
  BY DEF Panic
<1>2. actor'.at = "panicked"
  BY DEF Panic, EngineInv, TypeOK
<1>3. ASSUME NEW d \in S
      PROVE  Linear!IsPending(d, "write") /\ CallOf(d)' = Fin(Closed)
  <2>1. CallOf(d) = WriteCall(arg[d]) /\ arg[d] \in Commands
    BY <1>1, <1>3, CallsNow DEF Waiting, EngineInv, ClientInv
  <2>2. CallOf(d)' = Fin(Closed)
    BY <1>1, <1>3, ResultFacts, CallsNext DEF Waiting
  <2> QED BY <2>1, <2>2, CallsAreCalls DEF Linear!IsPending, WriteCall, Pend
<1>4. ASSUME NEW d \in Clients \ S PROVE CallOf(d)' = CallOf(d)
  BY <1>1, <1>2 DEF CallOf
<1>5. Linear!Done(Linear!Error("WriterUnavailable")) = Fin(Closed)
  BY SameOperators DEF Linear!Done, Fin, Closed
<1>6. S \in SUBSET {d \in Clients : Linear!IsPending(d, "write")}
  BY <1>3
<1> HIDE DEF S
<1>7. Now' = [d \in Clients |-> IF d \in S THEN Fin(Closed) ELSE Now[d]]
  BY <1>3, <1>4 DEF Now
<1>8. Linear!Abandon
  BY <1>1, <1>5, <1>6, <1>7 DEF Linear!Abandon, Now
<1> QED BY <1>8 DEF Linear!Next

(* Writes and reads through the queue, the actor and the pointer swap take *)
(* effect atomically between call and return, also across panics, refusals *)
(* and shutdown, for any number of clients (api.rs submit_write,           *)
(* WriterActor::start, lib.rs publish_snapshot).                           *)
THEOREM EngineIsLinearizable == Spec => Linearizable
<1>1. Init => Linear!Init
  <2> SUFFICES ASSUME Init PROVE Linear!Init
    OBVIOUS
  <2>1. \A c \in Clients : CallOf(c) = NoCall
    BY CallsNow DEF Init
  <2>2. writer \in {Linear!NewWriter} \cup {Linear!LoadedWriter(f) : f \in Files}
    BY SameOperators DEF Init
  <2> QED BY <2>1, <2>2 DEF Linear!Init
<1>2. LinearInv /\ [Next]_vars => [Linear!Next]_(Linear!vars)
  <2> SUFFICES ASSUME LinearInv, [Next]_vars
               PROVE  Linear!Next \/ (Now' = Now /\ writer' = writer)
    BY DEF Linear!vars, Now
  <2>1. ASSUME NEW c \in Clients, ClientStep(c)
        PROVE  Linear!Next \/ (Now' = Now /\ writer' = writer)
    BY <2>1, ClientRefines
  <2>2. CASE UNCHANGED vars
    BY <2>2 DEF vars, Now, CallOf
  <2> QED BY <2>1, <2>2, ActorRefines, PanicRefines DEF Next, AllGone
<1> QED BY <1>1, <1>2, LinearInvariance, PTL DEF Spec, Linearizable, Linear!Spec

=============================================================================
