------------------------------- MODULE Engine -------------------------------
(***************************************************************************)
(* The concurrent engine runtime (src/src/api.rs, lib.rs, runtime.rs):     *)
(* client threads share one ZanzibarEngine; writes travel through a        *)
(* bounded queue to the single writer actor and wait on a one-shot         *)
(* response channel; reads load the published state pointer once and       *)
(* resolve their consistency on what they loaded.  The last handle to be   *)
(* dropped stops and joins the writer thread; the thread may also panic    *)
(* while it executes a command.                                            *)
(*                                                                         *)
(* `committed` and `seen` are history variables: the snapshot every        *)
(* published revision stood for, and the newest revision each client has   *)
(* been shown.  No guard reads them.                                       *)
(***************************************************************************)
EXTENDS EngineOps

CONSTANTS Clients,          \* threads holding an Arc of the engine
          QueueCapacity,    \* writer queue capacity (NonZeroUsize)
          NoCall

(* A call as its caller sees it.                                           *)
CallArg == [mode : {"write"}, cmd : Commands] \cup [mode : {"read"}, request : Requests]
Call == [phase : {"pending"}, arg : CallArg] \cup [phase : {"done"}, result : Result]

ASSUME QueueAssumption == QueueCapacity \in Nat \ {0}
ASSUME NoCallAssumption == NoCall \notin Clients /\ NoCall \notin Call

VARIABLES writer,       \* WriterState, owned by the actor
          published,    \* the EngineState behind ArcSwapOption
          queue,        \* commands sent and not yet received
          actor,        \* [at, client, next]: where the writer thread is
          pc,           \* what each client thread is doing
          arg,          \* its command or request
          reply,        \* its one-shot response channel
          loaded,       \* the EngineState its read loaded
          shutdown,     \* WriterActor::shutdown
          committed,    \* history: revision -> snapshot
          seen          \* history: newest revision shown to each client

vars == <<writer, published, queue, actor, pc, arg, reply, loaded, shutdown, committed, seen>>

clientVars == <<pc, arg, reply, loaded, seen>>

Shutdown == [op |-> "shutdown"]
Envelope(c) == [op |-> "command", client |-> c]

Waiting(c) == pc[c] = "waiting"
ActorGone == actor.at \in {"stopped", "panicked"}

(* Response channel contents.                                              *)
Empty == [kind |-> "empty"]
Closed == Error("WriterUnavailable")

NoWriter == NewWriter

(* History variable: the first snapshot published under each revision.     *)
Extend(com, h) ==
    LET new == {i \in 1..Len(h) : h[i].rev \notin DOMAIN com}
    IN  [r \in DOMAIN com \cup {h[i].rev : i \in new} |->
            IF r \in DOMAIN com THEN com[r] ELSE h[CHOOSE i \in new : h[i].rev = r]]

Init ==
    /\ writer \in {NewWriter} \cup {LoadedWriter(f) : f \in Files}
    /\ published = EngineState(writer)
    /\ queue = <<>>
    /\ actor = [at |-> "recv", client |-> NoCall, next |-> NoWriter]
    /\ pc = [c \in Clients |-> "idle"]
    /\ arg = [c \in Clients |-> NoCall]
    /\ reply = [c \in Clients |-> Empty]
    /\ loaded = [c \in Clients |-> EngineState(NewWriter)]
    /\ shutdown = FALSE
    /\ committed = Extend([r \in {} |-> NoSnapshot], writer.history)
    /\ seen = [c \in Clients |-> 0]

-----------------------------------------------------------------------------
(* Client threads.                                                         *)

(* A write API builds the command and calls WriterActor::send.             *)
SubmitWrite(c) ==
    /\ pc[c] = "idle"
    /\ \E cmd \in Commands : arg' = [arg EXCEPT ![c] = cmd]
    /\ pc' = [pc EXCEPT ![c] = "sending"]
    /\ reply' = [reply EXCEPT ![c] = Empty]
    /\ UNCHANGED <<writer, published, queue, actor, loaded, shutdown, committed, seen>>

(* sync_channel::send blocks while the queue is full.                      *)
Send(c) ==
    /\ pc[c] = "sending"
    /\ ~shutdown /\ ~ActorGone
    /\ Len(queue) < QueueCapacity
    /\ queue' = Append(queue, Envelope(c))
    /\ pc' = [pc EXCEPT ![c] = "waiting"]
    /\ UNCHANGED <<writer, published, actor, arg, reply, loaded, shutdown, committed, seen>>

(* send reports a raised shutdown flag or a dropped receiver; the call     *)
(* returns that error in its next step.                                    *)
SendFails(c) ==
    /\ pc[c] = "sending"
    /\ shutdown \/ ActorGone
    /\ pc' = [pc EXCEPT ![c] = "waiting"]
    /\ reply' = [reply EXCEPT ![c] = Closed]
    /\ UNCHANGED <<writer, published, queue, actor, arg, loaded, shutdown, committed, seen>>

(* submit_write returns what the response channel delivers.                *)
ReceiveReply(c) ==
    /\ Waiting(c) /\ reply[c] # Empty
    /\ pc' = [pc EXCEPT ![c] = "idle"]
    /\ arg' = [arg EXCEPT ![c] = NoCall]
    /\ seen' = [seen EXCEPT ![c] =
                    IF reply[c].kind = "token" /\ reply[c].token.rev > @
                    THEN reply[c].token.rev ELSE @]
    /\ UNCHANGED <<writer, published, queue, actor, reply, loaded, shutdown, committed>>

(* A read API: one load of the published state, then the rest on it.       *)
BeginRead(c) ==
    /\ pc[c] = "idle"
    /\ \E r \in Requests : arg' = [arg EXCEPT ![c] = r]
    /\ pc' = [pc EXCEPT ![c] = "loading"]
    /\ reply' = [reply EXCEPT ![c] = Empty]
    /\ UNCHANGED <<writer, published, queue, actor, loaded, shutdown, committed, seen>>

LoadState(c) ==
    /\ pc[c] = "loading"
    /\ loaded' = [loaded EXCEPT ![c] = published]
    /\ pc' = [pc EXCEPT ![c] = "resolving"]
    /\ UNCHANGED <<writer, published, queue, actor, arg, reply, shutdown, committed, seen>>

ResolveRead(c) ==
    /\ pc[c] = "resolving"
    /\ LET result == Resolve(loaded[c], arg[c])
       IN  /\ reply' = [reply EXCEPT ![c] = result]
           /\ seen' = [seen EXCEPT ![c] =
                          IF result.kind = "snapshot" /\ result.snap.rev > @
                          THEN result.snap.rev ELSE @]
    /\ pc' = [pc EXCEPT ![c] = "idle"]
    /\ arg' = [arg EXCEPT ![c] = NoCall]
    /\ loaded' = [loaded EXCEPT ![c] = EngineState(NewWriter)]
    /\ UNCHANGED <<writer, published, queue, actor, shutdown, committed>>

-----------------------------------------------------------------------------
(* The writer actor.                                                       *)

ReceiveCommand ==
    /\ actor.at = "recv" /\ queue # <<>>
    /\ queue' = Tail(queue)
    /\ actor' = IF Head(queue) = Shutdown
                THEN [actor EXCEPT !.at = "stopped"]
                ELSE [actor EXCEPT !.at = "executing", !.client = Head(queue).client]
    /\ UNCHANGED <<writer, published, shutdown, committed, clientVars>>

(* Validates against the owned state and builds the candidate.             *)
Execute(op) ==
    /\ actor.at = "executing"
    /\ arg[actor.client].op = op
    /\ actor' = IF Succeeds(writer, arg[actor.client])
                THEN [actor EXCEPT !.at = "publishing",
                                   !.next = NextWriter(writer, arg[actor.client])]
                ELSE [actor EXCEPT !.at = "rejecting"]
    /\ UNCHANGED <<writer, published, queue, shutdown, committed, clientVars>>

WriteRelationships == Execute("write")
ApplySchema == Execute("applySchema")
ReplaceSchema == Execute("replaceSchema")
ApplyConfigs == Execute("applyConfigs")
RemoveNamespace == Execute("deleteNamespace")
RemoveRelation == Execute("deleteRelation")
ApplyPolicy == Execute("policy")

(* Mutant: the pointer is swapped before the writer's fields are assigned. *)
PublishStale ==
    /\ actor.at = "publishing"
    /\ writer' = actor.next
    /\ published' = EngineState(writer)
    /\ actor' = [actor EXCEPT !.at = "answering", !.next = NoWriter]
    /\ committed' = Extend(committed, actor.next.history)
    /\ UNCHANGED <<queue, shutdown, clientVars>>

(* publish_snapshot assigns the fields and swaps the pointer; for policy   *)
(* import replace_publisher swaps it once, after the last batch.           *)
Publish ==
    /\ actor.at = "publishing"
    /\ writer' = actor.next
    /\ published' = EngineState(actor.next)
    /\ actor' = [actor EXCEPT !.at = "answering", !.next = NoWriter]
    /\ committed' = Extend(committed, actor.next.history)
    /\ UNCHANGED <<queue, shutdown, clientVars>>

Respond ==
    /\ actor.at \in {"answering", "rejecting"}
    /\ reply' = [reply EXCEPT ![actor.client] =
                    IF actor.at = "answering" THEN Committed(TokenOf(writer.current))
                    ELSE Error("Rejected")]
    /\ actor' = [actor EXCEPT !.at = "recv", !.client = NoCall]
    /\ UNCHANGED <<writer, published, queue, shutdown, committed, pc, arg, loaded, seen>>

(* Mutant: the channels outlive the thread.                                *)
PanicLosesReplies ==
    /\ actor.at = "executing"
    /\ actor' = [actor EXCEPT !.at = "panicked", !.client = NoCall]
    /\ UNCHANGED <<writer, published, queue, reply, shutdown, committed, pc, arg, loaded, seen>>

(* Mutant: the unwinding thread publishes an empty engine.                 *)
PanicResets ==
    /\ actor.at = "executing"
    /\ actor' = [actor EXCEPT !.at = "panicked", !.client = NoCall]
    /\ queue' = <<>>
    /\ published' = EngineState(NewWriter)
    /\ reply' = [c \in Clients |->
                    IF Waiting(c) /\ reply[c] = Empty THEN Closed ELSE reply[c]]
    /\ UNCHANGED <<writer, shutdown, committed, pc, arg, loaded, seen>>

(* The thread unwinds while it executes a command: the receiver, the       *)
(* queued commands and their response senders are dropped with it.         *)
Panic ==
    /\ actor.at = "executing"
    /\ actor' = [actor EXCEPT !.at = "panicked", !.client = NoCall]
    /\ queue' = <<>>
    /\ reply' = [c \in Clients |->
                    IF Waiting(c) /\ reply[c] = Empty THEN Closed ELSE reply[c]]
    /\ UNCHANGED <<writer, published, shutdown, committed, pc, arg, loaded, seen>>

-----------------------------------------------------------------------------
(* Dropping handles.  Drop runs on the thread that drops the last one, so  *)
(* nobody is inside a call: it raises the flag, tries once to enqueue      *)
(* Shutdown without blocking, and joins the thread.                        *)

LastHandle(c) == \A d \in Clients \ {c} : pc[d] = "gone"

DropHandle(c) ==
    /\ pc[c] = "idle" /\ ~LastHandle(c)
    /\ pc' = [pc EXCEPT ![c] = "gone"]
    /\ UNCHANGED <<writer, published, queue, actor, arg, reply, loaded, shutdown, committed, seen>>

(* Mutant: the flag is raised and no command wakes the thread.             *)
DropEngineNoSignal(c) ==
    /\ pc[c] = "idle" /\ LastHandle(c)
    /\ shutdown' = TRUE
    /\ pc' = [pc EXCEPT ![c] = "joining"]
    /\ UNCHANGED <<writer, published, queue, actor, arg, reply, loaded, committed, seen>>

DropEngine(c) ==
    /\ pc[c] = "idle" /\ LastHandle(c)
    /\ shutdown' = TRUE
    /\ queue' = IF Len(queue) < QueueCapacity /\ ~ActorGone
                THEN Append(queue, Shutdown) ELSE queue
    /\ pc' = [pc EXCEPT ![c] = "joining"]
    /\ UNCHANGED <<writer, published, actor, arg, reply, loaded, committed, seen>>

Join(c) ==
    /\ pc[c] = "joining" /\ ActorGone
    /\ pc' = [pc EXCEPT ![c] = "gone"]
    /\ UNCHANGED <<writer, published, queue, actor, arg, reply, loaded, shutdown, committed, seen>>

AllGone ==
    /\ \A c \in Clients : pc[c] = "gone"
    /\ UNCHANGED vars

ClientStep(c) ==
    \/ SubmitWrite(c) \/ Send(c) \/ SendFails(c) \/ ReceiveReply(c)
    \/ BeginRead(c) \/ LoadState(c) \/ ResolveRead(c)
    \/ DropHandle(c) \/ DropEngine(c) \/ Join(c)

ActorStep ==
    \/ ReceiveCommand
    \/ WriteRelationships \/ ApplySchema \/ ReplaceSchema \/ ApplyConfigs
    \/ RemoveNamespace \/ RemoveRelation \/ ApplyPolicy
    \/ Publish \/ Respond

Next == (\E c \in Clients : ClientStep(c)) \/ ActorStep \/ Panic \/ AllGone

Spec == Init /\ [][Next]_vars

(* Threads are scheduled: the actor keeps going, a client finishes the     *)
(* call it is in.  Nothing makes a client start a call, drop its handle or *)
(* win a race for a queue slot, and nothing makes the actor panic.         *)
FairSpec ==
    /\ Spec
    /\ WF_vars(ActorStep)
    /\ \A c \in Clients : WF_vars(ReceiveReply(c) \/ LoadState(c) \/ ResolveRead(c) \/ Join(c))

-----------------------------------------------------------------------------
(* Types.  Every variable ranges over what the code's fields can hold.     *)
TypeOK ==
    /\ writer \in Writer
    /\ published \in State
    /\ queue \in Seq({Shutdown} \cup {Envelope(c) : c \in Clients})
    /\ actor \in [at : {"recv", "executing", "publishing", "answering", "rejecting",
                        "stopped", "panicked"},
                  client : Clients \cup {NoCall}, next : Writer]
    /\ pc \in [Clients -> {"idle", "sending", "waiting", "loading", "resolving",
                           "joining", "gone"}]
    /\ arg \in [Clients -> Commands \cup Requests \cup {NoCall}]
    /\ reply \in [Clients -> Result \cup {Empty}]
    /\ loaded \in [Clients -> State]
    /\ shutdown \in BOOLEAN
    /\ DOMAIN committed \subseteq 1..MaxRevision
    /\ committed \in [DOMAIN committed -> Snapshot]
    /\ seen \in [Clients -> 0..MaxRevision]

(* Every state a request can resolve against.                              *)
ReadableStates == {published} \cup {loaded[c] : c \in Clients}

(* The retained history of a state is never empty, never longer than the   *)
(* retention, made of consecutive revisions, and ends in the state's       *)
(* latest snapshot and last revision.                                      *)
HistoryContiguous(state) ==
    IF state.last = 0
    THEN state.history = <<>> /\ state.latest = NoSnapshot
    ELSE LET h == state.history
         IN  /\ h # <<>> /\ Len(h) <= writer.retained
             /\ \A i \in 1..Len(h) : h[i].rev = state.last - Len(h) + i
             /\ state.latest = h[Len(h)]

(* Whatever state a reader holds, also one loaded many publications ago,   *)
(* its history is a gap-free window that ends in its head: the lookup in   *)
(* snapshot_for_token can only miss an evicted revision (lib.rs            *)
(* publish_snapshot, policy.rs import, runtime.rs snapshot_for_token).     *)
HistoryWindow == \A s \in ReadableStates : HistoryContiguous(s)

(* No reader can reach a snapshot whose schema does not compile or whose   *)
(* hash is another schema's, and none of an engine that was not loaded     *)
(* from a file has a row its schema does not know: adding, replacing or    *)
(* deleting schema parts revalidates every row, and writes validate        *)
(* against the schema of the same revision (lib.rs                         *)
(* revalidate_relationship_store, apply_relationship_mutations).           *)
(* load_snapshot checks no row against the schema, so a loaded engine may  *)
(* show unknown rows: only the file's own, and only until the first        *)
(* successful schema change, which revalidates them too.                   *)
SnapshotsWellFormed ==
    \A s \in ReadableStates : \A i \in 1..Len(s.history) :
        /\ WellFormedBut(s.history[i], writer.origin)
        /\ s.history[i].hash = SchemaHash(s.history[i].configs)

(* A revision number never stands for two different snapshots: failed      *)
(* writes, failed imports (whose private revisions are reused) and stale   *)
(* readers included (lib.rs publish_snapshot, policy.rs                    *)
(* apply_policy_text_to_service).                                          *)
RevisionsNeverReused ==
    \A s \in ReadableStates : \A i \in 1..Len(s.history) :
        /\ s.history[i].rev \in DOMAIN committed
        /\ committed[s.history[i].rev] = s.history[i]

(* An exact read returns the snapshot its token was issued for, or says it *)
(* expired; a forged or foreign token never reads anything but the         *)
(* snapshot of the revision and schema hash it names (runtime.rs           *)
(* snapshot_for_token).                                                    *)
ExactReads ==
    \A c \in Clients :
        pc[c] = "resolving" /\ arg[c].mode = "exact" /\ loaded[c].last > 0 =>
            LET t == arg[c].token
                result == Resolve(loaded[c], arg[c])
                issued == /\ t.own /\ t.rev \in DOMAIN committed
                          /\ t.hash = committed[t.rev].hash
            IN  /\ result.kind = "snapshot" => issued /\ result.snap = committed[t.rev]
                /\ issued /\ t.rev <= loaded[c].last =>
                       result \in {Ok(committed[t.rev]), Error("RevisionExpired")}

(* A client never reads a state older than what it has been shown, its own *)
(* writes included: the pointer is swapped before the token is sent        *)
(* (lib.rs publish_snapshot, api.rs WriterActor::start).                   *)
ReadYourWrites ==
    \A c \in Clients : pc[c] = "resolving" => loaded[c].last >= seen[c]

(* Every unanswered write is exactly once in the writer's hands: in the    *)
(* queue or being executed; and the queue never exceeds its capacity       *)
(* (api.rs submit_write, WriterActor::start).                              *)
EveryWriteHeldOnce ==
    /\ Len(queue) <= QueueCapacity
    /\ \A c \in Clients :
          Cardinality({i \in 1..Len(queue) : queue[i] = Envelope(c)})
              + (IF actor.client = c THEN 1 ELSE 0)
            = (IF Waiting(c) /\ reply[c] = Empty THEN 1 ELSE 0)

(* Drop's single non-blocking try_send is never lost while the thread      *)
(* still waits for commands, so the join ends (api.rs Drop for             *)
(* WriterActor).                                                           *)
ShutdownDelivered ==
    (\E c \in Clients : pc[c] = "joining") => ActorGone \/ queue = <<Shutdown>>

(* A publication only ever moves the head forward (lib.rs publish_snapshot,*)
(* policy.rs replace_publisher at the end of an import).                   *)
HeadAdvances == [][published' # published => published'.last > published.last]_vars

(* A write that got into the queue returns to its caller, also when the    *)
(* actor panics (api.rs submit_write).                                     *)
QueuedWritesReturn == \A c \in Clients : Waiting(c) ~> ~Waiting(c)

(* Dropping the last handle terminates (api.rs Drop for WriterActor).      *)
DropTerminates == \A c \in Clients : pc[c] = "joining" ~> pc[c] = "gone"

-----------------------------------------------------------------------------
(* What a client's call is to its caller: done as soon as the pointer is   *)
(* swapped, the command refused, the state loaded or the channel closed.   *)
CallOf(c) ==
    LET pending(a) == [phase |-> "pending", arg |-> a]
        done(result) == [phase |-> "done", result |-> result]
        write == [mode |-> "write", cmd |-> arg[c]]
    IN  CASE pc[c] = "sending"   -> pending(write)
          [] pc[c] = "waiting"   ->
                IF reply[c] # Empty THEN done(reply[c])
                ELSE IF actor.client = c /\ actor.at = "answering"
                THEN done(Committed(TokenOf(writer.current)))
                ELSE IF actor.client = c /\ actor.at = "rejecting"
                THEN done(Error("Rejected"))
                ELSE pending(write)
          [] pc[c] = "loading"   -> pending([mode |-> "read", request |-> arg[c]])
          [] pc[c] = "resolving" -> done(Resolve(loaded[c], arg[c]))
          [] OTHER               -> NoCall

Linear == INSTANCE LinearStore WITH db <- writer, call <- [c \in Clients |-> CallOf(c)]

(* The actor, its queue and the pointer swap implement the atomic store:   *)
(* every call takes effect in one step between its start and its return.   *)
Linearizable == Linear!Spec

=============================================================================
