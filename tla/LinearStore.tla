----------------------------- MODULE LinearStore -----------------------------
(***************************************************************************)
(* What an engine promises its callers, with no threads, queue or pointer  *)
(* swap: every call takes effect in one atomic step between its start and  *)
(* its return.  A write either commits all its revisions or changes        *)
(* nothing, a read answers from one state.  A call whose writer is gone    *)
(* ends with WriterUnavailable and has no effect.                          *)
(***************************************************************************)
EXTENDS EngineOps

CONSTANTS Clients, NoCall

VARIABLES db,       \* the writer's state as committed so far
          call      \* what each client is doing

vars == <<db, call>>

Pending(arg) == [phase |-> "pending", arg |-> arg]
Done(result) == [phase |-> "done", result |-> result]

IsPending(c, mode) ==
    /\ call[c] # NoCall
    /\ call[c].phase = "pending"
    /\ call[c].arg.mode = mode

Init ==
    /\ db \in {NewWriter} \cup {LoadedWriter(f) : f \in Files}
    /\ call = [c \in Clients |-> NoCall]

WriteArg(cmd) == [mode |-> "write", cmd |-> cmd]
ReadArg(request) == [mode |-> "read", request |-> request]

Args == {WriteArg(cmd) : cmd \in Commands} \cup {ReadArg(r) : r \in Requests}

Invoke(c) ==
    /\ call[c] = NoCall
    /\ \E arg \in Args : call' = [call EXCEPT ![c] = Pending(arg)]
    /\ UNCHANGED db

Commit(c) ==
    /\ IsPending(c, "write")
    /\ Succeeds(db, call[c].arg.cmd)
    /\ db' = NextWriter(db, call[c].arg.cmd)
    /\ call' = [call EXCEPT ![c] = Done(Committed(TokenOf(db'.current)))]

Reject(c) ==
    /\ IsPending(c, "write")
    /\ ~Succeeds(db, call[c].arg.cmd)
    /\ call' = [call EXCEPT ![c] = Done(Error("Rejected"))]
    /\ UNCHANGED db

Read(c) ==
    /\ IsPending(c, "read")
    /\ call' = [call EXCEPT ![c] = Done(Resolve(EngineState(db), call[c].arg.request))]
    /\ UNCHANGED db

(* The writer is gone: the writes it had not answered are abandoned.       *)
Abandon ==
    /\ \E S \in SUBSET {c \in Clients : IsPending(c, "write")} :
          call' = [c \in Clients |-> IF c \in S THEN Done(Error("WriterUnavailable")) ELSE call[c]]
    /\ UNCHANGED db

Return(c) ==
    /\ call[c] # NoCall
    /\ call[c].phase = "done"
    /\ call' = [call EXCEPT ![c] = NoCall]
    /\ UNCHANGED db

Next ==
    \/ \E c \in Clients : Invoke(c) \/ Commit(c) \/ Reject(c) \/ Read(c) \/ Return(c)
    \/ Abandon

Spec == Init /\ [][Next]_vars
=============================================================================
