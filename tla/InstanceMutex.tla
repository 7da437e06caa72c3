--------------------------- MODULE InstanceMutex ---------------------------
(***************************************************************************)
(* What the operation lease of cmd/agent/operations.go promises, with no   *)
(* counters, goroutines or handlers: every instance has at most one owner, *)
(* and the agent's in-memory record of an instance and its SSH-ready flag  *)
(* change only in steps of the owner.  A crash of the process frees every  *)
(* instance and rebuilds the volatile state.                               *)
(***************************************************************************)
CONSTANTS Instances,    \* instance ids
          Ops,          \* operations that may own an instance
          NoOwner,      \* the owner of an instance nobody works on
          Entries,      \* values of an in-memory instance record
          ReadyFlags    \* values of an SSH-ready flag

VARIABLES owner,        \* owner[i]: the operation that owns i, or NoOwner
          entry,        \* entry[i]: the in-memory record of i
          ready         \* ready[i]: the SSH-ready flag of i

vars == <<owner, entry, ready>>

Init ==
    /\ owner = [i \in Instances |-> NoOwner]
    /\ entry \in [Instances -> Entries]
    /\ ready \in [Instances -> ReadyFlags]

Acquire(o, i) ==
    /\ owner[i] = NoOwner
    /\ \A j \in Instances : owner[j] # o
    /\ owner' = [owner EXCEPT ![i] = o]
    /\ UNCHANGED <<entry, ready>>

\* The owner changes what is recorded of its instance, and of no other.
Work(o, i) ==
    /\ owner[i] = o
    /\ \E e \in Entries : entry' = [entry EXCEPT ![i] = e]
    /\ \E r \in ReadyFlags : ready' = [ready EXCEPT ![i] = r]
    /\ UNCHANGED owner

Release(o, i) ==
    /\ owner[i] = o
    /\ owner' = [owner EXCEPT ![i] = NoOwner]
    /\ UNCHANGED <<entry, ready>>

Crash ==
    /\ owner' = [i \in Instances |-> NoOwner]
    /\ entry' \in [Instances -> Entries]
    /\ ready' \in [Instances -> ReadyFlags]

Next ==
    \/ \E o \in Ops, i \in Instances : Acquire(o, i) \/ Work(o, i) \/ Release(o, i)
    \/ Crash

Spec == Init /\ [][Next]_vars
=============================================================================
