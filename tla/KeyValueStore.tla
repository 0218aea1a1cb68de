--------------------------- MODULE KeyValueStore ---------------------------
(***************************************************************************)
(* What the DHT client promises its callers: a store of keys on which each *)
(* call has its effect at most once, and if it returns without an          *)
(* exception exactly once, between its start and its return.  A call that  *)
(* raises may have it later.                                               *)
(***************************************************************************)
CONSTANTS
  Threads, Keys, Values, NoValue,
  MayIgnore  \* the store may ignore a call that is then reported as done

VARIABLES
  stored,    \* the value of each key, or NoValue
  pending,   \* the call of each thread
  late,      \* operations of calls that raised, which may still take effect
  returned   \* how the last call of each thread ended

storeVars == <<stored, pending, late, returned>>

Operation == [kind : {"insert", "update"}, key : Keys, val : Values]
        \cup [kind : {"read", "delete"}, key : Keys, val : {NoValue}]

NotReturned == [how |-> "none", val |-> NoValue]
NoCall == [phase |-> "none"]
Calling(op, phase, val) == [phase |-> phase, op |-> op, val |-> val]

StoreInit ==
  /\ stored = [k \in Keys |-> NoValue]
  /\ pending = [t \in Threads |-> NoCall]
  /\ late = {}
  /\ returned = [t \in Threads |-> NotReturned]

Call(t) ==
  /\ pending[t] = NoCall
  /\ \E op \in Operation : pending' = [pending EXCEPT ![t] = Calling(op, "called", NoValue)]
  /\ returned' = [returned EXCEPT ![t] = NotReturned]
  /\ UNCHANGED <<stored, late>>

\* Only an insertion has an effect on a key that is not there.
Effect(op) ==
  /\ op.kind = "insert" \/ stored[op.key] # NoValue
  /\ stored' = [stored EXCEPT ![op.key] = IF op.kind = "read" THEN @ ELSE op.val]

Result(op) == IF op.kind = "read" THEN stored[op.key] ELSE NoValue

TakeEffect(t) ==
  /\ pending[t].phase = "called"
  /\ Effect(pending[t].op)
  /\ pending' = [pending EXCEPT ![t] = Calling(@.op, "done", Result(@.op))]
  /\ UNCHANGED <<late, returned>>

TakeEffectLate ==
  \E op \in late :
    /\ late' = late \ {op}
    /\ Effect(op) \/ UNCHANGED stored
    /\ UNCHANGED <<pending, returned>>

Ignore(t) ==
  /\ MayIgnore
  /\ pending[t].phase = "called"
  /\ pending' = [pending EXCEPT ![t].phase = "ignored"]
  /\ UNCHANGED <<stored, late, returned>>

Succeed(t) ==
  /\ pending[t].phase \in {"done", "ignored"}
  /\ returned' = [returned EXCEPT ![t] = [how |-> "ok", val |-> pending[t].val]]
  /\ pending' = [pending EXCEPT ![t] = NoCall]
  /\ UNCHANGED <<stored, late>>

\* An exception says nothing of whether the call had its effect.
Fail(t) ==
  /\ pending[t] # NoCall
  /\ returned' = [returned EXCEPT ![t] = [how |-> "failed", val |-> NoValue]]
  /\ pending' = [pending EXCEPT ![t] = NoCall]
  /\ late' \in {late} \cup
       (IF pending[t].phase = "called" THEN {late \cup {pending[t].op}} ELSE {})
  /\ UNCHANGED stored

StoreNext ==
  \/ \E t \in Threads : Call(t) \/ TakeEffect(t) \/ Ignore(t) \/ Succeed(t) \/ Fail(t)
  \/ TakeEffectLate

StoreSpec == StoreInit /\ [][StoreNext]_storeVars
=============================================================================
