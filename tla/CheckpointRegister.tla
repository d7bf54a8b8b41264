-------------------------- MODULE CheckpointRegister --------------------------
(***************************************************************************)
(* What a Checkpointer promises (checkpoint/base.py): for every owner and  *)
(* checkpoint id one snapshot, replaced as a whole or removed, and never   *)
(* by an operation on another one.  The stores do not promise that for     *)
(* every key: from some point on a key may be Unpromised.                  *)
(*                                                                         *)
(* Checkpointers implements this specification, and GraphExecution's       *)
(* variable "checkpoint" is one entry of "record".                         *)
(***************************************************************************)
CONSTANTS
    Key,            \* (owner, checkpoint id)
    Snapshot,       \* what is saved
    NoSnapshot,     \* load() returns None
    Unpromised

VARIABLE record

TypeOK == record \in [Key -> Snapshot \cup {NoSnapshot, Unpromised}]

Init == record \in [Key -> {NoSnapshot, Unpromised}]

Save(key, snapshot) ==
    /\ record[key] # Unpromised
    /\ record' = [record EXCEPT ![key] = snapshot]

Remove(keys) ==
    /\ \A key \in keys : record[key] # Unpromised
    /\ record' = [key \in Key |-> IF key \in keys THEN NoSnapshot ELSE record[key]]

GiveUp(key) == record' = [record EXCEPT ![key] = Unpromised]

Next ==
    \/ \E key \in Key : GiveUp(key) \/ \E snapshot \in Snapshot : Save(key, snapshot)
    \/ \E keys \in SUBSET Key : Remove(keys)

Spec == Init /\ [][Next]_record
===============================================================================
