----------------------------- MODULE PartitionLog -----------------------------
(***************************************************************************)
(* What the event bus promises of a partition: a first-in first-out log    *)
(* whose single consumer holds one event at a time and either stores it or *)
(* gives it up.                                                            *)
(***************************************************************************)
EXTENDS Sequences

CONSTANTS Partition, Event, NoEvent

VARIABLES
  pending,   \* accepted and not yet taken
  current,   \* the event the consumer holds
  log        \* the stored events

Init ==
  /\ pending = [p \in Partition |-> <<>>]
  /\ current = [p \in Partition |-> NoEvent]
  /\ log = [p \in Partition |-> <<>>]

Accept(p, e) ==
  /\ pending' = [pending EXCEPT ![p] = Append(@, e)]
  /\ UNCHANGED <<current, log>>

Take(p) ==
  /\ current[p] = NoEvent /\ pending[p] # <<>>
  /\ current' = [current EXCEPT ![p] = Head(pending[p])]
  /\ pending' = [pending EXCEPT ![p] = Tail(@)]
  /\ UNCHANGED log

Store(p) ==
  /\ current[p] # NoEvent
  /\ log' = [log EXCEPT ![p] = Append(@, current[p])]
  /\ current' = [current EXCEPT ![p] = NoEvent]
  /\ UNCHANGED pending

GiveUp(p) ==
  /\ current[p] # NoEvent
  /\ current' = [current EXCEPT ![p] = NoEvent]
  /\ UNCHANGED <<pending, log>>

Next ==
  \E p \in Partition :
    (\E e \in Event : Accept(p, e)) \/ Take(p) \/ Store(p) \/ GiveUp(p)

Spec == Init /\ [][Next]_<<pending, current, log>>

=============================================================================
