--------------------------- MODULE OrderedService ---------------------------
(***************************************************************************)
(* What the event logger and each transmitter promise their callers,       *)
(* without ring, fragments, transaction ids or timers: accepted items wait *)
(* in order, no more than there is room for, and each is closed in its     *)
(* turn, never skipped and never closed twice.                             *)
(***************************************************************************)
EXTENDS Naturals, Sequences

CONSTANTS
  Capacity,   \* items the service can hold
  Items,      \* what it can be given, numbered in that order
  Endings     \* how an item may end

VARIABLES
  pending,   \* accepted items not yet closed, oldest first
  outcome    \* how each closed one ended

vars == <<pending, outcome>>

Init == pending = <<>> /\ outcome = [i \in {} |-> CHOOSE e \in Endings : TRUE]

\* An item is newer than all before it.  (One that is refused has a number too.)
Accept ==
  /\ Len(pending) < Capacity
  /\ \E i \in Items :
       /\ \A k \in DOMAIN pending : pending[k] < i
       /\ \A k \in DOMAIN outcome : k < i
       /\ pending' = Append(pending, i)
  /\ UNCHANGED outcome

Close ==
  /\ pending # <<>>
  /\ pending' = Tail(pending)
  /\ \E e \in Endings :
       outcome' = [i \in DOMAIN outcome \cup {Head(pending)} |->
                     IF i = Head(pending) THEN e ELSE outcome[i]]

Next == Accept \/ Close

Spec == Init /\ [][Next]_vars

FairSpec == Spec /\ WF_vars(Close)

=============================================================================
