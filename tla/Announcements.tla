--------------------------- MODULE Announcements ---------------------------
(***************************************************************************)
(* What the notice alert promises, without pages, batches and jobs: above  *)
(* a marker that only moves forward every recipient is served in order,    *)
(* the marker moves past everything that was served, and a restart forgets *)
(* what was served above it.                                               *)
(***************************************************************************)
EXTENDS Naturals

CONSTANTS Category, Recipient, MaxId

Id == 1 .. MaxId

VARIABLES
  marker,    \* the notice each category was announced up to; 0: none yet
  served,    \* the notices above the marker each recipient is done with
  received,  \* how often each recipient was sent each notice
  restarts

vars == <<marker, served, received, restarts>>

NothingServed == [r \in Recipient |-> [c \in Category |-> {}]]

Init ==
  /\ marker = [c \in Category |-> 0]
  /\ served = NothingServed
  /\ received = [r \in Recipient |-> [c \in Category |-> [n \in Id |-> 0]]]
  /\ restarts = 0

(* The notices a recipient is served next are newer than all before. *)
Serve(r, c, ids) ==
  /\ marker[c] > 0
  /\ \A n \in ids : marker[c] < n /\ \A k \in served[r][c] : k < n
  /\ served' = [served EXCEPT ![r][c] = @ \cup ids]

Deliver(r, c, ids) ==
  /\ Serve(r, c, ids)
  /\ received' = [received EXCEPT ![r][c] =
       [n \in Id |-> IF n \in ids THEN @[n] + 1 ELSE @[n]]]
  /\ UNCHANGED <<marker, restarts>>

(* A recipient that cannot be reached goes without. *)
GiveUp(r, c, ids) ==
  /\ Serve(r, c, ids)
  /\ UNCHANGED <<marker, received, restarts>>

(* The marker leaves nothing that was served above it. *)
Advance(c, newest) ==
  /\ marker[c] < newest
  /\ \A r \in Recipient : \A n \in served[r][c] : n <= newest
  /\ marker' = [marker EXCEPT ![c] = newest]
  /\ served' = [r \in Recipient |-> [served[r] EXCEPT ![c] = {}]]
  /\ UNCHANGED <<received, restarts>>

Restart ==
  /\ restarts' = restarts + 1
  /\ served' = NothingServed
  /\ UNCHANGED <<marker, received>>

Next ==
  \/ \E r \in Recipient, c \in Category, ids \in SUBSET Id :
       Deliver(r, c, ids) \/ GiveUp(r, c, ids)
  \/ \E c \in Category, newest \in Id : Advance(c, newest)
  \/ Restart

Spec == Init /\ [][Next]_vars

=============================================================================
