----------------------------- MODULE EventQueue -----------------------------
(***************************************************************************)
(* What a scheduler of the simulator promises to the protocols that post   *)
(* events with it: an event is handled at most once, no event is dropped   *)
(* but by a clear, and the event handled is always the first of those      *)
(* pending, in the order of their due times and, at one time, in the order *)
(* in which they were posted.  The promise ends when a time had to be      *)
(* rounded (exact is FALSE).                                               *)
(***************************************************************************)
EXTENDS Naturals

VARIABLES
  pending,     \* the events posted and not handled: [id, due]
  serial,      \* the events posted so far are 1 .. serial
  exact

Before(e, f) == e.due < f.due \/ (e.due = f.due /\ e.id <= f.id)

First(e) == e \in pending /\ \A f \in pending : Before(e, f)

AbsInit == pending = {} /\ serial = 0 /\ exact = TRUE

Post ==
  /\ \E e \in pending' : /\ e.id = serial + 1
                         /\ pending' = pending \union {e}
  /\ serial' = serial + 1
  /\ exact' = exact

(* The handler of an event posts at most one event, not due before it.     *)
Handle ==
  /\ \E e \in pending :
       /\ First(e)
       /\ \/ pending' = pending \ {e} /\ serial' = serial
          \/ /\ \E f \in pending' :
                  /\ f.id = serial + 1 /\ f.due >= e.due
                  /\ pending' = (pending \ {e}) \union {f}
             /\ serial' = serial + 1
  /\ exact' = exact

(* sim clear, from the prompt or as a scheduled command.                   *)
Clear == pending' = {} /\ serial' = serial /\ exact' = exact

Rounded == exact' = FALSE

AbsNext == Post \/ Handle \/ Clear \/ Rounded

AbsSpec == AbsInit /\ [][exact => AbsNext]_<<pending, serial, exact>>
=============================================================================
