------------------------------ MODULE SlotPool ------------------------------
(***************************************************************************)
(* What the users of a slot pool rely on, with no semaphore, future or     *)
(* event loop: a task is served at once when nobody waits, or waits; tasks *)
(* are served in the order they came; no more are served than there are    *)
(* slots.  A pool that leaks gains a slot, now and then, when a task       *)
(* leaves.                                                                 *)
(***************************************************************************)
EXTENDS Naturals, FiniteSets

CONSTANTS Tasks, Slots, Leaky

VARIABLES
  waiting,  \* the tasks that wait
  order,    \* pairs of waiting tasks: the first came before the second
  served,   \* the tasks whose slot is theirs, running or about to run
  extra     \* slots gained

vars == <<waiting, order, served, extra>>

Init ==
  /\ waiting = {}
  /\ order = {}
  /\ served = {}
  /\ extra = 0

Fits == Cardinality(served') <= Slots + extra'

(* A task asks for a slot: nobody is overtaken by a late arrival. *)
ServedAtOnce(t) ==
  /\ t \notin waiting \cup served
  /\ waiting = {}
  /\ served' = served \cup {t}
  /\ Fits
  /\ UNCHANGED <<waiting, order, extra>>

Waits(t) ==
  /\ t \notin waiting \cup served
  /\ waiting' = waiting \cup {t}
  /\ order' = order \cup (waiting \X {t})
  /\ UNCHANGED <<served, extra>>

(* Some leave, with their slot or from the line, and those in front of the *)
(* line are served.                                                        *)
Turn(gone, next) ==
  /\ \A t \in next, u \in waiting \ (gone \cup next) : <<t, u>> \in order
  /\ waiting' = waiting \ (gone \cup next)
  /\ order' = order \cap (waiting' \X waiting')
  /\ served' = (served \ gone) \cup next
  /\ Fits
  /\ \/ extra' = extra
     \/ Leaky /\ gone # {} /\ extra' = extra + 1

Next ==
  \/ \E t \in Tasks : ServedAtOnce(t) \/ Waits(t)
  \/ \E gone \in {{}} \cup {{t} : t \in Tasks} :
       \E next \in SUBSET (waiting \ gone) : Turn(gone, next)

Spec == Init /\ [][Next]_vars
=============================================================================
