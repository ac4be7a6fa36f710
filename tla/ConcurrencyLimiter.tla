------------------------- MODULE ConcurrencyLimiter -------------------------
(***************************************************************************)
(* One slot pool of ConcurrencyLimiter (ol_concurrency/scheduler.py) and   *)
(* the tasks that go through it: an asyncio.Semaphore, external to the     *)
(* repository, and the two ways the code uses it.                          *)
(*                                                                         *)
(* Managed: the context managers translation(), scoring() and xliff(),     *)
(* which batch processing enters with a timeout.  Their finally clause     *)
(* releases a slot on every way out, also when the wait for the slot was   *)
(* cut short and the semaphore had not given one.                          *)
(* Not Managed: the Markdown and XLIFF paths, which write                  *)
(* "async with sem" around each unit.                                      *)
(***************************************************************************)
EXTENDS Naturals, FiniteSets

CONSTANTS
  Workers,   \* tasks: one per file, or one per translation unit
  Max,       \* the semaphore's initial value
  Managed,
  MaxLeaked  \* bound of the model: no wait is cut short after so many leaks

ASSUME LimiterAssumption ==
  /\ IsFiniteSet(Workers)
  /\ Max \in Nat \ {0}
  /\ Managed \in BOOLEAN
  /\ MaxLeaked \in Nat

VARIABLES
  pc,      \* where each task is
  value,   \* Semaphore._value
  ahead,   \* Semaphore._waiters: the tasks that stood in line at a task's arrival
  leaked   \* history: slots released and never acquired

vars == <<pc, value, ahead, leaked>>

(* queued: waits.  granted: its future is set, and it has not run since.   *)
(* expired, revoked: cancelled by its timeout or its caller while queued,  *)
(* or while granted, and it has not run since.  refused: the limiter       *)
(* raised QueueTimeoutError.                                               *)
Places == {"idle", "queued", "granted", "expired", "revoked", "holding", "refused"}

TypeOK ==
  /\ pc \in [Workers -> Places]
  /\ value \in Nat
  /\ ahead \in [Workers -> SUBSET Workers]
  /\ leaked \in Nat

Init ==
  /\ pc = [w \in Workers |-> "idle"]
  /\ value = Max
  /\ ahead = [w \in Workers |-> {}]
  /\ leaked = 0

At(p, places) == {w \in Workers : p[w] \in places}

(* The futures of _waiters that are not cancelled.                         *)
InLine == At(pc, {"queued", "granted", "revoked"})

LeaveLine(w) == ahead' = [u \in Workers |-> IF u = w THEN {} ELSE ahead[u] \ {w}]

(* Mutation of Grant: any waiters are woken, not those at the front.       *)
Grant_AnyWaiters(p, units, most) ==
  \E W \in SUBSET At(p, {"queued"}) :
    /\ Cardinality(W) <= most
    /\ W # At(p, {"queued"}) => Cardinality(W) = most
    /\ pc' = [w \in Workers |-> IF w \in W THEN "granted" ELSE p[w]]
    /\ value' = units - Cardinality(W)

(* _wake_up_next, as often as `most' allows: with the tasks placed as in p *)
(* and that many units free, the waiters at the front of the line each     *)
(* take a unit.                                                            *)
Grant(p, units, most) ==
  \E W \in SUBSET At(p, {"queued"}) :
    /\ Cardinality(W) <= most
    /\ W # At(p, {"queued"}) => Cardinality(W) = most
    /\ \A w \in W, u \in At(p, {"queued"}) \ W : w \in ahead[u]
    /\ pc' = [w \in Workers |-> IF w \in W THEN "granted" ELSE p[w]]
    /\ value' = units - Cardinality(W)

(* A task asks for a slot: it gets one at once only if a unit is free and  *)
(* nobody stands in line.                                                  *)
Arrive(w) ==
  /\ pc[w] \in {"idle", "refused"}
  /\ \/ /\ value > 0 /\ InLine = {}
        /\ pc' = [pc EXCEPT ![w] = "holding"]
        /\ value' = value - 1
        /\ UNCHANGED ahead
     \/ /\ value = 0 \/ InLine # {}
        /\ pc' = [pc EXCEPT ![w] = "queued"]
        /\ ahead' = [ahead EXCEPT ![w] = InLine]
        /\ UNCHANGED value
  /\ UNCHANGED leaked

(* A granted task runs and passes what is left on to those behind it.      *)
Resume(w) ==
  /\ pc[w] = "granted"
  /\ Grant([pc EXCEPT ![w] = "holding"], value, value)
  /\ LeaveLine(w)
  /\ UNCHANGED leaked

(* A task that waits is cancelled, by asyncio.timeout or by its caller.    *)
(* Whether it had been granted a unit decides what it has to give back.    *)
Interrupt(w) ==
  /\ leaked < MaxLeaked
  /\ \/ /\ pc[w] = "queued"
        /\ pc' = [pc EXCEPT ![w] = "expired"]
     \/ /\ pc[w] = "granted"
        /\ pc' = [pc EXCEPT ![w] = "revoked"]
  /\ UNCHANGED <<value, ahead, leaked>>

(* Where a task is after it left: the context managers turn a TimeoutError *)
(* into QueueTimeoutError, the wait's own and one from the body alike.     *)
Exits == IF Managed THEN {"idle", "refused"} ELSE {"idle"}

(* Mutation of Abandon: a unit that was granted is not given back.         *)
Abandon_KeepsUnit(w) ==
  /\ pc[w] \in {"expired", "revoked"}
  /\ \E out \in Exits : Grant([pc EXCEPT ![w] = out], value, value)
  /\ LeaveLine(w)
  /\ UNCHANGED leaked

(* The cancelled task runs: it gives back a unit it had been granted, and  *)
(* a context manager releases one more.                                    *)
Abandon(w) ==
  /\ pc[w] \in {"expired", "revoked"}
  /\ LET back == (IF pc[w] = "revoked" THEN 1 ELSE 0) + (IF Managed THEN 1 ELSE 0)
     IN \E out \in Exits :
          Grant([pc EXCEPT ![w] = out], value + back, value + back)
  /\ LeaveLine(w)
  /\ leaked' = leaked + (IF Managed THEN 1 ELSE 0)

(* Mutations of Leave: the slot is only given back on success, or given    *)
(* back without a look at those who wait.                                  *)
Leave_KeepsSlot(w) ==
  /\ pc[w] = "holding"
  /\ \/ \E out \in Exits : Grant([pc EXCEPT ![w] = out], value + 1, 1)
     \/ pc' = [pc EXCEPT ![w] = "idle"] /\ UNCHANGED value
  /\ UNCHANGED <<ahead, leaked>>

Leave_NobodyWoken(w) ==
  /\ pc[w] = "holding"
  /\ pc' = [pc EXCEPT ![w] = "idle"]
  /\ value' = value + 1
  /\ UNCHANGED <<ahead, leaked>>

(* The body ends, in whatever way: one unit back, one waiter woken.        *)
Leave(w) ==
  /\ pc[w] = "holding"
  /\ \E out \in Exits : Grant([pc EXCEPT ![w] = out], value + 1, 1)
  /\ UNCHANGED <<ahead, leaked>>

Run(w) == Resume(w) \/ Abandon(w) \/ Leave(w)

Next == \E w \in Workers : Arrive(w) \/ Interrupt(w) \/ Run(w)

Spec == Init /\ [][Next]_vars

(* A task that can run runs, and every body ends: requests to the LLM      *)
(* carry a timeout.                                                        *)
FairSpec == Spec /\ \A w \in Workers : WF_vars(Run(w))

-----------------------------------------------------------------------------
(* The tasks that own a unit of the semaphore.                             *)
Owners == At(pc, {"granted", "revoked", "holding"})

(* Through every interleaving of grants, timeouts and releases, the units  *)
(* and their owners add up to the configured slots plus the releases that  *)
(* had no acquire: nothing else is lost or made.                           *)
SlotAccounting == value + Cardinality(Owners) = Max + leaked

(* Nobody waits beside a free unit, unless a task is on its way that will  *)
(* hand it on: no wake-up is lost when a granted task is cancelled.        *)
NoLostWakeup ==
  value > 0 /\ At(pc, {"queued"}) # {} => At(pc, {"granted", "revoked"}) # {}

(* "The semaphores are the source of truth for slot accounting": no more   *)
(* bodies run than there are slots.  So it is for the Markdown and XLIFF   *)
(* paths, and not for the context managers, whose timeouts add slots.      *)
SlotLimit == Cardinality(At(pc, {"holding"})) <= Max

(* First come, first served: a task in the queue gets its slot however     *)
(* many others come after it, unless it is cancelled while it waits.       *)
QueuedProceeds ==
  \A w \in Workers :
    pc[w] = "queued" ~> pc[w] \in {"holding", "expired", "revoked"}

(* How the semaphore maps to a SlotPool.                                   *)
Queue == At(pc, {"queued"})
Order == {pair \in Queue \X Queue : pair[1] \in ahead[pair[2]]}

Pool == INSTANCE SlotPool WITH
  Tasks <- Workers, Slots <- Max, Leaky <- Managed,
  waiting <- Queue,
  order <- Order,
  served <- Owners,
  extra <- leaked

(* The slot pool and its tasks are a SlotPool: through timeouts and        *)
(* cancellations that meet a grant halfway, the slots are handed out in    *)
(* the order the tasks came, and never more of them than there are.  It is *)
(* a pool that leaks where the context managers are used.                  *)
ImplementsPool == Pool!Spec

(* The inductive invariants of the proofs: the accounts, and that nobody   *)
(* stands in front of another once it has left the line.                   *)
IInv == TypeOK /\ SlotAccounting /\ NoLostWakeup

LineOK ==
  \A u, w \in Workers :
    w \in ahead[u] => pc[w] \in {"queued", "granted", "expired", "revoked"}
=============================================================================
