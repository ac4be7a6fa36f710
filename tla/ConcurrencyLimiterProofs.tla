---------------------- MODULE ConcurrencyLimiterProofs ----------------------
(***************************************************************************)
(* Proofs about ConcurrencyLimiter, for any number of tasks and slots and  *)
(* for both ways of use.  Every action first moves one task (Move) and     *)
(* then lets Grant hand out units (GrantKeepsCount); together they keep    *)
(* the count of units and owners.  At the end, the refinement of SlotPool. *)
(***************************************************************************)
EXTENDS ConcurrencyLimiter, FiniteSetTheorems, TLAPS

Owning == {"granted", "revoked", "holding"}

-----------------------------------------------------------------------------
(* Sets of tasks are finite. *)
LEMMA TaskSets ==
  ASSUME NEW S \in SUBSET Workers
  PROVE  IsFiniteSet(S) /\ Cardinality(S) \in Nat
  BY LimiterAssumption, FS_Subset, FS_CardinalityType

(* One task moves: the owners change by that task alone. *)
LEMMA Move ==
  ASSUME NEW p \in [Workers -> Places], NEW w \in Workers, NEW s \in Places,
         NEW q, q = [p EXCEPT ![w] = s]
  PROVE  /\ q \in [Workers -> Places]
         /\ Cardinality(At(q, Owning)) =
              Cardinality(At(p, Owning))
                + (IF s \in Owning THEN 1 ELSE 0)
                - (IF p[w] \in Owning THEN 1 ELSE 0)
<1>. DEFINE S == At(p, Owning)
            T == At(q, Owning)
<1>1. q \in [Workers -> Places]
  OBVIOUS
<1>2. S \in SUBSET Workers /\ (w \in S <=> p[w] \in Owning)
  BY DEF At
<1>3. T = IF s \in Owning THEN S \cup {w} ELSE S \ {w}
  BY DEF At
<1>4. IsFiniteSet(S) /\ Cardinality(S) \in Nat
  BY <1>2, TaskSets
<1>5. CASE s \in Owning
  <2>1. T = S \cup {w}
    BY <1>3, <1>5
  <2>2. Cardinality(T) = IF w \in S THEN Cardinality(S) ELSE Cardinality(S) + 1
    BY <2>1, <1>4, FS_AddElement
  <2>. QED  BY <1>1, <1>2, <1>4, <1>5, <2>2
<1>6. CASE s \notin Owning
  <2>1. T = S \ {w}
    BY <1>3, <1>6
  <2>2. Cardinality(T) = IF w \in S THEN Cardinality(S) - 1 ELSE Cardinality(S)
    BY <2>1, <1>4, FS_RemoveElement
  <2>. QED  BY <1>1, <1>2, <1>4, <1>6, <2>2
<1>. QED  BY <1>5, <1>6

(* Grant turns units into owners one for one, and where it stops either    *)
(* nobody is queued or its units are given.                                *)
LEMMA GrantKeepsCount ==
  ASSUME NEW p \in [Workers -> Places], NEW units \in Nat, NEW most \in 0 .. units,
         Grant(p, units, most)
  PROVE  /\ pc' \in [Workers -> Places]
         /\ value' \in Nat
         /\ value' + Cardinality(At(pc', Owning)) = units + Cardinality(At(p, Owning))
         /\ At(pc', {"queued"}) # {} =>
              /\ value' = units - most
              /\ most # 0 => At(pc', {"granted", "revoked"}) # {}
<1>1. PICK W \in SUBSET At(p, {"queued"}) :
        /\ Cardinality(W) <= most
        /\ W # At(p, {"queued"}) => Cardinality(W) = most
        /\ pc' = [w \in Workers |-> IF w \in W THEN "granted" ELSE p[w]]
        /\ value' = units - Cardinality(W)
  BY DEF Grant
<1>. DEFINE S == At(p, Owning)
<1>2. W \in SUBSET Workers /\ S \in SUBSET Workers
  BY DEF At
<1>3. /\ IsFiniteSet(W) /\ Cardinality(W) \in Nat
      /\ IsFiniteSet(S) /\ Cardinality(S) \in Nat
  BY <1>2, TaskSets
<1>4. pc' \in [Workers -> Places]
  BY <1>1 DEF Places
<1>5. At(pc', Owning) = S \cup W /\ S \cap W = {}
  BY <1>1, <1>2 DEF At, Owning
<1>6. Cardinality(At(pc', Owning)) = Cardinality(S) + Cardinality(W)
  BY <1>3, <1>5, FS_Union, FS_EmptySet
<1>7. value' \in Nat
  BY <1>1, <1>3
<1>8. ASSUME At(pc', {"queued"}) # {}
      PROVE  /\ value' = units - most
             /\ most # 0 => At(pc', {"granted", "revoked"}) # {}
  <2>1. W # At(p, {"queued"})
    BY <1>1, <1>8 DEF At
  <2>2. Cardinality(W) = most
    BY <1>1, <2>1
  <2>3. most # 0 => W # {}
    BY <2>2, FS_EmptySet
  <2>4. W \subseteq At(pc', {"granted", "revoked"})
    BY <1>1, <1>2 DEF At
  <2>. QED  BY <1>1, <2>2, <2>3, <2>4
<1>. QED  BY <1>1, <1>3, <1>4, <1>6, <1>7, <1>8

LEMMA InitOK == Init => IInv
<1>. SUFFICES ASSUME Init PROVE IInv
  OBVIOUS
<1>1. TypeOK
  BY LimiterAssumption DEF Init, TypeOK, Places
<1>2. Owners = {} /\ At(pc, {"queued"}) = {}
  BY DEF Init, Owners, At
<1>3. SlotAccounting /\ NoLostWakeup
  BY <1>2, FS_EmptySet, LimiterAssumption DEF Init, SlotAccounting, NoLostWakeup
<1>. QED  BY <1>1, <1>3 DEF IInv

-----------------------------------------------------------------------------
(* One lemma per action. *)

LEMMA ArriveOK ==
  ASSUME IInv, NEW w \in Workers, Arrive(w)
  PROVE  IInv'
<1>. USE DEF IInv, TypeOK, SlotAccounting, Owners
<1>0. Cardinality(At(pc, Owning)) \in Nat
  BY TaskSets DEF At
<1>1. CASE /\ value > 0 /\ InLine = {}
           /\ pc' = [pc EXCEPT ![w] = "holding"]
           /\ value' = value - 1
           /\ UNCHANGED ahead
  <2>1. Cardinality(At(pc', Owning)) = Cardinality(At(pc, Owning)) + 1
    <3>1. "holding" \in Places /\ "holding" \in Owning /\ pc[w] \notin Owning
      BY DEF Arrive, Places, Owning
    <3>2. pc \in [Workers -> Places] /\ pc' = [pc EXCEPT ![w] = "holding"]
      BY <1>1
    <3>3. Cardinality(At(pc', Owning)) = Cardinality(At(pc, Owning)) + 1 - 0
      BY <3>1, <3>2, Move
    <3>. QED  BY <1>0, <3>3
  <2>2. At(pc', {"queued"}) = {}
    BY <1>1 DEF InLine, At
  <2>3. TypeOK'
    BY <1>1, Move DEF Arrive, Places
  <2>4. SlotAccounting'
    BY <1>0, <1>1, <2>1 DEF Arrive, Owning
  <2>. QED  BY <2>2, <2>3, <2>4 DEF NoLostWakeup
<1>2. CASE /\ value = 0 \/ InLine # {}
           /\ pc' = [pc EXCEPT ![w] = "queued"]
           /\ ahead' = [ahead EXCEPT ![w] = InLine]
           /\ UNCHANGED value
  <2>1. Cardinality(At(pc', Owning)) = Cardinality(At(pc, Owning))
    <3>1. "queued" \in Places /\ "queued" \notin Owning /\ pc[w] \notin Owning
      BY DEF Arrive, Places, Owning
    <3>2. pc \in [Workers -> Places] /\ pc' = [pc EXCEPT ![w] = "queued"]
      BY <1>2
    <3>3. Cardinality(At(pc', Owning)) = Cardinality(At(pc, Owning)) + 0 - 0
      BY <3>1, <3>2, Move
    <3>. QED  BY <1>0, <3>3
  <2>2. At(pc, {"granted", "revoked"}) \subseteq At(pc', {"granted", "revoked"})
    BY <1>2 DEF Arrive, At
  <2>3. InLine = At(pc, {"queued"}) \cup At(pc, {"granted", "revoked"})
    BY DEF InLine, At
  <2>4. NoLostWakeup'
    <3>1. SUFFICES ASSUME value' > 0
                   PROVE  At(pc', {"granted", "revoked"}) # {}
      BY DEF NoLostWakeup
    <3>2. value > 0 /\ InLine # {}
      BY <1>2, <3>1
    <3>. QED  BY <2>2, <2>3, <3>2 DEF NoLostWakeup
  <2>5. TypeOK'
    BY <1>2, Move DEF Arrive, Places, InLine, At
  <2>. QED  BY <1>2, <2>1, <2>4, <2>5 DEF Arrive, Owning
<1>. QED  BY <1>1, <1>2 DEF Arrive

LEMMA InterruptOK ==
  ASSUME IInv, NEW w \in Workers, Interrupt(w)
  PROVE  IInv'
<1>. USE DEF IInv, TypeOK, SlotAccounting, Owners
<1>0. Cardinality(At(pc, Owning)) \in Nat
  BY TaskSets DEF At
<1>1. Cardinality(At(pc', Owning)) = Cardinality(At(pc, Owning))
  BY <1>0, Move DEF Interrupt, Places, Owning
<1>2. At(pc', {"queued"}) \subseteq At(pc, {"queued"})
  BY DEF Interrupt, At
<1>3. At(pc, {"granted", "revoked"}) = At(pc', {"granted", "revoked"})
  BY DEF Interrupt, At
<1>4. NoLostWakeup'
  BY <1>2, <1>3 DEF Interrupt, NoLostWakeup
<1>5. TypeOK'
  BY DEF Interrupt, Places
<1>. QED  BY <1>1, <1>4, <1>5 DEF Interrupt, Owning

(* A task moves and Grant hands out units: the part the other three share. *)
LEMMA MoveAndGrant ==
  ASSUME IInv, NEW w \in Workers, NEW s \in Places, NEW back \in 0 .. 2,
         NEW most \in 0 .. value + back, NEW extra \in 0 .. 1,
         Grant([pc EXCEPT ![w] = s], value + back, most),
         most = 0 => value + back = 0,
         most = value + back \/ most = 1,
         back + (IF s \in Owning THEN 1 ELSE 0) = extra + (IF pc[w] \in Owning THEN 1 ELSE 0),
         leaked' = leaked + extra,
         ahead' \in [Workers -> SUBSET Workers]
  PROVE  IInv'
<1>. DEFINE p == [pc EXCEPT ![w] = s]
<1>1. /\ p \in [Workers -> Places]
      /\ Cardinality(At(p, Owning)) =
              Cardinality(At(pc, Owning))
                + (IF s \in Owning THEN 1 ELSE 0)
                - (IF pc[w] \in Owning THEN 1 ELSE 0)
  <2>1. pc \in [Workers -> Places] /\ p = [pc EXCEPT ![w] = s]
    BY DEF IInv, TypeOK
  <2>2. w \in Workers /\ s \in Places
    OBVIOUS
  <2>. HIDE DEF p
  <2>. QED  BY ONLY <2>1, <2>2, Move, Zenon
<1>. USE DEF IInv, TypeOK
<1>2. value + back \in Nat /\ leaked' \in Nat
  OBVIOUS
<1>3. /\ pc' \in [Workers -> Places]
      /\ value' \in Nat
      /\ value' + Cardinality(At(pc', Owning)) = value + back + Cardinality(At(p, Owning))
      /\ At(pc', {"queued"}) # {} =>
              /\ value' = value + back - most
              /\ most # 0 => At(pc', {"granted", "revoked"}) # {}
  <2>1. Grant(p, value + back, most)
    OBVIOUS
  <2>. HIDE DEF p
  <2>. QED  BY <1>1, <1>2, <2>1, GrantKeepsCount
<1>4. /\ Cardinality(At(pc, Owning)) \in Nat
      /\ Cardinality(At(p, Owning)) \in Nat
      /\ Cardinality(At(pc', Owning)) \in Nat
  BY TaskSets DEF At
<1>5. SlotAccounting'
  BY <1>1, <1>2, <1>3, <1>4, LimiterAssumption DEF SlotAccounting, Owners, Owning
<1>6. NoLostWakeup'
  BY <1>2, <1>3 DEF NoLostWakeup
<1>. QED  BY <1>2, <1>3, <1>5, <1>6

LEMMA LeaveLineTyped ==
  ASSUME TypeOK, NEW w \in Workers, LeaveLine(w)
  PROVE  ahead' \in [Workers -> SUBSET Workers]
  BY DEF TypeOK, LeaveLine

LEMMA ResumeOK ==
  ASSUME IInv, NEW w \in Workers, Resume(w)
  PROVE  IInv'
<1>1. value \in Nat /\ value + 0 = value /\ leaked + 0 = leaked
  BY DEF IInv, TypeOK
<1>2. ahead' \in [Workers -> SUBSET Workers]
  BY LeaveLineTyped DEF IInv, Resume
<1>3. "holding" \in Places /\ "holding" \in Owning /\ pc[w] \in Owning
  BY DEF Resume, Places, Owning
<1>4. Grant([pc EXCEPT ![w] = "holding"], value + 0, value) /\ leaked' = leaked + 0
  BY <1>1 DEF Resume
<1>. QED  BY <1>1, <1>2, <1>3, <1>4, MoveAndGrant

LEMMA AbandonOK ==
  ASSUME IInv, NEW w \in Workers, Abandon(w)
  PROVE  IInv'
<1>. DEFINE extra == IF Managed THEN 1 ELSE 0
            back == (IF pc[w] = "revoked" THEN 1 ELSE 0) + extra
<1>1. PICK out \in Exits : Grant([pc EXCEPT ![w] = out], value + back, value + back)
  BY DEF Abandon
<1>2. ahead' \in [Workers -> SUBSET Workers]
  BY LeaveLineTyped DEF IInv, Abandon
<1>3. out \in Places /\ out \notin Owning
  BY <1>1 DEF Exits, Places, Owning
<1>4. pc[w] \in Owning <=> pc[w] = "revoked"
  BY DEF Abandon, Owning
<1>5. back \in 0 .. 2 /\ extra \in 0 .. 1 /\ value + back \in 0 .. value + back
  BY LimiterAssumption DEF IInv, TypeOK
<1>6. leaked' = leaked + extra
  BY DEF Abandon
<1>7. back + (IF out \in Owning THEN 1 ELSE 0) = extra + (IF pc[w] \in Owning THEN 1 ELSE 0)
  BY <1>3, <1>4, LimiterAssumption
<1>. HIDE DEF back, extra
<1>. QED  BY <1>1, <1>2, <1>3, <1>5, <1>6, <1>7, MoveAndGrant

LEMMA LeaveOK ==
  ASSUME IInv, NEW w \in Workers, Leave(w)
  PROVE  IInv'
<1>1. PICK out \in Exits : Grant([pc EXCEPT ![w] = out], value + 1, 1)
  BY DEF Leave
<1>2. ahead' \in [Workers -> SUBSET Workers] /\ leaked' = leaked + 0
  BY DEF IInv, TypeOK, Leave
<1>3. out \in Places /\ out \notin Owning /\ pc[w] \in Owning
  BY <1>1 DEF Exits, Places, Owning, Leave
<1>4. 1 \in 0 .. value + 1
  BY DEF IInv, TypeOK
<1>. QED  BY <1>1, <1>2, <1>3, <1>4, MoveAndGrant

LEMMA Inductive == IInv /\ [Next]_vars => IInv'
<1>. SUFFICES ASSUME IInv, [Next]_vars PROVE IInv'
  OBVIOUS
<1>1. CASE UNCHANGED vars
  BY <1>1 DEF vars, IInv, TypeOK, SlotAccounting, NoLostWakeup, Owners, At
<1>2. ASSUME NEW w \in Workers, Arrive(w) \/ Interrupt(w) \/ Run(w)
      PROVE  IInv'
  BY <1>2, ArriveOK, InterruptOK, ResumeOK, AbandonOK, LeaveOK DEF Run
<1>. QED  BY <1>1, <1>2 DEF Next

-----------------------------------------------------------------------------
(* The inductive invariant holds: the semaphore as scheduler.py uses it    *)
(* is always in a consistent state, by whichever way its tasks leave.      *)
THEOREM Invariance == Spec => []IInv
  BY InitOK, Inductive, PTL DEF Spec

(* The units and their owners always add up to the configured slots plus   *)
(* the releases without an acquire, in every interleaving of grants,       *)
(* timeouts, cancellations and releases.                                   *)
THEOREM SlotsAddUp == Spec => []SlotAccounting
<1>1. IInv => SlotAccounting
  BY DEF IInv
<1>. QED  BY <1>1, Invariance, PTL

(* No task is left waiting beside a free unit that nobody will hand on.    *)
THEOREM WakeupsReach == Spec => []NoLostWakeup
<1>1. IInv => NoLostWakeup
  BY DEF IInv
<1>. QED  BY <1>1, Invariance, PTL

(* Without the context managers nothing is ever released unacquired.       *)
NoLeak == leaked = 0

LEMMA RawNeverLeaks ==
  ASSUME ~Managed
  PROVE  Spec => []NoLeak
<1>1. Init => NoLeak
  BY DEF Init, NoLeak
<1>2. NoLeak /\ [Next]_vars => NoLeak'
  <2>1. ASSUME leaked = 0, NEW w \in Workers, Arrive(w) \/ Interrupt(w) \/ Run(w)
        PROVE  leaked' = 0
    BY <2>1 DEF Run, Arrive, Interrupt, Resume, Abandon, Leave
  <2>. QED  BY <2>1 DEF Next, vars, NoLeak
<1>. QED  BY <1>1, <1>2, PTL DEF Spec

(* The Markdown and XLIFF paths, which use the semaphore itself, never run *)
(* more units at a time than the configured number.                        *)
THEOREM RawRespectsLimit ==
  ASSUME ~Managed
  PROVE  Spec => []SlotLimit
<1>1. IInv /\ NoLeak => SlotLimit
  <2>. SUFFICES ASSUME IInv, leaked = 0 PROVE SlotLimit
    BY DEF NoLeak
  <2>1. /\ At(pc, {"holding"}) \subseteq Owners
        /\ Owners \in SUBSET Workers
        /\ At(pc, {"holding"}) \in SUBSET Workers
    BY DEF At, Owners
  <2>2. /\ Cardinality(At(pc, {"holding"})) <= Cardinality(Owners)
        /\ Cardinality(Owners) \in Nat
        /\ Cardinality(At(pc, {"holding"})) \in Nat
    BY <2>1, TaskSets, FS_Subset
  <2>. QED  BY <2>2, LimiterAssumption DEF IInv, TypeOK, SlotAccounting, SlotLimit
<1>. QED  BY <1>1, Invariance, RawNeverLeaks, PTL
-----------------------------------------------------------------------------
(* The refinement of SlotPool.                                             *)

(* Who has left the line stands in front of nobody: the order in which the *)
(* waiting came is read from ahead as it is.                               *)
LEMMA LineKept == Spec => [](IInv /\ LineOK)
<1>1. Init => LineOK
  BY DEF Init, LineOK
<1>2. IInv /\ LineOK /\ [Next]_vars => LineOK'
  <2>. SUFFICES ASSUME TypeOK, LineOK, [Next]_vars PROVE LineOK'
    BY DEF IInv
  <2>. USE DEF TypeOK, LineOK
  <2>1. CASE UNCHANGED vars
    BY <2>1 DEF vars
  <2>2. ASSUME NEW w \in Workers, Arrive(w)
        PROVE  LineOK'
    BY <2>2 DEF Arrive, InLine, At
  <2>3. ASSUME NEW w \in Workers, Interrupt(w)
        PROVE  LineOK'
    BY <2>3 DEF Interrupt
  <2>4. ASSUME NEW w \in Workers, NEW s \in Places, NEW units, NEW most,
               Grant([pc EXCEPT ![w] = s], units, most), LeaveLine(w)
        PROVE  LineOK'
    BY <2>4 DEF Grant, LeaveLine, At
  <2>5. ASSUME NEW w \in Workers, Leave(w)
        PROVE  LineOK'
    BY <2>5 DEF Leave, Grant, At
  <2>6. ASSUME NEW w \in Workers, Resume(w) \/ Abandon(w)
        PROVE  LineOK'
    BY <2>4, <2>6 DEF Resume, Abandon, Exits, Places
  <2>. QED  BY <2>1, <2>2, <2>3, <2>5, <2>6 DEF Next, Run
<1>. QED  BY <1>1, <1>2, Invariance, InitOK, Inductive, PTL DEF Spec

LEMMA InitRefines == Init => Pool!Init
  BY DEF Init, Pool!Init, Queue, Order, Owners, At

(* Owners fit in the slots there are: a consequence of the accounts.  The  *)
(* instance has a name of its own for the cardinality of FiniteSets.       *)
LEMMA OwnersFit ==
  ASSUME IInv'
  PROVE  Pool!Fits
<1>1. /\ value' \in Nat /\ leaked' \in Nat
      /\ value' + Cardinality(Owners)' = Max + leaked'
  BY DEF IInv, TypeOK, SlotAccounting
<1>2. Cardinality(Owners)' \in Nat
  BY TaskSets DEF Owners, At
<1>3. Cardinality(Owners)' <= Max + leaked'
  BY <1>1, <1>2, LimiterAssumption
<1>. QED  BY <1>3 DEF Pool!Fits, Pool!Cardinality, Cardinality

LEMMA ArriveRefines ==
  ASSUME IInv, IInv', LineOK, NEW w \in Workers, Arrive(w)
  PROVE  Pool!Next
<1>. USE DEF Queue, Owners, At
<1>1. Pool!Fits
  BY OwnersFit
<1>2. w \notin Queue \cup Owners
  BY DEF Arrive
<1>. USE DEF IInv, TypeOK
<1>3. CASE /\ value > 0 /\ InLine = {}
           /\ pc' = [pc EXCEPT ![w] = "holding"]
           /\ UNCHANGED ahead
  <2>1. Queue = {} /\ Queue' = {} /\ Owners' = Owners \cup {w}
    BY <1>3 DEF InLine
  <2>. QED  BY <1>1, <1>2, <2>1 DEF Pool!Next, Pool!ServedAtOnce, Order, Arrive
<1>4. CASE /\ pc' = [pc EXCEPT ![w] = "queued"]
           /\ ahead' = [ahead EXCEPT ![w] = InLine]
  <2>1. Queue' = Queue \cup {w} /\ Owners' = Owners
    BY <1>2, <1>4
  <2>2. Order' = Order \cup (Queue \X {w})
    <3>1. \A u \in Queue : w \notin ahead[u]
      BY <1>2 DEF LineOK, Arrive
    <3>2. Queue \subseteq InLine /\ w \notin InLine
      BY <1>2 DEF InLine, Arrive
    <3>3. /\ \A u \in Queue : ahead'[u] = ahead[u]
          /\ ahead'[w] = InLine
      BY <1>2, <1>4
    <3>. QED  BY <1>2, <2>1, <3>1, <3>2, <3>3 DEF Order
  <2>. QED  BY <1>2, <2>1, <2>2 DEF Pool!Next, Pool!Waits, Arrive, Order
<1>. QED  BY <1>3, <1>4 DEF Arrive
(* A task moves, out of a slot or within one, and Grant hands out units: a *)
(* turn of the pool.                                                       *)
LEMMA GrantIsTurn ==
  ASSUME IInv, IInv', NEW w \in Workers, NEW s \in Places,
         NEW units, NEW most, NEW gone,
         Grant([pc EXCEPT ![w] = s], units, most),
         pc[w] # "queued", s # "queued",
         gone = IF s \in Owning THEN {} ELSE {w},
         s \in Owning => pc[w] \in Owning,
         LeaveLine(w) \/ UNCHANGED ahead,
         leaked' = leaked \/ (Managed /\ gone # {} /\ leaked' = leaked + 1)
  PROVE  Pool!Next
<1>. DEFINE p == [pc EXCEPT ![w] = s]
<1>0. pc \in [Workers -> Places] /\ ahead \in [Workers -> SUBSET Workers]
  BY DEF IInv, TypeOK
<1>1. At(p, {"queued"}) = Queue /\ Queue \subseteq Workers
  BY <1>0 DEF At, Queue
<1>2. PICK W \in SUBSET Queue :
        /\ \A t \in W, u \in Queue \ W : t \in ahead[u]
        /\ pc' = [v \in Workers |-> IF v \in W THEN "granted" ELSE p[v]]
  BY <1>1 DEF Grant
<1>3. w \notin Queue
  BY DEF Queue, At
<1>4. Queue' = Queue \ (gone \cup W)
  BY <1>0, <1>1, <1>2, <1>3 DEF Queue, At
<1>5. Owners' = (Owners \ gone) \cup W
  <2>1. Owners = {v \in Workers : pc[v] \in Owning}
    BY DEF Owners, At, Owning
  <2>2. Owners' = {v \in Workers : pc'[v] \in Owning}
    BY DEF Owners, At, Owning
  <2>3. \A v \in Workers :
          pc'[v] = IF v \in W THEN "granted" ELSE IF v = w THEN s ELSE pc[v]
    BY <1>0, <1>2
  <2>4. "granted" \in Owning /\ W \subseteq Workers
    BY <1>1 DEF Owning
  <2>. QED  BY <1>2, <1>3, <2>1, <2>2, <2>3, <2>4
<1>6. \A u \in Queue' : \A t \in Queue' : t \in ahead'[u] <=> t \in ahead[u]
  BY <1>0, <1>1, <1>3, <1>4 DEF LeaveLine
<1>7. Order' = Order \cap (Queue' \X Queue')
  BY <1>4, <1>6 DEF Order
<1>8. \A t \in W, u \in Queue \ (gone \cup W) : <<t, u>> \in Order
  BY <1>2 DEF Order
<1>9. gone \in {{}} \cup {{t} : t \in Workers} /\ W \in SUBSET (Queue \ gone)
  BY <1>2, <1>3
<1>10. Pool!Turn(gone, W)
  BY <1>4, <1>5, <1>7, <1>8, OwnersFit DEF Pool!Turn, Order
<1>. QED  BY <1>9, <1>10, Zenon DEF Pool!Next

LEMMA InterruptRefines ==
  ASSUME IInv, IInv', NEW w \in Workers, Interrupt(w)
  PROVE  Pool!Next \/ UNCHANGED Pool!vars
<1>. USE DEF Queue, Owners, At, IInv, TypeOK
<1>1. CASE pc[w] = "queued"
  <2>1. Queue' = Queue \ {w} /\ Owners' = (Owners \ {w}) \cup {}
    BY <1>1 DEF Interrupt
  <2>2. Order' = Order \cap (Queue' \X Queue')
    BY <2>1 DEF Order, Interrupt
  <2>3. Pool!Turn({w}, {})
    BY <2>1, <2>2, OwnersFit DEF Pool!Turn, Order, Interrupt
  <2>. QED  BY <2>3 DEF Pool!Next
<1>2. CASE pc[w] = "granted"
  <2>1. Queue' = Queue /\ Owners' = Owners
    BY <1>2 DEF Interrupt
  <2>. QED  BY <2>1 DEF Pool!vars, Order, Interrupt
<1>. QED  BY <1>1, <1>2 DEF Interrupt

LEMMA RunRefines ==
  ASSUME IInv, IInv', NEW w \in Workers, Run(w)
  PROVE  Pool!Next
<1>1. CASE Resume(w)
  <2>1. /\ Grant([pc EXCEPT ![w] = "holding"], value, value)
        /\ pc[w] = "granted" /\ LeaveLine(w) /\ leaked' = leaked
    BY <1>1 DEF Resume
  <2>. QED  BY <2>1, GrantIsTurn DEF Places, Owning
<1>2. CASE Abandon(w)
  <2>. DEFINE back == (IF pc[w] = "revoked" THEN 1 ELSE 0) + (IF Managed THEN 1 ELSE 0)
  <2>1. PICK out \in Exits : Grant([pc EXCEPT ![w] = out], value + back, value + back)
    BY <1>2 DEF Abandon
  <2>2. pc[w] # "queued" /\ LeaveLine(w)
    BY <1>2 DEF Abandon
  <2>3. leaked' = leaked \/ (Managed /\ leaked' = leaked + 1)
    BY <1>2, LimiterAssumption DEF Abandon, IInv, TypeOK
  <2>4. out \in Places /\ out # "queued" /\ out \notin Owning /\ {w} # {}
    BY <2>1 DEF Exits, Places, Owning
  <2>. HIDE DEF back
  <2>. QED  BY <2>1, <2>2, <2>3, <2>4, GrantIsTurn
<1>3. CASE Leave(w)
  <2>1. PICK out \in Exits : Grant([pc EXCEPT ![w] = out], value + 1, 1)
    BY <1>3 DEF Leave
  <2>2. pc[w] # "queued" /\ UNCHANGED ahead /\ leaked' = leaked
    BY <1>3 DEF Leave
  <2>3. out \in Places /\ out # "queued" /\ out \notin Owning
    BY <2>1 DEF Exits, Places, Owning
  <2>. QED  BY <2>1, <2>2, <2>3, GrantIsTurn
<1>. QED  BY <1>1, <1>2, <1>3 DEF Run

(* The semaphore as scheduler.py uses it is a SlotPool: slots go to the    *)
(* tasks in the order they came, and to no more tasks than there are       *)
(* slots, in every interleaving of grants, timeouts and cancellations.     *)
THEOREM Refinement == Spec => ImplementsPool
<1>1. IInv /\ LineOK /\ (IInv /\ LineOK)' /\ [Next]_vars => [Pool!Next]_(Pool!vars)
  <2>. SUFFICES ASSUME IInv, LineOK, IInv', [Next]_vars
                PROVE  Pool!Next \/ UNCHANGED Pool!vars
    OBVIOUS
  <2>1. CASE UNCHANGED vars
    BY <2>1 DEF vars, Pool!vars, Queue, Order, Owners, At
  <2>2. ASSUME NEW w \in Workers, Arrive(w) \/ Interrupt(w) \/ Run(w)
        PROVE  Pool!Next \/ UNCHANGED Pool!vars
    BY <2>2, ArriveRefines, InterruptRefines, RunRefines
  <2>. QED  BY <2>1, <2>2 DEF Next
<1>. QED  BY <1>1, InitRefines, LineKept, PTL DEF Spec, ImplementsPool, Pool!Spec
=============================================================================
