------------------------------ MODULE TMService ------------------------------
(***************************************************************************)
(* The translation memory (ol_tm/service.py) and the TMX file it is kept   *)
(* in (ol_tm/_py_tmx.py).  Each service is an object of a process of its   *)
(* own, opened on one file: it reads the file once, keeps its entries in   *)
(* memory, and a flush writes all of them, under a lock between processes, *)
(* over whatever the file holds then.                                      *)
(***************************************************************************)
EXTENDS Naturals, Sequences

CONSTANTS
  Services,
  Sources, Targets,  \* texts
  Pairs,             \* language pairs
  MaxEntries,        \* bound on the entries of a service
  None

ASSUME TMAssumption == MaxEntries \in Nat /\ None \notin Services

VARIABLES
  service,  \* each service: None, or the object
  disk,     \* the TMX file
  lock      \* the service that holds the lock file

tmVars == <<service, disk, lock>>

(* A unit of the file has no language pair of its own, the file has one.   *)
Units == [source : Sources, target : Targets]
Entries == [source : Sources, target : Targets, pair : Pairs]
UnitOf(e) == [source |-> e.source, target |-> e.target]

Whole == [state : {"whole"}, pair : Pairs, units : Seq(Units)]
Disks == [state : {"absent", "torn", "mixed"}] \cup Whole

(* kept: the entries when the service last read or began to write the file.*)
Objects == [pc : {"open", "waiting", "locked", "writing"}, closing : BOOLEAN,
            entries : Seq(Entries), dirty : BOOLEAN, kept : Seq(Entries)]

TMTypeOK ==
  /\ service \in [Services -> Objects \cup {None}]
  /\ disk \in Disks
  /\ lock \in Services \cup {None}
  /\ \A s \in Services : service[s] # None => Len(service[s].entries) <= MaxEntries

TMInit ==
  /\ service = [s \in Services |-> None]
  /\ disk = [state |-> "absent"]
  /\ lock = None

(* TMXFile.unit_iterator and _load: a file that does not parse has no      *)
(* units, and every unit gets the language pair of the file.               *)
Loaded ==
  IF disk.state # "whole" THEN <<>>
  ELSE [i \in 1 .. Len(disk.units) |->
         [source |-> disk.units[i].source, target |-> disk.units[i].target,
          pair |-> disk.pair]]

(* __init__: the lock is not taken to read.                                *)
Open(s) ==
  /\ service[s] = None
  /\ service' = [service EXCEPT ![s] =
       [pc |-> "open", closing |-> FALSE, entries |-> Loaded, dirty |-> FALSE,
        kept |-> Loaded]]
  /\ UNCHANGED <<disk, lock>>

(* Mutation of Free: an entry may be added while another thread saves. *)
Free_Unlocked(s) == service[s] # None

(* The service's own lock, held from the begin of a flush to its end.      *)
Free(s) == service[s] # None /\ service[s].pc = "open"

Added(o, source, target, pair) ==
  [o EXCEPT !.dirty = TRUE,
            !.entries = Append(@, [source |-> source, target |-> target, pair |-> pair])]

Add(s, source, target, pair) ==
  /\ Free(s) /\ ~service[s].closing
  /\ Len(service[s].entries) < MaxEntries
  /\ service' = [service EXCEPT ![s] = Added(@, source, target, pair)]
  /\ UNCHANGED <<disk, lock>>

(* flush, and close: nothing to do, or the lock file is waited for.        *)
Flush(s, closing) ==
  /\ Free(s) /\ ~service[s].closing
  /\ service' = [service EXCEPT ![s] =
       IF @.dirty THEN [@ EXCEPT !.pc = "waiting", !.closing = closing]
       ELSE IF closing THEN None ELSE @]
  /\ UNCHANGED <<disk, lock>>

(* Mutation of Lock: a shared lock. *)
Lock_Shared(s) ==
  /\ service[s] # None /\ service[s].pc = "waiting"
  /\ service' = [service EXCEPT ![s].pc = "locked"]
  /\ lock' = s
  /\ UNCHANGED disk

Lock(s) ==
  /\ service[s] # None /\ service[s].pc = "waiting"
  /\ lock = None
  /\ service' = [service EXCEPT ![s].pc = "locked"]
  /\ lock' = s
  /\ UNCHANGED disk

(* The entries are copied, and write_bytes empties the file.               *)
Truncate(s) ==
  /\ service[s] # None /\ service[s].pc = "locked"
  /\ service' = [service EXCEPT ![s].pc = "writing", ![s].kept = service[s].entries]
  /\ disk' = [state |-> "torn"]
  /\ UNCHANGED lock

(* The flush returns or raises; close swallows what it raises.             *)
Returned(o, dirty) ==
  IF o.closing THEN None ELSE [o EXCEPT !.pc = "open", !.dirty = dirty]

(* They are written, under the language pair of the first.                 *)
Written(s) ==
  /\ service[s] # None /\ service[s].pc = "writing"
  /\ disk' = IF \E t \in Services \ {s} : service[t] # None /\ service[t].pc = "writing"
             THEN [state |-> "mixed"]
             ELSE [state |-> "whole", pair |-> service[s].kept[1].pair,
                   units |-> [i \in DOMAIN service[s].kept |-> UnitOf(service[s].kept[i])]]
  /\ lock' = None
  /\ service' = [service EXCEPT ![s] = Returned(@, FALSE)]

(* The disk is full, the directory is gone.                                *)
SaveFails(s) ==
  /\ service[s] # None /\ service[s].pc \in {"locked", "writing"}
  /\ service' = [service EXCEPT ![s] = Returned(@, TRUE)]
  /\ lock' = None
  /\ UNCHANGED disk

(* The process is killed: the system takes the lock back.                  *)
Killed(s) ==
  /\ service[s] # None
  /\ service' = [service EXCEPT ![s] = None]
  /\ lock' = IF lock = s THEN None ELSE lock
  /\ UNCHANGED disk

Saves(s) == Truncate(s) \/ Written(s) \/ SaveFails(s)

TMNext ==
  \E s \in Services :
    \/ Open(s) \/ Lock(s) \/ Saves(s) \/ Killed(s)
    \/ \E closing \in BOOLEAN : Flush(s, closing)
    \/ \E src \in Sources, tgt \in Targets, p \in Pairs : Add(s, src, tgt, p)

(* A save goes on, and the system gives the lock to those who wait in      *)
(* turn.                                                                   *)
TMFairness == \A s \in Services : WF_tmVars(Saves(s)) /\ SF_tmVars(Lock(s))

TMSpec == TMInit /\ [][TMNext]_tmVars

-----------------------------------------------------------------------------
(* However flushes of several processes overlap, the file is never made of *)
(* the pieces of two of them.                                              *)
NeverMixed == disk.state # "mixed"

(* A service that has nothing to save holds exactly what it last read or   *)
(* wrote: no entry is forgotten because it was added during a flush or     *)
(* because a flush failed.                                                 *)
CleanMeansSaved ==
  \A s \in Services :
    service[s] # None /\ service[s].pc = "open" /\ ~service[s].dirty
      => service[s].kept = service[s].entries

-----------------------------------------------------------------------------
(* The inductive invariant.  Only an object with something to save waits,  *)
(* and what it copied when it began to write is all it has.                *)
ObjectOK(o) ==
  /\ Len(o.entries) <= MaxEntries
  /\ o.dirty => o.entries # <<>>
  /\ o.pc # "open" => o.dirty
  /\ o.pc = "writing" \/ (o.pc = "open" /\ ~o.dirty) => o.kept = o.entries

Holds(s) == service[s] # None /\ service[s].pc \in {"locked", "writing"}

TMInv ==
  /\ TMTypeOK
  /\ disk.state # "mixed"
  /\ disk.state = "whole" => Len(disk.units) <= MaxEntries
  /\ \A s \in Services :
       /\ service[s] # None => ObjectOK(service[s])
       /\ Holds(s) => lock = s
=============================================================================
