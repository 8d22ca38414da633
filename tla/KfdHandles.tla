----------------------------- MODULE KfdHandles -----------------------------
(***************************************************************************)
(* The per-process buffer handle table of amdkfd                          *)
(* (src/amd/amdkfd/kfd_process.c): every kfd_process_device (pdd) has an   *)
(* idr "alloc_idr" from small integer handles to kfd_bo records, and the   *)
(* process has one interval tree "bo_interval_tree" over the records'      *)
(* GPU VA ranges, used to find a record by address.                        *)
(*                                                                         *)
(* All operations run under p->mutex (or before/after the process is       *)
(* findable), so each is one atomic step.  A kfd_bo is a model value from  *)
(* a finite pool; kzalloc picks one not currently allocated.               *)
(***************************************************************************)
EXTENDS Integers, FiniteSets

CONSTANTS
  Devices,      \* the process's pdds (model values)
  Objs,         \* the pool of kfd_bo allocations (model values)
  Ranges,       \* <<start, length>> GPU VA ranges callers pass
  MaxIdr,       \* handles the idr can hand out (bounds the model)
  IdrCanFail,   \* whether idr_alloc(GFP_NOWAIT) may fail with -ENOMEM
  NoObj         \* NULL

MIN_IDR_ID == 1
Handles == MIN_IDR_ID .. MaxIdr

ASSUME MaxIdr \in Nat /\ IdrCanFail \in BOOLEAN /\ NoObj \notin Objs

VARIABLES
  alive,      \* kfd_bo records kzalloc'ed and not yet kfree'd
  rec,        \* rec[o]: the record's it.start, it.last and dev
  idr,        \* idr[d][h]: pdd d's alloc_idr
  tree,       \* the records linked into p->bo_interval_tree
  query,      \* the range of the lookup just performed
  found,      \* its result: kfd_process_find_bo_from_interval's return value
  oops,       \* a NULL pointer was dereferenced
  idrFailed   \* history: some create took the idr_alloc failure path

vars == <<alive, rec, idr, tree, query, found, oops, idrFailed>>

\* The addresses of the ranges callers pass, and a record over them.
Addr == UNION {r[1] .. r[1] + r[2] - 1 : r \in Ranges}
Rec == [start : Addr, last : Addr, dev : Devices]
NoRec == [start |-> 0, last |-> -1, dev |-> CHOOSE d \in Devices : TRUE]

-----------------------------------------------------------------------------

\* idr_alloc(&pdd->alloc_idr, ..., MIN_IDR_ID, MAX_IDR_ID): the lowest free id.
FreeHandles(d) == {h \in Handles : idr[d][h] = NoObj}
LowestFree(d) == CHOOSE h \in FreeHandles(d) : \A g \in FreeHandles(d) : h <= g

\* kfd_process_device_find_bo: NULL for a negative or unused handle.
FindBo(d, h) == IF h \in Handles THEN idr[d][h] ELSE NoObj

\* interval_tree_iter_first/next over [s, l]
Overlapping(s, l) == {o \in tree : rec[o].start <= l /\ s <= rec[o].last}

\* Mutant: it.last = start + length, one past the range.
CreateObjHandleLastPastEnd(d, r) ==
  /\ \/ UNCHANGED <<alive, rec, idr, tree, idrFailed>>
     \/ \E o \in Objs \ alive :
          /\ rec' = [rec EXCEPT ![o] = [start |-> r[1], last |-> r[1] + r[2], dev |-> d]]
          /\ tree' = tree \cup {o}
          /\ \/ /\ FreeHandles(d) /= {}
                /\ idr' = [idr EXCEPT ![d][LowestFree(d)] = o]
                /\ alive' = alive \cup {o}
                /\ UNCHANGED idrFailed
             \/ /\ IdrCanFail \/ FreeHandles(d) = {}
                /\ idrFailed' = TRUE
                /\ UNCHANGED <<idr, alive>>
  /\ found' = NoObj
  /\ UNCHANGED <<query, oops>>

\* kfd_process_device_create_obj_handle(pdd, mem, start, length, NULL):
\* kzalloc (or -ENOMEM); link into the interval tree; idr_alloc.  When
\* idr_alloc fails the record is kfree'd.
CreateObjHandle(d, r) ==
  /\ \/ UNCHANGED <<alive, rec, idr, tree, idrFailed>>
     \/ \E o \in Objs \ alive :
          /\ rec' = [rec EXCEPT ![o] = [start |-> r[1], last |-> r[1] + r[2] - 1, dev |-> d]]
          /\ tree' = tree \cup {o}
          /\ \/ /\ FreeHandles(d) /= {}
                /\ idr' = [idr EXCEPT ![d][LowestFree(d)] = o]
                /\ alive' = alive \cup {o}
                /\ UNCHANGED idrFailed
             \/ /\ IdrCanFail \/ FreeHandles(d) = {}
                /\ idrFailed' = TRUE
                /\ UNCHANGED <<idr, alive>>
  /\ found' = NoObj
  /\ UNCHANGED <<query, oops>>

\* Mutant: interval_tree_remove left out.
RemoveObjHandleKeepTree(d, h) ==
  LET o == FindBo(d, h) IN
  /\ idr' = [idr EXCEPT ![d][h] = NoObj]
  /\ alive' = alive \ {o}
  /\ found' = NoObj
  /\ UNCHANGED <<rec, tree, query, oops, idrFailed>>

\* kfd_process_device_remove_obj_handle(pdd, handle): put the IPC object,
\* idr_remove, interval_tree_remove, kfree.  It dereferences find_bo's
\* result unchecked; its callers pass only handles find_bo resolves.
RemoveObjHandle(d, h) ==
  LET o == FindBo(d, h) IN
  /\ idr' = [idr EXCEPT ![d][h] = NoObj]
  /\ tree' = tree \ {o}
  /\ alive' = alive \ {o}
  /\ found' = NoObj
  /\ UNCHANGED <<rec, query, oops, idrFailed>>

\* kfd_process_device_translate_handle: buf_obj->mem with no NULL check;
\* a valid handle changes nothing, an invalid one dereferences NULL.
TranslateHandle(d, h) ==
  /\ FindBo(d, h) = NoObj
  /\ oops' = TRUE
  /\ found' = NoObj
  /\ UNCHANGED <<alive, rec, idr, tree, query, idrFailed>>

\* Mutant: the "spans more than a single BO" check left out.
FindBoFromIntervalFirst(s, l) ==
  LET os == Overlapping(s, l) IN
  /\ query' = <<s, l>>
  /\ found' = IF os /= {} THEN CHOOSE o \in os : TRUE ELSE NoObj
  /\ UNCHANGED <<alive, rec, idr, tree, oops, idrFailed>>

\* kfd_process_find_bo_from_interval: the record when exactly one overlaps.
FindBoFromInterval(s, l) ==
  LET os == Overlapping(s, l) IN
  /\ query' = <<s, l>>
  /\ found' = IF Cardinality(os) = 1 THEN CHOOSE o \in os : TRUE ELSE NoObj
  /\ UNCHANGED <<alive, rec, idr, tree, oops, idrFailed>>

\* Mutant: the memory freed but the handles left in the idrs.
FreeOutstandingKfdBosKeepIdr ==
  LET held == {idr[d][h] : d \in Devices, h \in Handles} \ {NoObj} IN
  /\ held /= {}
  /\ tree' = tree \ held
  /\ alive' = alive \ held
  /\ found' = NoObj
  /\ UNCHANGED <<rec, idr, query, oops, idrFailed>>

\* kfd_process_free_outstanding_kfd_bos: every handle of every pdd is
\* unmapped, its memory freed and the handle removed.
FreeOutstandingKfdBos ==
  LET held == {idr[d][h] : d \in Devices, h \in Handles} \ {NoObj} IN
  /\ held /= {}
  /\ idr' = [d \in Devices |-> [h \in Handles |-> NoObj]]
  /\ tree' = tree \ held
  /\ alive' = alive \ held
  /\ found' = NoObj
  /\ UNCHANGED <<rec, query, oops, idrFailed>>

-----------------------------------------------------------------------------

Init ==
  /\ alive = {}
  /\ rec = [o \in Objs |-> NoRec]
  /\ idr = [d \in Devices |-> [h \in Handles |-> NoObj]]
  /\ tree = {}
  /\ query = <<0, -1>>
  /\ found = NoObj
  /\ oops = FALSE
  /\ idrFailed = FALSE

\* Callers: the alloc/free ioctls check the handle with find_bo before
\* removing it; translation and lookups take any handle or range.
Next ==
  \/ \E d \in Devices, r \in Ranges : CreateObjHandle(d, r)
  \/ \E d \in Devices, h \in Handles : FindBo(d, h) /= NoObj /\ RemoveObjHandle(d, h)
  \/ \E d \in Devices, h \in Handles : TranslateHandle(d, h)
  \/ \E r \in Ranges : FindBoFromInterval(r[1], r[1] + r[2] - 1)
  \/ FreeOutstandingKfdBos

Spec == Init /\ [][Next]_vars

-----------------------------------------------------------------------------
(* Properties *)

TypeOK ==
  /\ alive \subseteq Objs
  /\ rec \in [Objs -> Rec \cup {NoRec}]
  /\ idr \in [Devices -> [Handles -> Objs \cup {NoObj}]]
  /\ tree \subseteq Objs
  /\ query \in Int \X Int
  /\ found \in Objs \cup {NoObj}
  /\ oops \in BOOLEAN
  /\ idrFailed \in BOOLEAN

\* The interval tree and the idrs describe the same records: a record is
\* in the tree iff exactly one live handle of its own pdd names it, and
\* every such record is allocated.  create/remove/free_outstanding each
\* update the two structures in separate statements.
TreeMirrorsIdr ==
  /\ \A o \in tree : o \in alive
  /\ \A o \in Objs :
       o \in tree <=> Cardinality({h \in Handles : idr[rec[o].dev][h] = o}) = 1
  /\ \A d \in Devices, h \in Handles : idr[d][h] /= NoObj => rec[idr[d][h]].dev = d

\* No handle names a kfree'd record: remove_obj_handle and
\* free_outstanding_kfd_bos drop the idr entry before the kfree, and a
\* failed create never publishes its record.
HandlesNameLiveRecords ==
  \A d \in Devices, h \in Handles :
    idr[d][h] /= NoObj => idr[d][h] \in alive /\ idr[d][h] \in tree

\* Records some handle names.
Named == {idr[d][h] : d \in Devices, h \in Handles} \ {NoObj}

\* A record an address lookup returns is allocated and is the only record
\* with a live handle that overlaps the range asked for; a range meeting
\* no record or several gets NULL.
FoundIsUnique ==
  found /= NoObj =>
    /\ found \in alive
    /\ {o \in Named : rec[o].start <= query[2] /\ query[1] <= rec[o].last} = {found}

\* The two properties above, in the behaviours where no idr_alloc has
\* failed (those of IdrCanFail = FALSE with handles to spare).  After a
\* failure the freed record stays in the tree (kfd_process.c:944), which
\* the run on FoundIsUnique alone shows.
MirrorsUntilIdrFails == ~idrFailed => TreeMirrorsIdr
FoundUniqueUntilIdrFails == ~idrFailed => FoundIsUnique

\* spec.md 4.5: translate of an invalid or stale handle returns null and
\* never crashes.
TranslateNeverFaults == ~oops

=============================================================================
