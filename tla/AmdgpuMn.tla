------------------------------ MODULE AmdgpuMn ------------------------------
(***************************************************************************)
(* The amdgpu MMU-notifier context (src/amd/amdgpu/amdgpu_mn.c).           *)
(*                                                                         *)
(* One address space (mm) and its notifier contexts, one per type (GFX for *)
(* graphics userptr BOs, HSA for BOs with a kfd_bo).  A context keeps an   *)
(* interval tree of nodes, each node a range and the list of BOs inside    *)
(* it; a rw_semaphore "lock" guarding the tree; a mutex "read_lock" and an *)
(* atomic "recursion" counter that make the read side re-entrant.          *)
(*                                                                         *)
(* Actors:                                                                 *)
(*   - one thread per BO: amdgpu_mn_register (through amdgpu_mn_get), and *)
(*     later amdgpu_mn_unregister when the BO is freed;                    *)
(*   - host invalidation events: invalidate_range_start on every live      *)
(*     context of the mm, the host's page-table update, then               *)
(*     invalidate_range_end on each;                                       *)
(*   - command-submission threads taking amdgpu_mn_lock/amdgpu_mn_unlock;  *)
(*   - the mm exit (amdgpu_mn_release) and one destroy work item per       *)
(*     context (amdgpu_mn_destroy).                                        *)
(*                                                                         *)
(* Each step is one atomic block of the code between two points where     *)
(* another thread can observe or block it (a lock taken, an atomic op).   *)
(***************************************************************************)
EXTENDS Integers, FiniteSets

CONSTANTS
  BOs,          \* buffer objects with a userptr (model values)
  BoRange,      \* BoRange[b] = <<addr, addr + size - 1>> (inclusive)
  BoKfd,        \* BoKfd[b] = TRUE iff bo->kfd_bo is set
  Inval,        \* host threads delivering one invalidation event each
  Submitters,   \* command-submission threads using amdgpu_mn_lock
  HostRanges,   \* <<start, end>> ranges the host invalidates, end exclusive
  Gfx, Hsa,     \* AMDGPU_MN_TYPE_GFX, AMDGPU_MN_TYPE_HSA
  NoThread,     \* owner of an unlocked lock
  NoMn          \* bo->mn == NULL

Types   == {Gfx, Hsa}
Threads == BOs \cup Inval \cup Submitters \cup Types  \* a type names its destroy work item

ASSUME Types \cap (BOs \cup Inval \cup Submitters) = {}

VARIABLES
  ctx,        \* ctx[t]: "none", "live" (in adev->mn_hash), "released" (destroy queued), "freed"
  nodes,      \* nodes[t]: set of [start, last, bos] records of rmn->objects
  mn,         \* mn[b]: bo->mn
  recursion,  \* recursion[t]: rmn->recursion
  readers,    \* readers[t]: read holds of rmn->lock (down_read_non_owner)
  writer,     \* writer[t]: write holder of rmn->lock
  rlMutex,    \* rlMutex[t]: holder of rmn->read_lock
  mnLock,     \* holder of adev->mn_lock
  mmapSem,    \* write holder of mm->mmap_sem
  mmLive,     \* the mm has not been torn down
  pc,         \* program counter of every thread
  cur,        \* cur[x]: the context thread x is locking or unlocking
  irange,     \* irange[i]: the range of event i
  munmap,     \* munmap[i]: event i comes from munmap and holds mmap_sem
  pending,    \* pending[i]: contexts still to get invalidate_range_start
  held,       \* held[i]: contexts whose read_lock returned and not yet read_unlock
  visited     \* visited[i]: BOs event i waited for and marked (or evicted)

vars == <<ctx, nodes, mn, recursion, readers, writer, rlMutex, mnLock,
          mmapSem, mmLive, pc, cur, irange, munmap, pending, held, visited>>

-----------------------------------------------------------------------------
(* Helpers *)

Lo(x, y) == IF x <= y THEN x ELSE y
Hi(x, y) == IF x >= y THEN x ELSE y

\* bo->kfd_bo ? AMDGPU_MN_TYPE_HSA : AMDGPU_MN_TYPE_GFX
BoType(b) == IF BoKfd[b] THEN Hsa ELSE Gfx

\* interval_tree_iter_first/next: inclusive overlap of a node with [s, l]
Overlaps(n, s, l) == n.start <= l /\ s <= n.last

\* amdgpu_ttm_tt_affect_userptr: the BO's user range meets [s, l]
AffectUserptr(b, s, l) == BoRange[b][1] <= l /\ s <= BoRange[b][2]

\* Mutant: an "if" for the "while", merging only the first overlapping node.
MergeFirstOverlapping(ns, acc) ==
  IF \E n \in ns : Overlaps(n, acc.start, acc.last)
  THEN LET n == CHOOSE n \in ns : Overlaps(n, acc.start, acc.last)
       IN  <<ns \ {n}, [start |-> Lo(n.start, acc.start),
                        last |-> Hi(n.last, acc.last), bos |-> acc.bos \cup n.bos]>>
  ELSE <<ns, acc>>

\* The while loop of amdgpu_mn_register: remove every node overlapping the
\* growing range [acc.start, acc.last], widen the range, splice the BO lists.
RECURSIVE MergeOverlapping(_, _)
MergeOverlapping(ns, acc) ==
  IF \E n \in ns : Overlaps(n, acc.start, acc.last)
  THEN LET n == CHOOSE n \in ns : Overlaps(n, acc.start, acc.last)
       IN  MergeOverlapping(ns \ {n},
             [start |-> Lo(n.start, acc.start), last |-> Hi(n.last, acc.last),
              bos |-> acc.bos \cup n.bos])
  ELSE <<ns, acc>>

\* Mutant: the exclusive end used as inclusive (no "end -= 1").
InvalidateNodesNoEndAdjust(t, s, e) ==
  UNION {{b \in n.bos : AffectUserptr(b, s, e)} :
           n \in {m \in nodes[t] : Overlaps(m, s, e)}}

\* The node walk of invalidate_range_start_{gfx,hsa} on context t for the
\* host range [s, e): "end -= 1", then every BO of every overlapping node
\* that amdgpu_ttm_tt_affect_userptr accepts.
InvalidateNodes(t, s, e) ==
  LET last == e - 1
  IN  UNION {{b \in n.bos : AffectUserptr(b, s, last)} :
               n \in {m \in nodes[t] : Overlaps(m, s, last)}}

\* Threads queued in down_write on context t.
WaitingWriter(t) ==
  \E x \in Threads :
     \/ x \in BOs /\ pc[x] = "reg_lock" /\ BoType(x) = t
     \/ x \in BOs /\ pc[x] = "unreg_lock" /\ mn[x] = t
     \/ x \in Submitters /\ pc[x] = "cs_lock" /\ cur[x] = t
     \/ x = t /\ pc[x] = "d_rmn"

\* rw_semaphore: a writer needs it free; a reader queues behind writers.
CanDownWrite(t) == writer[t] = NoThread /\ readers[t] = 0
CanDownRead(t)  == writer[t] = NoThread /\ ~WaitingWriter(t)

InWindow(i) == pc[i] \in {"start", "rl_down", "end", "ru_up"}

-----------------------------------------------------------------------------
(* amdgpu_mn_register(bo, addr) and amdgpu_mn_get(adev, type) *)

\* mutex_lock(&adev->mn_lock)
GetLockMn(b) ==
  /\ pc[b] = "idle" /\ mmLive /\ mnLock = NoThread
  /\ mnLock' = b
  /\ pc' = [pc EXCEPT ![b] = "get_mmap"]
  /\ UNCHANGED <<ctx, nodes, mn, recursion, readers, writer, rlMutex, mmapSem,
                 mmLive, cur, irange, munmap, pending, held, visited>>

\* down_write_killable(&mm->mmap_sem): taken, or -EINTR with mn_lock dropped
GetLockMmap(b) ==
  /\ pc[b] = "get_mmap"
  /\ \/ /\ mmapSem = NoThread
        /\ mmapSem' = b
        /\ pc' = [pc EXCEPT ![b] = "get_body"]
        /\ UNCHANGED mnLock
     \/ /\ mnLock' = NoThread
        /\ pc' = [pc EXCEPT ![b] = "live"]
        /\ UNCHANGED mmapSem
  /\ UNCHANGED <<ctx, nodes, mn, recursion, readers, writer, rlMutex, mmLive,
                 cur, irange, munmap, pending, held, visited>>

\* Hash lookup; else kzalloc, __mmu_notifier_register, hash_add; then both
\* locks dropped.  A failed kzalloc or registration returns an error.  The
\* host's registration takes all mm locks and so waits for open windows.
GetBody(b) ==
  LET t == BoType(b) IN
  /\ pc[b] = "get_body"
  /\ \/ /\ ctx[t] = "live"
        /\ pc' = [pc EXCEPT ![b] = "reg_lock"]
        /\ UNCHANGED <<ctx, nodes, recursion>>
     \/ /\ ctx[t] = "none"
        /\ \A i \in Inval : ~InWindow(i)
        /\ ctx' = [ctx EXCEPT ![t] = "live"]
        /\ nodes' = [nodes EXCEPT ![t] = {}]
        /\ recursion' = [recursion EXCEPT ![t] = 0]
        /\ pc' = [pc EXCEPT ![b] = "reg_lock"]
     \/ /\ ctx[t] = "none"
        /\ pc' = [pc EXCEPT ![b] = "live"]
        /\ UNCHANGED <<ctx, nodes, recursion>>
  /\ mmapSem' = NoThread /\ mnLock' = NoThread
  /\ UNCHANGED <<mn, readers, writer, rlMutex, mmLive, cur, irange, munmap,
                 pending, held, visited>>

\* down_write(&rmn->lock)
RegLock(b) ==
  LET t == BoType(b) IN
  /\ pc[b] = "reg_lock" /\ CanDownWrite(t)
  /\ writer' = [writer EXCEPT ![t] = b]
  /\ pc' = [pc EXCEPT ![b] = "reg_body"]
  /\ UNCHANGED <<ctx, nodes, mn, recursion, readers, rlMutex, mnLock, mmapSem,
                 mmLive, cur, irange, munmap, pending, held, visited>>

\* Merge the overlapping nodes, or kmalloc a node (which may fail with
\* -ENOMEM when nothing overlapped); link the BO, set bo->mn; up_write.
RegBody(b) ==
  LET t   == BoType(b)
      m   == MergeOverlapping(nodes[t],
               [start |-> BoRange[b][1], last |-> BoRange[b][2], bos |-> {}])
      acc == m[2]
  IN
  /\ pc[b] = "reg_body"
  /\ \/ /\ nodes' = [nodes EXCEPT ![t] = m[1] \cup {[acc EXCEPT !.bos = @ \cup {b}]}]
        /\ mn' = [mn EXCEPT ![b] = t]
     \/ /\ m[1] = nodes[t]
        /\ UNCHANGED <<nodes, mn>>
  /\ writer' = [writer EXCEPT ![t] = NoThread]
  /\ pc' = [pc EXCEPT ![b] = "live"]
  /\ UNCHANGED <<ctx, recursion, readers, rlMutex, mnLock, mmapSem, mmLive,
                 cur, irange, munmap, pending, held, visited>>

-----------------------------------------------------------------------------
(* amdgpu_mn_unregister(bo), run when the BO is freed *)

\* mutex_lock(&adev->mn_lock); rmn = bo->mn; return early when NULL
UnregStart(b) ==
  /\ pc[b] = "live" /\ mnLock = NoThread
  /\ IF mn[b] = NoMn
     THEN pc' = [pc EXCEPT ![b] = "done"] /\ UNCHANGED mnLock
     ELSE pc' = [pc EXCEPT ![b] = "unreg_lock"] /\ mnLock' = b
  /\ UNCHANGED <<ctx, nodes, mn, recursion, readers, writer, rlMutex, mmapSem,
                 mmLive, cur, irange, munmap, pending, held, visited>>

\* down_write(&rmn->lock)
UnregLock(b) ==
  /\ pc[b] = "unreg_lock" /\ CanDownWrite(mn[b])
  /\ writer' = [writer EXCEPT ![mn[b]] = b]
  /\ pc' = [pc EXCEPT ![b] = "unreg_body"]
  /\ UNCHANGED <<ctx, nodes, mn, recursion, readers, rlMutex, mnLock, mmapSem,
                 mmLive, cur, irange, munmap, pending, held, visited>>

\* bo->mn = NULL; list_del_init; free the node when its list is now empty;
\* up_write; mutex_unlock.
UnregBody(b) ==
  LET t    == mn[b]
      n    == CHOOSE n \in nodes[t] : b \in n.bos
      rest == IF n.bos = {b} THEN {} ELSE {[n EXCEPT !.bos = @ \ {b}]}
  IN
  /\ pc[b] = "unreg_body"
  /\ nodes' = [nodes EXCEPT ![t] = (@ \ {n}) \cup rest]
  /\ mn' = [mn EXCEPT ![b] = NoMn]
  /\ writer' = [writer EXCEPT ![t] = NoThread]
  /\ mnLock' = NoThread
  /\ pc' = [pc EXCEPT ![b] = "done"]
  /\ UNCHANGED <<ctx, recursion, readers, rlMutex, mmapSem, mmLive, cur,
                 irange, munmap, pending, held, visited>>

-----------------------------------------------------------------------------
(* Host invalidation: invalidate_range_start on each live context, the     *)
(* page-table update, invalidate_range_end on each.  GFX and HSA contexts  *)
(* differ only in what they do to a BO (mark its user pages / evict it).   *)

\* An munmap first takes mmap_sem for writing; reclaim does not.  Events
\* reach only the contexts registered on the mm at that time.
InvStart(i) ==
  /\ pc[i] = "idle" /\ mmLive
  /\ \E r \in HostRanges, fromMunmap \in BOOLEAN :
       /\ irange' = [irange EXCEPT ![i] = r]
       /\ munmap' = [munmap EXCEPT ![i] = fromMunmap]
       /\ IF fromMunmap
          THEN mmapSem = NoThread /\ mmapSem' = i
          ELSE UNCHANGED mmapSem
  /\ pending' = [pending EXCEPT ![i] = {t \in Types : ctx[t] = "live"}]
  /\ pc' = [pc EXCEPT ![i] = "start"]
  /\ UNCHANGED <<ctx, nodes, mn, recursion, readers, writer, rlMutex, mnLock,
                 mmLive, cur, held, visited>>

\* The walk done once amdgpu_mn_read_lock has returned on context t.
Walked(i, t) ==
  /\ held' = [held EXCEPT ![i] = @ \cup {t}]
  /\ pending' = [pending EXCEPT ![i] = @ \ {t}]
  /\ visited' = [visited EXCEPT ![i] = @ \cup InvalidateNodes(t, irange[i][1], irange[i][2])]

\* Mutant: the counter incremented without rmn->read_lock.
ReadLockEnterNoMutex(i, t) ==
  /\ pc[i] = "start" /\ t \in pending[i]
  /\ recursion' = [recursion EXCEPT ![t] = @ + 1]
  /\ IF recursion[t] + 1 = 1
     THEN /\ cur' = [cur EXCEPT ![i] = t]
          /\ pc' = [pc EXCEPT ![i] = "rl_down"]
          /\ UNCHANGED <<held, pending, visited>>
     ELSE /\ Walked(i, t)
          /\ UNCHANGED <<cur, pc>>
  /\ UNCHANGED <<ctx, nodes, mn, readers, writer, rlMutex, mnLock, mmapSem,
                 mmLive, irange, munmap>>

\* amdgpu_mn_read_lock: mutex_lock(&rmn->read_lock); atomic_inc_return.
\* Only the 0 -> 1 increment goes on to down_read_non_owner; otherwise the
\* mutex is dropped and invalidate_range_start walks the tree.
ReadLockEnter(i, t) ==
  /\ pc[i] = "start" /\ t \in pending[i] /\ rlMutex[t] = NoThread
  /\ recursion' = [recursion EXCEPT ![t] = @ + 1]
  /\ IF recursion[t] + 1 = 1
     THEN /\ rlMutex' = [rlMutex EXCEPT ![t] = i]
          /\ cur' = [cur EXCEPT ![i] = t]
          /\ pc' = [pc EXCEPT ![i] = "rl_down"]
          /\ UNCHANGED <<held, pending, visited>>
     ELSE /\ Walked(i, t)
          /\ UNCHANGED <<rlMutex, cur, pc>>
  /\ UNCHANGED <<ctx, nodes, mn, readers, writer, mnLock, mmapSem, mmLive,
                 irange, munmap>>

\* down_read_non_owner(&rmn->lock); mutex_unlock(&rmn->read_lock); walk.
ReadLockDown(i) ==
  LET t == cur[i] IN
  /\ pc[i] = "rl_down" /\ CanDownRead(t)
  /\ readers' = [readers EXCEPT ![t] = @ + 1]
  /\ rlMutex' = [rlMutex EXCEPT ![t] = NoThread]
  /\ Walked(i, t)
  /\ pc' = [pc EXCEPT ![i] = "start"]
  /\ UNCHANGED <<ctx, nodes, mn, recursion, writer, mnLock, mmapSem, mmLive,
                 cur, irange, munmap>>

\* The host updates the page tables between the start and end callbacks.
HostUpdate(i) ==
  /\ pc[i] = "start" /\ pending[i] = {}
  /\ pc' = [pc EXCEPT ![i] = "end"]
  /\ UNCHANGED <<ctx, nodes, mn, recursion, readers, writer, rlMutex, mnLock,
                 mmapSem, mmLive, cur, irange, munmap, pending, held, visited>>

\* Mutant: the value before the decrement tested against 0.
ReadUnlockDecOldValue(i, t) ==
  /\ pc[i] = "end" /\ t \in held[i]
  /\ recursion' = [recursion EXCEPT ![t] = @ - 1]
  /\ held' = [held EXCEPT ![i] = @ \ {t}]
  /\ IF recursion[t] = 0
     THEN pc' = [pc EXCEPT ![i] = "ru_up"] /\ cur' = [cur EXCEPT ![i] = t]
     ELSE UNCHANGED <<pc, cur>>
  /\ UNCHANGED <<ctx, nodes, mn, readers, writer, rlMutex, mnLock, mmapSem,
                 mmLive, irange, munmap, pending, visited>>

\* Mutant: up_read_non_owner on every read_unlock, not only the last.
ReadUnlockDecUnconditional(i, t) ==
  /\ pc[i] = "end" /\ t \in held[i]
  /\ recursion' = [recursion EXCEPT ![t] = @ - 1]
  /\ held' = [held EXCEPT ![i] = @ \ {t}]
  /\ pc' = [pc EXCEPT ![i] = "ru_up"] /\ cur' = [cur EXCEPT ![i] = t]
  /\ UNCHANGED <<ctx, nodes, mn, readers, writer, rlMutex, mnLock, mmapSem,
                 mmLive, irange, munmap, pending, visited>>

\* amdgpu_mn_invalidate_range_end -> amdgpu_mn_read_unlock: atomic_dec_return,
\* and only the decrement to 0 goes on to up_read_non_owner.
ReadUnlockDec(i, t) ==
  /\ pc[i] = "end" /\ t \in held[i]
  /\ recursion' = [recursion EXCEPT ![t] = @ - 1]
  /\ held' = [held EXCEPT ![i] = @ \ {t}]
  /\ IF recursion[t] - 1 = 0
     THEN pc' = [pc EXCEPT ![i] = "ru_up"] /\ cur' = [cur EXCEPT ![i] = t]
     ELSE UNCHANGED <<pc, cur>>
  /\ UNCHANGED <<ctx, nodes, mn, readers, writer, rlMutex, mnLock, mmapSem,
                 mmLive, irange, munmap, pending, visited>>

\* up_read_non_owner(&rmn->lock)
ReadUnlockUp(i) ==
  /\ pc[i] = "ru_up"
  /\ readers' = [readers EXCEPT ![cur[i]] = @ - 1]
  /\ pc' = [pc EXCEPT ![i] = "end"]
  /\ UNCHANGED <<ctx, nodes, mn, recursion, writer, rlMutex, mnLock, mmapSem,
                 mmLive, cur, irange, munmap, pending, held, visited>>

\* The event is over; munmap drops mmap_sem.
InvFinish(i) ==
  /\ pc[i] = "end" /\ held[i] = {}
  /\ mmapSem' = IF munmap[i] THEN NoThread ELSE mmapSem
  /\ pc' = [pc EXCEPT ![i] = "done"]
  /\ UNCHANGED <<ctx, nodes, mn, recursion, readers, writer, rlMutex, mnLock,
                 mmLive, cur, irange, munmap, pending, held, visited>>

-----------------------------------------------------------------------------
(* Command submission: amdgpu_mn_lock / amdgpu_mn_unlock on a live context *)

CsBegin(s) ==
  /\ pc[s] = "idle" /\ mmLive
  /\ \E t \in Types : ctx[t] = "live" /\ cur' = [cur EXCEPT ![s] = t]
  /\ pc' = [pc EXCEPT ![s] = "cs_lock"]
  /\ UNCHANGED <<ctx, nodes, mn, recursion, readers, writer, rlMutex, mnLock,
                 mmapSem, mmLive, irange, munmap, pending, held, visited>>

\* Mutant: amdgpu_mn_lock taking the lock as if down_write could not block.
amdgpu_mn_lock_NoWait(s) ==
  /\ pc[s] = "cs_lock" /\ writer[cur[s]] = NoThread
  /\ writer' = [writer EXCEPT ![cur[s]] = s]
  /\ pc' = [pc EXCEPT ![s] = "cs"]
  /\ UNCHANGED <<ctx, nodes, mn, recursion, readers, rlMutex, mnLock, mmapSem,
                 mmLive, cur, irange, munmap, pending, held, visited>>

\* amdgpu_mn_lock: down_write(&mn->lock)
amdgpu_mn_lock(s) ==
  /\ pc[s] = "cs_lock" /\ CanDownWrite(cur[s])
  /\ writer' = [writer EXCEPT ![cur[s]] = s]
  /\ pc' = [pc EXCEPT ![s] = "cs"]
  /\ UNCHANGED <<ctx, nodes, mn, recursion, readers, rlMutex, mnLock, mmapSem,
                 mmLive, cur, irange, munmap, pending, held, visited>>

\* amdgpu_mn_unlock: up_write(&mn->lock)
amdgpu_mn_unlock(s) ==
  /\ pc[s] = "cs"
  /\ writer' = [writer EXCEPT ![cur[s]] = NoThread]
  /\ pc' = [pc EXCEPT ![s] = "done"]
  /\ UNCHANGED <<ctx, nodes, mn, recursion, readers, rlMutex, mnLock, mmapSem,
                 mmLive, cur, irange, munmap, pending, held, visited>>

-----------------------------------------------------------------------------
(* Address-space teardown *)

\* exit_mmap calls amdgpu_mn_release on every context, which only queues
\* amdgpu_mn_destroy.  The mm's threads are gone (no ioctl in flight), and
\* the host unhooks the notifiers, so no event starts after this.
amdgpu_mn_release ==
  /\ mmLive
  /\ \A b \in BOs : pc[b] \notin {"get_mmap", "get_body", "reg_lock", "reg_body"}
  /\ \A s \in Submitters : pc[s] \notin {"cs_lock", "cs"}
  /\ \A i \in Inval : ~InWindow(i)
  /\ mmLive' = FALSE
  /\ ctx' = [t \in Types |-> IF ctx[t] = "live" THEN "released" ELSE ctx[t]]
  /\ UNCHANGED <<nodes, mn, recursion, readers, writer, rlMutex, mnLock,
                 mmapSem, pc, cur, irange, munmap, pending, held, visited>>

\* amdgpu_mn_destroy: mutex_lock(&adev->mn_lock)
DestroyLockMn(t) ==
  /\ pc[t] = "idle" /\ ctx[t] = "released" /\ mnLock = NoThread
  /\ mnLock' = t
  /\ pc' = [pc EXCEPT ![t] = "d_rmn"]
  /\ UNCHANGED <<ctx, nodes, mn, recursion, readers, writer, rlMutex, mmapSem,
                 mmLive, cur, irange, munmap, pending, held, visited>>

\* down_write(&rmn->lock)
DestroyLockRmn(t) ==
  /\ pc[t] = "d_rmn" /\ CanDownWrite(t)
  /\ writer' = [writer EXCEPT ![t] = t]
  /\ pc' = [pc EXCEPT ![t] = "d_body"]
  /\ UNCHANGED <<ctx, nodes, mn, recursion, readers, rlMutex, mnLock, mmapSem,
                 mmLive, cur, irange, munmap, pending, held, visited>>

\* Mutant: the nodes freed without clearing the BOs' back-references.
DestroyBodyKeepBackRef(t) ==
  /\ pc[t] = "d_body"
  /\ nodes' = [nodes EXCEPT ![t] = {}]
  /\ ctx' = [ctx EXCEPT ![t] = "freed"]
  /\ writer' = [writer EXCEPT ![t] = NoThread]
  /\ mnLock' = NoThread
  /\ pc' = [pc EXCEPT ![t] = "done"]
  /\ UNCHANGED <<mn, recursion, readers, rlMutex, mmapSem, mmLive, cur, irange,
                 munmap, pending, held, visited>>

\* hash_del; every BO of every node gets bo->mn = NULL and leaves its list;
\* the nodes are freed; up_write; mutex_unlock; unregister; kfree(rmn).
DestroyBody(t) ==
  LET linked == UNION {n.bos : n \in nodes[t]} IN
  /\ pc[t] = "d_body"
  /\ mn' = [b \in BOs |-> IF b \in linked THEN NoMn ELSE mn[b]]
  /\ nodes' = [nodes EXCEPT ![t] = {}]
  /\ ctx' = [ctx EXCEPT ![t] = "freed"]
  /\ writer' = [writer EXCEPT ![t] = NoThread]
  /\ mnLock' = NoThread
  /\ pc' = [pc EXCEPT ![t] = "done"]
  /\ UNCHANGED <<recursion, readers, rlMutex, mmapSem, mmLive, cur, irange,
                 munmap, pending, held, visited>>

-----------------------------------------------------------------------------
(* Specification *)

Init ==
  /\ ctx = [t \in Types |-> "none"]
  /\ nodes = [t \in Types |-> {}]
  /\ mn = [b \in BOs |-> NoMn]
  /\ recursion = [t \in Types |-> 0]
  /\ readers = [t \in Types |-> 0]
  /\ writer = [t \in Types |-> NoThread]
  /\ rlMutex = [t \in Types |-> NoThread]
  /\ mnLock = NoThread
  /\ mmapSem = NoThread
  /\ mmLive = TRUE
  /\ pc = [x \in Threads |-> "idle"]
  /\ cur = [x \in Threads |-> NoMn]
  /\ irange = [i \in Inval |-> <<0, 0>>]
  /\ munmap = [i \in Inval |-> FALSE]
  /\ pending = [i \in Inval |-> {}]
  /\ held = [i \in Inval |-> {}]
  /\ visited = [i \in Inval |-> {}]

\* Every thread is finished, or never started and can no longer start.
Finished ==
  /\ \A x \in Threads : pc[x] = "done" \/ (pc[x] = "idle" /\ ~mmLive)
  /\ \A t \in Types : pc[t] = "idle" => ctx[t] \in {"none", "freed"}

BoStep(b) ==
  GetLockMn(b) \/ GetLockMmap(b) \/ GetBody(b) \/ RegLock(b) \/ RegBody(b)
  \/ UnregStart(b) \/ UnregLock(b) \/ UnregBody(b)

InvStep(i) ==
  InvStart(i) \/ (\E t \in Types : ReadLockEnter(i, t)) \/ ReadLockDown(i)
  \/ HostUpdate(i) \/ (\E t \in Types : ReadUnlockDec(i, t))
  \/ ReadUnlockUp(i) \/ InvFinish(i)

CsStep(s) == CsBegin(s) \/ amdgpu_mn_lock(s) \/ amdgpu_mn_unlock(s)

DestroyStep(t) == DestroyLockMn(t) \/ DestroyLockRmn(t) \/ DestroyBody(t)

Terminating == Finished /\ UNCHANGED vars

Next ==
  \/ \E b \in BOs : BoStep(b)
  \/ \E i \in Inval : InvStep(i)
  \/ \E s \in Submitters : CsStep(s)
  \/ amdgpu_mn_release
  \/ \E t \in Types : DestroyStep(t)
  \/ Terminating

\* Kernel mutexes hand off to waiters and rw_semaphores queue them, so a
\* thread that is repeatedly able to take a lock eventually does (strong
\* fairness).  Only steps of an operation already begun are fair: a BO need
\* not be freed, an event need not happen, but queued work runs.
Busy(x) == pc[x] \notin {"idle", "live", "done"}
Fairness ==
  /\ \A b \in BOs : SF_vars(BoStep(b) /\ Busy(b))
  /\ \A i \in Inval : SF_vars(InvStep(i) /\ Busy(i))
  /\ \A s \in Submitters : SF_vars(CsStep(s) /\ Busy(s))
  /\ \A t \in Types : SF_vars(DestroyStep(t))

Spec == Init /\ [][Next]_vars /\ Fairness

-----------------------------------------------------------------------------
(* Properties *)

NodeRec == [start : Int, last : Int, bos : SUBSET BOs]
PcValues == {"idle", "get_mmap", "get_body", "reg_lock", "reg_body", "live",
             "unreg_lock", "unreg_body", "start", "rl_down", "end", "ru_up",
             "cs_lock", "cs", "d_rmn", "d_body", "done"}

TypeOK ==
  /\ ctx \in [Types -> {"none", "live", "released", "freed"}]
  /\ nodes \in [Types -> SUBSET NodeRec]
  /\ mn \in [BOs -> Types \cup {NoMn}]
  /\ recursion \in [Types -> Nat]
  /\ readers \in [Types -> Nat]
  /\ writer \in [Types -> Threads \cup {NoThread}]
  /\ rlMutex \in [Types -> Inval \cup {NoThread}]
  /\ mnLock \in BOs \cup Types \cup {NoThread}
  /\ mmapSem \in BOs \cup Inval \cup {NoThread}
  /\ mmLive \in BOOLEAN
  /\ pc \in [Threads -> PcValues]
  /\ cur \in [Threads -> Types \cup {NoMn}]
  /\ irange \in [Inval -> HostRanges \cup {<<0, 0>>}]
  /\ munmap \in [Inval -> BOOLEAN]
  /\ pending \in [Inval -> SUBSET Types]
  /\ held \in [Inval -> SUBSET Types]
  /\ visited \in [Inval -> SUBSET BOs]

\* The central invariant of amdgpu_mn_register's merge loop: the nodes of a
\* context never overlap, whatever order BOs register and unregister in.
NodesDisjoint ==
  \A t \in Types : \A n1, n2 \in nodes[t] :
     n1 /= n2 => ~Overlaps(n1, n2.start, n2.last)

\* Where BO b is linked: pairs of a context and a node whose list holds b.
Homes(b) == UNION {{<<t, n>> : n \in {m \in nodes[t] : b \in m.bos}} : t \in Types}

\* bo->mn is the single source of truth for notifier tracking: it is set iff
\* the BO sits in exactly one node, of that context, covering its range; it
\* never points at a freed context (amdgpu_mn_destroy clears it under
\* mn_lock, amdgpu_mn_unregister reads it under mn_lock); and a node whose
\* list became empty is gone.
BackRefConsistent ==
  /\ \A b \in BOs :
       IF mn[b] = NoMn
       THEN Homes(b) = {}
       ELSE /\ ctx[mn[b]] \in {"live", "released"}
            /\ \E n \in nodes[mn[b]] :
                 /\ Homes(b) = {<<mn[b], n>>}
                 /\ n.start <= BoRange[b][1] /\ BoRange[b][2] <= n.last
  /\ \A t \in Types : \A n \in nodes[t] : n.bos /= {}

\* amdgpu_mn_read_lock/read_unlock make the read side re-entrant with a
\* counter checked outside the rw_semaphore: while any invalidation is
\* between its read_lock and its read_unlock on a context, no register,
\* unregister, destroy or command submission holds that context's lock.
WriterExcludesInvalidation ==
  \A i \in Inval, t \in Types : t \in held[i] => writer[t] = NoThread

\* What an invalidation window guarantees: from the walk in
\* invalidate_range_start until its read_unlock in invalidate_range_end, the
\* BOs it waited for and marked (GFX) or evicted (HSA) on a context are
\* exactly the BOs registered there whose user range meets the host's
\* end-exclusive range, and none registers or unregisters meanwhile.
InvalidationExact ==
  \A i \in Inval, t \in Types :
     t \in held[i] =>
       {b \in BOs : mn[b] = t /\ AffectUserptr(b, irange[i][1], irange[i][2] - 1)}
         = {b \in visited[i] : BoType(b) = t}

\* Every lock taken is eventually released: every register, unregister,
\* invalidation window and command submission that has begun completes, and
\* every context released with the mm is eventually destroyed.
EveryOperationCompletes ==
  /\ \A x \in Threads : Busy(x) ~> ~Busy(x)
  /\ \A t \in Types : ctx[t] = "released" ~> ctx[t] = "freed"

\* AmdgpuMn implements AmdgpuMnAbstract: a context tracks the BOs whose
\* bo->mn points at it, its exclusive holder is the rwsem's writer, an
\* event's window is open on the contexts whose read side it holds, and
\* what it has seen is what it waited for or evicted.
Abs == INSTANCE AmdgpuMnAbstract WITH
         tracked <- [t \in Types |-> {b \in BOs : mn[b] = t}],
         owner <- writer, range <- irange, window <- held, seen <- visited,
         Holders <- Threads

\* Every step of register, unregister, destroy, command submission and the
\* invalidation callbacks is a step of the abstract context, or leaves its
\* state unchanged: tracking changes only under the rwsem held for writing,
\* and each read_lock walk invalidates exactly the affected tracked BOs.
AbstractSpec == Abs!Spec

-----------------------------------------------------------------------------
(* Claims of spec.md that the code does not keep *)

\* spec.md, data model: "node range is the union of its registrations'
\* ranges".  amdgpu_mn_unregister never shrinks a node.
NodeRangeIsUnion ==
  \A t \in Types : \A n \in nodes[t] :
     /\ \E b \in n.bos : BoRange[b][1] = n.start
     /\ \E b \in n.bos : BoRange[b][2] = n.last

\* spec.md 4.3 step 3: one kind of context holds the read side only for the
\* duration of the walk.  amdgpu_mn_invalidate_range_start_hsa returns with
\* the read side held, like the GFX one, until invalidate_range_end.
HsaReadHeldOnlyDuringWalk ==
  \A i \in Inval : Hsa \notin held[i]

=============================================================================
