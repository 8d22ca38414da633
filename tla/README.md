# TLA+ models of the amdgpu-dkms residency subsystem

This directory holds TLA+ models of the GPU virtual-memory residency code in
`src/`. That code covers four parts:

- the MMU-notifier contexts of amdgpu (`src/amd/amdgpu/amdgpu_mn.c`);
- the kfd process of amdkfd (`src/amd/amdkfd/kfd_process.c`): its per-device
  buffer handle table, and its life from creation through the process table,
  srcu lookups and kref to the MMU-notifier release;
- the page-flip protocol of the display manager glue
  (`src/amd/display/kcl_dm/kcl_dm.c`): flip ioctls, the flip work, the
  page-flip interrupt and the modeset commits that wait for flips;
- the connector side of the same glue: hotplug detection, the `dc_sink`
  objects and their reference counts, the headless restore and
  suspend/resume.

It also covers what they rely on: the kcl fence and reservation shims. Each model is checked with TLC. `PROJECT.json` lists
every component, run, mutant, mapping to source lines, finding and hazard.

## 1. Inventory

### 1.1 amdgpu MMU-notifier contexts (`amdgpu_mn.c`)

**State.** One `struct amdgpu_mn` exists per (mm, type), where the type is GFX
for graphics userptr BOs and HSA for BOs with a `kfd_bo`. Each has:

- an entry in `adev->mn_hash`, guarded by `adev->mn_lock`;
- an interval tree `objects` of `amdgpu_mn_node`s, each a range plus a list of
  BOs;
- a rw_semaphore `lock`;
- a mutex `read_lock` and an atomic `recursion`, which make the read side
  re-entrant.

Each BO points back to its context through `bo->mn`.

**Operations.**

- `amdgpu_mn_get` takes `mn_lock`, then `mmap_sem` (killable). It either finds
  the context or allocates and registers a new one.
- `amdgpu_mn_register` runs under `down_write`. It merges every node that
  overlaps the BO's range, repeatedly, because each merge widens the range.
- `amdgpu_mn_unregister` runs under `mn_lock` and `down_write`. It unlinks the
  BO and frees the node if the node is now empty.
- `invalidate_range_start_gfx` / `_hsa` do `end -= 1`, then `read_lock`, then
  walk the overlapping nodes. GFX waits for each BO and marks its pages; HSA
  evicts each BO.
- `invalidate_range_end` does `read_unlock`.
- `amdgpu_mn_lock` / `amdgpu_mn_unlock` are `down_write` / `up_write` for
  command submission.
- `amdgpu_mn_release` queues `amdgpu_mn_destroy`.
- `amdgpu_mn_destroy` takes `mn_lock` and `down_write`, clears every `bo->mn`,
  frees the nodes, then unregisters the notifier and frees the context.

**Interactions.** BO threads, host invalidation events, command submitters and
the destroy work item contend on `mn_lock`, `mmap_sem` and the per-context
rwsem. One host event calls start on every context of the mm, then updates the
page tables, then calls end on every context.

**Hard behaviours.**

- The re-entrant read lock. `read_unlock` decrements the counter without the
  mutex, so a `read_lock` can slip between the decrement and `up_read`.
- The transitive merge.
- The exclusive-to-inclusive end conversion.
- Destroy racing unregister over `bo->mn`.
- Allocation failures in get and register.
- Deferred destruction.

**What makes it correct.**

- The nodes of a context are disjoint.
- `bo->mn` is set exactly when the BO is in one node of that context.
- No writer holds the rwsem inside an invalidation window.
- A window visits exactly the BOs whose user range meets the host range.
- Every begun operation, and every queued destroy, finishes.

### 1.2 kfd handle table (`kfd_process.c` 328–353, 907–1021)

**State.** Every pdd has an idr `alloc_idr` from handles to `kfd_bo` records.
The process has one interval tree `bo_interval_tree` over the records' GPU
VA ranges.

**Operations.**

- `create_obj_handle`: kzalloc, tree insert, then `idr_alloc`.
- `remove_obj_handle`.
- `translate_handle`.
- `find_bo`.
- `find_bo_from_interval`: returns NULL unless exactly one record overlaps.
- `free_outstanding_kfd_bos`.

All of them run under `p->mutex`.

**Hard behaviours.**

- The `idr_alloc` failure path, which kfree's a record still linked in the
  tree.
- NULL dereferences on invalid handles.
- Ambiguous range lookups.

**What makes it correct.**

- The tree and the idrs describe the same live records.
- A lookup returns the unique live overlapping record.
- No handle names a freed record.

### 1.3 kfd process lifecycle (`kfd_process.c`, rest)

**State and operations.**

- Process create and lookup through an RCU hash under `kfd_processes_mutex`
  and `kfd_processes_srcu`.
- A kref.
- `kfd_process_notifier_release`: cancels eviction/restore work, removes the
  process from the hash, runs `synchronize_srcu`, then tears down the pdds.
- `kfd_bind/unbind_processes_to/from_device`.
- The `alloc_memory_of_gpu` error paths.

**Hard behaviours.**

- The work is cancelled before the process leaves the hash (lines 459–465).
  An eviction scheduled in between survives the cancel.
- A NULL `pdd` is dereferenced in bind/unbind.

### 1.4 Eviction/restore coordinator

The coordinator consists of `kfd_evict_bo_worker` and `kfd_restore_bo_worker`.
They are only declared in `src/unnamed/part_001` (kfd_priv.h), so they will be
modelled from spec.md §4.4 and marked `spec_modelled`. That section describes
the eviction counter, the quiescence fence with a timeout and the backoff
rescheduling.

### 1.5 kcl reservation and fence shims (`kcl_reservation.c`, `kcl_fence.c`)

- `copy_fences` copies the shared-fence list under RCU. It retries when the
  list grew or when a fence reference cannot be taken.
- `wait_timeout_rcu` loops on a seqcount.
- `default_wait` / `wait_any_timeout` sleep on fence callbacks.

**Hard behaviours.**

- Both readers run without the reservation lock, against host writers that
  append or replace fences in place, publish a grown list, or empty the list
  when they set a new exclusive fence.
- The retry at lines 162–165 frees `dst_list` without putting the references
  already taken, which leaks them.
- `dst_list` is sized by the count read before `kmalloc`, but the copy loop
  re-reads the count on every turn (line 154).
- `wait_timeout_rcu` (an AMD change, line 59) waits for the exclusive fence
  first and does not look at the shared list afterwards.
- The timeout must be accounted across retries, and the retry loop must end.
- `_kcl_fence_get_rcu_safe` (`kcl_fence.c` 281–296) gives up with NULL when
  the reference cannot be taken, where the upstream helper retries.

### 1.6 PRIME (`amdgpu_prime.c`)

PRIME covers import and export, and pin/unpin accounting of
`prime_shared_count`. Pin and unpin change it under the BO reservation;
import sets it to 1 on a BO nobody else can see yet. The only concurrent
window is in `amdgpu_gem_prime_foreign_bo`, which takes the gem reference
after dropping the reservation (line 176). Section 5 explains why it is not
modelled.

### 1.7 Display manager page flips (`kcl_dm.c`)

Each CRTC has `acrtc->pflip_status`, and four actors change or wait on it:

- The flip ioctl, `amdgpu_atomic_helper_page_flip`, takes a vblank reference
  and then the modeset locks. Its nonblocking `amdgpu_dm_atomic_commit` calls
  the host's `amdgpu_crtc_page_flip` if `page_flip_needed(.., false)` holds
  (line 4760). That call fails with -EBUSY unless the
  status is NONE, and otherwise sets it PENDING and queues the flip work.
- The flip work waits for the fences. Under `event_lock` it calls
  `dm_page_flip`, which programs the flip on `acrtc->stream`, and the host
  sets SUBMITTED.
- `dm_pflip_high_irq` sets NONE, sends the event and puts the vblank
  reference.
- A blocking modeset commit removes the stream with `remove_stream`. That
  first waits in `wait_while_pflip_status` for NONE, then disables the
  interrupt. `dc_commit_plane_states` waits while the status is PENDING.
  Both waits give up after 1000 polls.
- Every address write latches at the next vblank and raises the pageflip
  interrupt: a flip's, and also a surface commit's (`dc_commit_plane_states`,
  the headless restore's `dm_dc_plane_state_commit`). `dm_pflip_high_irq`
  returns unless the status is SUBMITTED (line 228).

### 1.7a Display connectors: hotplug and suspend/resume (`kcl_dm.c`)

A connector's display is a `dc_sink`, a refcounted object. The link's
`local_sink` holds a reference, and so does every stream built for the sink
(`create_stream_for_sink` → `dc_create_stream_for_sink`). The connector's
`aconnector->dc_sink` is the sink that modesets use.

- On an unforced connector, `dc_sink` only borrows the link's sink.
- On a forced connector (`connector->force` set, with an emulated sink from
  `create_eml_sink`), the code retains `dc_sink` at a disconnect and releases
  it at the next connect.

Three threads change these objects besides the commit:

- `handle_hpd_irq` and `handle_hpd_rx_irq` (serialized by `hpd_lock`) run
  `dc_link_detect`, then `amdgpu_dm_update_connector_after_detect`. Under
  `drm_modeset_lock_all` they then run `dm_restore_drm_connector_state`,
  which rebuilds the CRTC's stream for a new sink.
- `dm_suspend` turns vblank off.
- `amdgpu_dm_display_resume` first enables HPD RX, then detects, sets
  `dc_sink = NULL` and updates, all without `hpd_lock`. After that,
  `dm_display_resume` commits the old state again and turns vblank back on.

The rest of `kcl_dm.c` builds DC streams, planes and connectors from DRM
state (§5).

### 1.8 Not modelled

- Most of the display manager glue (`kcl_dm.c`): see §5.
- The `kcl_mm.h` wrappers have no state.
- The build script `part_000` has no runtime behaviour.
- The pre-4.11 `invalidate_page` callbacks are compiled out for the 4.15
  target.

## 2. Plan

Modules are listed in order of importance. Done means checked with TLC.

1. **AmdgpuMn** (done): the whole notifier-context life cycle with all its
   threads.
2. **KfdHandles** (done): the handle table.
3. **AmdgpuMnAbstract** (done): the promise of a context as an abstract set
   of tracked BOs per type, with invalidation as "the affected BOs are
   quiesced while writers are excluded". AmdgpuMn is shown to refine it: the
   abstract specification is a PROPERTY, reached through `INSTANCE ... WITH` a
   mapping from nodes to tracked BOs.
4. **KfdProcess** (done, without the eviction counter): the process table, srcu, kref and notifier release,
   composed with an eviction coordinator (`spec_modelled`, spec.md §4.4). It
   checks that no eviction work runs on a released process (the 459–465
   ordering). The eviction counter of spec.md §8 is not modelled (§5).
5. **KclReservation** (done, with the parts of `kcl_fence.c` it uses): `copy_fences` with fence refcounts and a
   concurrent writer replacing the list; `wait_timeout_rcu` with a seqcount
   writer. It checks reference balance (a violation run for the leak) and that
   the timeout never grows across retries.
6. **AmdgpuPrime** (dropped): pin and unpin change `prime_shared_count`
   under the reservation, and import sets it before the BO is visible, so
   the accounting is sequential. The one concurrent window, the foreign-BO
   reference taken after the unlock (`amdgpu_prime.c:176`), depends on the
   gem free path outside `src/`. It is recorded as a hazard.

7. **DmPageFlip** (done): the page-flip protocol of one CRTC against
   modeset, reset and plane commits, with the bounded waits.
8. **DmConnector** (done): DmPageFlip composed with the connector's sink
   lifetime, hotplug handlers, headless restore and suspend/resume. The
   passing display run checks the composition.

Composition (not yet): KfdProcess uses KfdHandles for its per-pdd tables, and the
eviction coordinator receives the HSA evictions that AmdgpuMn's `Walked`
produces.

## 3. Modules

### AmdgpuMn.tla / MCAmdgpuMn.tla

**Variables.** These mirror the code:

- `ctx[t]`: the context's life, one of none / in the hash / release queued /
  freed.
- `nodes[t]`: `rmn->objects` as a set of `[start, last, bos]` records.
- `mn[b]`: `bo->mn`.
- `recursion`, `readers`, `writer`, `rlMutex`: the read-lock counter, the
  rwsem and the `read_lock` mutex.
- `mnLock`, `mmapSem`: `adev->mn_lock` and `mm->mmap_sem`.
- `pc`: one program counter per thread.

**Threads.** There is one thread per BO, one per host event (`Inval`), one per
submitter, and one destroy work item per type.

**Steps.** Each action is the code between two blocking points:

- `GetLockMn`, `GetLockMmap`, `GetBody` are `amdgpu_mn_get`, including its
  EINTR, kzalloc and register failures.
- `RegLock`, `RegBody` are `amdgpu_mn_register`. The while loop is the
  RECURSIVE `MergeOverlapping`.
- `UnregStart`, `UnregLock`, `UnregBody` are `amdgpu_mn_unregister`.
- `InvStart`, `ReadLockEnter`, `ReadLockDown`, `HostUpdate`, `ReadUnlockDec`,
  `ReadUnlockUp`, `InvFinish` are a host event through
  `invalidate_range_start_*` and `invalidate_range_end`. `InvalidateNodes`
  does the `end -= 1` and the node walk.
- `amdgpu_mn_lock` and `amdgpu_mn_unlock` are the submission lock.
- `amdgpu_mn_release` is the mm exit.
- `DestroyLockMn`, `DestroyLockRmn`, `DestroyBody` are `amdgpu_mn_destroy`.

The rwsem queues readers behind waiting writers, as Linux rwsems do
(`CanDownRead`).

**Host assumptions.** These are stated in the module:

- `__mmu_notifier_register` takes all mm locks, so a context is created only
  when no event window is open.
- `release` comes at mm exit, when no ioctl or event is in flight.

**Runs.**

- `mn_gfx_safety` (MCAmdgpuMn.cfg) has three GFX BOs a [0,1], b [2,3] and
  c [1,2]. Registering c after a and b merges two nodes through a chain. There
  are two host events over [0,1) or [2,4), so the `end -= 1` edge is exercised
  at both ends, plus munmap holding `mmap_sem`. It checks:
  - `NodesDisjoint`;
  - `BackRefConsistent`: `bo->mn` is set iff the BO is in exactly one node of
    a live or released context covering its range, and no node is empty;
  - `WriterExcludesInvalidation`;
  - `InvalidationExact`: a window holds on a context only once it has visited
    exactly the BOs its range affects.

  About 400k states. The two events are interchangeable, so symmetry on
  `Inval` is used.
- `mn_mixed_safety` (MCAmdgpuMnMixed.cfg) has a GFX BO and an HSA BO k
  [0,3], so both contexts are created and destroyed, plus a submitter taking
  `amdgpu_mn_lock`. It checks `BackRefConsistent` and `WriterExcludesInvalidation`, the two invariants that the second context and the submitter put under new strain. About 750k states.
- `mn_liveness` (MCAmdgpuMnLive.cfg) has one BO, two events and a submitter,
  and checks `EveryOperationCompletes`:
  - every busy thread eventually finishes;
  - a released context is eventually freed.

  Deadlock checking is off in this run only, because a stuck thread shows up
  as a violation of the liveness property. Terminated behaviours stutter in
  `Terminating`.
- `MCAmdgpuMnHsa.cfg` reproduces `HsaReadHeldOnlyDuringWalk` (§4), and
  `MCAmdgpuMnUnion.cfg` reproduces `NodeRangeIsUnion` (§4); it is kept as
  a configuration but not listed as a run.

**Refinement.** `AmdgpuMnAbstract.tla` states what spec.md §4.2–4.3 promises
of a context, with no nodes, counters or rwsem:

- a context tracks a set of BOs;
- tracking changes only while one holder has the context exclusively, and
  only by the holder's own change (a BO adds or removes itself, the destroy
  work drops all);
- an event opens its window on a context in one step, seeing exactly the
  tracked BOs its end-exclusive range affects;
- no exclusive hold is taken while a window is open.

`AmdgpuMn` instantiates it as `Abs` with `tracked` the BOs whose `bo->mn` is
the context, `owner` the rwsem writer, `window` the contexts whose read side an
event holds, `seen` what it visited, and `range` its range. Both safety runs
check `AbstractSpec == Abs!Spec` as a PROPERTY. Every concrete step is an
abstract step or a stutter: `RegLock`, `UnregLock`, `DestroyLockRmn` and
`amdgpu_mn_lock` are `Acquire`; `RegBody`, `UnregBody`, `DestroyBody` and
`amdgpu_mn_unlock` are `Release`; `InvStart` is `Deliver`; the walk in
`ReadLockEnter`/`ReadLockDown` is `OpenWindow`; `ReadUnlockDec` is
`CloseWindow`. Its mutants are a walk without `end -= 1` (it sees a BO that
only touches the page after the range) and an `amdgpu_mn_lock` that does not
wait for readers.

**Fairness.** Kernel mutexes and rwsems queue their waiters, so a thread
repeatedly able to take a lock eventually gets it. This is strong fairness on
the steps of a thread whose operation has begun (`Busy`). Work items queued
with `schedule_work` eventually run (SF on `DestroyStep`). Nothing forces a BO
to be freed or an event to happen.

**Mutants.** Each is caught by its property:

- merging only the first overlapping node;
- leaving `bo->mn` set in destroy;
- incrementing `recursion` without the mutex;
- dropping `end -= 1`;
- testing the pre-decrement counter value in `read_unlock`.

### KfdHandles.tla / MCKfdHandles.tla

**Variables.**

- `alive`: allocated records.
- `rec`: each record's range and device.
- `idr[d][h]`: the per-pdd idrs.
- `tree`: the records linked in the process tree.
- `query`, `found`: the last range lookup and its result.
- `oops`: a NULL dereference happened.
- `idrFailed`: history, some create took the `idr_alloc` failure path.

Each handler is one action, since all run under `p->mutex`. `idr_alloc`
returns the lowest free id.

**Bounds.** Two pdds, three records and three ranges: [0,1] and [1,2] overlap,
[4,4] is apart. That is enough for zero, one and two overlapping records and
for handle reuse. `MaxIdr = 3` with three records: the idr never fills, so
an `idr_alloc` failure comes only from `IdrCanFail` (`GFP_NOWAIT` -ENOMEM).

**Runs.**

- `kfd_handles` (IdrCanFail TRUE, 336k states) checks `TypeOK` (records lie
  inside the ranges passed) and `HandlesNameLiveRecords` in every behaviour.
  It checks `TreeMirrorsIdr` and `FoundIsUnique` as `MirrorsUntilIdrFails`
  and `FoundUniqueUntilIdrFails`, in the behaviours before any `idr_alloc`
  failure. Those are the behaviours of the spec with `IdrCanFail = FALSE`.
  After a failure, `FoundIsUnique` is broken (`kfd_handles_stale_tree`).
- `kfd_handles_stale_tree` is a violation run, in §4.
  `MCKfdHandlesTranslate.cfg` reproduces `TranslateNeverFaults` (§4).

### KclReservation.tla / MCKclReservation.tla

**Variables.**

- Host side: `refcnt`, `born`, `signaled` per fence; `lists[v]` the v-th
  published shared list as `[arr, cnt, max]`, `cur` the one `src->fence`
  points to (0 for NULL), `excl`, and the seqcount `seq`. `deps[f]` is the
  set of fences f signals after.
- `dst`, `dstExcl`: the copy's destination object.
- The locals of each reader (`cpc`, `cVer`, `cCount`, `cI`, `cList`, `cF`,
  `cNew`; `wpc`, `wAll`, `wSeq`, `wVer`, `wCount`, `wI`, `wF`, `wFence`,
  `wRet`), plus what only the properties read: `cNull` (src had no
  exclusive fence), and `wStart`/`wExcl`, the fences pending at the call.

**Steps.** Each reader step is the code between two reads of shared state.
Testing the signaled bit and taking a reference are separate steps, since a
writer can release the fence in between.

- copy_fences: `CopyBegin`, `CopyRetry`, `CopyAlloc` (including `-ENOMEM`),
  `CopyTest` (loop head, signaled bit) and `CopyGet` (`dma_fence_get_rcu`;
  on failure, the retry) per loop turn, `CopyExclRead` and `CopyExclGet`
  (`_kcl_fence_get_rcu_safe`: NULL when the get fails, a re-read when the
  pointer changed), `CopyInstall`.
- wait_timeout_rcu: `WaitBegin`, `WaitExcl`/`WaitGetExcl` for the exclusive
  fence, `WaitShared` (list and seqcount), `WaitLoop`/`WaitGet` per loop
  turn, and `WaitFence`, the call to `_kcl_fence_wait_timeout` and the
  fences' wait op `_kcl_fence_default_wait`. The operator `DefaultWait` is
  the set of values that call can return: 0 for an unsignaled fence (the
  time ran out), and for a signaled one `t` or anything left of it, 0
  included when the signal races the last tick (1 when `t = 0`).

A fence is attached with two references, the reservation's and its
producer's; `Signal` drops the producer's. `dma_fence_get_rcu` fails on a
zero kref.

**Bounds.** `resv_copy_wait` has two fences on two contexts, `Cap0 = 1`
and `MaxVer = 2`: the list is published, then republished at twice the size
when the second fence comes, and an exclusive fence empties it in place,
which leaves released fences behind the readers' stale pointers.
`Timeout = 2` ticks, so a wait can return less than it was given and a retry
that restarted the timeout would be seen. The violation runs add a third
fence, a2, on a1's context, so that a2 replaces a1 in place. Every fence is
attached at most once.

**Fairness.** `Spec` has weak fairness on each reader's steps and none on the
writers or the producers: the readers never block for good (the one sleep,
in `default_wait`, has a timeout), while nothing in this code makes a GPU
job signal its fence or a submitter add one.

**Runs.**

- `resv_copy_wait` runs both readers (either `wait_all`) against the writers,
  about 56k states. It checks `TypeOK`, `RefcountsCover` (no fence is
  referenced by more holders than its kref counts, so none is freed in use),
  `WaitExclComplete` (a positive return means the exclusive fence pending at
  the call signaled), `TimeoutNeverGrows`, and `ReadersReturn`: both calls
  return, even when no fence ever signals. A retry on a timed-out wait
  (`ret >= 0` for `ret > 0` at line 106) would loop forever.
- `resv_wait_all` is a violation run (§4). `MCKclReservationRetryLeak.cfg`
  reproduces the retry leak; its run slot went to DmConnector.

The system stops when both readers return; the final state stutters (`Done`),
so deadlock checking stays on.

### KfdProcess.tla / MCKfdProcess.tla

One process `p`, from `create_process` to `kfd_process_wq_release`, with the
threads that reach it through the process table.

**Variables.**

- `cpc`: where `create_process` is: `idle`, `pub` (in the table, line 608),
  `init` (pdds created by `kfd_init_apertures`), `live` (returned), or on the
  error path `errhash`, `errfree`, `failed`.
- `inHash`: p is in `kfd_processes_table`. `ref`: the kref.
- `freed`: p has been freed, by `wq_release` or the create error path.
- `mm`: `p->mm` is set. `pdd[d]`: the pdd for device `d`, `none` when
  `kfd_get_process_device_data` would return NULL, else its `bound` state.
- `rpc`: where `kfd_process_notifier_release` is (`cancel`, `unhash`, `sync`,
  `teardown`, `delayed`, `done`).
- `relQueued`: `release_work` is queued (kref reached zero).
- `evictQ`/`evictRun`, `restoreQ`/`restoreRun`: the two delayed works pending
  or running.
- `lpc[t]`, `lwhy[t]`: each looker `t` (an srcu reader: `lookup_by_mm` on an
  eviction, or the IOMMU unbind callback) between find, `kref_get` and use.
- `ipc`, `iop`, `idev`: a bind/unbind walk over the table, inside its srcu
  section. `oops`: a NULL pdd was dereferenced (history).

**Steps.** Each step is one block of code between points where another thread
can act: the publish, the init, the ib/cwsr setup and each error label of
`create_process`; the two cancels, the unhash, `synchronize_srcu` (which waits
for every reader that found p), the teardown and the delayed destroy of the
notifier release; find, `kref_get` and use of a lookup; entry and per-process
body of a walk. The lookup by mm (an eviction from a host event on the mm)
and by pasid (the IOMMU unbind callback) are separate find steps. `kfd_process_reserve_ib_mem` and `kfd_process_init_cwsr` are a step each that
may fail; their error label (`CreateErrBos`) destroys the pdds while p is still
in the table, and a walk can run in between. `NewPdds` is
`kfd_create_process_device_data` for each device `kfd_init_apertures` finds.
A failing `kfd_init_apertures` leaves the pdds created so far in the list and
jumps past `kfd_process_destroy_pdds`, so they leak with p (hazard at
`kfd_process.c:650`); with one device at create time the run does not reach
that case. `Unref` is `kfd_unref_process` with `kfd_process_ref_release`
queueing `release_work` at zero. The workers are outside `src/` and are
modelled from spec.md §4.4: an eviction, once done, schedules the restore.

**Bounds.** `Devs = {g1}` exist at create time; `LateDevs = {g2}` is added
later, so it has no pdd. Two lookers, `MaxRef = 3`. This covers two readers
racing the release, a walk on either device, and every create error path
(111k states, 25 s).

**Fairness.** Create and release steps, each worker step, `wq_release`, the
walk and each looker's get/use are weakly fair: they run without waiting on
anything but the locks they take. Finding the process is not fair (nothing
has to look p up). `ReleaseCancelRestore` is strongly fair: the eviction can
requeue the restore forever in a model, but `cancel_delayed_work_sync` holds
the work's pending bit while it waits, so a requeue cannot starve it.

**Run `kfd_process_lifecycle`.**

- `SrcuProtectsRelease`: once p is freed after a successful create, no
  looker and no walk is between finding p and dropping it. It fails if
  `synchronize_srcu` is left out.
- `ReleaseBeforeFree`: `wq_release` never frees a successfully created p
  before the notifier release is done with it (`rpc = done`, `p->mm`
  cleared). It fails if the teardown drops a kref of its own besides the
  delayed destroy's.
- `ReleaseFrees`: a started notifier release always leads to p being freed.
  It fails if the delayed destroy drops no reference.
- `TypeOK`, which also bounds the kref; a lookup without `kref_get` drives it
  negative.

**Run `kfd_process_evict_after_free`** checks `NoWorkOnFreed` (no eviction
or restore work pending or running once p is freed) and finds it violated
(§4). `WalksNeverFault` and `FailedCreateUnseen` are violated too; their
configurations reproduce them, but they are not listed as runs because the
run budget is full (§4).

### DmPageFlip.tla / MCDmPageFlip.tla

The module models one CRTC. Its variables are the CRTC's fields:

- `pflip_status`;
- `eventOwed`: `pflip_works` holds an unsent event;
- `stream`, `otg_inst`;
- `active`: the committed DRM state;
- `irqRef`: the `amdgpu_irq_get/put` count;
- `vblankOn` and `vblankRef`: the vblank on/off state and get/put count.

Four actors drive them:

- **Flip ioctls** (`Flippers`): `FlipVblankGet`, then `FlipPlanes` takes the
  locks and handles -EINVAL. When `page_flip_needed(.., true)` is false, i.e.
  the tiling changes, it also runs the surface commit and its PENDING wait.
  `FlipCommit` is the "Do actual flip" step: `page_flip_needed(.., false)`
  (`PageFlipNeededAtCommit`, false when `get_fb_info`'s interruptible
  reserve fails), then the host's -EBUSY check. When the check is false the
  commit returns 0 without a flip.
  `vblankRef` is capped at `MaxVblankRef` (flippers + 2) in `FlipVblankGet`,
  one above what the ioctls and one owed event can hold, so one leaked
  reference is reached.
- **The flip work**: `FlipWorkRead` reads `acrtc->stream` in `dm_page_flip`.
  `FlipWorkSubmit` programs the flip (`hwFlip`), or returns on a NULL stream,
  and sets SUBMITTED.
- **The interrupt**: `PflipIrq`. `hwFlip` is set by every address write:
  `FlipWorkSubmit`, `SurfaceCommit` (in `FlipPlanes` and `CommitPlanes`) and
  the connector's `RestoreOn`. `IrqMasked` is the host dropping the
  interrupt of a disabled source. `HwNoIrq` is the fault the comment at line
  4314 describes: the flip is never reported.
- **One modeset-commit thread**: it runs `CommitBegin` (state swap, choosing
  set, reset or plane update), `CommitCrtc` (a failed `create_stream_for_sink`
  breaks out), `RemoveStream`, `InstallStream`, `CommitStreams` (`otg_inst`),
  `CommitPlanes` and `CommitEnable`.

A flip ioctl holds the modeset locks only between `FlipPlanes` and
`FlipCommit`, and a commit only between `CommitBegin` and `CommitEnable`
(`Locked`).

`WaitWhilePflipStatus(busy)` has two disjuncts: the predicate turns false,
or the loop gives up. The model lets either come first, which stands for a
fence or interrupt later than one second.

Fairness is weak fairness on every step a thread must take once it has
started: the ioctl's steps after the vblank get, the flip work (the fences
signal), delivery of an enabled interrupt, and each commit step after
`CommitBegin`. Starting a flip or a commit is left to user space, and
`HwNoIrq` has no fairness.

Runs:

- `dm_pageflip` runs on the composition `MCDmConnector` (next section),
  with two flippers and `HwCanHang` TRUE. Of DmPageFlip's properties it
  checks:
  - `IrqFollowsStream`, as `ConnIrqFollowsStream`: between commits, the
    interrupt is enabled once, and vblank is on, exactly while there is a
    stream;
  - `StatusSteps`: the status moves only NONE→PENDING→SUBMITTED→NONE. A
    surface commit whose PENDING wait timed out, or the headless restore
    (which does not wait), raises the interrupt while a flip is PENDING;
    only the SUBMITTED check at line 228 keeps that interrupt from
    completing the flip before it reached the hardware. The mutant drops
    that check.

  The commit never waits forever: `WaitWhilePflipStatus` always has its
  give-up disjunct, so no liveness property is stated for it.
- `dm_flip_vblank_leak` (violation) uses one flipper and hardware that
  always raises the interrupt. `VblankRefsHeld` states that the vblank
  references equal the ioctls in flight plus the flip whose event is unsent;
  TLC breaks it in three steps when `page_flip_needed(.., false)` is false
  at the commit (§4).

`MCDmPageFlipPremature.cfg`, `MCDmPageFlipStale.cfg` and
`MCDmPageFlipStuck.cfg` reproduce effects of the wait's timeout (§4).
`MCDmPageFlip.cfg` checks DmPageFlip alone.

### DmConnector.tla / MCDmConnector.tla

DmConnector `EXTENDS` DmPageFlip and adds the connector. Sinks are numbers:
`EM` (0) is the emulated sink, and `1..MaxSinks` are the sinks that
`dc_link_detect` creates.

**Variables.**

- `localSink`, `dcSink` and `streamSink` are the link's sink,
  `aconnector->dc_sink` and the stream's sink.
- `newSink` is the sink of a stream created but not yet installed, by a
  commit or by a restore.
- `sinkRef` holds the refcounts, and `nextSink` is the next sink to create.
- `hpc` is the hotplug handler's position.
- `rpc` is the suspend/resume position.
- Two history flags: `sinkUaf` (a freed sink was used) and `resumeAborted`
  (`dm_display_resume` returned before its commit).

`Forced` (a constant) selects the forced-connector branch of the update.

**Steps.**

- Page-flip steps that do not touch the connector are DmPageFlip's, wrapped
  in `Alone`. User-space steps (`ConnFlipVblankGet`, `ConnCommitBegin`) are
  blocked while a resume is in progress, because user space is frozen then.
- `ConnCommitCrtc` adds `create_stream_for_sink`: it retains `dc_sink`,
  and a NULL `dc_sink` takes the break path.
- `ConnRemoveStream` releases the stream's sink, and `ConnInstallStream`
  records the new stream's sink.
- `HandleHpdIrq` and `HandleHpdRxIrq` run `DcLinkDetect`. This is the host's
  detection (`spec_modelled`): the link drops its old sink and finds none,
  the same one, or a new one.
- `UpdateAfterDetect` runs `UpdateConnectorAfterDetect`, both branches.
- `RestoreOff` is `dm_restore_drm_connector_state` up to the interrupt
  disable. `RestoreOn` swaps the stream, runs `dc_commit_streams` (success
  or failure), releases a stream and enables the interrupts.
- `DmSuspend`, `ResumeDetect` (detect, then `dc_sink = NULL`),
  `ResumeUpdate`, `DmDisplayResume` (its early returns, or the commit
  through DmPageFlip's commit steps) and `ResumeVblankOn`.

`ConnLocked` is DmPageFlip's `Locked`, plus a restore between its two steps,
plus a resume commit.

Suspend is taken only with the flip machinery quiet and no hotplug handler
running. Pending flips across a suspend are not modelled.

**Fairness.** DmPageFlip's, and weak fairness on every hotplug and resume
step after the first. Plugging and suspending are environment steps without
fairness.

**Runs.**

- `dm_pageflip` uses an unforced connector with `MaxSinks = 3`, about 278k
  states in about a minute. Three sinks allow a replug while a stream
  still holds the first sink. Beyond DmPageFlip's properties it checks
  `ConnTypeOK` and:
  - `SinkRefsExact`: outside a detect-to-update window, each sink's refcount
    equals its holders (the link, the stream, a pending new stream, and on
    a forced connector the emulated sink and the disconnect retain). This
    holds across hotplugs, restores that fail, and resume racing HPD RX.
  - `ConnIrqFollowsStream`: `IrqFollowsStream` also across restores and
    suspend/resume cycles. It excludes a `dm_display_resume` that returned
    early (§4).

  The forced branch of the update is kept, but cannot fire in this run.
- `dm_sink_use_after_free` (violation) checks `SinkNeverUsedFreed` with one
  flipper (§4).

`MCDmConnectorForced.cfg` (a forced connector) and `MCDmConnectorResume.cfg`
(`VblankBackAfterResume`) reproduce two more findings (§4).

## 4. Findings

- **Node ranges never shrink** (`amdgpu_mn.c:556`, reproduced with
  `MCAmdgpuMnUnion.cfg`; not a listed run, as the run budget went to the
  `kfd_process.c:459` race below). spec.md §3 says a node's range is the union of its
  registrations' ranges. Unregister frees empty nodes but never narrows the
  others, so later registrations merge with BOs they do not overlap. The
  consequence is over-invalidation, not a safety bug.
- **HSA holds the read lock through the window** (`amdgpu_mn.c:317`,
  reproduced with `MCAmdgpuMnHsa.cfg`; no longer a listed run, as the run
  budget went to DmPageFlip). spec.md §4.3 step 3 says one kind holds the lock only
  during the walk. Both ops tables release it in `invalidate_range_end`.
- **A failed `idr_alloc` leaves a freed record in the interval tree**
  (`kfd_process.c:928/944`, `kfd_handles_stale_tree`). A later
  `find_bo_from_interval` over that range returns the freed record: a
  use-after-free.
- **wait_all returns before the shared fences** (`kcl_reservation.c:59`,
  `resv_wait_all`). The AMD change waits for an unsignaled exclusive fence
  first; `shared_count` is then 0, so the `i + 1 < shared_count` retry never
  happens and the call returns. A shared fence added behind that exclusive
  fence is still pending. spec.md §4.3a says the invalidation waits for any
  outstanding fence, shared or exclusive; `amdgpu_mn_invalidate_node` calls
  it with `wait_all = true`.
- **copy_fences leaks on retry** (`kcl_reservation.c:163`, reproduced with
  `MCKclReservationRetryLeak.cfg`; no longer a listed run, as the slot went to
  `dm_sink_use_after_free`). A writer replaces a fence after the copy has taken
  references to earlier ones; `dma_fence_get_rcu` fails, and the retry frees
  `dst_list` without putting them. `RefcountsExact` (kref equals holders)
  fails. Three more defects of `copy_fences` show with the same module but
  are not among the listed runs:
  - `CopyWithinBounds` fails under the `resv_copy_retry_leak` bounds: an
    in-place append after the size check overruns `dst_list` (line 154).
  - `RefcountsExact` fails at once with a non-empty `DstInit`: the old dst
    list is `kfree_rcu`'d without putting its fences (line 197).
  - `ExclDroppedOnlyIfNone` fails with the copy alone under the
    `resv_copy_wait` bounds. src's exclusive fence is replaced and released
    between `rcu_dereference` and `fence_get_rcu` in
    `_kcl_fence_get_rcu_safe` (`kcl_fence.c:288`), which then returns NULL.
    dst gets no exclusive fence although src has one pending; the upstream
    helper retries there.
- **Eviction work runs on a freed process** (`kfd_process.c:459`, violation
  run `kfd_process_evict_after_free`). The notifier release cancels
  `eviction_work` and `restore_work` before `hash_del_rcu`. A lookup by mm
  that finds p after both cancels and before the unlink takes a kref, and its
  caller schedules the eviction. When that caller drops its kref after the
  delayed destroy, `wq_release` frees p with the eviction still pending; the
  eviction then schedules the restore on freed memory. spec.md §9 asks that
  the entry leave the registry first and the memory go only once no thread
  holds it. Unlinking before cancelling would close the window.
- **Found by KfdProcess, not listed as runs** (each reproduced with its
  configuration, which is `MCKfdProcess.cfg` with the property as the only
  invariant):
  - `WalksNeverFault` (`kfd_process.c:798`, `:834`; `MCKfdProcessWalk.cfg`):
    a bind or unbind walk dereferences a NULL pdd, for a device added after
    the process, for any device between `hash_add_rcu` (line 608) and
    `kfd_init_apertures` (line 624), and after a failed create destroyed the
    pdds while p is still in the table.
  - `FailedCreateUnseen` (`kfd_process.c:654`;
    `MCKfdProcessFailedCreate.cfg`): the create error path waits with
    `synchronize_rcu`, which does not wait for `kfd_processes_srcu` readers;
    a walk that found p still runs when p is freed.
- **translate_handle dereferences NULL** (`kfd_process.c:968`, reproduced
  with `MCKfdHandlesTranslate.cfg`; no longer a listed run, since a unit test
  with an unused handle reaches it as directly). spec.md §4.5 says it
  returns null.
- **A flip ioctl leaks its vblank reference and its event** (`kcl_dm.c:4760`,
  violation run `dm_flip_vblank_leak`). The sequence is:
  1. `amdgpu_atomic_helper_page_flip` takes a vblank reference (line 2895).
  2. Its nonblocking commit runs; at "Do actual flip", `page_flip_needed(..,
     false)` is false because `get_fb_info`'s interruptible
     `amdgpu_bo_reserve` fails (lines 2162-2166), e.g. on a pending signal.
  3. `amdgpu_crtc_page_flip` is not called, and the commit and the ioctl
     return 0.

  On a 0 return the driver owns the state (line 2935), but nothing puts the
  vblank reference or sends the event, so a client waiting for the event
  stalls. `VblankRefsHeld` fails.
- **A flip stays SUBMITTED after a timed-out wait** (`kcl_dm.c:4321`,
  reproduced with `MCDmPageFlipStuck.cfg`, `FlipEventDelivered`). A flip is
  PENDING on its fences. A modeset's `remove_stream` gives up waiting after
  1000 polls, disables the interrupt and NULLs the stream. The flip work's
  `dm_page_flip` then returns on the NULL stream, and the host marks the flip
  SUBMITTED without programming it. Nothing in `kcl_dm.c` resets the status
  until a later address write raises the interrupt. The comment at line 4321
  says exactly this: the cleanup comes with the restore mode change. The
  configuration only shows the behaviour with no later mode change. The model
  does not order the hardware's latch of a later write against the enable of
  the interrupt (lines 4882-4884), so it does not decide whether that cleanup
  always happens.

  The same timeout breaks two more comments, each reproduced with its own
  configuration:
  - `NoPrematureSurface` (`kcl_dm.c:4476`; `MCDmPageFlipPremature.cfg`):
    `dc_commit_plane_states` commits the surface while the flip is still
    PENDING.
  - `FlipUsesLiveStream` (`kcl_dm.c:1566`; `MCDmPageFlipStale.cfg`): the
    flip work reads the stream, then `remove_stream`, which does not take
    `event_lock`, releases it before `dc_flip_plane_addrs` uses it.

- **A resume commit builds its stream from a freed sink** (`kcl_dm.c:2780`,
  violation run `dm_sink_use_after_free`). On an unforced connector,
  `dc_sink` borrows the link's sink without a reference. The trace:
  1. Resume detects a new sink and makes it `dc_sink`.
  2. The HPD RX interrupt, enabled early in resume, runs `dc_link_detect`.
     The display is gone, so the link drops its reference and the sink is
     freed.
  3. Before that handler updates `dc_sink`, resume's commit calls
     `create_stream_for_sink`, which retains the freed sink.

  The same window exists between any hotplug handler and a user modeset. The
  handler takes the modeset locks only after the update. `SinkNeverUsedFreed`
  fails.
- **A forced connector releases a sink it never retained**
  (`kcl_dm.c:847`, reproduced with `MCDmConnectorForced.cfg`). The comment
  at line 840 says the release pairs with the retain of a disconnect. Two
  detections in a row that both find a sink (a replug, or an HPD RX
  detection) release the old sink, although its references belong to the
  link and the stream. The headless restore then releases the old stream,
  and the count goes to -1: a double free. The disconnect branch (line 857)
  also retains the sink after `dc_link_detect` has dropped the link's
  reference, which is too late when no stream holds it.
- **vblank stays off after a resume that returns early** (`kcl_dm.c:668`,
  reproduced with `MCDmConnectorResume.cfg`, `VblankBackAfterResume`).
  `dm_suspend` turns vblank off, and its comment says that
  `dm_display_resume` turns it back on. `dm_display_resume` skips that in
  three cases:
  - it returns 0 when an active CRTC's plane has no framebuffer;
  - it returns the error when a pin fails;
  - it returns a positive `ENOMEM` when the state allocation fails.

  Every later flip ioctl then fails in `drm_crtc_vblank_get`, until a user
  modeset.

## 5. Not modelled, and why

- `_kcl_reservation_object_test_signaled_rcu` is built for RHEL 6 only, and
  the `kcl_reservation.h` wrappers only choose between it and the host.
- `_kcl_fence_wait_any_timeout` has no caller in the modelled paths; the
  fence-context allocator and `amdkcl_fence_init` (function-pointer setup)
  have no behaviour to check.
- Data and memory contents of BOs are not modelled. Fence waits inside the
  walk are modelled as completing; waiting is KclReservation's subject.
- Host code outside `src/` is modelled only as far as the code relies on it:
  - page-table updates (`HostUpdate`);
  - `amdgpu_ttm_tt_affect_userptr`, as the overlap of the BO's user range;
  - command-submission callers (`CsBegin`).
- The ioctl layer is outside `src/`. The handle model follows its use: remove
  is called only with handles that `find_bo` resolves.
- In KfdProcess, the debug managers, the queue manager and the ib/cwsr
  memory are one step each, as only their ordering against the table and the
  srcu readers matters. The eviction counter and quiescence fence of spec.md
  §4.4 are not modelled; the workers are a pending and a running flag.
- PRIME (`amdgpu_prime.c`) is out of scope per spec.md §1, and its count is
  updated sequentially (§1.6). Its one window, at line 176, depends on
  `amdgpu_gem_object_free`, outside `src/`. It gets no run.
- In `kcl_dm.c`, the page-flip protocol and the sink lifetime of one
  connector are modelled, for one CRTC. What is left out, and why:
  - MST: `dm_handle_hpd_rx_irq`'s ESI loop and `s3_handle_mst` are DPCD I/O
    handed to the DRM MST helpers.
  - `amdgpu_dm_irq_suspend` is outside `src/`, so a suspend with a flip in
    flight is not modelled.
  - Atomic check and `mode_valid` create and release a temporary stream
    within one call.
  - Stream, plane and connector construction, EDID, freesync, scaling and
    backlight are per-call conversions into DC structures. The cursor ioctls
    (`dm_crtc_cursor_set` and `_move`) are serialized by the CRTC lock. Their
    pin and unpin are sequential, so a unit test reaches them as well. So is
    the connector-scaling loop of the commit, which `CommitStreams` stands
    for.
  - The vblank interrupt handler does not touch `pflip_status`.
  - A second CRTC would add only the `otg_inst` lookup of
    `get_crtc_by_otg_inst`. Interrupts are enabled only after `otg_inst` is
    set, so it cannot misroute one.
  - The host's `amdgpu_crtc_page_flip`, its flip work and the interrupt
    dispatch are modelled from their use (`spec_modelled`).
  - Approximations in the connector model:
    - `UpdateAfterDetect` omits `mode_config.mutex`, which only
      over-approximates the interleavings.
    - `HandleHpdRxIrq` is enabled from resume's detection on, not from
      `amdgpu_dm_irq_resume_early` itself, which is a small
      under-approximation.
    - `RestoreOff` does not model a NULL `create_stream_for_sink`.
