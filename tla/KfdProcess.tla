----------------------------- MODULE KfdProcess -----------------------------
(***************************************************************************)
(* The life of one kfd_process (src/amd/amdkfd/kfd_process.c): its        *)
(* creation by the first open of /dev/kfd, which publishes it in           *)
(* kfd_processes_table before the rest of its setup; the srcu readers that *)
(* find it there (lookups by mm or pasid, which take a kref, and the       *)
(* device suspend/resume walks, which do not); the MMU notifier release    *)
(* when the mm exits; the kref that frees it through release_work; and the *)
(* eviction and restore work items a lookup by mm schedules.               *)
(*                                                                         *)
(* The table holds one process: every reader below looks for the one mm.   *)
(* Sections under p->mutex or kfd_processes_mutex are single steps; the    *)
(* srcu read sections span the steps between srcu_read_lock and unlock.    *)
(***************************************************************************)
EXTENDS Naturals, FiniteSets

CONSTANTS
  Devs,       \* devices present when the process is created
  LateDevs,   \* devices that appear after it was created
  Lookers,    \* threads that look the process up by mm or pasid
  MaxRef      \* bound on the kref, for the type invariant only

ASSUME Devs \cap LateDevs = {} /\ MaxRef \in Nat

AllDevs == Devs \cup LateDevs

\* pdd->bound, or "none" where kfd_get_process_device_data returns NULL.
PddStates == {"none", "UNBOUND", "BOUND", "SUSPENDED"}

VARIABLES
  cpc,        \* create_process: "idle", "pub", "init", "ib", "ready", the
              \* error labels "errbos", "errhash", "errfree", "failed"
              \* (kfree'd or never published), "live" (returned)
  inHash,     \* p is linked in kfd_processes_table
  ref,        \* p->ref
  freed,      \* p has been kfree'd
  mm,         \* p->mm /= NULL
  pdd,        \* pdd[d]: p's kfd_process_device for device d
  rpc,        \* kfd_process_notifier_release: "idle" .. "done"
  relQueued,  \* release_work queued by kfd_process_ref_release
  evictQ,     \* eviction_work pending
  evictRun,   \* eviction_work running
  restoreQ,   \* restore_work pending
  restoreRun, \* restore_work running
  lpc,        \* lpc[t]: "idle", "found" (in the srcu section), "ref"
  lwhy,       \* lwhy[t]: "evict" (lookup by mm) or "iommu" (by pasid)
  ipc,        \* the suspend/resume walk: "idle" or "in" (srcu section)
  iop,        \* its operation: "bind" or "unbind"
  idev,       \* its device
  oops        \* a NULL pdd was dereferenced

procVars == <<cpc, inHash, ref, freed, mm, pdd>>
workVars == <<relQueued, evictQ, evictRun, restoreQ, restoreRun>>
readVars == <<lpc, lwhy, ipc, iop, idev, oops>>
vars == <<procVars, rpc, workVars, readVars>>

NoPdds == [d \in AllDevs |-> "none"]

-----------------------------------------------------------------------------
(* create_process, called by kfd_create_process under kfd_processes_mutex  *)
(* when find_process finds no process for the mm.  The creating thread     *)
(* holds the mm, so the notifier release cannot start before it returns.   *)

\* kzalloc, kfd_pasid_alloc, kref_init, p->mm, mmu_notifier_register
\* (each may fail: the process is freed unseen), then hash_add_rcu.
CreateProcess ==
  /\ cpc = "idle"
  /\ \/ cpc' = "failed" /\ UNCHANGED <<inHash, ref, mm>>
     \/ cpc' = "pub" /\ inHash' = TRUE /\ ref' = 1 /\ mm' = TRUE
  /\ UNCHANGED <<freed, pdd, rpc, workVars, readVars>>

\* kfd_create_process_device_data(dev, p), for each device in S: a pdd in
\* PDD_UNBOUND state linked in p->per_device_data (one that fails is
\* unlinked and freed again).
NewPdds(S) == [d \in AllDevs |-> IF d \in S THEN "UNBOUND" ELSE "none"]

\* pqm_init, then kfd_init_apertures (outside src/), which creates a pdd
\* for every device present and fails when one cannot be created.
\* pqm_init failing goes straight to the hash_del; a failing
\* kfd_init_apertures to pqm_uninit and the hash_del, leaving the pdds
\* created before the failing one in the list.
CreateInit ==
  /\ cpc = "pub"
  /\ \/ cpc' = "errhash" /\ \E S \in SUBSET Devs : S /= Devs /\ pdd' = NewPdds(S)
     \/ cpc' = "init" /\ pdd' = NewPdds(Devs)
  /\ UNCHANGED <<inHash, ref, freed, mm, rpc, workVars, readVars>>

\* kfd_process_reserve_ib_mem: allocates the IB of each dGPU pdd; an
\* allocation failing returns at once (err_reserve_ib_mem).
CreateReserveIbMem ==
  /\ cpc = "init"
  /\ cpc' \in {"ib", "errbos"}
  /\ UNCHANGED <<inHash, ref, freed, mm, pdd, rpc, workVars, readVars>>

\* kfd_process_init_cwsr: maps the CWSR trap handler for each pdd; a
\* failing allocation or vm_mmap returns at once (err_init_cwsr).
CreateInitCwsr ==
  /\ cpc = "ib"
  /\ cpc' \in {"ready", "errbos"}
  /\ UNCHANGED <<inHash, ref, freed, mm, pdd, rpc, workVars, readVars>>

\* INIT_DELAYED_WORK of eviction_work and restore_work, and p is returned.
CreateFinish ==
  /\ cpc = "ready"
  /\ cpc' = "live"
  /\ UNCHANGED <<inHash, ref, freed, mm, pdd, rpc, workVars, readVars>>

\* err_init_cwsr / err_reserve_ib_mem: free_outstanding_kfd_bos,
\* destroy_pdds and pqm_uninit, while p is still in the table.
CreateErrBos ==
  /\ cpc = "errbos"
  /\ cpc' = "errhash" /\ pdd' = NoPdds
  /\ UNCHANGED <<inHash, ref, freed, mm, rpc, workVars, readVars>>

\* err_process_pqm_init: hash_del_rcu.
CreateUnhash ==
  /\ cpc = "errhash"
  /\ inHash' = FALSE
  /\ cpc' = "errfree"
  /\ UNCHANGED <<ref, freed, mm, pdd, rpc, workVars, readVars>>

\* synchronize_rcu, which waits for rcu readers but not for readers of
\* kfd_processes_srcu; mmu_notifier_unregister_no_release, pasid free,
\* kfree.
CreateFree ==
  /\ cpc = "errfree"
  /\ freed' = TRUE /\ mm' = FALSE /\ pdd' = NoPdds
  /\ cpc' = "failed"
  /\ UNCHANGED <<inHash, ref, rpc, workVars, readVars>>

-----------------------------------------------------------------------------
(* kref                                                                    *)

\* kfd_unref_process: kref_put; at zero kfd_process_ref_release queues
\* release_work.
Unref ==
  /\ ref' = ref - 1
  /\ relQueued' = (ref = 1)

\* kfd_process_wq_release: unbind the bound pdds from the IOMMU, free the
\* outstanding BOs, destroy the pdds, free the pasid and p.
WqRelease ==
  /\ relQueued
  /\ relQueued' = FALSE
  /\ pdd' = NoPdds /\ freed' = TRUE
  /\ UNCHANGED <<cpc, inHash, ref, mm, rpc, evictQ, evictRun, restoreQ,
                 restoreRun, readVars>>

-----------------------------------------------------------------------------
(* kfd_process_notifier_release(mn, mm), when the mm exits.               *)

\* cancel_delayed_work_sync(&p->eviction_work.dwork): waits for a running
\* eviction work and removes a pending one.
ReleaseCancelEvict ==
  /\ cpc = "live" /\ rpc = "idle" /\ ~evictRun
  /\ evictQ' = FALSE
  /\ rpc' = "cancel"
  /\ UNCHANGED <<procVars, relQueued, evictRun, restoreQ, restoreRun, readVars>>

\* cancel_delayed_work_sync(&p->restore_work)
ReleaseCancelRestore ==
  /\ rpc = "cancel" /\ ~restoreRun
  /\ restoreQ' = FALSE
  /\ rpc' = "unhash"
  /\ UNCHANGED <<procVars, relQueued, evictQ, evictRun, restoreRun, readVars>>

\* hash_del_rcu under kfd_processes_mutex.
ReleaseUnhash ==
  /\ rpc = "unhash"
  /\ inHash' = FALSE
  /\ rpc' = "sync"
  /\ UNCHANGED <<cpc, ref, freed, mm, pdd, workVars, readVars>>

\* Mutant: synchronize_srcu left out.
ReleaseSyncNoWait ==
  /\ rpc = "sync"
  /\ rpc' = "teardown"
  /\ UNCHANGED <<procVars, workVars, readVars>>

\* synchronize_srcu(&kfd_processes_srcu): every read section that could
\* have found p has ended.
ReleaseSync ==
  /\ rpc = "sync"
  /\ \A t \in Lookers : lpc[t] /= "found"
  /\ ipc = "idle"
  /\ rpc' = "teardown"
  /\ UNCHANGED <<procVars, workVars, readVars>>

\* Mutant: the teardown also drops a reference itself, besides the one
\* mmu_notifier_call_srcu's kfd_process_destroy_delayed drops.
ReleaseTeardownPut ==
  /\ rpc = "teardown"
  /\ mm' = FALSE
  /\ Unref
  /\ rpc' = "delayed"
  /\ UNCHANGED <<cpc, inHash, freed, pdd, evictQ, evictRun, restoreQ,
                 restoreRun, readVars>>

\* Under p->mutex: debug managers, dequeue from all devices, pqm_uninit,
\* p->mm = NULL; then mmu_notifier_unregister_no_release and
\* mmu_notifier_call_srcu(kfd_process_destroy_delayed).
ReleaseTeardown ==
  /\ rpc = "teardown"
  /\ mm' = FALSE
  /\ rpc' = "delayed"
  /\ UNCHANGED <<cpc, inHash, ref, freed, pdd, workVars, readVars>>

\* Mutant: the delayed destroy drops no reference.
ReleaseDestroyDelayedNoPut ==
  /\ rpc = "delayed"
  /\ rpc' = "done"
  /\ UNCHANGED <<procVars, workVars, readVars>>

\* kfd_process_destroy_delayed, after an srcu grace period:
\* kfd_unref_process drops the reference kref_init gave.
ReleaseDestroyDelayed ==
  /\ rpc = "delayed"
  /\ Unref
  /\ rpc' = "done"
  /\ UNCHANGED <<cpc, inHash, freed, mm, pdd, evictQ, evictRun, restoreQ,
                 restoreRun, readVars>>

-----------------------------------------------------------------------------
(* srcu readers.  A lookup by mm comes from an invalidation of one of the  *)
(* process's userptr BOs, a lookup by pasid from the IOMMU once the pasid  *)
(* is bound: both exist only once create_process has returned.            *)

\* kfd_lookup_process_by_mm: srcu_read_lock; find_process_by_mm reaches p
\* (p->mm is the mm).  The caller then schedules an eviction.
LookFindByMm(t) ==
  /\ lpc[t] = "idle" /\ inHash /\ cpc = "live" /\ mm
  /\ lwhy' = [lwhy EXCEPT ![t] = "evict"]
  /\ lpc' = [lpc EXCEPT ![t] = "found"]
  /\ UNCHANGED <<procVars, rpc, workVars, ipc, iop, idev, oops>>

\* kfd_lookup_process_by_pasid, from kfd_process_iommu_unbind_callback:
\* srcu_read_lock; hash_for_each_rcu reaches p by its pasid.
LookFindByPasid(t) ==
  /\ lpc[t] = "idle" /\ inHash /\ cpc = "live"
  /\ lwhy' = [lwhy EXCEPT ![t] = "iommu"]
  /\ lpc' = [lpc EXCEPT ![t] = "found"]
  /\ UNCHANGED <<procVars, rpc, workVars, ipc, iop, idev, oops>>

\* Mutant: the lookup returns p without kref_get.
LookGetNoKref(t) ==
  /\ lpc[t] = "found"
  /\ lpc' = [lpc EXCEPT ![t] = "ref"]
  /\ UNCHANGED <<procVars, rpc, workVars, lwhy, ipc, iop, idev, oops>>

\* kref_get(&p->ref); srcu_read_unlock.
LookGet(t) ==
  /\ lpc[t] = "found"
  /\ ref' = ref + 1
  /\ lpc' = [lpc EXCEPT ![t] = "ref"]
  /\ UNCHANGED <<cpc, inHash, freed, mm, pdd, rpc, workVars, lwhy, ipc, iop,
                 idev, oops>>

\* By mm: the eviction is scheduled unless already pending (the caller,
\* outside src/, as spec.md 4.4 describes it), then kfd_unref_process.
\* By pasid, kfd_process_iommu_unbind_callback: under p->mutex the pdd, if
\* any, is dequeued; then kfd_unref_process.
LookUse(t) ==
  /\ lpc[t] = "ref"
  /\ evictQ' = (evictQ \/ lwhy[t] = "evict")
  /\ Unref
  /\ lpc' = [lpc EXCEPT ![t] = "idle"]
  /\ UNCHANGED <<cpc, inHash, freed, mm, pdd, rpc, evictRun, restoreQ,
                 restoreRun, lwhy, ipc, iop, idev, oops>>

-----------------------------------------------------------------------------
(* kfd_bind_processes_to_device / kfd_unbind_processes_from_device(dev),  *)
(* on device resume and suspend: under srcu, for each process in the      *)
(* table, p->mutex and kfd_get_process_device_data(dev, p), dereferenced  *)
(* without a NULL check.                                                  *)

\* srcu_read_lock; hash_for_each_rcu reaches p.
WalkEnter(op, d) ==
  /\ ipc = "idle" /\ inHash
  /\ ipc' = "in" /\ iop' = op /\ idev' = d
  /\ UNCHANGED <<procVars, rpc, workVars, lpc, lwhy, oops>>

\* kfd_bind_processes_to_device, for p: a PDD_BOUND_SUSPENDED pdd is rebound
\* (amd_iommu_bind_pasid may fail, which ends the walk); any other state is
\* skipped.  A NULL pdd is dereferenced.  Then srcu_read_unlock.
WalkBind ==
  LET s == pdd[idev] IN
  /\ ipc = "in" /\ iop = "bind"
  /\ \/ s = "none" /\ oops' = TRUE /\ UNCHANGED pdd
     \/ s = "SUSPENDED" /\ pdd' = [pdd EXCEPT ![idev] = "BOUND"] /\ UNCHANGED oops
     \/ s /= "none" /\ UNCHANGED <<pdd, oops>>
  /\ ipc' = "idle"
  /\ UNCHANGED <<cpc, inHash, ref, freed, mm, rpc, workVars, lpc, lwhy, iop, idev>>

\* kfd_unbind_processes_from_device, for p: a PDD_BOUND pdd is suspended.
\* A NULL pdd is dereferenced.  Then srcu_read_unlock.
WalkUnbind ==
  LET s == pdd[idev] IN
  /\ ipc = "in" /\ iop = "unbind"
  /\ \/ s = "none" /\ oops' = TRUE /\ UNCHANGED pdd
     \/ s = "BOUND" /\ pdd' = [pdd EXCEPT ![idev] = "SUSPENDED"] /\ UNCHANGED oops
     \/ s \notin {"none", "BOUND"} /\ UNCHANGED <<pdd, oops>>
  /\ ipc' = "idle"
  /\ UNCHANGED <<cpc, inHash, ref, freed, mm, rpc, workVars, lpc, lwhy, iop, idev>>

WalkStep == WalkBind \/ WalkUnbind

\* kfd_bind_process_to_device(dev, p), from an ioctl of the process under
\* p->mutex: NULL pdd, PDD_BOUND and PDD_BOUND_SUSPENDED return without a
\* change, as does a failing amd_iommu_bind_pasid; else PDD_BOUND.
BindProcess(d) ==
  /\ cpc = "live" /\ rpc = "idle"
  /\ pdd[d] = "UNBOUND"
  /\ pdd' = [pdd EXCEPT ![d] = "BOUND"]
  /\ UNCHANGED <<cpc, inHash, ref, freed, mm, rpc, workVars, readVars>>

-----------------------------------------------------------------------------
(* The eviction and restore workers (kfd_evict_bo_worker,                 *)
(* kfd_restore_bo_worker, outside src/), as spec.md 4.4 describes them:   *)
(* an eviction, once done, schedules the restore.                          *)

EvictStart ==
  /\ evictQ /\ ~evictRun
  /\ evictQ' = FALSE /\ evictRun' = TRUE
  /\ UNCHANGED <<procVars, rpc, relQueued, restoreQ, restoreRun, readVars>>

EvictEnd ==
  /\ evictRun
  /\ evictRun' = FALSE /\ restoreQ' = TRUE
  /\ UNCHANGED <<procVars, rpc, relQueued, evictQ, restoreRun, readVars>>

RestoreStart ==
  /\ restoreQ /\ ~restoreRun
  /\ restoreQ' = FALSE /\ restoreRun' = TRUE
  /\ UNCHANGED <<procVars, rpc, relQueued, evictQ, evictRun, readVars>>

RestoreEnd ==
  /\ restoreRun
  /\ restoreRun' = FALSE
  /\ UNCHANGED <<procVars, rpc, relQueued, evictQ, evictRun, restoreQ, readVars>>

-----------------------------------------------------------------------------

Init ==
  /\ cpc = "idle" /\ inHash = FALSE /\ ref = 0 /\ freed = FALSE /\ mm = FALSE
  /\ pdd = NoPdds
  /\ rpc = "idle"
  /\ relQueued = FALSE /\ evictQ = FALSE /\ evictRun = FALSE
  /\ restoreQ = FALSE /\ restoreRun = FALSE
  /\ lpc = [t \in Lookers |-> "idle"] /\ lwhy = [t \in Lookers |-> "evict"]
  /\ ipc = "idle" /\ iop = "bind" /\ idev = CHOOSE d \in AllDevs : TRUE
  /\ oops = FALSE

CreateStep == CreateProcess \/ CreateInit \/ CreateReserveIbMem \/ CreateInitCwsr
              \/ CreateFinish \/ CreateErrBos \/ CreateUnhash \/ CreateFree
ReleaseStep == ReleaseUnhash \/ ReleaseSync
               \/ ReleaseTeardown \/ ReleaseDestroyDelayed
WorkStep == EvictStart \/ EvictEnd \/ RestoreStart \/ RestoreEnd \/ WqRelease

\* The process is gone, or never came to be, and nothing is left to run.
Finished == (freed \/ cpc = "failed") /\ ~evictQ /\ ~evictRun /\ ~restoreQ /\ ~restoreRun

Next ==
  \/ CreateStep
  \/ ReleaseCancelEvict \/ ReleaseCancelRestore \/ ReleaseStep
  \/ WorkStep
  \/ \E t \in Lookers : LookFindByMm(t) \/ LookFindByPasid(t) \/ LookGet(t) \/ LookUse(t)
  \/ \E op \in {"bind", "unbind"}, d \in AllDevs : WalkEnter(op, d)
  \/ WalkStep
  \/ \E d \in AllDevs : BindProcess(d)
  \/ Finished /\ UNCHANGED vars

\* The steps that follow from one already taken run: the rest of create,
\* of the release, queued work, a looker's kref_get and use, the walk's
\* step.  The mm exit, new lookups and walks, and ioctls get none.
\* cancel_delayed_work_sync on restore_work gets strong fairness: the
\* model lets an eviction requeue the restore while the cancel waits for
\* the running one, which the kernel's cancel, holding the work's
\* pending bit, does not; so the cancel cannot be starved.
Fairness ==
  /\ WF_vars(CreateStep) /\ WF_vars(ReleaseStep)
  /\ WF_vars(EvictStart) /\ WF_vars(EvictEnd) /\ WF_vars(RestoreStart)
  /\ WF_vars(RestoreEnd) /\ WF_vars(WqRelease)
  /\ SF_vars(ReleaseCancelRestore)
  /\ \A t \in Lookers : WF_vars(LookGet(t) \/ LookUse(t))
  /\ WF_vars(WalkStep)

Spec == Init /\ [][Next]_vars /\ Fairness

-----------------------------------------------------------------------------
(* Properties *)

TypeOK ==
  /\ cpc \in {"idle", "pub", "init", "ib", "ready", "live", "errbos",
             "errhash", "errfree", "failed"}
  /\ inHash \in BOOLEAN /\ freed \in BOOLEAN /\ mm \in BOOLEAN
  /\ ref \in 0 .. MaxRef
  /\ pdd \in [AllDevs -> PddStates]
  /\ rpc \in {"idle", "cancel", "unhash", "sync", "teardown", "delayed", "done"}
  /\ {relQueued, evictQ, evictRun, restoreQ, restoreRun, oops} \subseteq BOOLEAN
  /\ lpc \in [Lookers -> {"idle", "found", "ref"}]
  /\ lwhy \in [Lookers -> {"evict", "iommu"}]
  /\ ipc \in {"idle", "in"} /\ iop \in {"bind", "unbind"} /\ idev \in AllDevs

\* Once the release path has freed p (kfd_process_wq_release, reached only
\* when the kref drops to zero), no srcu reader still holds it: neither a
\* lookup, in its read section or holding a kref, nor a suspend/resume
\* walk.  It rests on synchronize_srcu between hash_del_rcu and the
\* delayed kfd_unref_process of the notifier release.
SrcuProtectsRelease ==
  (freed /\ cpc = "live") =>
    /\ \A t \in Lookers : lpc[t] = "idle"
    /\ ipc = "idle"

\* Once the mm has exited, the process is eventually freed: every kref
\* taken by a lookup is dropped, and the notifier release drops the one
\* kref_init gave.
ReleaseFrees == rpc /= "idle" ~> freed

\* kfd_process_wq_release never runs while the notifier release is still
\* using p: the last kref is the one kref_init gave, dropped only in
\* kfd_process_destroy_delayed after the teardown under p->mutex, and every
\* lookup's kref_get is matched by one kfd_unref_process.
ReleaseBeforeFree == (freed /\ cpc = "live") => rpc = "done" /\ ~mm

\* Violated (kfd_process.c:459): the notifier release cancels the
\* eviction and restore works before it unlinks p, so a lookup by mm that
\* found p before the unlink can schedule the eviction after the cancel;
\* the work, and the restore it schedules, run on a freed process.
NoWorkOnFreed == freed => ~evictQ /\ ~evictRun /\ ~restoreQ /\ ~restoreRun

\* Violated (kfd_process.c:798, 834, and 646-656): the suspend/resume walks
\* dereference kfd_get_process_device_data's result unchecked; it is NULL
\* for a device that appeared after the process was created, for every
\* device between hash_add_rcu (608) and kfd_init_apertures (624), and
\* while a failed create has destroyed the pdds but not yet unlinked p.
WalksNeverFault == ~oops

\* Violated (kfd_process.c:653): create_process's error path unlinks p and
\* waits with synchronize_rcu, not synchronize_srcu, before kfree; a
\* suspend/resume walk in its srcu section still holds p.
FailedCreateUnseen == (freed /\ cpc = "failed") => ipc = "idle"

=============================================================================
