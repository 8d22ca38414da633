--------------------------- MODULE KclReservation ---------------------------
(***************************************************************************)
(* The lock-free readers of a reservation object in the kcl shim          *)
(* (src/amd/amdkcl/kcl_reservation.c), run against the host's writers.    *)
(*                                                                         *)
(* A reservation object holds an exclusive fence and an RCU-published     *)
(* list of shared fences, each with a reference.  Writers (the host's      *)
(* reservation_object_add_{shared,excl}_fence, under the object's          *)
(* ww_mutex) change it inside a seqcount write section; readers take no   *)
(* lock, so a writer step can fall between any two steps of a reader.     *)
(*                                                                         *)
(* A list is an array with a count: writers append and replace entries in *)
(* place while there is room, and publish a new list (leaving the old one *)
(* to RCU) when there is not.  A fence is a model value with a kref; at    *)
(* zero it is being freed and dma_fence_get_rcu on it fails.              *)
(*                                                                         *)
(* Readers: _kcl_reservation_object_copy_fences(dst, src) and             *)
(* _kcl_reservation_object_wait_timeout_rcu(obj, wait_all, false, t).     *)
(***************************************************************************)
EXTENDS Integers, Sequences, FiniteSetsExt, Functions

CONSTANTS
  Fences,      \* fences the host writers attach to src (model values)
  DstInit,     \* fences already in dst's shared list when the copy starts
  Ctx,         \* Ctx[f]: the fence's context (timeline)
  Cap0,        \* shared_max of the first list reservation_object_reserve_shared makes
  MaxVer,      \* lists the writers may publish (bounds the model)
  Timeout,     \* the timeout passed to wait_timeout_rcu, in ticks
  CopyOn,      \* whether a copy_fences call runs
  WaitOn,      \* whether a wait_timeout_rcu call runs
  NoFence      \* NULL

AllFences == Fences \cup DstInit
Ver == 1 .. MaxVer

ASSUME /\ Fences \cap DstInit = {} /\ NoFence \notin AllFences
       /\ Cap0 \in Nat \ {0} /\ MaxVer \in Nat /\ Timeout \in Nat \ {0}
       /\ CopyOn \in BOOLEAN /\ WaitOn \in BOOLEAN

VARIABLES
  refcnt,     \* refcnt[f]: fence->refcount
  born,       \* born[f]: the fence has been attached to src
  signaled,   \* signaled[f]: FENCE_FLAG_SIGNALED_BIT
  deps,       \* deps[f]: fences f signals after (see AddSharedFence)
  lists,      \* lists[v]: [arr, cnt, max] of the v-th published list
  cur,        \* src->fence: the published list, 0 for NULL
  excl,       \* src->fence_excl
  seq,        \* src->seq
  dst,        \* dst->fence's fences (dst is the caller's, locked)
  dstExcl,    \* dst->fence_excl
  cpc, cVer, cCount, cI, cList, cF, cNew,        \* copy_fences locals
  cNull,      \* the copy read src->fence_excl as NULL
  wpc, wAll, wStart, wExcl, wSeq, wVer, wCount, wI, wF, wFence, wRet  \* wait locals

hostVars == <<refcnt, born, signaled, deps, lists, cur, excl, seq>>
copyVars == <<dst, dstExcl, cpc, cVer, cCount, cI, cList, cF, cNew, cNull>>
waitVars == <<wpc, wAll, wStart, wExcl, wSeq, wVer, wCount, wI, wF, wFence, wRet>>
vars == <<hostVars, copyVars, waitVars>>

-----------------------------------------------------------------------------
(* Host writers, modelled from the reservation_object interface this code  *)
(* consumes.  Fences follow the dma-buf ordering rules: a shared fence    *)
(* signals after the exclusive fence it was added behind and after the    *)
(* fence of its context it replaces; an exclusive fence signals after     *)
(* every fence it replaces.                                               *)

\* The shared fences visible through list v: shared[0 .. shared_count-1].
Shared(v) == IF v = 0 THEN {} ELSE {lists[v].arr[j] : j \in 1 .. lists[v].cnt}
Held == Shared(cur) \cup ({excl} \ {NoFence})

Put(S) == [g \in AllFences |-> IF g \in S THEN refcnt[g] - 1 ELSE refcnt[g]]

\* A fence is attached with two references: the reservation's and its
\* producer's, which the producer drops when it signals the fence.
\* reservation_object_reserve_shared + add_shared_fence: a fence of the
\* same context is replaced, else f is appended; in place while the list
\* has room, else into a new list of twice the size published instead.
AddSharedFence(f) ==
  LET l     == IF cur = 0 THEN [arr |-> <<>>, cnt |-> 0, max |-> 0] ELSE lists[cur]
      same  == {j \in 1 .. l.cnt : Ctx[l.arr[j]] = Ctx[f]}
      slot  == IF same = {} THEN l.cnt + 1 ELSE CHOOSE j \in same : TRUE
      old   == IF same = {} THEN {} ELSE {l.arr[slot]}
      arr   == [j \in 1 .. Max({Len(l.arr), slot}) |->
                  IF j = slot THEN f ELSE l.arr[j]]
      new   == [arr |-> arr, cnt |-> Max({l.cnt, slot}), max |-> l.max]
  IN
  /\ ~born[f]
  /\ \/ /\ cur /= 0 /\ l.cnt < l.max
        /\ lists' = [lists EXCEPT ![cur] = new]
        /\ UNCHANGED cur
     \/ /\ (cur = 0 \/ l.cnt = l.max) /\ cur < MaxVer
        /\ lists' = [lists EXCEPT ![cur + 1] =
                       [new EXCEPT !.max = IF cur = 0 THEN Cap0 ELSE 2 * l.max]]
        /\ cur' = cur + 1
  /\ born' = [born EXCEPT ![f] = TRUE]
  /\ refcnt' = [Put(old) EXCEPT ![f] = 2]
  /\ deps' = [deps EXCEPT ![f] = old \cup ({excl} \ {NoFence})]
  /\ seq' = seq + 1
  /\ UNCHANGED <<signaled, excl, copyVars, waitVars>>

\* reservation_object_add_excl_fence: shared_count = 0 in place (the array
\* keeps its stale pointers), the old fences are put.
AddExclFence(f) ==
  /\ ~born[f]
  /\ excl' = f
  /\ lists' = IF cur = 0 THEN lists ELSE [lists EXCEPT ![cur].cnt = 0]
  /\ born' = [born EXCEPT ![f] = TRUE]
  /\ refcnt' = [Put(Held) EXCEPT ![f] = 2]
  /\ deps' = [deps EXCEPT ![f] = Held]
  /\ seq' = seq + 1
  /\ UNCHANGED <<signaled, cur, copyVars, waitVars>>

\* The fence's producer signals it once what it waits for has signaled,
\* and drops the reference it kept until then.
Signal(f) ==
  /\ born[f] /\ ~signaled[f]
  /\ \A g \in deps[f] : signaled[g]
  /\ signaled' = [signaled EXCEPT ![f] = TRUE]
  /\ refcnt' = [refcnt EXCEPT ![f] = @ - 1]
  /\ UNCHANGED <<born, deps, lists, cur, excl, seq, copyVars, waitVars>>

-----------------------------------------------------------------------------
(* _kcl_reservation_object_copy_fences(dst, src)                           *)

\* rcu_read_lock; src_list = rcu_dereference(src->fence)
CopyBegin ==
  /\ CopyOn /\ cpc = "idle"
  /\ cVer' = cur
  /\ cpc' = "retry"
  /\ UNCHANGED <<hostVars, dst, dstExcl, cCount, cI, cList, cF, cNew, cNull, waitVars>>

\* retry: shared_count of the list read last, rcu_read_unlock; a NULL list
\* goes straight to the exclusive fence with dst_list = NULL.
CopyRetry ==
  /\ cpc = "retry"
  /\ IF cVer = 0
     THEN cpc' = "excl" /\ UNCHANGED cCount
     ELSE cpc' = "alloc" /\ cCount' = lists[cVer].cnt
  /\ UNCHANGED <<hostVars, dst, dstExcl, cVer, cI, cList, cF, cNew, cNull, waitVars>>

\* kmalloc(size) (or -ENOMEM); rcu_read_lock; re-read src->fence; retry if
\* it is NULL or has grown, else start copying into dst_list.
CopyAlloc ==
  /\ cpc = "alloc"
  /\ \/ cpc' = "done" /\ UNCHANGED <<cVer, cI>>
     \/ /\ cVer' = cur
        /\ IF cur = 0 \/ lists[cur].cnt > cCount
           THEN cpc' = "retry" /\ UNCHANGED cI
           ELSE cpc' = "copy" /\ cI' = 1
  /\ UNCHANGED <<hostVars, dst, dstExcl, cCount, cList, cF, cNew, cNull, waitVars>>

\* The head of the copy loop, with src_list->shared_count re-read on every
\* turn: past the end, on to the exclusive fence; a fence whose signaled
\* bit is set is skipped; else its reference is to be taken.
CopyTest ==
  LET f == lists[cVer].arr[cI] IN
  /\ cpc = "copy"
  /\ IF cI > lists[cVer].cnt
     THEN cpc' = "excl" /\ UNCHANGED <<cI, cF>>
     ELSE IF signaled[f]
     THEN cI' = cI + 1 /\ UNCHANGED <<cpc, cF>>
     ELSE cF' = f /\ cpc' = "get" /\ UNCHANGED cI
  /\ UNCHANGED <<hostVars, dst, dstExcl, cVer, cCount, cList, cNew, cNull, waitVars>>

\* Mutant: the fence stored in dst_list without dma_fence_get_rcu.
CopyGetNoRef ==
  /\ cpc = "get"
  /\ IF refcnt[cF] = 0
     THEN cList' = <<>> /\ cVer' = cur /\ cpc' = "retry" /\ UNCHANGED cI
     ELSE cList' = Append(cList, cF) /\ cI' = cI + 1 /\ cpc' = "copy" /\ UNCHANGED cVer
  /\ cF' = NoFence
  /\ UNCHANGED <<hostVars, dst, dstExcl, cCount, cNew, cNull, waitVars>>

\* dma_fence_get_rcu: on a zero kref, kfree(dst_list), re-read src->fence
\* and retry (the references already in dst_list are not put); a fence
\* that signaled meanwhile is put again and skipped; else it is stored at
\* dst_list->shared[shared_count++].
CopyGet ==
  /\ cpc = "get"
  /\ IF refcnt[cF] = 0
     THEN /\ cList' = <<>> /\ cVer' = cur /\ cpc' = "retry"
          /\ UNCHANGED <<refcnt, cI>>
     ELSE IF signaled[cF]
     THEN cI' = cI + 1 /\ cpc' = "copy" /\ UNCHANGED <<refcnt, cList, cVer>>
     ELSE /\ refcnt' = [refcnt EXCEPT ![cF] = @ + 1]
          /\ cList' = Append(cList, cF)
          /\ cI' = cI + 1 /\ cpc' = "copy"
          /\ UNCHANGED cVer
  /\ cF' = NoFence
  /\ UNCHANGED <<born, signaled, deps, lists, cur, excl, seq, dst, dstExcl,
                 cCount, cNew, cNull, waitVars>>

\* new = kcl_fence_get_rcu_safe(&src->fence_excl): fence =
\* rcu_dereference(*fencep); NULL is returned as is.
CopyExclRead ==
  /\ cpc = "excl"
  /\ IF excl = NoFence
     THEN cNew' = NoFence /\ cNull' = TRUE /\ cpc' = "install" /\ UNCHANGED cF
     ELSE cF' = excl /\ cpc' = "exclget" /\ UNCHANGED <<cNew, cNull>>
  /\ UNCHANGED <<hostVars, dst, dstExcl, cVer, cCount, cI, cList, waitVars>>

\* The rest of the loop of _kcl_fence_get_rcu_safe: a failed fence_get_rcu
\* returns NULL; a fence still in *fencep is returned; else it is put and
\* the pointer read again.  rcu_read_unlock.
CopyExclGet ==
  /\ cpc = "exclget"
  /\ IF refcnt[cF] = 0
     THEN cNew' = NoFence /\ cpc' = "install" /\ UNCHANGED refcnt
     ELSE IF excl = cF
     THEN /\ refcnt' = [refcnt EXCEPT ![cF] = @ + 1]
          /\ cNew' = cF /\ cpc' = "install"
     ELSE cpc' = "excl" /\ UNCHANGED <<refcnt, cNew>>
  /\ cF' = NoFence
  /\ UNCHANGED <<born, signaled, deps, lists, cur, excl, seq, dst, dstExcl,
                 cVer, cCount, cI, cList, cNull, waitVars>>

\* Publish dst_list and new in dst; kfree_rcu the old dst list (its fences
\* are not put); dma_fence_put the old exclusive fence.
CopyInstall ==
  /\ cpc = "install"
  /\ dst' = Range(cList)
  /\ dstExcl' = cNew
  /\ refcnt' = Put({dstExcl} \ {NoFence})
  /\ cList' = <<>> /\ cNew' = NoFence
  /\ cpc' = "done"
  /\ UNCHANGED <<born, signaled, deps, lists, cur, excl, seq, cVer, cCount,
                 cI, cF, cNull, waitVars>>

-----------------------------------------------------------------------------
(* _kcl_reservation_object_wait_timeout_rcu(obj, wait_all, false, timeout) *)
(* (built for kernels before 4.10), as amdgpu_mn_invalidate_node calls it. *)

\* _kcl_fence_default_wait(f, false, t), the fence_ops wait of these
\* fences: ret = t ? t : 1 when the fence is already signaled; else 0 at
\* once for t = 0, or a sleep on a callback that ends when the fence
\* signals (what is left, at least 1) or the time runs out (0, also when
\* the signal races the last jiffy).  A fence that signals during the
\* sleep is a Signal step before this one.
DefaultWait(f, t) ==
  IF ~signaled[f] THEN {0} ELSE IF t = 0 THEN {1} ELSE 0 .. t

\* _kcl_fence_wait_timeout: -EINVAL for a negative timeout, else ops->wait.
KclFenceWaitTimeout(f, t) == IF t < 0 THEN {-22} ELSE DefaultWait(f, t)

\* ret = timeout ? timeout : 1.  For the properties only, wStart records
\* the fences pending at the call and wExcl the pending exclusive fence.
WaitBegin ==
  /\ WaitOn /\ wpc = "idle"
  /\ \E all \in BOOLEAN : wAll' = all
  /\ wStart' = {f \in Held : ~signaled[f]}
  /\ wExcl' = IF excl /= NoFence /\ ~signaled[excl] THEN excl ELSE NoFence
  /\ wRet' = Timeout
  /\ wpc' = "retry"
  /\ UNCHANGED <<hostVars, copyVars, wSeq, wVer, wCount, wI, wF, wFence>>

\* Mutant: the retry starts the wait over with the full timeout.
WaitExclResetRet ==
  /\ wpc = "retry"
  /\ wSeq' = seq /\ wCount' = 0 /\ wRet' = Timeout
  /\ IF excl /= NoFence /\ ~signaled[excl]
     THEN wF' = excl /\ wpc' = "getx"
     ELSE wpc' = (IF wAll THEN "shared" ELSE "done") /\ UNCHANGED wF
  /\ UNCHANGED <<hostVars, copyVars, wAll, wStart, wExcl, wVer, wI, wFence>>

\* retry: shared_count = 0; seq = read_seqcount_begin; rcu_read_lock;
\* fence = obj->fence_excl.  One whose signaled bit is clear is to be
\* taken; else the shared list follows for wait_all, and the call returns
\* ret otherwise.
WaitExcl ==
  /\ wpc = "retry"
  /\ wSeq' = seq /\ wCount' = 0
  /\ IF excl /= NoFence /\ ~signaled[excl]
     THEN wF' = excl /\ wpc' = "getx"
     ELSE wpc' = (IF wAll THEN "shared" ELSE "done") /\ UNCHANGED wF
  /\ UNCHANGED <<hostVars, copyVars, wAll, wStart, wExcl, wVer, wI, wFence, wRet>>

\* dma_fence_get_rcu(fence) fails: unlock_retry.  A fence that signaled
\* meanwhile is put, fence = NULL, and the shared list follows for
\* wait_all.  Else the exclusive fence is waited for.
WaitGetExcl ==
  /\ wpc = "getx"
  /\ IF refcnt[wF] = 0
     THEN wpc' = "retry" /\ UNCHANGED <<refcnt, wFence>>
     ELSE IF signaled[wF]
     THEN wpc' = (IF wAll THEN "shared" ELSE "done") /\ UNCHANGED <<refcnt, wFence>>
     ELSE /\ refcnt' = [refcnt EXCEPT ![wF] = @ + 1]
          /\ wFence' = wF /\ wpc' = "wait"
  /\ wF' = NoFence
  /\ UNCHANGED <<born, signaled, deps, lists, cur, excl, seq, copyVars, wAll,
                 wStart, wExcl, wSeq, wVer, wCount, wI, wRet>>

\* fobj = rcu_dereference(obj->fence); shared_count = fobj->shared_count;
\* read_seqcount_retry.
WaitShared ==
  /\ wpc = "shared"
  /\ wVer' = cur
  /\ wCount' = IF cur = 0 THEN 0 ELSE lists[cur].cnt
  /\ IF seq /= wSeq
     THEN wpc' = "retry" /\ UNCHANGED wI
     ELSE wpc' = "loop" /\ wI' = 1
  /\ UNCHANGED <<hostVars, copyVars, wAll, wStart, wExcl, wSeq, wF, wFence, wRet>>

\* The head of the loop over fobj->shared[0 .. shared_count-1]: the loop
\* ending returns ret; a fence whose signaled bit is set is skipped; else
\* it is to be taken.
WaitLoop ==
  LET f == lists[wVer].arr[wI] IN
  /\ wpc = "loop"
  /\ IF wI > wCount
     THEN wpc' = "done" /\ UNCHANGED <<wI, wF>>
     ELSE IF signaled[f]
     THEN wI' = wI + 1 /\ UNCHANGED <<wpc, wF>>
     ELSE wF' = f /\ wpc' = "get" /\ UNCHANGED wI
  /\ UNCHANGED <<hostVars, copyVars, wAll, wStart, wExcl, wSeq, wVer, wCount,
                 wFence, wRet>>

\* Mutant: the shared fence waited for without taking a reference.
WaitGetNoRef ==
  /\ wpc = "get"
  /\ IF refcnt[wF] = 0
     THEN wpc' = "retry" /\ UNCHANGED <<wI, wFence>>
     ELSE IF signaled[wF]
     THEN wI' = wI + 1 /\ wpc' = "loop" /\ UNCHANGED wFence
     ELSE wFence' = wF /\ wpc' = "wait" /\ UNCHANGED wI
  /\ wF' = NoFence
  /\ UNCHANGED <<hostVars, copyVars, wAll, wStart, wExcl, wSeq, wVer, wCount, wRet>>

\* fence_get_rcu(lfence) fails: unlock_retry; a fence that signaled
\* meanwhile is put and skipped; else it is waited for (break).
WaitGet ==
  /\ wpc = "get"
  /\ IF refcnt[wF] = 0
     THEN wpc' = "retry" /\ UNCHANGED <<refcnt, wI, wFence>>
     ELSE IF signaled[wF]
     THEN wI' = wI + 1 /\ wpc' = "loop" /\ UNCHANGED <<refcnt, wFence>>
     ELSE /\ refcnt' = [refcnt EXCEPT ![wF] = @ + 1]
          /\ wFence' = wF /\ wpc' = "wait"
          /\ UNCHANGED wI
  /\ wF' = NoFence
  /\ UNCHANGED <<born, signaled, deps, lists, cur, excl, seq, copyVars, wAll,
                 wStart, wExcl, wSeq, wVer, wCount, wRet>>

\* Mutant: the retry test takes a timed-out wait (ret 0) for a success.
WaitFenceRetryOnZero ==
  /\ wpc = "wait"
  /\ \E r \in KclFenceWaitTimeout(wFence, wRet) :
       /\ wRet' = r
       /\ wpc' = IF r >= 0 /\ wAll /\ wI < wCount THEN "retry" ELSE "done"
  /\ refcnt' = [refcnt EXCEPT ![wFence] = @ - 1]
  /\ wFence' = NoFence
  /\ UNCHANGED <<born, signaled, deps, lists, cur, excl, seq, copyVars, wAll,
                 wStart, wExcl, wSeq, wVer, wCount, wI, wF>>

\* Mutant: the result of the wait is not looked at; a timeout counts as
\* the fence having signaled.
WaitFenceIgnoreTimeout ==
  /\ wpc = "wait"
  /\ wpc' = IF wAll /\ wI < wCount THEN "retry" ELSE "done"
  /\ refcnt' = [refcnt EXCEPT ![wFence] = @ - 1]
  /\ wFence' = NoFence
  /\ UNCHANGED <<born, signaled, deps, lists, cur, excl, seq, copyVars, wAll,
                 wStart, wExcl, wSeq, wVer, wCount, wI, wF, wRet>>

\* rcu_read_unlock; ret = kcl_fence_wait_timeout(fence, false, ret);
\* fence_put; retry when a shared fence was waited for and fences follow
\* it (i + 1 < shared_count; shared_count is 0 after the exclusive one).
WaitFence ==
  /\ wpc = "wait"
  /\ \E r \in KclFenceWaitTimeout(wFence, wRet) :
       /\ wRet' = r
       /\ wpc' = IF r > 0 /\ wAll /\ wI < wCount THEN "retry" ELSE "done"
  /\ refcnt' = [refcnt EXCEPT ![wFence] = @ - 1]
  /\ wFence' = NoFence
  /\ UNCHANGED <<born, signaled, deps, lists, cur, excl, seq, copyVars, wAll,
                 wStart, wExcl, wSeq, wVer, wCount, wI, wF>>

-----------------------------------------------------------------------------

Init ==
  /\ refcnt = [f \in AllFences |-> IF f \in DstInit THEN 2 ELSE 0]
  /\ born = [f \in AllFences |-> f \in DstInit]
  /\ signaled = [f \in AllFences |-> FALSE]
  /\ deps = [f \in AllFences |-> {}]
  /\ lists = [v \in Ver |-> [arr |-> <<>>, cnt |-> 0, max |-> 0]]
  /\ cur = 0 /\ excl = NoFence /\ seq = 0
  /\ dst = DstInit /\ dstExcl = NoFence
  /\ cpc = "idle" /\ cVer = 0 /\ cCount = 0 /\ cI = 1 /\ cList = <<>> /\ cF = NoFence
  /\ cNew = NoFence /\ cNull = FALSE
  /\ wpc = "idle" /\ wAll = FALSE /\ wStart = {} /\ wExcl = NoFence /\ wSeq = 0 /\ wVer = 0
  /\ wCount = 0 /\ wI = 1 /\ wF = NoFence /\ wFence = NoFence /\ wRet = Timeout

Done == (cpc = "done" \/ ~CopyOn) /\ (wpc = "done" \/ ~WaitOn)

CopyStep == CopyBegin \/ CopyRetry \/ CopyAlloc \/ CopyTest \/ CopyGet
            \/ CopyExclRead \/ CopyExclGet \/ CopyInstall
WaitStep == WaitBegin \/ WaitExcl \/ WaitGetExcl \/ WaitShared \/ WaitLoop
            \/ WaitGet \/ WaitFence

Next ==
  \/ \E f \in Fences : AddSharedFence(f) \/ AddExclFence(f)
  \/ \E f \in AllFences : Signal(f)
  \/ CopyStep
  \/ WaitStep
  \/ Done /\ UNCHANGED vars

\* The readers never block for good (the one sleep, in default_wait, has a
\* timeout), so a reader that can step eventually does.  The host writers
\* and the fences' producers get no fairness: they may stop at any point.
Spec == Init /\ [][Next]_vars /\ WF_vars(CopyStep) /\ WF_vars(WaitStep)

-----------------------------------------------------------------------------
(* Properties                                                              *)

\* The references to f that some holder owns: its producer until it
\* signals, the published shared list, the exclusive slot, dst's list and
\* slot, the copy's unpublished list and new, and the fence the wait holds.
Holders(f) ==
  (IF born[f] /\ ~signaled[f] THEN 1 ELSE 0) +
  (IF f \in Shared(cur) THEN 1 ELSE 0) + (IF f = excl THEN 1 ELSE 0)
  + (IF f \in dst THEN 1 ELSE 0) + (IF f = dstExcl THEN 1 ELSE 0)
  + Len(SelectSeq(cList, LAMBDA g : g = f))
  + (IF f = cNew THEN 1 ELSE 0) + (IF f = wFence THEN 1 ELSE 0)

TypeOK ==
  /\ refcnt \in [AllFences -> Nat]
  /\ cur \in 0 .. MaxVer /\ excl \in AllFences \cup {NoFence}
  /\ dst \subseteq AllFences /\ cList \in Seq(AllFences)
  /\ cNew \in AllFences \cup {NoFence} /\ wFence \in AllFences \cup {NoFence}
  /\ wRet \in 0 .. Timeout
  /\ {cF, wF} \subseteq AllFences \cup {NoFence}

\* No fence is freed while referenced: whatever the interleaving of the
\* host's writers with the lock-free copy_fences and wait_timeout_rcu, a
\* fence's kref is at least the number of references held to it
\* (dma_fence_get_rcu failing on a zero kref is what keeps the readers off
\* a fence being freed).
RefcountsCover == \A f \in AllFences : born[f] => refcnt[f] >= Holders(f)

\* Every reference taken is given back: a fence's kref is exactly the
\* number of its holders, in particular after copy_fences retries
\* (kcl_reservation.c:163) and after it replaces dst's list (:197).
RefcountsExact == \A f \in AllFences : born[f] => refcnt[f] = Holders(f)

\* copy_fences never writes past the dst_list it allocated: the fences it
\* stores number at most the shared_max (the shared_count read before
\* kmalloc) the list was sized for.
CopyWithinBounds == Len(cList) <= cCount

\* kcl_fence_get_rcu_safe returns NULL only for a NULL pointer: the copy
\* installs no exclusive fence in dst only if it found src's exclusive
\* slot empty (a host writer never empties it once set).
ExclDroppedOnlyIfNone == (cpc = "install" /\ cNew = NoFence) => cNull

\* Whatever the writers do meanwhile, wait_timeout_rcu returns a positive
\* remaining time only once the exclusive fence pending at the call has
\* signaled (a writer replacing it adds one that signals after it).
WaitExclComplete ==
  (wpc = "done" /\ wRet > 0 /\ wExcl /= NoFence) => signaled[wExcl]

\* With wait_all, as amdgpu_mn_invalidate_node calls it, wait_timeout_rcu
\* returns a positive remaining time only once every fence pending at the
\* call, shared or exclusive, has signaled.
WaitComplete ==
  (wpc = "done" /\ wAll /\ wRet > 0) => \A f \in wStart : signaled[f]

\* Both calls return: however the writers change src meanwhile (a bounded
\* number of times), the retries of copy_fences and wait_timeout_rcu,
\* which re-read src's lists each time, end.
ReadersReturn == <>Done

\* A retry of wait_timeout_rcu never gives back time: ret only decreases
\* from one step to the next, so retries together wait at most timeout.
TimeoutNeverGrows == [][wRet' <= wRet]_wRet

=============================================================================
