----------------------------- MODULE DmPageFlip -----------------------------
(***************************************************************************)
(* The page-flip protocol of one CRTC of the display manager              *)
(* (src/amd/display/kcl_dm/kcl_dm.c) and the atomic commits that race it.  *)
(*                                                                         *)
(* acrtc->pflip_status goes NONE -> PENDING (the flip ioctl's commit, in   *)
(* the host's amdgpu_crtc_page_flip), PENDING -> SUBMITTED (the host's     *)
(* flip work, once the fences signal, calls dm_page_flip under event_lock) *)
(* and SUBMITTED -> NONE (dm_pflip_high_irq, when the hardware reports the *)
(* flip done).  A modeset commit removes the stream only after             *)
(* wait_while_pflip_status, a polling loop that gives up after 1000 polls. *)
(*                                                                         *)
(* Actors: the flip ioctls (Flippers), the one modeset-commit thread (it  *)
(* holds the modeset locks, so flip ioctls wait for it), the flip work    *)
(* item, the page-flip interrupt and, as a fault, hardware that never     *)
(* raises the interrupt (the PHY PLL case of the comment at line 4314).   *)
(***************************************************************************)
EXTENDS Integers, FiniteSets

CONSTANTS
    Flippers,    \* threads in amdgpu_atomic_helper_page_flip
    HwCanHang    \* whether a programmed flip may never raise its interrupt

Status == {"NONE", "PENDING", "SUBMITTED"}   \* enum amdgpu_flip_status
Ops == {"set", "reset", "planes"}            \* modeset, mode reset, plane update

VARIABLES
    pflip_status, \* acrtc->pflip_status
    eventOwed,    \* acrtc->pflip_works holds an event not yet sent
    stream,       \* acrtc->stream /= NULL
    otg_inst,     \* acrtc->otg_inst: 0, or -1 once the stream is removed
    active,       \* crtc->state->active of the committed drm state
    irqRef,       \* amdgpu_irq_get/put count on this CRTC's pageflip_irq
    vblankOn,     \* drm_crtc_vblank_on/off
    vblankRef,    \* drm_crtc_vblank_get/put count
    hwFlip,       \* a flip is programmed and its interrupt outstanding
    work,         \* the flip work item: "none", "queued", "read"
    wstream,      \* dm_page_flip's local stream: "none", "cur", "stale"
    fpc,          \* flip ioctl of each flipper: "idle", "vblank", "locked"
    mpc,          \* modeset commit: "idle", "crtc", "remove", "install",
                  \* "streams", "planes", "enable"
    mop,          \* what the current commit does (Ops)
    newCrtc,      \* the commit put this CRTC in new_crtcs[]
    premature     \* history: a surface was committed while a flip PENDING

vars == <<pflip_status, eventOwed, stream, otg_inst, active, irqRef, vblankOn,
          vblankRef, hwFlip, work, wstream, fpc, mpc, mop, newCrtc, premature>>

crtcVars == <<stream, otg_inst, active, irqRef, vblankOn>>

Init ==
    /\ pflip_status = "NONE"
    /\ eventOwed = FALSE
    /\ stream = TRUE
    /\ otg_inst = 0
    /\ active = TRUE
    /\ irqRef = 1
    /\ vblankOn = TRUE
    /\ vblankRef = 0
    /\ hwFlip = FALSE
    /\ work = "none"
    /\ wstream = "none"
    /\ fpc = [f \in Flippers |-> "idle"]
    /\ mpc = "idle"
    /\ mop = "planes"
    /\ newCrtc = FALSE
    /\ premature = FALSE

-----------------------------------------------------------------------------
(* wait_while_pflip_status: polls while busy; when count reaches 1000 it  *)
(* does WARN_ON and breaks.  Within the model either may come first.      *)
WaitWhilePflipStatus(busy) ==
    \/ ~busy    \* the predicate turned false
    \/ busy     \* count == 1000: give up with the predicate still true

(* pflip_in_progress_predicate and pflip_pending_predicate *)
PflipInProgress == pflip_status /= "NONE"

PflipPending == pflip_status = "PENDING"

(* manage_dm_interrupts: on is vblank on and irq get; off waits while a   *)
(* flip is in progress, then irq put and vblank off.                      *)
ManageDmInterrupts(enable) ==
    IF enable
      THEN vblankOn' = TRUE /\ irqRef' = irqRef + 1
      ELSE /\ WaitWhilePflipStatus(PflipInProgress)
           /\ irqRef' = irqRef - 1
           /\ vblankOn' = FALSE

(* dc_commit_plane_states for a plane it commits: wait while the flip is  *)
(* PENDING, then dm_dc_plane_state_commit writes the plane's address; the *)
(* hardware latches it and raises the pageflip interrupt, as for a flip.  *)
SurfaceCommit ==
    /\ WaitWhilePflipStatus(PflipPending)
    /\ premature' = (premature \/ PflipPending)
    /\ hwFlip' = (hwFlip \/ stream)

(* page_flip_needed(.., true) for the flip ioctl's plane: FALSE when the  *)
(* new framebuffer's tiling flags differ from the old one's, or when      *)
(* get_fb_info's interruptible amdgpu_bo_reserve fails.                   *)
PageFlipNeeded == BOOLEAN

(* page_flip_needed(.., false): the tiling flags are not compared, so it  *)
(* is FALSE only when get_fb_info's amdgpu_bo_reserve is interrupted.     *)
PageFlipNeededAtCommit == BOOLEAN

(* drm_crtc_vblank_get's count is unbounded; the model caps it one above  *)
(* what the ioctls in flight and one owed event can hold.                 *)
MaxVblankRef == Cardinality(Flippers) + 2

(* The modeset locks are held by a commit or by a flip ioctl. *)
Locked == mpc /= "idle" \/ \E g \in Flippers : fpc[g] = "locked"

(* get_crtc_by_otg_inst: the CRTC whose otg_inst is the interrupt's source *)
CrtcByOtg(src) == otg_inst = src

-----------------------------------------------------------------------------
(* amdgpu_atomic_helper_page_flip, up to drm_crtc_vblank_get.  A get on a  *)
(* CRTC whose vblank is off fails and the ioctl returns: no state change.  *)
FlipVblankGet(f) ==
    /\ fpc[f] = "idle"
    /\ vblankOn
    /\ vblankRef < MaxVblankRef
    /\ vblankRef' = vblankRef + 1
    /\ fpc' = [fpc EXCEPT ![f] = "vblank"]
    /\ UNCHANGED <<pflip_status, eventOwed, crtcVars, hwFlip, work, wstream,
                   mpc, mop, newCrtc, premature>>

(* The host's amdgpu_crtc_page_flip: -EBUSY unless the CRTC is idle, else *)
(* PENDING with the work (and its event) queued for the fences.           *)
AmdgpuCrtcPageFlip ==
    pflip_status = "NONE"

(* amdgpu_atomic_helper_page_flip takes the modeset locks; an inactive    *)
(* CRTC is -EINVAL (vblank put).  Its nonblocking amdgpu_dm_atomic_commit *)
(* then runs dc_commit_plane_states, where page_flip_needed(.., true) is  *)
(* false when the tiling changes: the surface is committed too.           *)
FlipPlanes(f) ==
    /\ fpc[f] = "vblank"
    /\ ~Locked
    /\ IF active
         THEN /\ fpc' = [fpc EXCEPT ![f] = "locked"]
              /\ \E needed \in PageFlipNeeded :
                   IF needed THEN UNCHANGED <<premature, hwFlip>>
                             ELSE SurfaceCommit
              /\ UNCHANGED vblankRef
         ELSE /\ fpc' = [fpc EXCEPT ![f] = "idle"]
              /\ vblankRef' = vblankRef - 1
              /\ UNCHANGED <<premature, hwFlip>>
    /\ UNCHANGED <<pflip_status, eventOwed, crtcVars, work, wstream,
                   mpc, mop, newCrtc>>

(* "Do actual flip" of that commit, and the ioctl's return: when          *)
(* page_flip_needed(.., false) holds, amdgpu_crtc_page_flip; its -EBUSY   *)
(* puts the vblank reference.  When it does not, the commit and the ioctl *)
(* return 0 and nothing takes over the reference or the event.            *)
FlipCommit(f) ==
    /\ fpc[f] = "locked"
    /\ fpc' = [fpc EXCEPT ![f] = "idle"]
    /\ \E needed \in PageFlipNeededAtCommit :
         CASE needed /\ AmdgpuCrtcPageFlip ->
                /\ pflip_status' = "PENDING"
                /\ eventOwed' = TRUE
                /\ work' = "queued"
                /\ UNCHANGED vblankRef
           [] needed ->
                /\ vblankRef' = vblankRef - 1
                /\ UNCHANGED <<pflip_status, eventOwed, work>>
           [] OTHER ->
                UNCHANGED <<vblankRef, pflip_status, eventOwed, work>>
    /\ UNCHANGED <<crtcVars, hwFlip, wstream, mpc, mop, newCrtc, premature>>

(* The host's flip work, once its fences signal, takes event_lock and     *)
(* calls dm_page_flip, which reads acrtc->stream.  remove_stream does not *)
(* take event_lock, so the stream can be released after this read.        *)
FlipWorkRead ==
    /\ work = "queued"
    /\ work' = "read"
    /\ wstream' = IF stream THEN "cur" ELSE "none"
    /\ UNCHANGED <<pflip_status, eventOwed, crtcVars, vblankRef, hwFlip, fpc,
                   mpc, mop, newCrtc, premature>>

(* dm_page_flip returns with a WARN when the stream was NULL, else it     *)
(* programs the flip on that stream (on a released one, the result is     *)
(* undefined); the host then sets SUBMITTED either way.                   *)
FlipWorkSubmit ==
    /\ work = "read"
    /\ work' = "none"
    /\ wstream' = "none"
    /\ pflip_status' = "SUBMITTED"
    /\ \/ wstream = "none" /\ UNCHANGED hwFlip
       \/ wstream = "cur" /\ hwFlip' = TRUE
       \/ wstream = "stale" /\ hwFlip' \in BOOLEAN
    /\ UNCHANGED <<eventOwed, crtcVars, vblankRef, fpc, mpc, mop, newCrtc,
                   premature>>

PflipIrqAnyStatus ==
    /\ hwFlip
    /\ irqRef > 0
    /\ hwFlip' = FALSE
    /\ IF CrtcByOtg(0) /\ pflip_status /= "NONE"
         THEN /\ pflip_status' = "NONE"
              /\ eventOwed' = FALSE
              /\ vblankRef' = vblankRef - 1
         ELSE UNCHANGED <<pflip_status, eventOwed, vblankRef>>
    /\ UNCHANGED <<crtcVars, work, wstream, fpc, mpc, mop, newCrtc, premature>>

(* dm_pflip_high_irq: no CRTC has the source's otg_inst -> return; status *)
(* not SUBMITTED -> return; else NONE, send the event, vblank_put.        *)
PflipIrq ==
    /\ hwFlip
    /\ irqRef > 0
    /\ hwFlip' = FALSE
    /\ IF CrtcByOtg(0) /\ pflip_status = "SUBMITTED"
         THEN /\ pflip_status' = "NONE"
              /\ eventOwed' = FALSE
              /\ vblankRef' = vblankRef - 1
         ELSE UNCHANGED <<pflip_status, eventOwed, vblankRef>>
    /\ UNCHANGED <<crtcVars, work, wstream, fpc, mpc, mop, newCrtc, premature>>

(* The host's amdgpu_irq dispatch drops the interrupt of a disabled source. *)
IrqMasked ==
    /\ hwFlip
    /\ irqRef = 0
    /\ hwFlip' = FALSE
    /\ UNCHANGED <<pflip_status, eventOwed, crtcVars, vblankRef, work, wstream,
                   fpc, mpc, mop, newCrtc, premature>>

(* Fault: the flip completes but no interrupt is generated.               *)
HwNoIrq ==
    /\ HwCanHang
    /\ hwFlip
    /\ hwFlip' = FALSE
    /\ UNCHANGED <<pflip_status, eventOwed, crtcVars, vblankRef, work, wstream,
                   fpc, mpc, mop, newCrtc, premature>>

-----------------------------------------------------------------------------
(* amdgpu_dm_atomic_commit of a blocking commit: it takes the modeset      *)
(* locks and swaps the new state in (crtc_state->active).                  *)
CommitBegin ==
    /\ ~Locked
    /\ \E op \in Ops :
         /\ mop' = op
         /\ active' = CASE op = "set" -> TRUE
                        [] op = "reset" -> FALSE
                        [] op = "planes" -> active
    /\ mpc' = "crtc"
    /\ newCrtc' = FALSE
    /\ UNCHANGED <<pflip_status, eventOwed, stream, otg_inst, irqRef, vblankOn,
                   vblankRef, hwFlip, work, wstream, fpc, premature>>

(* modeset_required: create_stream_for_sink, whose NULL result breaks out *)
(* of the CRTC loop; modereset_required goes straight to remove_stream.   *)
CommitCrtc ==
    /\ mpc = "crtc"
    /\ \/ mop = "set" /\ mpc' \in {"remove", "streams"}
       \/ mop = "reset" /\ mpc' = "remove"
       \/ mop = "planes" /\ mpc' = "streams"
    /\ UNCHANGED <<pflip_status, eventOwed, crtcVars, vblankRef, hwFlip, work,
                   wstream, fpc, mop, newCrtc, premature>>

RemoveStreamUnchecked ==
    /\ mpc = "remove"
    /\ mpc' = IF mop = "set" THEN "install" ELSE "streams"
    /\ ManageDmInterrupts(FALSE)
    /\ stream' = FALSE
    /\ otg_inst' = -1
    /\ wstream' = IF wstream = "cur" THEN "stale" ELSE wstream
    /\ UNCHANGED <<active, pflip_status, eventOwed, vblankRef, hwFlip, work, fpc,
                   mop, newCrtc, premature>>

(* "if (acrtc->stream) remove_stream": manage_dm_interrupts(false) waits  *)
(* while a flip is in progress, puts the pageflip irq and turns vblank    *)
(* off; then the stream is released, NULLed and otg_inst set to -1.       *)
RemoveStream ==
    /\ mpc = "remove"
    /\ mpc' = IF mop = "set" THEN "install" ELSE "streams"
    /\ \/ /\ ~stream
          /\ UNCHANGED <<crtcVars, wstream>>
       \/ /\ stream
          /\ ManageDmInterrupts(FALSE)
          /\ stream' = FALSE
          /\ otg_inst' = -1
          /\ wstream' = IF wstream = "cur" THEN "stale" ELSE wstream
          /\ UNCHANGED active
    /\ UNCHANGED <<pflip_status, eventOwed, vblankRef, hwFlip, work, fpc, mop,
                   newCrtc, premature>>

(* acrtc->stream = new_stream; the CRTC joins new_crtcs[].               *)
InstallStream ==
    /\ mpc = "install"
    /\ mpc' = "streams"
    /\ stream' = TRUE
    /\ newCrtc' = TRUE
    /\ UNCHANGED <<pflip_status, eventOwed, otg_inst, active, irqRef, vblankOn,
                   vblankRef, hwFlip, work, wstream, fpc, mop, premature>>

(* dc_commit_streams, then otg_inst from the status of every stream.      *)
CommitStreams ==
    /\ mpc = "streams"
    /\ mpc' = "planes"
    /\ otg_inst' = IF stream THEN 0 ELSE otg_inst
    /\ UNCHANGED <<pflip_status, eventOwed, stream, active, irqRef, vblankOn,
                   vblankRef, hwFlip, work, wstream, fpc, mop, newCrtc,
                   premature>>

(* dc_commit_plane_states: a plane of an active CRTC that is not flipped  *)
(* is committed after waiting while the flip is PENDING.                  *)
CommitPlanes ==
    /\ mpc = "planes"
    /\ mpc' = "enable"
    /\ IF mop /= "reset" /\ active
         THEN SurfaceCommit
         ELSE UNCHANGED <<premature, hwFlip>>
    /\ UNCHANGED <<pflip_status, eventOwed, crtcVars, vblankRef, work,
                   wstream, fpc, mop, newCrtc>>

CommitEnableAll ==
    /\ mpc = "enable"
    /\ mpc' = "idle"
    /\ IF stream
         THEN vblankOn' = TRUE /\ irqRef' = irqRef + 1
         ELSE UNCHANGED <<vblankOn, irqRef>>
    /\ UNCHANGED <<pflip_status, eventOwed, stream, otg_inst, active, vblankRef,
                   hwFlip, work, wstream, fpc, mop, newCrtc, premature>>

(* manage_dm_interrupts(true) for each CRTC in new_crtcs[] (vblank on,    *)
(* irq get); the commit returns and drops the locks.                      *)
CommitEnable ==
    /\ mpc = "enable"
    /\ mpc' = "idle"
    /\ IF newCrtc
         THEN ManageDmInterrupts(TRUE)
         ELSE UNCHANGED <<vblankOn, irqRef>>
    /\ UNCHANGED <<pflip_status, eventOwed, stream, otg_inst, active, vblankRef,
                   hwFlip, work, wstream, fpc, mop, newCrtc, premature>>

Commit == CommitBegin \/ CommitCrtc \/ RemoveStream \/ InstallStream
            \/ CommitStreams \/ CommitPlanes \/ CommitEnable

Next ==
    \/ \E f \in Flippers : FlipVblankGet(f) \/ FlipPlanes(f) \/ FlipCommit(f)
    \/ FlipWorkRead \/ FlipWorkSubmit
    \/ PflipIrq \/ IrqMasked \/ HwNoIrq
    \/ Commit

(* The flip work runs once its fences signal, an unmasked interrupt is    *)
(* delivered, and a thread that holds a vblank reference or the modeset   *)
(* locks runs on.  Starting a flip or a commit is up to user space.       *)
Fairness ==
    /\ \A f \in Flippers : WF_vars(FlipPlanes(f)) /\ WF_vars(FlipCommit(f))
    /\ WF_vars(FlipWorkRead) /\ WF_vars(FlipWorkSubmit)
    /\ WF_vars(PflipIrq) /\ WF_vars(IrqMasked)
    /\ WF_vars(CommitCrtc) /\ WF_vars(RemoveStream) /\ WF_vars(InstallStream)
    /\ WF_vars(CommitStreams) /\ WF_vars(CommitPlanes) /\ WF_vars(CommitEnable)

Spec == Init /\ [][Next]_vars /\ Fairness

-----------------------------------------------------------------------------
TypeOK ==
    /\ pflip_status \in Status
    /\ eventOwed \in BOOLEAN
    /\ stream \in BOOLEAN /\ active \in BOOLEAN /\ vblankOn \in BOOLEAN
    /\ otg_inst \in {-1, 0}
    /\ irqRef \in Nat /\ vblankRef \in Nat
    /\ hwFlip \in BOOLEAN
    /\ work \in {"none", "queued", "read"}
    /\ wstream \in {"none", "cur", "stale"}
    /\ fpc \in [Flippers -> {"idle", "vblank", "locked"}]
    /\ mpc \in {"idle", "crtc", "remove", "install", "streams", "planes", "enable"}
    /\ mop \in Ops /\ newCrtc \in BOOLEAN /\ premature \in BOOLEAN

(* Every vblank reference taken by drm_crtc_vblank_get in the flip ioctl  *)
(* is held either by an ioctl still on its way to the commit or by the    *)
(* one flip whose event is not yet sent: the -EINVAL/-EBUSY paths and     *)
(* dm_pflip_high_irq each put exactly the reference they inherit, and a   *)
(* successful nonblocking commit hands it to the driver ("Driver takes    *)
(* ownership of state on successful async commit").                       *)
VblankRefsHeld ==
    vblankRef = Cardinality({f \in Flippers : fpc[f] /= "idle"})
                  + (IF eventOwed THEN 1 ELSE 0)

(* Between commits, the pageflip interrupt is enabled (once) and vblank   *)
(* is on exactly when the CRTC has a stream: remove_stream's irq_put and  *)
(* vblank_off are matched by manage_dm_interrupts(true) for new_crtcs[]   *)
(* only, across any sequence of sets, resets and plane updates.           *)
IrqFollowsStream ==
    mpc = "idle" => /\ irqRef = (IF stream THEN 1 ELSE 0)
                    /\ vblankOn = stream

StatusStep ==
    <<pflip_status, pflip_status'>> \in
        {<<"NONE", "PENDING">>, <<"PENDING", "SUBMITTED">>, <<"SUBMITTED", "NONE">>}

(* pflip_status only moves NONE -> PENDING -> SUBMITTED -> NONE: a flip   *)
(* is accepted only on an idle CRTC, and its event is sent only after it  *)
(* was handed to the hardware, although the pageflip interrupt is raised  *)
(* by every address write, also by a surface commit whose wait for the    *)
(* PENDING flip timed out, or by the headless restore that does not wait: *)
(* dm_pflip_high_irq's SUBMITTED check must ignore those.                 *)
StatusSteps ==
    [][StatusStep]_pflip_status

(* Every accepted flip eventually sends its event and frees the CRTC for  *)
(* the next flip.  wait_while_pflip_status's comment concedes the         *)
(* contrary after a timeout until a later mode change writes an address;  *)
(* the property is kept for MCDmPageFlipStuck.cfg, which shows the flip   *)
(* left SUBMITTED when no such mode change comes.                         *)
FlipEventDelivered == eventOwed ~> ~eventOwed

(* dc_commit_plane_states' comment: with a flip PENDING, commit_surface   *)
(* would write out the future address early, so it waits until the flip  *)
(* is submitted.                                                          *)
NoPrematureSurface == ~premature

(* dm_page_flip's comment: nobody may change acrtc->stream between its    *)
(* read and its use by dc_flip_plane_addrs.                               *)
FlipUsesLiveStream == work = "read" => wstream /= "stale"
=============================================================================
