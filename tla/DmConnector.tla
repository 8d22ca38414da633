---------------------------- MODULE DmConnector -----------------------------
(***************************************************************************)
(* The connector side of the display manager (kcl_dm.c), composed with    *)
(* the page-flip and commit model of DmPageFlip: the dc_sink objects of   *)
(* one connector, their reference counts, and the three threads that      *)
(* change them besides the atomic commit:                                 *)
(*   - the hotplug handlers handle_hpd_irq / handle_hpd_rx_irq (hpd_lock): *)
(*     dc_link_detect, amdgpu_dm_update_connector_after_detect, then      *)
(*     dm_restore_drm_connector_state under drm_modeset_lock_all;         *)
(*   - system suspend/resume: dm_suspend, then amdgpu_dm_display_resume   *)
(*     (detection with dc_sink = NULL, then dm_display_resume's commit);  *)
(*   - the commit's create_stream_for_sink, which takes a reference on    *)
(*     aconnector->dc_sink for the new stream, and remove_stream, whose   *)
(*     dc_stream_release drops it.                                        *)
(* A sink is a number: EM (0) is the emulated sink of a forced connector  *)
(* (create_eml_sink), 1..MaxSinks the sinks dc_link_detect creates.      *)
(***************************************************************************)
EXTENDS DmPageFlip

CONSTANTS
    Forced,     \* connector->force /= DRM_FORCE_UNSPECIFIED and dc_em_sink set
    MaxSinks    \* bound on the sinks dc_link_detect creates

EM == 0
NoSink == -1
SinkIds == 0..MaxSinks

VARIABLES
    localSink,     \* dc_link->local_sink
    dcSink,        \* aconnector->dc_sink
    streamSink,    \* the sink of acrtc->stream
    newSink,       \* the sink of a stream created and not yet installed
    sinkRef,       \* dc_sink refcount of every sink
    nextSink,      \* the next sink dc_link_detect creates
    hpc,           \* hotplug handler: "idle", "detected", "updated", "restoreOn"
    rpc,           \* resume: "idle", "suspended", "detected", "display", "commit"
    sinkUaf,       \* history: a sink was used after its last reference went
    resumeAborted  \* history: dm_display_resume returned without a commit

connVars == <<localSink, dcSink, streamSink, newSink, sinkRef, nextSink, hpc,
              rpc, sinkUaf, resumeAborted>>
allVars == <<vars, connVars>>

(* The sinks that exist or existed, and those whose count reached zero. *)
Created == (IF Forced THEN {EM} ELSE {}) \cup 1..(nextSink - 1)
Freed(s) == s \in Created /\ sinkRef[s] <= 0

(* Add d to the refcounts; using a freed sink is recorded. *)
SinkStep(d, used) ==
    /\ sinkRef' = [t \in SinkIds |-> sinkRef[t] + d[t]]
    /\ sinkUaf' = (sinkUaf \/ \E s \in used : Freed(s))

Retain(s) == [t \in SinkIds |-> IF t = s THEN 1 ELSE 0]
Release(s) == [t \in SinkIds |-> IF t = s THEN -1 ELSE 0]
Swap(new, old) == [t \in SinkIds |-> Retain(new)[t] + Release(old)[t]]

(* Boot with a display connected and a mode set: the link and the stream *)
(* hold sink 1; create_eml_sink gave a forced connector its emulated      *)
(* sink and, the link having a sink, dc_sink = local_sink.                *)
ConnInit ==
    /\ Init
    /\ localSink = 1 /\ dcSink = 1 /\ streamSink = 1 /\ newSink = NoSink
    /\ sinkRef = [s \in SinkIds |-> CASE s = 1 -> 2
                                      [] s = EM -> IF Forced THEN 1 ELSE 0
                                      [] OTHER -> 0]
    /\ nextSink = 2
    /\ hpc = "idle" /\ rpc = "idle"
    /\ sinkUaf = FALSE /\ resumeAborted = FALSE

-----------------------------------------------------------------------------
(* The host's dc_link_detect: the link drops its reference to its old     *)
(* local sink and finds no sink, the same sink, or a new sink (ref 1).    *)
DcLinkDetect ==
    \/ /\ localSink' = NoSink
       /\ SinkStep(Release(localSink), {localSink})
       /\ UNCHANGED nextSink
    \/ /\ localSink /= NoSink
       /\ UNCHANGED <<localSink, sinkRef, nextSink, sinkUaf>>
    \/ /\ nextSink <= MaxSinks
       /\ localSink' = nextSink
       /\ nextSink' = nextSink + 1
       /\ SinkStep(Swap(nextSink, localSink), {localSink})

UpdateReleasingOld(cur) ==
    IF cur \notin {NoSink, localSink}
      THEN dcSink' = localSink /\ SinkStep(Release(cur), {cur})
      ELSE dcSink' = localSink /\ UNCHANGED <<sinkRef, sinkUaf>>

(* amdgpu_dm_update_connector_after_detect, dc_sink being cur on entry.   *)
(* Forced: a found sink replaces dc_sink, releasing the old one unless it *)
(* is the emulated sink; with none, dc_sink becomes the emulated sink if  *)
(* it was NULL, else is retained.  Otherwise dc_sink is simply the link's *)
(* sink (the short-pulse return is the case where they are already equal)*)
UpdateConnectorAfterDetect(cur) ==
    IF Forced
      THEN CASE localSink /= NoSink /\ cur \in {NoSink, EM} ->
                  dcSink' = localSink /\ UNCHANGED <<sinkRef, sinkUaf>>
             [] localSink /= NoSink ->
                  dcSink' = localSink /\ SinkStep(Release(cur), {cur})
             [] cur = NoSink ->
                  dcSink' = EM /\ UNCHANGED <<sinkRef, sinkUaf>>
             [] cur = EM ->
                  dcSink' = EM /\ UNCHANGED <<sinkRef, sinkUaf>>
             [] OTHER ->
                  dcSink' = cur /\ SinkStep(Retain(cur), {cur})
      ELSE dcSink' = localSink /\ UNCHANGED <<sinkRef, sinkUaf>>

(* create_stream_for_sink: dc_create_stream_for_sink(aconnector->dc_sink) *)
(* returns NULL for a NULL sink, else a stream holding a sink reference.  *)
CreateStreamForSink(created) ==
    IF created
      THEN /\ dcSink /= NoSink
           /\ newSink' = dcSink
           /\ SinkStep(Retain(dcSink), {dcSink})
      ELSE UNCHANGED <<newSink, sinkRef, sinkUaf>>

(* The modeset locks: DmPageFlip's holders, a restore and a resume commit.*)
ConnLocked == Locked \/ hpc = "restoreOn" \/ rpc = "commit"

-----------------------------------------------------------------------------
(* A page-flip step that leaves the connector alone. *)
Alone(A) == A /\ UNCHANGED connVars

(* User space is frozen from dm_suspend until resume has finished: flip   *)
(* ioctls and commits start only when no resume is in progress.           *)
ConnFlipVblankGet(f) == rpc = "idle" /\ Alone(FlipVblankGet(f))

ConnFlipPlanes(f) == ~ConnLocked /\ Alone(FlipPlanes(f))

ConnCommitBegin == rpc = "idle" /\ ~ConnLocked /\ Alone(CommitBegin)

(* modeset_required: create_stream_for_sink; a NULL stream breaks out. *)
ConnCommitCrtc ==
    /\ CommitCrtc
    /\ CreateStreamForSink(mop = "set" /\ mpc' = "remove")
    /\ UNCHANGED <<localSink, dcSink, streamSink, nextSink, hpc, rpc,
                   resumeAborted>>

(* remove_stream: dc_stream_release drops the stream's sink reference. *)
ConnRemoveStream ==
    /\ RemoveStream
    /\ IF stream
         THEN /\ streamSink' = NoSink
              /\ SinkStep(Release(streamSink), {streamSink})
         ELSE UNCHANGED <<streamSink, sinkRef, sinkUaf>>
    /\ UNCHANGED <<localSink, dcSink, newSink, nextSink, hpc, rpc, resumeAborted>>

ConnInstallStream ==
    /\ InstallStream
    /\ streamSink' = newSink
    /\ newSink' = NoSink
    /\ UNCHANGED <<localSink, dcSink, sinkRef, nextSink, hpc, rpc, sinkUaf,
                   resumeAborted>>

-----------------------------------------------------------------------------
(* handle_hpd_irq: under hpd_lock, dc_link_detect.  The HPD interrupt is  *)
(* enabled again only by amdgpu_dm_irq_resume_late.                       *)
HandleHpdIrq ==
    /\ hpc = "idle" /\ rpc = "idle"
    /\ DcLinkDetect
    /\ hpc' = "detected"
    /\ UNCHANGED <<vars, dcSink, streamSink, newSink, rpc, resumeAborted>>

(* handle_hpd_rx_irq: when dc_link_handle_hpd_rx_irq reports a downstream *)
(* change, the same detection under hpd_lock.  amdgpu_dm_irq_resume_early *)
(* enables it before resume's own detection.                              *)
HandleHpdRxIrq ==
    /\ hpc = "idle" /\ rpc /= "suspended"
    /\ DcLinkDetect
    /\ hpc' = "detected"
    /\ UNCHANGED <<vars, dcSink, streamSink, newSink, rpc, resumeAborted>>

(* The handler's amdgpu_dm_update_connector_after_detect. *)
UpdateAfterDetect ==
    /\ hpc = "detected"
    /\ UpdateConnectorAfterDetect(dcSink)
    /\ hpc' = "updated"
    /\ UNCHANGED <<vars, localSink, streamSink, newSink, nextSink, rpc,
                   resumeAborted>>

(* drm_modeset_lock_all, then dm_restore_drm_connector_state: it returns  *)
(* unless dc_sink is set, the CRTC has a stream and that stream's sink is *)
(* not dc_sink; then it creates a stream for dc_sink and turns the CRTC's *)
(* interrupts off (manage_dm_interrupts(false)).                          *)
RestoreOff ==
    /\ hpc = "updated"
    /\ ~ConnLocked
    /\ IF dcSink /= NoSink /\ stream /\ streamSink /= dcSink
         THEN /\ hpc' = "restoreOn"
              /\ CreateStreamForSink(TRUE)
              /\ ManageDmInterrupts(FALSE)
         ELSE /\ hpc' = "idle"
              /\ UNCHANGED <<newSink, sinkRef, sinkUaf, irqRef, vblankOn>>
    /\ UNCHANGED <<pflip_status, eventOwed, stream, otg_inst, active, vblankRef,
                   hwFlip, work, wstream, fpc, mpc, mop, newCrtc, premature,
                   localSink, dcSink, streamSink, nextSink, rpc, resumeAborted>>

RestoreOnNoRelease ==
    /\ hpc = "restoreOn"
    /\ hpc' = "idle"
    /\ ManageDmInterrupts(TRUE)
    /\ streamSink' = newSink
    /\ newSink' = NoSink
    /\ hwFlip' = TRUE
    /\ UNCHANGED <<sinkRef, sinkUaf, wstream, otg_inst, premature>>
    /\ UNCHANGED <<pflip_status, eventOwed, stream, active, vblankRef,
                   work, fpc, mpc, mop, newCrtc, localSink, dcSink, nextSink,
                   rpc, resumeAborted>>

(* The new stream replaces acrtc->stream and dc_commit_streams runs.  On  *)
(* failure the new stream is released and the old one put back; else the *)
(* old stream is released, otg_inst read back, dm_dc_plane_state_commit   *)
(* writes the surface address (it does not wait for a PENDING flip), and  *)
(* the hardware raises the pageflip interrupt for it.  Either             *)
(* way manage_dm_interrupts(true), and the locks are dropped.             *)
RestoreOn ==
    /\ hpc = "restoreOn"
    /\ hpc' = "idle"
    /\ ManageDmInterrupts(TRUE)
    /\ newSink' = NoSink
    /\ \/ /\ streamSink' = newSink
          /\ SinkStep(Release(streamSink), {streamSink})
          /\ wstream' = IF wstream = "cur" THEN "stale" ELSE wstream
          /\ otg_inst' = 0
          /\ premature' = (premature \/ PflipPending)
          /\ hwFlip' = TRUE
       \/ /\ SinkStep(Release(newSink), {newSink})
          /\ UNCHANGED <<streamSink, wstream, otg_inst, premature, hwFlip>>
    /\ UNCHANGED <<pflip_status, eventOwed, stream, active, vblankRef,
                   work, fpc, mpc, mop, newCrtc, localSink, dcSink, nextSink,
                   rpc, resumeAborted>>

-----------------------------------------------------------------------------
(* dm_suspend, with the flip machinery quiet and no hotplug handler in    *)
(* flight: drm_crtc_vblank_off for a CRTC with a stream (the pageflip irq *)
(* reference is kept), amdgpu_dm_irq_suspend, then D3.                   *)
DmSuspend ==
    /\ rpc = "idle" /\ hpc = "idle"
    /\ ~ConnLocked
    /\ \A f \in Flippers : fpc[f] = "idle"
    /\ pflip_status = "NONE" /\ work = "none" /\ ~hwFlip
    /\ vblankOn' = IF stream THEN FALSE ELSE vblankOn
    /\ rpc' = "suspended"
    /\ UNCHANGED <<pflip_status, eventOwed, stream, otg_inst, active, irqRef,
                   vblankRef, hwFlip, work, wstream, fpc, mpc, mop, newCrtc,
                   premature, localSink, dcSink, streamSink, newSink, sinkRef,
                   nextSink, hpc, sinkUaf, resumeAborted>>

(* dm_resume (D0), then amdgpu_dm_display_resume: HPD RX enabled early,   *)
(* dc_link_detect and aconnector->dc_sink = NULL, without the hpd_lock.   *)
ResumeDetect ==
    /\ rpc = "suspended"
    /\ DcLinkDetect
    /\ dcSink' = NoSink
    /\ rpc' = "detected"
    /\ UNCHANGED <<vars, streamSink, newSink, hpc, resumeAborted>>

ResumeUpdate ==
    /\ rpc = "detected"
    /\ UpdateConnectorAfterDetect(dcSink)
    /\ rpc' = "display"
    /\ UNCHANGED <<vars, localSink, streamSink, newSink, nextSink, hpc,
                   resumeAborted>>

(* drm_modeset_lock_all, then dm_display_resume: an allocation or state   *)
(* error, an active CRTC's plane without a framebuffer ("return 0") or a  *)
(* failed pin return before the commit; otherwise drm_atomic_commit with  *)
(* mode_changed forced on the CRTC (a set if active, else a reset).       *)
DmDisplayResume ==
    /\ rpc = "display"
    /\ ~ConnLocked
    /\ \/ /\ rpc' = "commit"
          /\ mpc' = "crtc"
          /\ mop' = IF active THEN "set" ELSE "reset"
          /\ newCrtc' = FALSE
          /\ UNCHANGED resumeAborted
       \/ /\ rpc' = "idle"
          /\ resumeAborted' = TRUE
          /\ UNCHANGED <<mpc, mop, newCrtc>>
    /\ UNCHANGED <<pflip_status, eventOwed, stream, otg_inst, active, irqRef,
                   vblankOn, vblankRef, hwFlip, work, wstream, fpc, premature,
                   localSink, dcSink, streamSink, newSink, sinkRef, nextSink,
                   hpc, sinkUaf>>

(* After the commit: drm_crtc_vblank_on for a CRTC with a stream, unlock, *)
(* amdgpu_dm_irq_resume_late.                                             *)
ResumeVblankOn ==
    /\ rpc = "commit"
    /\ mpc = "idle"
    /\ vblankOn' = IF stream THEN TRUE ELSE vblankOn
    /\ rpc' = "idle"
    /\ UNCHANGED <<pflip_status, eventOwed, stream, otg_inst, active, irqRef,
                   vblankRef, hwFlip, work, wstream, fpc, mpc, mop, newCrtc,
                   premature, localSink, dcSink, streamSink, newSink, sinkRef,
                   nextSink, hpc, sinkUaf, resumeAborted>>

-----------------------------------------------------------------------------
ConnNext ==
    \/ \E f \in Flippers :
         ConnFlipVblankGet(f) \/ ConnFlipPlanes(f) \/ Alone(FlipCommit(f))
    \/ Alone(FlipWorkRead) \/ Alone(FlipWorkSubmit)
    \/ Alone(PflipIrq) \/ Alone(IrqMasked) \/ Alone(HwNoIrq)
    \/ ConnCommitBegin \/ ConnCommitCrtc \/ ConnRemoveStream \/ ConnInstallStream
    \/ Alone(CommitStreams) \/ Alone(CommitPlanes) \/ Alone(CommitEnable)
    \/ HandleHpdIrq \/ HandleHpdRxIrq \/ UpdateAfterDetect
    \/ RestoreOff \/ RestoreOn
    \/ DmSuspend \/ ResumeDetect \/ ResumeUpdate \/ DmDisplayResume
    \/ ResumeVblankOn

(* DmPageFlip's fairness, and a hotplug handler or a resume that has      *)
(* started runs on.  Plugging, suspending and user calls are not fair.    *)
ConnFairness ==
    /\ \A f \in Flippers : WF_allVars(ConnFlipPlanes(f))
                           /\ WF_allVars(Alone(FlipCommit(f)))
    /\ WF_allVars(Alone(FlipWorkRead)) /\ WF_allVars(Alone(FlipWorkSubmit))
    /\ WF_allVars(Alone(PflipIrq)) /\ WF_allVars(Alone(IrqMasked))
    /\ WF_allVars(ConnCommitCrtc) /\ WF_allVars(ConnRemoveStream)
    /\ WF_allVars(ConnInstallStream) /\ WF_allVars(Alone(CommitStreams))
    /\ WF_allVars(Alone(CommitPlanes)) /\ WF_allVars(Alone(CommitEnable))
    /\ WF_allVars(UpdateAfterDetect) /\ WF_allVars(RestoreOff)
    /\ WF_allVars(RestoreOn) /\ WF_allVars(ResumeDetect)
    /\ WF_allVars(ResumeUpdate) /\ WF_allVars(DmDisplayResume)
    /\ WF_allVars(ResumeVblankOn)

ConnSpec == ConnInit /\ [][ConnNext]_allVars /\ ConnFairness

-----------------------------------------------------------------------------
ConnTypeOK ==
    /\ localSink \in {NoSink} \cup 1..MaxSinks
    /\ {dcSink, streamSink, newSink} \subseteq {NoSink} \cup SinkIds
    /\ sinkRef \in [SinkIds -> Nat]
    /\ nextSink \in 2..(MaxSinks + 1)
    /\ hpc \in {"idle", "detected", "updated", "restoreOn"}
    /\ rpc \in {"idle", "suspended", "detected", "display", "commit"}
    /\ sinkUaf \in BOOLEAN /\ resumeAborted \in BOOLEAN

(* The references that should hold a sink: the link's local_sink, the    *)
(* CRTC's stream, a stream created and not yet installed, the emulated    *)
(* sink's own, and, on a forced connector, the retain that keeps dc_sink  *)
(* alive after the link let go of it.                                     *)
Holders(s) ==
    (IF localSink = s THEN 1 ELSE 0) + (IF streamSink = s THEN 1 ELSE 0)
      + (IF newSink = s THEN 1 ELSE 0) + (IF Forced /\ s = EM THEN 1 ELSE 0)
      + (IF Forced /\ dcSink = s /\ s \notin {localSink, EM} THEN 1 ELSE 0)

(* Outside a detect-to-update window, every sink's dc_sink refcount is    *)
(* exactly the number of its holders: dc_link_detect, create_stream_for_  *)
(* sink, remove_stream, the headless restore (which swaps streams and may *)
(* fail) and the resume path balance their retains and releases.          *)
SinkRefsExact ==
    hpc /= "detected" /\ rpc /= "detected" =>
        \A s \in Created : sinkRef[s] = Holders(s)

(* DmPageFlip's IrqFollowsStream, now also across a headless restore and a*)
(* suspend/resume cycle: when no modeset lock holder is mid-way, the irq  *)
(* reference and vblank follow the stream, unless dm_display_resume left  *)
(* before its commit.                                                     *)
ConnIrqFollowsStream ==
    ~resumeAborted /\ hpc /= "restoreOn" /\ rpc = "idle" => IrqFollowsStream

(* No sink is retained, released or given to a stream after its last     *)
(* reference was dropped (dc_sink_release frees it at zero).              *)
SinkNeverUsedFreed == ~sinkUaf

(* After resume, when dm_display_resume and the commits are done, vblank  *)
(* is on again on a CRTC with a stream (dm_suspend's comment: "They will  *)
(* be enabled back in dm_display_resume").                                *)
VblankBackAfterResume ==
    hpc /= "restoreOn" /\ rpc = "idle" /\ mpc = "idle" => vblankOn = stream
=============================================================================
