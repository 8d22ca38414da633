--------------------------- MODULE AmdgpuMnAbstract ---------------------------
(***************************************************************************)
(* What a notifier context promises its users (spec.md 4.2 and 4.3),     *)
(* without nodes, counters or the rw_semaphore.                           *)
(*                                                                         *)
(* A context t tracks a set of BOs.  Tracking changes only under the      *)
(* context's exclusive hold, which a BO thread, a command submitter or    *)
(* the destroy work takes.  A host event i opens a window on a context    *)
(* in one step, and in that step sees exactly the tracked BOs whose user  *)
(* range meets the event's range.  No exclusive hold exists on a context  *)
(* while a window on it is open.                                          *)
(***************************************************************************)
EXTENDS Integers

CONSTANTS
  BOs,          \* buffer objects
  BoRange,      \* BoRange[b] = <<first, last>> of the BO's user range
  Inval,        \* host events
  HostRanges,   \* <<start, end>> ranges, end exclusive
  Types,        \* the contexts of the mm
  Holders,      \* threads that can hold a context exclusively (BOs,
                \* submitters, and each context's destroy work, named by it)
  NoThread      \* no holder

VARIABLES
  tracked,      \* tracked[t]: the BOs context t tracks
  owner,        \* owner[t]: the exclusive holder of t, or NoThread
  range,        \* range[i]: the range event i invalidates
  window,       \* window[i]: the contexts on which i's window is open
  seen          \* seen[i]: the BOs event i has invalidated

avars == <<tracked, owner, range, window, seen>>

\* The BO's user range meets the end-exclusive range r.
Affected(b, r) == BoRange[b][1] <= r[2] - 1 /\ r[1] <= BoRange[b][2]

Open(t) == \E i \in Inval : t \in window[i]

Init ==
  /\ tracked = [t \in Types |-> {}]
  /\ owner = [t \in Types |-> NoThread]
  /\ range = [i \in Inval |-> <<0, 0>>]
  /\ window = [i \in Inval |-> {}]
  /\ seen = [i \in Inval |-> {}]

\* x takes t exclusively: only when no one holds it and no window is open.
Acquire(x, t) ==
  /\ owner[t] = NoThread /\ ~Open(t)
  /\ owner' = [owner EXCEPT ![t] = x]
  /\ UNCHANGED <<tracked, range, window, seen>>

\* The holder leaves t having changed nothing, or having done its one
\* change: a BO adds itself (register) or removes itself (unregister); the
\* context's destroy work, named by the context, drops every BO.
Release(t) ==
  /\ owner[t] /= NoThread
  /\ \/ owner[t] \in BOs /\ tracked' = [tracked EXCEPT ![t] = @ \cup {owner[t]}]
     \/ owner[t] \in tracked[t] /\ tracked' = [tracked EXCEPT ![t] = @ \ {owner[t]}]
     \/ owner[t] = t /\ tracked' = [tracked EXCEPT ![t] = {}]
     \/ UNCHANGED tracked
  /\ owner' = [owner EXCEPT ![t] = NoThread]
  /\ UNCHANGED <<range, window, seen>>

\* Event i is delivered for a range.
Deliver(i) ==
  /\ window[i] = {} /\ seen[i] = {}
  /\ \E r \in HostRanges : range' = [range EXCEPT ![i] = r]
  /\ UNCHANGED <<tracked, owner, window, seen>>

\* i opens its window on t and invalidates exactly the affected BOs of t.
OpenWindow(i, t) ==
  /\ t \notin window[i] /\ owner[t] = NoThread
  /\ window' = [window EXCEPT ![i] = @ \cup {t}]
  /\ seen' = [seen EXCEPT ![i] = @ \cup {b \in tracked[t] : Affected(b, range[i])}]
  /\ UNCHANGED <<tracked, owner, range>>

CloseWindow(i, t) ==
  /\ t \in window[i]
  /\ window' = [window EXCEPT ![i] = @ \ {t}]
  /\ UNCHANGED <<tracked, owner, range, seen>>

Next ==
  \/ \E x \in Holders, t \in Types : Acquire(x, t)
  \/ \E t \in Types : Release(t)
  \/ \E i \in Inval : Deliver(i)
  \/ \E i \in Inval, t \in Types : OpenWindow(i, t) \/ CloseWindow(i, t)

Spec == Init /\ [][Next]_avars

=============================================================================
