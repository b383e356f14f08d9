----------------------------- MODULE EventQueue -----------------------------
(***************************************************************************)
(* What the queue of util/ordered-events.c promises: it holds events until *)
(* they are flushed, hands out the one with the lowest timestamp first,    *)
(* and events of the same timestamp in the order they were queued.         *)
(***************************************************************************)
EXTENDS Integers, Sequences

CONSTANT Times        \* the timestamps an event may have

VARIABLES
  pending,            \* the queued events, as <<timestamp, serial number>>
  serials,            \* events queued so far
  delivered           \* the serial numbers handed out, in order

queue_vars == <<pending, serials, delivered>>

Before(a, b) == a[1] < b[1] \/ (a[1] = b[1] /\ a[2] < b[2])

IsFirst(e) == e \in pending /\ \A f \in pending \ {e} : Before(e, f)

QueueInit == pending = {} /\ serials = 0 /\ delivered = <<>>

Queue(ts) ==
  /\ pending' = pending \cup {<<ts, serials + 1>>}
  /\ serials' = serials + 1
  /\ UNCHANGED delivered

Deliver(e) ==
  /\ IsFirst(e)
  /\ pending' = pending \ {e}
  /\ delivered' = Append(delivered, e[2])
  /\ UNCHANGED serials

\* ordered_events__free: what is still queued is given up.
Discard == pending' = {} /\ UNCHANGED <<serials, delivered>>

QueueNext ==
  \/ \E ts \in Times : Queue(ts)
  \/ \E e \in pending : Deliver(e)
  \/ Discard

QueueSpec == QueueInit /\ [][QueueNext]_queue_vars
=============================================================================
