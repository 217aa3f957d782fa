----------------------------- MODULE WorkQueue -----------------------------
(***************************************************************************)
(* The client-go rate limiting work queue, as the message pools of the     *)
(* CloudHub use it (external library).  A queue is a record with           *)
(*   queue       the keys waiting for a worker, in order;                  *)
(*   dirty       the keys that still have to be processed;                 *)
(*   processing  the keys a worker took and has not given back;            *)
(*   delayed     the keys AddRateLimited has not yet added.                *)
(***************************************************************************)
EXTENDS Naturals, Sequences

WQEmpty == [queue |-> << >>, dirty |-> {}, processing |-> {}, delayed |-> {}]

\* Add: a key that is already dirty is not added again; a key some worker
\* holds only becomes dirty, and Done puts it back in the queue.
WQAdd(w, k) ==
  IF k \in w.dirty
  THEN w
  ELSE [w EXCEPT !.dirty = w.dirty \cup {k},
                 !.queue = IF k \in w.processing THEN w.queue
                                                 ELSE Append(w.queue, k)]

\* Get: the worker takes the head of the queue.
WQGet(w) ==
  [w EXCEPT !.queue      = Tail(w.queue),
            !.dirty      = w.dirty \ {Head(w.queue)},
            !.processing = w.processing \cup {Head(w.queue)}]

\* Done: a key that became dirty while it was processed is queued again.
WQDone(w, k) ==
  [w EXCEPT !.processing = w.processing \ {k},
            !.queue = IF k \in w.dirty THEN Append(w.queue, k) ELSE w.queue]

\* AddRateLimited: the key is added after its back-off, by WQRipen.
WQAddRateLimited(w, k) == [w EXCEPT !.delayed = w.delayed \cup {k}]

WQRipen(w, k) == WQAdd([w EXCEPT !.delayed = w.delayed \ {k}], k)

\* The keys somebody will still look at.
WQScheduled(w) == w.dirty \cup w.processing \cup w.delayed

WQType(w, Keys) ==
  w \in [queue: Seq(Keys), dirty: SUBSET Keys,
         processing: SUBSET Keys, delayed: SUBSET Keys]

\* What every use of the queue relies on: the waiting keys are the dirty keys
\* nobody holds, each of them once.
WQSound(w) ==
  /\ \A i \in 1 .. Len(w.queue) : w.queue[i] \in w.dirty \ w.processing
  /\ \A k \in w.dirty \ w.processing :
       \E i \in 1 .. Len(w.queue) : w.queue[i] = k
  /\ \A i, j \in 1 .. Len(w.queue) : w.queue[i] = w.queue[j] => i = j
=============================================================================
