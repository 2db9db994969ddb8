----------------------------- MODULE FifoRunner -----------------------------
(* What LxcQueue promises: tasks begin in the order they were submitted,    *)
(* each begins once and finishes once, and a worker leaves only when the    *)
(* runner is closed and no task is left to begin.                           *)
EXTENDS Naturals, Sequences

CONSTANTS Tasks, Workers, NoTask

VARIABLES pending,  \* tasks submitted and not begun, oldest first
          busy,     \* the task each worker is at
          done,     \* finished tasks, in the order they finished
          closed,   \* no more tasks will come
          left      \* the workers that ended

vars == <<pending, busy, done, closed, left>>

Init ==
  /\ pending = <<>> /\ busy = [w \in Workers |-> NoTask] /\ done = <<>>
  /\ closed = FALSE /\ left = {}

Submit(x) ==
  /\ pending' = Append(pending, x)
  /\ UNCHANGED <<busy, done, closed, left>>

Begin(w) ==
  /\ w \notin left /\ busy[w] = NoTask /\ pending # <<>>
  /\ busy' = [busy EXCEPT ![w] = Head(pending)]
  /\ pending' = Tail(pending)
  /\ UNCHANGED <<done, closed, left>>

Finish(w) ==
  /\ busy[w] # NoTask
  /\ done' = Append(done, busy[w])
  /\ busy' = [busy EXCEPT ![w] = NoTask]
  /\ UNCHANGED <<pending, closed, left>>

Close == closed' = TRUE /\ UNCHANGED <<pending, busy, done, left>>

Leave(w) ==
  /\ closed /\ pending = <<>> /\ busy[w] = NoTask
  /\ left' = left \cup {w}
  /\ UNCHANGED <<pending, busy, done, closed>>

Next ==
  \/ \E x \in Tasks : Submit(x)
  \/ Close
  \/ \E w \in Workers : Begin(w) \/ Finish(w) \/ Leave(w)

Spec == Init /\ [][Next]_vars
=============================================================================
