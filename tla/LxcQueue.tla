------------------------------ MODULE LxcQueue ------------------------------
(***************************************************************************)
(* The task queue of liblxcd (lxcqueue.cpp): clients add tasks, a detached *)
(* worker created by start() runs them and calls back, and stop() lets the *)
(* worker end when the queue is drained.  The queue is a linked list with  *)
(* a head and a tail, guarded by one mutex and one condition variable.     *)
(* A task or its call back may itself add a task or stop the queue: both   *)
(* run outside the lock.  The node of a task is named by the task, for a   *)
(* task is added once: the worker deletes it.                              *)
(***************************************************************************)
EXTENDS Naturals, FiniteSets, Sequences

CONSTANTS
  Tasks,      \* the Task objects
  Clients,    \* threads that call addTask and stop
  Workers,    \* the threads start() creates, one per call
  NoTask,     \* the null pointer
  Free        \* nobody holds the mutex

ASSUME QueueAssumption ==
  /\ NoTask \notin Tasks /\ Free \notin Clients \cup Workers
  /\ Clients \cap Workers = {} /\ IsFiniteSet(Tasks)

VARIABLES
  head, tail, next,   \* the linked list Queue<Task*>
  added,              \* tasks a caller created
  mutex,              \* _mutex: its holder
  stopped,            \* LxcQueue.stopped
  cpc,                \* where a caller is in addTask or stop
  arg,                \* the task a caller adds
  wpc,                \* where a worker is in run()
  task,               \* local variable of run()
  done                \* tasks whose call back returned, in that order

callerVars == <<cpc, arg, added>>
listVars == <<head, tail, next>>
workerVars == <<wpc, task, done>>
vars == <<head, tail, next, added, mutex, stopped, cpc, arg, wpc, task, done>>

Callers == Clients \cup Workers
CallerPcs == {"out", "addLock", "enqueue", "stopLock", "setStop", "signal"}
WorkerPcs == {"new", "lock", "test", "waiting", "run", "callback", "exited"}

isEmpty == head = NoTask

-----------------------------------------------------------------------------
Init ==
  /\ head = NoTask /\ tail = NoTask /\ next = [x \in Tasks |-> NoTask]
  /\ added = {} /\ mutex = Free /\ stopped = FALSE
  /\ cpc = [c \in Callers |-> "out"] /\ arg = [c \in Callers |-> NoTask]
  /\ wpc = [w \in Workers |-> "new"] /\ task = [w \in Workers |-> NoTask]
  /\ done = <<>>

-----------------------------------------------------------------------------
(* addTask and stop.                                                       *)

(* A client calls at any time, a worker from the task it runs or from its  *)
(* call back.                                                              *)
MayCall(c) ==
  /\ cpc[c] = "out"
  /\ c \in Workers => wpc[c] \in {"run", "callback"}

CallAdd(c, x) ==
  /\ MayCall(c) /\ x \in Tasks \ added
  /\ cpc' = [cpc EXCEPT ![c] = "addLock"]
  /\ arg' = [arg EXCEPT ![c] = x] /\ added' = added \cup {x}
  /\ UNCHANGED <<listVars, mutex, stopped, workerVars>>

(* Bound: a task does not stop a queue that is stopped, over and over.     *)
CallStop(c) ==
  /\ MayCall(c) /\ (c \in Workers => ~stopped)
  /\ cpc' = [cpc EXCEPT ![c] = "stopLock"]
  /\ UNCHANGED <<listVars, added, arg, mutex, stopped, workerVars>>

(* pthread_mutex_lock in either.                                           *)
CallerLock(c) ==
  /\ mutex = Free /\ mutex' = c
  /\ \/ cpc[c] = "addLock" /\ cpc' = [cpc EXCEPT ![c] = "enqueue"]
     \/ cpc[c] = "stopLock" /\ cpc' = [cpc EXCEPT ![c] = "setStop"]
  /\ UNCHANGED <<listVars, added, arg, stopped, workerVars>>

(* Slips: enqueue at the head; tail is not moved; no signal.               *)
EnqueueFirst(c) ==
  /\ cpc[c] = "enqueue" /\ cpc' = [cpc EXCEPT ![c] = "signal"]
  /\ next' = [next EXCEPT ![arg[c]] = head] /\ head' = arg[c]
  /\ tail' = IF tail = NoTask THEN arg[c] ELSE tail
  /\ UNCHANGED <<added, arg, mutex, stopped, workerVars>>

EnqueueKeepsTail(c) ==
  /\ cpc[c] = "enqueue" /\ cpc' = [cpc EXCEPT ![c] = "signal"]
  /\ next' = IF tail = NoTask THEN next ELSE [next EXCEPT ![tail] = arg[c]]
  /\ tail' = IF tail = NoTask THEN arg[c] ELSE tail
  /\ head' = IF isEmpty THEN arg[c] ELSE head
  /\ UNCHANGED <<added, arg, mutex, stopped, workerVars>>

EnqueueSilent(c) ==
  /\ cpc[c] = "enqueue" /\ cpc' = [cpc EXCEPT ![c] = "out"] /\ mutex' = Free
  /\ next' = IF tail = NoTask THEN next ELSE [next EXCEPT ![tail] = arg[c]]
  /\ tail' = arg[c] /\ head' = IF isEmpty THEN arg[c] ELSE head
  /\ UNCHANGED <<added, arg, stopped, workerVars>>

(* Queue::enqueue links a new node behind tail.                            *)
Enqueue(c) ==
  /\ cpc[c] = "enqueue" /\ cpc' = [cpc EXCEPT ![c] = "signal"]
  /\ next' = IF tail = NoTask THEN next ELSE [next EXCEPT ![tail] = arg[c]]
  /\ tail' = arg[c]
  /\ head' = IF isEmpty THEN arg[c] ELSE head
  /\ UNCHANGED <<added, arg, mutex, stopped, workerVars>>

(* Slip: stop() does not signal.                                           *)
SetStopSilent(c) ==
  /\ cpc[c] = "setStop" /\ cpc' = [cpc EXCEPT ![c] = "out"]
  /\ stopped' = TRUE /\ mutex' = Free
  /\ UNCHANGED <<listVars, added, arg, workerVars>>

SetStop(c) ==
  /\ cpc[c] = "setStop" /\ cpc' = [cpc EXCEPT ![c] = "signal"]
  /\ stopped' = TRUE
  /\ UNCHANGED <<listVars, added, arg, mutex, workerVars>>

Waiting == {w \in Workers : wpc[w] = "waiting"}

(* pthread_cond_signal wakes one waiter, if there is one; a woken worker   *)
(* takes the mutex and tests again.  The caller unlocks and returns.       *)
Signal(c) ==
  /\ cpc[c] = "signal" /\ cpc' = [cpc EXCEPT ![c] = "out"]
  /\ arg' = [arg EXCEPT ![c] = NoTask] /\ mutex' = Free
  /\ \/ Waiting = {} /\ UNCHANGED wpc
     \/ \E w \in Waiting : wpc' = [wpc EXCEPT ![w] = "lock"]
  /\ UNCHANGED <<listVars, added, stopped, task, done>>

Caller(c) == CallerLock(c) \/ Enqueue(c) \/ SetStop(c) \/ Signal(c)

-----------------------------------------------------------------------------
(* start and run.                                                          *)

Start(w) ==
  /\ wpc[w] = "new" /\ wpc' = [wpc EXCEPT ![w] = "lock"]
  /\ UNCHANGED <<listVars, callerVars, mutex, stopped, task, done>>

Lock(w) ==
  /\ wpc[w] = "lock" /\ mutex = Free
  /\ mutex' = w /\ wpc' = [wpc EXCEPT ![w] = "test"]
  /\ UNCHANGED <<listVars, callerVars, stopped, task, done>>

(* Slip: the worker sleeps with the mutex.                                 *)
WaitHolding(w) ==
  /\ wpc[w] = "test" /\ isEmpty /\ ~stopped
  /\ wpc' = [wpc EXCEPT ![w] = "waiting"]
  /\ UNCHANGED <<listVars, callerVars, mutex, stopped, task, done>>

(* pthread_cond_wait releases the mutex.                                   *)
Wait(w) ==
  /\ wpc[w] = "test" /\ isEmpty /\ ~stopped
  /\ mutex' = Free /\ wpc' = [wpc EXCEPT ![w] = "waiting"]
  /\ UNCHANGED <<listVars, callerVars, stopped, task, done>>

(* A condition variable may wake without a signal.                         *)
SpuriousWakeup(w) ==
  /\ wpc[w] = "waiting" /\ wpc' = [wpc EXCEPT ![w] = "lock"]
  /\ UNCHANGED <<listVars, callerVars, mutex, stopped, task, done>>

(* Slip: the worker ends with tasks in the list.                           *)
ExitRunEarly(w) ==
  /\ wpc[w] = "test" /\ stopped
  /\ mutex' = Free /\ wpc' = [wpc EXCEPT ![w] = "exited"]
  /\ UNCHANGED <<listVars, callerVars, stopped, task, done>>

ExitRun(w) ==
  /\ wpc[w] = "test" /\ isEmpty /\ stopped
  /\ mutex' = Free /\ wpc' = [wpc EXCEPT ![w] = "exited"]
  /\ UNCHANGED <<listVars, callerVars, stopped, task, done>>

(* Slip: tail is not reset with the last node.                             *)
DequeueKeepsTail(w) ==
  /\ wpc[w] = "test" /\ ~isEmpty
  /\ task' = [task EXCEPT ![w] = head]
  /\ head' = next[head]
  /\ next' = [next EXCEPT ![head] = NoTask]
  /\ mutex' = Free /\ wpc' = [wpc EXCEPT ![w] = "run"]
  /\ UNCHANGED <<callerVars, tail, stopped, done>>

(* Queue::dequeue unlinks the head; the last one resets tail.              *)
Dequeue(w) ==
  /\ wpc[w] = "test" /\ ~isEmpty
  /\ task' = [task EXCEPT ![w] = head]
  /\ head' = next[head]
  /\ tail' = IF head' = NoTask THEN NoTask ELSE tail
  /\ next' = [next EXCEPT ![head] = NoTask]
  /\ mutex' = Free /\ wpc' = [wpc EXCEPT ![w] = "run"]
  /\ UNCHANGED <<callerVars, stopped, done>>

RunTask(w) ==
  /\ wpc[w] = "run" /\ cpc[w] = "out" /\ wpc' = [wpc EXCEPT ![w] = "callback"]
  /\ UNCHANGED <<listVars, callerVars, mutex, stopped, task, done>>

(* invokeCallback returns and the task is deleted.                         *)
InvokeCallback(w) ==
  /\ wpc[w] = "callback" /\ cpc[w] = "out"
  /\ done' = Append(done, task[w]) /\ task' = [task EXCEPT ![w] = NoTask]
  /\ wpc' = [wpc EXCEPT ![w] = "lock"]
  /\ UNCHANGED <<listVars, callerVars, mutex, stopped>>

Run(w) ==
  \/ Lock(w) \/ Wait(w) \/ ExitRun(w) \/ Dequeue(w) \/ RunTask(w) \/ InvokeCallback(w)

Next ==
  \/ \E c \in Callers : (\E x \in Tasks : CallAdd(c, x)) \/ CallStop(c) \/ Caller(c)
  \/ \E w \in Workers : Start(w) \/ Run(w) \/ SpuriousWakeup(w)

Spec == Init /\ [][Next]_vars

(* The threads are scheduled, the mutex lets every waiter in some day, and *)
(* a task ends.  Nobody has to call the queue or to start it, and a wakeup *)
(* without a signal is never owed.                                         *)
Fairness ==
  /\ \A c \in Callers : SF_vars(CallerLock(c)) /\ WF_vars(Enqueue(c) \/ SetStop(c) \/ Signal(c))
  /\ \A w \in Workers : SF_vars(Lock(w)) /\ WF_vars(Run(w))

FairSpec == Spec /\ Fairness

-----------------------------------------------------------------------------
(* The type of every variable. *)
TypeOK ==
  /\ head \in Tasks \cup {NoTask} /\ tail \in Tasks \cup {NoTask}
  /\ next \in [Tasks -> Tasks \cup {NoTask}] /\ added \subseteq Tasks
  /\ mutex \in Callers \cup {Free} /\ stopped \in BOOLEAN
  /\ cpc \in [Callers -> CallerPcs] /\ arg \in [Callers -> Tasks \cup {NoTask}]
  /\ wpc \in [Workers -> WorkerPcs] /\ task \in [Workers -> Tasks \cup {NoTask}]
  /\ done \in Seq(Tasks)
  /\ \A c \in Callers : cpc[c] \in {"addLock", "enqueue"} => arg[c] # NoTask
  /\ \A w \in Workers : wpc[w] \in {"run", "callback"} <=> task[w] # NoTask
  /\ head = NoTask <=> tail = NoTask

InSection(t) ==
  \/ cpc[t] \in {"enqueue", "setStop", "signal"}
  \/ t \in Workers /\ wpc[t] = "test"

(* The list and the stop flag are only touched by the holder of the mutex, *)
(* and nobody returns or waits with it: who holds it is in a section.      *)
MutexInv == \A t \in Callers : InSection(t) <=> mutex = t

Started(w) == wpc[w] \notin {"new", "exited"}
Awake(w) == Started(w) /\ wpc[w] # "waiting"

(* A waiting worker is not forgotten: while a task is in the list, another *)
(* worker is on its way to the list or a signal is still to come.          *)
TaskSeen == ~isEmpty /\ Waiting # {} =>
  (\E w \in Workers : Awake(w)) \/ (\E c \in Callers : cpc[c] = "signal")

(* The same of the stop flag, of which the single signal of stop() tells   *)
(* only one worker: it holds of a queue that was started once.             *)
StopSeen == stopped /\ Waiting # {} =>
  (\E w \in Workers : Awake(w)) \/ (\E c \in Callers : cpc[c] = "signal")

(* The nodes from head on, a function on 1..n, and the tasks they hold.    *)
Node[i \in Nat] ==
  IF i <= 1 THEN head ELSE LET p == Node[i - 1] IN IF p = NoTask THEN NoTask ELSE next[p]
Contents == [i \in 1..Cardinality({j \in 1..Cardinality(Tasks) : Node[j] # NoTask}) |-> Node[i]]

(* The linked list is well formed: it ends at tail, no node comes twice    *)
(* (no cycle), and the node of a task that is running or done is unlinked. *)
ListOK ==
  /\ Contents = <<>> \/ (Contents[Len(Contents)] = tail /\ next[tail] = NoTask)
  /\ \A i, j \in 1..Len(Contents) : Contents[i] = Contents[j] => i = j
  /\ \A i \in 1..Len(Contents) : \A w \in Workers : task[w] # Contents[i]
  /\ \A i \in 1..Len(Contents), j \in 1..Len(done) : done[j] # Contents[i]

(* The queue runs its tasks as FifoRunner promises.                        *)
Fifo == INSTANCE FifoRunner WITH
  pending <- Contents, busy <- task, closed <- stopped,
  left <- {w \in Workers : wpc[w] = "exited"}
RunsInOrder == Fifo!Spec

InList(x) == \E i \in 1..Len(Contents) : Contents[i] = x
Done(x) == \E i \in 1..Len(done) : done[i] = x

(* A task in the list of a started queue is run, although stop() may come  *)
(* between: it is drained first.                                           *)
TaskRuns == \A x \in Tasks :
  InList(x) /\ (\E w \in Workers : Started(w)) ~> Done(x)

(* After stop() a started worker ends.                                     *)
StopEnds == \A w \in Workers : stopped /\ Started(w) ~> wpc[w] = "exited"

=============================================================================
