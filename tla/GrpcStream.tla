----------------------------- MODULE GrpcStream -----------------------------
(***************************************************************************)
(* remote/grpc_stream.cc and grpc_completion.cc: one GrpcStream, from      *)
(* Stream::ResumeStartWithCredentials, which makes and starts it, to       *)
(* Stream::Close, which destroys it.                                       *)
(*                                                                         *)
(* Three threads share it.  The worker runs one task after the other: the  *)
(* calls of Stream and the callbacks of completed operations.  gRPC works  *)
(* on the operations it was given.  The poller takes completed operations  *)
(* off the gRPC completion queue, fulfils their promises and then queues   *)
(* their callbacks for the worker.  To end the call the worker waits for   *)
(* these promises, in the middle of a task, while the others go on.        *)
(***************************************************************************)
EXTENDS Naturals, Sequences

CONSTANTS
  MaxWrites,  \* bound: messages the observer writes
  MaxReads    \* bound: messages the server sends

ASSUME GrpcAssumption == MaxWrites \in Nat /\ MaxReads \in Nat

VARIABLES
  stream,        \* the object: "none", "alive" or "destroyed"
  observer,      \* observer_ is set
  registered,    \* the stream is one of GrpcConnection's active_calls_
  buffer,        \* buffered_writer_.queue_
  activeWrite,   \* buffered_writer_.has_active_write_
  completions,   \* completions_, as places in ops
  callFinished,  \* is_grpc_call_finished_
  ops,           \* the operations given to gRPC so far, with their GrpcCompletion
  call,          \* the gRPC call: "idle", "live", "failed" or "cancelled"
  workerQueue,   \* the operations whose Complete has queued its task
  worker,        \* where the worker is in the task it runs, and why it is there
  written,       \* history: how many messages the observer has written
  wire,          \* history: the messages that went out
  arrived,       \* history: how many messages the server has sent
  told,          \* history: the messages the observer was told
  end            \* history: "none", "stopped" by Stream or "notified" to it

writerVars == <<buffer, activeWrite>>

history == <<written, wire, arrived, told, end>>

vars == <<stream, observer, registered, writerVars, completions, callFinished,
          ops, call, workerQueue, worker, history>>

\* "last" is the write of WriteAndFinish, "close" the finish nobody is told of.
OpType == {"read", "write", "last", "finish", "close"}

\* Where an operation is: with gRPC, on its completion queue, taken off by
\* the poller, or handed to the worker.
Place == {"grpc", "completed", "polled", "queued"}

NewOp(type, msg) ==
  [type |-> type, msg |-> msg, at |-> "grpc", ok |-> TRUE, callback |-> TRUE]

\* The promise off_queue_ of the operation is fulfilled.
OffQueue(i) == ops[i].at \in {"polled", "queued"}

Idle == [at |-> "idle", why |-> "task"]

Init ==
  /\ stream = "none"
  /\ observer = TRUE
  /\ registered = FALSE
  /\ buffer = << >>
  /\ activeWrite = FALSE
  /\ completions = {}
  /\ callFinished = FALSE
  /\ ops = << >>
  /\ call = "idle"
  /\ workerQueue = << >>
  /\ worker = Idle
  /\ written = 0
  /\ wire = << >>
  /\ arrived = 0
  /\ told = << >>
  /\ end = "none"
-----------------------------------------------------------------------------
(***************************************************************************)
(* Parts of the worker's tasks.  "others" are the completions that the     *)
(* task has left in completions_ before it.                                *)
(***************************************************************************)
\* NewCompletion, and the operation is given to gRPC.
Issue(type, msg, others) ==
  /\ ops' = Append(ops, NewOp(type, msg))
  /\ completions' = others \cup {Len(ops) + 1}

\* Mutant of TryStartWrite: an active write does not hold the next one back.
TryStartWriteAtOnce(queue, active, type, others) ==
  IF queue = << >>
  THEN /\ buffer' = queue
       /\ activeWrite' = active
       /\ completions' = others
       /\ UNCHANGED ops
  ELSE /\ buffer' = Tail(queue)
       /\ activeWrite' = TRUE
       /\ Issue(type, Head(queue), others)

\* BufferedWriter::TryStartWrite and, if a write became active, MaybeWrite.
TryStartWrite(queue, active, type, others) ==
  IF queue = << >> \/ active
  THEN /\ buffer' = queue
       /\ activeWrite' = active
       /\ completions' = others
       /\ UNCHANGED ops
  ELSE /\ buffer' = Tail(queue)
       /\ activeWrite' = TRUE
       /\ Issue(type, Head(queue), others)

\* Mutant of Cancel: the callbacks are not emptied.
CancelKeepingCallbacks(others) ==
  /\ UNCHANGED ops
  /\ completions' = others

\* FastFinishCompletionsBlocking, up to the wait: the callbacks are emptied.
Cancel(others) ==
  /\ ops' = [i \in DOMAIN ops |-> [ops[i] EXCEPT !.callback = @ /\ i \notin others]]
  /\ completions' = others

\* FinishGrpcCall, up to that wait.
FinishGrpcCall(others, why) ==
  /\ callFinished' = TRUE
  /\ Cancel(others)
  /\ worker' = [at |-> "draining", why |-> why]

AllOffQueue == \A i \in completions : OffQueue(i)

GoOn(at) == worker' = [worker EXCEPT !.at = at]
-----------------------------------------------------------------------------
(***************************************************************************)
(* Tasks of Stream, and of the connectivity monitor.                       *)
(***************************************************************************)
\* ResumeStartWithCredentials: the constructor, and Start.
Start ==
  /\ worker.at = "idle"
  /\ stream = "none"
  /\ stream' = "alive"
  /\ registered' = TRUE
  /\ call' = "live"
  /\ Issue("read", 0, completions)
  /\ UNCHANGED <<observer, writerVars, callFinished, workerQueue, worker, history>>

\* Stream is open from OnStreamStart until it has destroyed the stream.
Open == worker.at = "idle" /\ stream = "alive"

\* Write; EnqueueWrite starts it if no other one is active.
Write ==
  /\ Open
  /\ written < MaxWrites
  /\ written' = written + 1
  /\ TryStartWrite(Append(buffer, written + 1), activeWrite, "write", completions)
  /\ UNCHANGED <<stream, observer, registered, callFinished, call, workerQueue, worker,
                 wire, arrived, told, end>>

\* Stream::Stop, with nothing to say: FinishImmediately.
Stop ==
  /\ Open
  /\ worker' = [at |-> "shutdown", why |-> "stop"]
  /\ UNCHANGED <<stream, observer, registered, writerVars, completions, callFinished,
                 ops, call, workerQueue, history>>

\* Mutant of StopWithLastWrite: the last write does not wait for its turn.
StopWithLastWriteAtOnce ==
  /\ Open
  /\ written' = IF callFinished THEN written ELSE written + 1
  /\ IF callFinished THEN UNCHANGED <<completions, ops>> ELSE Issue("last", written + 1, completions)
  /\ worker' = [at |-> IF callFinished THEN "shutdown" ELSE "lastWrite", why |-> "stop"]
  /\ UNCHANGED <<stream, observer, registered, writerVars, callFinished, call, workerQueue,
                 wire, arrived, told, end>>

\* WriteStream::TearDown after the handshake: WriteAndFinish.  TryLastWrite
\* waits for its write, if it could be started.
StopWithLastWrite ==
  /\ Open
  /\ written' = IF callFinished THEN written ELSE written + 1
  /\ IF callFinished
     THEN UNCHANGED <<writerVars, completions, ops>>
     ELSE TryStartWrite(Append(buffer, written + 1), activeWrite, "last", completions)
  /\ worker' = [at |-> IF callFinished \/ activeWrite THEN "shutdown" ELSE "lastWrite", why |-> "stop"]
  /\ UNCHANGED <<stream, observer, registered, callFinished, call, workerQueue,
                 wire, arrived, told, end>>

\* The monitor's callback: FinishAndNotify for every active call.
ConnectivityChanged ==
  /\ worker.at = "idle"
  /\ registered
  /\ worker' = [at |-> "shutdown", why |-> "notify"]
  /\ UNCHANGED <<stream, observer, registered, writerVars, completions, callFinished,
                 ops, call, workerQueue, history>>
-----------------------------------------------------------------------------
(***************************************************************************)
(* Tasks that GrpcCompletion::Complete has queued.  Unless it is emptied,  *)
(* the callback removes the completion from completions_ first.            *)
(***************************************************************************)
Task(i) ==
  /\ worker.at = "idle"
  /\ workerQueue # << >>
  /\ i = Head(workerQueue)
  /\ workerQueue' = Tail(workerQueue)

CancelledTask(i) ==
  /\ Task(i)
  /\ ~ops[i].callback
  /\ UNCHANGED <<stream, observer, registered, writerVars, completions, callFinished,
                 ops, call, worker, history>>

\* The next read is issued, then the observer is told; if it cannot parse
\* the message it calls FinishImmediately.
OnRead(i) ==
  /\ Task(i)
  /\ ops[i].callback /\ ops[i].ok /\ ops[i].type = "read"
  /\ observer
  /\ Issue("read", 0, completions \ {i})
  /\ told' = Append(told, ops[i].msg)
  /\ worker' \in {worker, [at |-> "shutdown", why |-> "badRead"]}
  /\ UNCHANGED <<stream, observer, registered, writerVars, callFinished, call,
                 written, wire, arrived, end>>

\* Mutant of OnWrite: the write is over, the next one is not looked for.
OnWriteForgettingTheNext(i) ==
  /\ Task(i)
  /\ ops[i].callback /\ ops[i].ok /\ ops[i].type = "write"
  /\ observer
  /\ activeWrite' = FALSE
  /\ completions' = completions \ {i}
  /\ UNCHANGED <<stream, observer, registered, buffer, callFinished, ops, call, worker, history>>

\* DequeueNextWrite: the active write is over, the next one is started.
OnWrite(i) ==
  /\ Task(i)
  /\ ops[i].callback /\ ops[i].ok /\ ops[i].type = "write"
  /\ observer
  /\ TryStartWrite(buffer, FALSE, "write", completions \ {i})
  /\ UNCHANGED <<stream, observer, registered, callFinished, call, worker, history>>

\* The callback OnOperationFailed gave to FinishGrpcCall: FinishAndNotify.
OnFinish(i) ==
  /\ Task(i)
  /\ ops[i].callback /\ ops[i].type = "finish"
  /\ completions' = completions \ {i}
  /\ worker' = [at |-> "shutdown", why |-> "notify"]
  /\ UNCHANGED <<stream, observer, registered, writerVars, callFinished, ops, call, history>>

\* Mutant of OnOperationFailed: every operation that fails finishes the call.
OnOperationFailedAgain(i) ==
  /\ Task(i)
  /\ ops[i].callback /\ ~ops[i].ok
  /\ FinishGrpcCall(completions \ {i}, "failed")
  /\ UNCHANGED <<stream, observer, registered, writerVars, call, history>>

\* The first operation to fail finishes the call; for the others there is
\* nothing to do.
OnOperationFailed(i) ==
  /\ Task(i)
  /\ ops[i].callback /\ ~ops[i].ok
  /\ IF callFinished
     THEN completions' = completions \ {i} /\ UNCHANGED <<callFinished, ops, worker>>
     ELSE FinishGrpcCall(completions \ {i}, "failed")
  /\ UNCHANGED <<stream, observer, registered, writerVars, call, history>>

RunTask ==
  \E i \in DOMAIN ops :
    CancelledTask(i) \/ OnRead(i) \/ OnWrite(i) \/ OnFinish(i) \/ OnOperationFailed(i)
-----------------------------------------------------------------------------
(***************************************************************************)
(* The worker goes on with the task it is in.                              *)
(***************************************************************************)
\* TryLastWrite's wait is over: the write is off the queue, or time is up.
LastWriteWaited ==
  /\ worker.at = "lastWrite"
  /\ GoOn("shutdown")
  /\ UNCHANGED <<stream, observer, registered, writerVars, completions, callFinished,
                 ops, call, workerQueue, history>>

\* Mutant of Shutdown: the stream stays among the active calls.
ShutdownStayingRegistered ==
  /\ worker.at = "shutdown"
  /\ IF completions # {} /\ ~callFinished
     THEN /\ call' = IF call = "live" THEN "cancelled" ELSE call
          /\ FinishGrpcCall(completions, worker.why)
     ELSE /\ Cancel(completions)
          /\ GoOn("closing")
          /\ UNCHANGED <<call, callFinished>>
  /\ UNCHANGED <<stream, observer, registered, writerVars, workerQueue, history>>

\* Mutant of Shutdown: the call is finished without being cancelled.
ShutdownWithoutCancelling ==
  /\ worker.at = "shutdown"
  /\ registered' = FALSE
  /\ UNCHANGED call
  /\ IF completions # {} /\ ~callFinished
     THEN FinishGrpcCall(completions, worker.why)
     ELSE Cancel(completions) /\ GoOn("closing") /\ UNCHANGED callFinished
  /\ UNCHANGED <<stream, observer, writerVars, workerQueue, history>>

\* Shutdown, up to its first wait.
Shutdown ==
  /\ worker.at = "shutdown"
  /\ registered' = FALSE
  /\ IF completions # {} /\ ~callFinished
     THEN /\ call' = IF call = "live" THEN "cancelled" ELSE call
          /\ FinishGrpcCall(completions, worker.why)
     ELSE /\ Cancel(completions)
          /\ GoOn("closing")
          /\ UNCHANGED <<call, callFinished>>
  /\ UNCHANGED <<stream, observer, writerVars, workerQueue, history>>

\* FinishGrpcCall goes on: the finish is issued.  Shutdown cancels it and
\* waits again; after OnOperationFailed the task is over.
Drained ==
  /\ worker.at = "draining"
  /\ AllOffQueue
  /\ IF worker.why = "failed"
     THEN Issue("finish", 0, {}) /\ worker' = Idle
     ELSE /\ ops' = Append(ops, [NewOp("close", 0) EXCEPT !.callback = FALSE])
          /\ completions' = {Len(ops) + 1}
          /\ GoOn("closing")
  /\ UNCHANGED <<stream, observer, registered, writerVars, callFinished, call, workerQueue, history>>

\* Shutdown returns, the observer is unset and, by FinishAndNotify, told;
\* in any case Stream::Close goes on to destroy the stream.
Closed ==
  /\ worker.at = "closing"
  /\ AllOffQueue
  /\ completions' = {}
  /\ observer' = FALSE
  /\ stream' = "destroyed"
  /\ end' = IF worker.why = "notify" THEN "notified" ELSE "stopped"
  /\ worker' = Idle
  /\ UNCHANGED <<registered, writerVars, callFinished, ops, call, workerQueue,
                 written, wire, arrived, told>>

Continue == LastWriteWaited \/ Shutdown \/ Drained \/ Closed
-----------------------------------------------------------------------------
(***************************************************************************)
(* gRPC: operations succeed while the call is alive, and fail afterwards.  *)
(***************************************************************************)
CallFails ==
  /\ call = "live"
  /\ call' = "failed"
  /\ UNCHANGED <<stream, observer, registered, writerVars, completions, callFinished,
                 ops, workerQueue, worker, history>>

Completes(i, ok, msg) ==
  /\ ops[i].at = "grpc"
  /\ ops' = [ops EXCEPT ![i] = [@ EXCEPT !.at = "completed", !.ok = ok, !.msg = msg]]
  /\ UNCHANGED <<stream, observer, registered, writerVars, completions, callFinished,
                 call, workerQueue, worker, written, told, end>>

ReadSucceeds(i) ==
  /\ call = "live"
  /\ ops[i].type = "read"
  /\ arrived < MaxReads
  /\ arrived' = arrived + 1
  /\ Completes(i, TRUE, arrived + 1)
  /\ UNCHANGED wire

WriteSucceeds(i) ==
  /\ call = "live"
  /\ ops[i].type \in {"write", "last"}
  /\ wire' = Append(wire, ops[i].msg)
  /\ Completes(i, TRUE, ops[i].msg)
  /\ UNCHANGED arrived

\* A finish never fails: it brings the status of the call.
OperationEnds(i) ==
  /\ call # "live"
  /\ Completes(i, ops[i].type \in {"finish", "close"}, ops[i].msg)
  /\ UNCHANGED <<wire, arrived>>
-----------------------------------------------------------------------------
(***************************************************************************)
(* The poller: Datastore::PollGrpcQueue and GrpcCompletion::Complete.      *)
(***************************************************************************)
Poll(i) ==
  /\ \A j \in DOMAIN ops : ops[j].at # "polled"
  /\ ops[i].at = "completed"
  /\ ops' = [ops EXCEPT ![i].at = "polled"]
  /\ UNCHANGED <<stream, observer, registered, writerVars, completions, callFinished,
                 call, workerQueue, worker, history>>

Enqueue(i) ==
  /\ ops[i].at = "polled"
  /\ ops' = [ops EXCEPT ![i].at = "queued"]
  /\ workerQueue' = Append(workerQueue, i)
  /\ UNCHANGED <<stream, observer, registered, writerVars, completions, callFinished,
                 call, worker, history>>

Poller == \E i \in DOMAIN ops : Poll(i) \/ Enqueue(i)

Next ==
  \/ Start
  \/ Write
  \/ Stop
  \/ StopWithLastWrite
  \/ ConnectivityChanged
  \/ RunTask
  \/ Continue
  \/ CallFails
  \/ \E i \in DOMAIN ops : ReadSucceeds(i) \/ WriteSucceeds(i) \/ OperationEnds(i)
  \/ Poller

Spec == Init /\ [][Next]_vars
-----------------------------------------------------------------------------
(***************************************************************************)
(* Safety.                                                                 *)
(***************************************************************************)
Op == [type: OpType, msg: Nat, at: Place, ok: BOOLEAN, callback: BOOLEAN]

IsWrite(i) == ops[i].type \in {"write", "last"}

IsFinish(i) == ops[i].type \in {"finish", "close"}

Waiting(i) == \E n \in DOMAIN workerQueue : workerQueue[n] = i

CallbackToRun(i) == ops[i].callback /\ (ops[i].at = "queued" => Waiting(i))

\* Types; the stream has its observer and its place among the active calls
\* as long as it lives and nobody has begun to shut it down.
TypeOK ==
  /\ stream \in {"none", "alive", "destroyed"}
  /\ end \in {"none", "stopped", "notified"}
  /\ buffer \in Seq(Nat)
  /\ ops \in Seq(Op)
  /\ completions \subseteq DOMAIN ops
  /\ workerQueue \in Seq(Nat) /\ \A n \in DOMAIN workerQueue : workerQueue[n] \in DOMAIN ops
  /\ call \in {"idle", "live", "failed", "cancelled"}
  /\ worker \in [at: {"idle", "lastWrite", "shutdown", "draining", "closing"},
                 why: {"task", "stop", "badRead", "failed", "notify"}]
  /\ {observer, registered, activeWrite, callFinished} \subseteq BOOLEAN
  /\ written \in Nat /\ wire \in Seq(Nat)
  /\ arrived \in Nat /\ told \in Seq(Nat)
  /\ registered => stream = "alive"
  /\ observer <=> stream # "destroyed"

\* What a destroyed stream owned is not used any more: gRPC and its
\* completion queue hold no operation of the call, and every callback that
\* is still to run is empty.
NoUseAfterDestroy ==
  stream = "destroyed" => \A i \in DOMAIN ops : OffQueue(i) /\ ~CallbackToRun(i)

\* gRPC's own rules: one write and one read at a time; one finish, when the
\* operations issued before it have left the completion queue.
OperationsObeyGrpc ==
  \A i, j \in DOMAIN ops :
    i < j /\ ~OffQueue(i) =>
      \/ IsFinish(i) /\ ~IsFinish(j)
      \/ ops[i].type = "read" /\ IsWrite(j)
      \/ IsWrite(i) /\ ops[j].type = "read"

\* The assertions: a callback that runs finds its completion, FinishGrpcCall
\* is called once, and a stream is not destroyed with completions left.
AssertionsHold ==
  /\ \A i \in DOMAIN ops : CallbackToRun(i) => i \in completions
  /\ \A i, j \in DOMAIN ops : IsFinish(i) /\ IsFinish(j) => i = j
  /\ stream = "destroyed" => completions = {}

Promise == INSTANCE Duplex

\* The observer sees the stream that grpc_stream.h promises, whatever the
\* three threads do and however the call ends.
ImplementsDuplex == Promise!Spec
-----------------------------------------------------------------------------
(***************************************************************************)
(* Liveness.  The threads run; an operation of a call that has failed or   *)
(* was cancelled comes back, and one that writes does so in any case.      *)
(***************************************************************************)
Fairness ==
  /\ WF_vars(RunTask)
  /\ WF_vars(Continue)
  /\ WF_vars(Poller)
  /\ WF_vars(\E i \in DOMAIN ops : OperationEnds(i))
  /\ WF_vars(\E i \in DOMAIN ops : WriteSucceeds(i))

FairSpec == Spec /\ Fairness

\* A stream whose call fails, or that somebody has begun to shut down, ends:
\* there is always a read to fail, and no wait of the worker lasts forever,
\* though it waits for the threads that queue tasks for it and for
\* operations that a live call never completes.
StreamEnds == (call = "failed" \/ worker.at # "idle") ~> end # "none"

\* Every message goes out in the end, unless the call does not live on: no
\* completed write leaves the buffer behind.
WritesGoOut ==
  \A m \in 1..MaxWrites :
    written >= m ~> (Len(wire) >= m \/ call # "live" \/ worker.why \in {"stop", "badRead", "notify"})
=============================================================================
