------------------------- MODULE GrpcStream_proofs -------------------------
(***************************************************************************)
(* The safety of a GrpcStream, for any number of messages: its own         *)
(* assertions hold, gRPC is given its operations the way it wants them,    *)
(* nothing is used after the stream is destroyed, and the observer sees    *)
(* the stream that Duplex specifies.                                       *)
(*                                                                         *)
(* GrpcInv is inductive.  Its core is CompletionsInv: whatever gRPC or the *)
(* worker's queue may still bring back is in completions_.  Everything     *)
(* Shutdown does, it does to completions_, so this is what makes it enough.*)
(***************************************************************************)
EXTENDS GrpcStream, TLAPS

\* No operation of a type in T was issued after i.
NoLater(i, T) == \A j \in DOMAIN ops : j > i => ops[j].type \notin T

\* An operation is in the worker's queue once, after the poller put it there.
QueueInv ==
  /\ \A i \in DOMAIN ops : Waiting(i) => ops[i].at = "queued"
  /\ \A m, n \in DOMAIN workerQueue : workerQueue[m] = workerQueue[n] => m = n

\* completions_ has what gRPC holds and whatever has a callback to run.
CompletionsInv ==
  \A i \in DOMAIN ops : ~OffQueue(i) \/ CallbackToRun(i) => i \in completions

\* How far the stream, its call and what was seen of it have come together.
LifeInv ==
  /\ stream = "none" => /\ ops = << >> /\ call = "idle" /\ ~callFinished /\ worker = Idle
                        /\ buffer = << >> /\ written = 0 /\ wire = << >>
                        /\ arrived = 0 /\ told = << >>
  /\ call = "idle" => stream = "none"
  /\ stream = "destroyed" => completions = {} /\ callFinished /\ worker = Idle
  /\ end = "none" <=> stream # "destroyed"
  /\ callFinished => call \in {"failed", "cancelled"}
  /\ \A i \in DOMAIN ops : ~ops[i].ok => call \in {"failed", "cancelled"}

\* What a task that waits has established before: only a stream that is alive
\* is shut down, and of what the worker waits for the callbacks are emptied.
WorkerInv ==
  /\ worker.at # "idle" => stream = "alive"
  /\ worker.at \in {"lastWrite", "shutdown", "closing"} => worker.why \in {"stop", "badRead", "notify"}
  /\ worker.at = "draining" => worker.why \in {"stop", "badRead", "notify", "failed"}
  /\ worker.at \in {"draining", "closing"} => callFinished /\ \A i \in completions : ~ops[i].callback
  /\ worker.at = "draining" => \A i \in DOMAIN ops : ~IsFinish(i)
  /\ worker.at = "closing" => ~registered
  /\ worker.at = "draining" => ~registered \/ worker.why = "failed"

\* There is one finish, issued when all that came before it is off the queue.
FinishInv ==
  /\ \A i \in DOMAIN ops : IsFinish(i) => callFinished
  /\ \A i, j \in DOMAIN ops : IsFinish(i) /\ IsFinish(j) => i = j
  /\ \A i, j \in DOMAIN ops : i < j /\ IsFinish(j) => OffQueue(i)

\* One read is under way, until the call is finished; what it brings is told next.
ReadInv ==
  /\ \A i \in completions : ops[i].type = "read" => NoLater(i, {"read"})
  /\ stream = "alive" /\ ~callFinished => \E i \in completions : ops[i].type = "read"
  /\ callFinished => \A i \in DOMAIN ops : CallbackToRun(i) => ops[i].type # "read"
  /\ ~callFinished =>
       \A i \in completions : ops[i].type = "read" =>
         /\ ops[i].at = "grpc" => arrived = Len(told)
         /\ ops[i].at # "grpc" /\ ops[i].ok => ops[i].msg = arrived /\ arrived = Len(told) + 1

\* gRPC holds the write i.
WriteWithGrpc(i) == IsWrite(i) /\ ops[i].at = "grpc"

\* What went out, what gRPC holds and what the buffer has make up what was written.
WireInv ==
  call = "live" =>
    IF \E i \in DOMAIN ops : WriteWithGrpc(i)
    THEN /\ \A i \in DOMAIN ops : WriteWithGrpc(i) => ops[i].msg = Len(wire) + 1
         /\ Len(wire) + 1 = written - Len(buffer)
    ELSE Len(wire) = written - Len(buffer)

\* One write is under way; the buffer has the last of the written messages, in order.
WriteInv ==
  /\ \A i \in completions : IsWrite(i) => activeWrite /\ NoLater(i, {"write", "last"})
  /\ buffer # << >> => activeWrite
  /\ Len(buffer) <= written
  /\ \A k \in DOMAIN buffer : buffer[k] = written - Len(buffer) + k

\* The inductive invariant.
GrpcInv ==
  /\ TypeOK
  /\ QueueInv
  /\ CompletionsInv
  /\ LifeInv
  /\ WorkerInv
  /\ FinishInv
  /\ ReadInv
  /\ WriteInv
  /\ WireInv
-----------------------------------------------------------------------------
\* What Append does to a sequence.
LEMMA AppendOp ==
  ASSUME NEW S, NEW s \in Seq(S), NEW o \in S
  PROVE  /\ Append(s, o) \in Seq(S)
         /\ DOMAIN Append(s, o) = DOMAIN s \cup {Len(s) + 1}
         /\ Len(s) + 1 \notin DOMAIN s
         /\ \A i \in DOMAIN s : i \in Nat /\ i < Len(s) + 1 /\ Append(s, o)[i] = s[i]
         /\ Append(s, o)[Len(s) + 1] = o
OBVIOUS

\* A new operation is an operation; NewCompletion has its callback to run.
LEMMA NewOpType ==
  ASSUME NEW type \in OpType, NEW msg \in Nat
  PROVE  /\ NewOp(type, msg) \in Op
         /\ NewOp(type, msg).type = type
         /\ NewOp(type, msg).msg = msg
         /\ NewOp(type, msg).at = "grpc"
         /\ NewOp(type, msg).ok
         /\ NewOp(type, msg).callback
BY DEF NewOp, Op, Place

\* NewCompletion adds one operation after the others, which stay as they are.
LEMMA IssuedOp ==
  ASSUME TypeOK, NEW type \in OpType, NEW msg \in Nat, ops' = Append(ops, NewOp(type, msg))
  PROVE  \E new \in Nat :
           /\ new = Len(ops) + 1
           /\ ops' \in Seq(Op) /\ DOMAIN ops' = DOMAIN ops \cup {new} /\ new \notin DOMAIN ops
           /\ \A i \in DOMAIN ops : i \in Nat /\ i < new /\ ops'[i] = ops[i]
           /\ ops'[new].type = type /\ ops'[new].msg = msg /\ ops'[new].at = "grpc"
           /\ ops'[new].ok /\ ops'[new].callback
<1>1. ops \in Seq(Op) /\ Len(ops) + 1 \in Nat
  BY DEF TypeOK
<1>2. NewOp(type, msg) \in Op
  BY NewOpType
<1>3. /\ ops' \in Seq(Op) /\ DOMAIN ops' = DOMAIN ops \cup {Len(ops) + 1}
      /\ Len(ops) + 1 \notin DOMAIN ops
      /\ \A i \in DOMAIN ops : i \in Nat /\ i < Len(ops) + 1 /\ ops'[i] = ops[i]
      /\ ops'[Len(ops) + 1] = NewOp(type, msg)
  BY <1>1, <1>2, AppendOp
<1> QED
  BY <1>1, <1>3, NewOpType

\* Start, the first read, keeps the invariant.
LEMMA StartKeeps == GrpcInv /\ Start => GrpcInv'
<1> SUFFICES ASSUME GrpcInv, Start PROVE GrpcInv'
  OBVIOUS
<1> DEFINE new == Len(ops) + 1
<1>o. /\ ops' \in Seq(Op) /\ DOMAIN ops' = {1}
      /\ ops'[1] = NewOp("read", 0) /\ completions' = {1}
  BY AppendOp, NewOpType DEF GrpcInv, TypeOK, LifeInv, Start, Issue, OpType
<1>n. ops'[1].type = "read" /\ ops'[1].at = "grpc" /\ ops'[1].ok /\ ops'[1].callback
  BY <1>o, NewOpType DEF OpType
<1>T. TypeOK'
  BY <1>o DEF GrpcInv, TypeOK, LifeInv, Start, Idle, writerVars, history
<1>Q. QueueInv'
  BY <1>o, <1>n DEF GrpcInv, TypeOK, LifeInv, QueueInv, Start, Waiting
<1>C. CompletionsInv'
  BY <1>o DEF CompletionsInv
<1>L. LifeInv'
  BY <1>o, <1>n DEF GrpcInv, TypeOK, LifeInv, Start, history
<1>W. WorkerInv'
  BY <1>o, <1>n DEF GrpcInv, LifeInv, WorkerInv, Start, Idle
<1>F. FinishInv'
  BY <1>o, <1>n DEF FinishInv, IsFinish
<1>R. ReadInv'
  BY <1>o, <1>n DEF GrpcInv, LifeInv, ReadInv, Start, NoLater, history
<1>X. WriteInv'
  BY <1>o, <1>n DEF GrpcInv, TypeOK, LifeInv, WriteInv, Start, IsWrite, NoLater, writerVars, history
<1>Y. WireInv'
  BY <1>o, <1>n DEF GrpcInv, TypeOK, LifeInv, WireInv, Start, IsWrite, NoLater, writerVars, history, WriteWithGrpc
<1> QED
  BY <1>T, <1>Q, <1>C, <1>L, <1>W, <1>F, <1>R, <1>X, <1>Y DEF GrpcInv

\* Stream::Stop keeps the invariant.
LEMMA StopKeeps == GrpcInv /\ Stop => GrpcInv'
<1> SUFFICES ASSUME GrpcInv, Stop PROVE GrpcInv'
  OBVIOUS
<1> USE DEF Stop, writerVars, history, Open, Idle
<1>T. TypeOK'
  BY DEF GrpcInv, TypeOK
<1>Q. QueueInv'
  BY DEF GrpcInv, QueueInv, Waiting
<1>C. CompletionsInv'
  BY DEF GrpcInv, CompletionsInv, OffQueue, CallbackToRun, Waiting
<1>L. LifeInv'
  BY DEF GrpcInv, TypeOK, LifeInv
<1>W. WorkerInv'
  BY DEF GrpcInv, TypeOK, LifeInv, WorkerInv, IsFinish
<1>F. FinishInv'
  BY DEF GrpcInv, FinishInv, IsFinish, OffQueue
<1>R. ReadInv'
  BY DEF GrpcInv, ReadInv, NoLater, CallbackToRun, Waiting
<1>X. WriteInv'
  BY DEF GrpcInv, WriteInv, IsWrite, NoLater
<1>Y. WireInv'
  BY DEF GrpcInv, WireInv, IsWrite, NoLater, WriteWithGrpc
<1> QED
  BY <1>T, <1>Q, <1>C, <1>L, <1>W, <1>F, <1>R, <1>X, <1>Y DEF GrpcInv

\* The connectivity monitor's FinishAndNotify keeps the invariant.
LEMMA ConnectivityChangedKeeps == GrpcInv /\ ConnectivityChanged => GrpcInv'
<1> SUFFICES ASSUME GrpcInv, ConnectivityChanged PROVE GrpcInv'
  OBVIOUS
<1> USE DEF ConnectivityChanged, writerVars, history, Idle
<1>T. TypeOK'
  BY DEF GrpcInv, TypeOK
<1>Q. QueueInv'
  BY DEF GrpcInv, QueueInv, Waiting
<1>C. CompletionsInv'
  BY DEF GrpcInv, CompletionsInv, OffQueue, CallbackToRun, Waiting
<1>L. LifeInv'
  BY DEF GrpcInv, TypeOK, LifeInv
<1>W. WorkerInv'
  BY DEF GrpcInv, TypeOK, LifeInv, WorkerInv, IsFinish
<1>F. FinishInv'
  BY DEF GrpcInv, FinishInv, IsFinish, OffQueue
<1>R. ReadInv'
  BY DEF GrpcInv, ReadInv, NoLater, CallbackToRun, Waiting
<1>X. WriteInv'
  BY DEF GrpcInv, WriteInv, IsWrite, NoLater
<1>Y. WireInv'
  BY DEF GrpcInv, WireInv, IsWrite, NoLater, WriteWithGrpc
<1> QED
  BY <1>T, <1>Q, <1>C, <1>L, <1>W, <1>F, <1>R, <1>X, <1>Y DEF GrpcInv

\* The end of TryLastWrite's wait keeps the invariant.
LEMMA LastWriteWaitedKeeps == GrpcInv /\ LastWriteWaited => GrpcInv'
<1> SUFFICES ASSUME GrpcInv, LastWriteWaited PROVE GrpcInv'
  OBVIOUS
<1> USE DEF LastWriteWaited, writerVars, history, GoOn, Idle
<1>T. TypeOK'
  BY DEF GrpcInv, TypeOK
<1>Q. QueueInv'
  BY DEF GrpcInv, QueueInv, Waiting
<1>C. CompletionsInv'
  BY DEF GrpcInv, CompletionsInv, OffQueue, CallbackToRun, Waiting
<1>L. LifeInv'
  BY DEF GrpcInv, TypeOK, LifeInv
<1>W. WorkerInv'
  BY DEF GrpcInv, TypeOK, LifeInv, WorkerInv, IsFinish
<1>F. FinishInv'
  BY DEF GrpcInv, FinishInv, IsFinish, OffQueue
<1>R. ReadInv'
  BY DEF GrpcInv, ReadInv, NoLater, CallbackToRun, Waiting
<1>X. WriteInv'
  BY DEF GrpcInv, WriteInv, IsWrite, NoLater
<1>Y. WireInv'
  BY DEF GrpcInv, WireInv, IsWrite, NoLater, WriteWithGrpc
<1> QED
  BY <1>T, <1>Q, <1>C, <1>L, <1>W, <1>F, <1>R, <1>X, <1>Y DEF GrpcInv

\* A failure of the call keeps the invariant.
LEMMA CallFailsKeeps == GrpcInv /\ CallFails => GrpcInv'
<1> SUFFICES ASSUME GrpcInv, CallFails PROVE GrpcInv'
  OBVIOUS
<1> USE DEF CallFails, writerVars, history, Idle
<1>T. TypeOK'
  BY DEF GrpcInv, TypeOK
<1>Q. QueueInv'
  BY DEF GrpcInv, QueueInv, Waiting
<1>C. CompletionsInv'
  BY DEF GrpcInv, CompletionsInv, OffQueue, CallbackToRun, Waiting
<1>L. LifeInv'
  BY DEF GrpcInv, TypeOK, LifeInv
<1>W. WorkerInv'
  BY DEF GrpcInv, TypeOK, LifeInv, WorkerInv, IsFinish
<1>F. FinishInv'
  BY DEF GrpcInv, FinishInv, IsFinish, OffQueue
<1>R. ReadInv'
  BY DEF GrpcInv, ReadInv, NoLater, CallbackToRun, Waiting
<1>X. WriteInv'
  BY DEF GrpcInv, WriteInv, IsWrite, NoLater
<1>Y. WireInv'
  BY DEF GrpcInv, WireInv, IsWrite, NoLater, WriteWithGrpc
<1> QED
  BY <1>T, <1>Q, <1>C, <1>L, <1>W, <1>F, <1>R, <1>X, <1>Y DEF GrpcInv

\* A message that is written waits in the buffer if a write is active;
\* otherwise the buffer is empty and the message goes to gRPC.
LEMMA WriteStarts ==
  ASSUME GrpcInv, NEW type \in {"write", "last"},
         TryStartWrite(Append(buffer, written + 1), activeWrite, type, completions)
  PROVE  \/ /\ activeWrite /\ activeWrite'
            /\ buffer' = Append(buffer, written + 1)
            /\ UNCHANGED <<completions, ops>>
         \/ /\ ~activeWrite /\ activeWrite'
            /\ buffer = << >> /\ buffer' = << >>
            /\ ops' = Append(ops, NewOp(type, written + 1))
            /\ completions' = completions \cup {Len(ops) + 1}
<1>1. buffer \in Seq(Nat) /\ written \in Nat /\ (buffer # << >> => activeWrite)
  BY DEF GrpcInv, TypeOK, WriteInv
<1>2. Append(buffer, written + 1) # << >>
  <2>1. Len(Append(buffer, written + 1)) # 0
    BY <1>1
  <2>2. Len(<< >>) = 0
    OBVIOUS
  <2> QED
    BY <2>1, <2>2, Zenon
<1>3. CASE activeWrite
  BY <1>2, <1>3 DEF TryStartWrite
<1>4. CASE ~activeWrite
  <2>1. buffer = << >>
    BY <1>1, <1>4
  <2>2. Tail(Append(buffer, written + 1)) = << >> /\ Head(Append(buffer, written + 1)) = written + 1
    BY <1>1, <2>1
  <2> QED
    BY <1>2, <1>4, <2>1, <2>2 DEF TryStartWrite, Issue
<1> QED
  BY <1>3, <1>4

\* EnqueueWrite keeps the invariant, for Write and for WriteAndFinish.
LEMMA WrittenKeeps ==
  ASSUME GrpcInv, Open, NEW type \in {"write", "last"},
         TryStartWrite(Append(buffer, written + 1), activeWrite, type, completions),
         written' = written + 1,
         worker' \in {worker} \cup [at: {"lastWrite", "shutdown"}, why: {"stop"}],
         UNCHANGED <<stream, observer, registered, callFinished, call, workerQueue,
                     wire, arrived, told, end>>
  PROVE  GrpcInv'
<1> USE DEF Open
<1>1. CASE /\ activeWrite /\ activeWrite'
           /\ buffer' = Append(buffer, written + 1)
           /\ UNCHANGED <<completions, ops>>
  <2>T. TypeOK'
    BY <1>1 DEF GrpcInv, TypeOK
  <2>Q. QueueInv'
    BY <1>1 DEF GrpcInv, QueueInv, Waiting
  <2>C. CompletionsInv'
    BY <1>1 DEF GrpcInv, CompletionsInv, OffQueue, CallbackToRun, Waiting
  <2>L. LifeInv'
    BY <1>1 DEF GrpcInv, TypeOK, LifeInv
  <2>W. WorkerInv'
    BY <1>1 DEF GrpcInv, TypeOK, LifeInv, WorkerInv, IsFinish
  <2>F. FinishInv'
    BY <1>1 DEF GrpcInv, FinishInv, IsFinish, OffQueue
  <2>R. ReadInv'
    BY <1>1 DEF GrpcInv, ReadInv, NoLater, CallbackToRun, Waiting
  <2>X. WriteInv'
    <3>1. /\ buffer \in Seq(Nat) /\ written \in Nat
          /\ Len(buffer') = Len(buffer) + 1 /\ DOMAIN buffer' = 1..Len(buffer) + 1
          /\ \A k \in 1..Len(buffer) : buffer'[k] = buffer[k]
          /\ buffer'[Len(buffer) + 1] = written + 1
      BY <1>1 DEF GrpcInv, TypeOK
    <3>2. written' - Len(buffer') = written - Len(buffer)
      BY <3>1
    <3>3. \A k \in DOMAIN buffer' : buffer'[k] = (written - Len(buffer)) + k
      <4>1. \A k \in 1..Len(buffer) : buffer[k] = written - Len(buffer) + k
        BY DEF GrpcInv, TypeOK, WriteInv
      <4> QED
        BY <3>1, <4>1
    <3>4. \A i \in completions' : IsWrite(i)' => activeWrite' /\ NoLater(i, {"write", "last"})'
      BY <1>1 DEF GrpcInv, WriteInv, IsWrite, NoLater
    <3>6. Len(buffer') <= written'
      BY <3>1 DEF GrpcInv, WriteInv
    <3> QED
      BY <1>1, <3>2, <3>3, <3>4, <3>6 DEF WriteInv
  <2>Y. WireInv'
    <3>1. written' - Len(buffer') = written - Len(buffer)
      BY <1>1 DEF GrpcInv, TypeOK
    <3> QED
      BY <1>1, <3>1 DEF GrpcInv, WireInv, WriteWithGrpc, IsWrite
  <2> QED
    BY <2>T, <2>Q, <2>C, <2>L, <2>W, <2>F, <2>R, <2>X, <2>Y DEF GrpcInv
<1>2. CASE /\ ~activeWrite /\ activeWrite'
           /\ buffer = << >> /\ buffer' = << >>
           /\ ops' = Append(ops, NewOp(type, written + 1))
           /\ completions' = completions \cup {Len(ops) + 1}
  <2>o. PICK new \in Nat :
          /\ ops' \in Seq(Op) /\ DOMAIN ops' = DOMAIN ops \cup {new} /\ new \notin DOMAIN ops
          /\ \A i \in DOMAIN ops : i \in Nat /\ i < new /\ ops'[i] = ops[i]
          /\ ops'[new].type = type /\ ops'[new].msg = written + 1 /\ ops'[new].at = "grpc"
          /\ ops'[new].ok /\ ops'[new].callback
          /\ completions' = completions \cup {new}
    <3>1. TypeOK /\ type \in OpType /\ written + 1 \in Nat
      BY DEF GrpcInv, TypeOK, OpType
    <3> QED
      BY <1>2, <3>1, IssuedOp
  <2>T. TypeOK'
    BY <1>2, <2>o DEF GrpcInv, TypeOK
  <2>Q. QueueInv'
    BY <1>2, <2>o DEF GrpcInv, TypeOK, QueueInv, Waiting
  <2>C. CompletionsInv'
    BY <1>2, <2>o DEF GrpcInv, CompletionsInv, OffQueue, CallbackToRun, Waiting
  <2>L. LifeInv'
    BY <1>2, <2>o DEF GrpcInv, TypeOK, LifeInv
  <2>W. WorkerInv'
    BY <1>2, <2>o DEF GrpcInv, TypeOK, LifeInv, WorkerInv, IsFinish
  <2>F. FinishInv'
    <3>1. \A j \in DOMAIN ops' : IsFinish(j)' => j \in DOMAIN ops /\ IsFinish(j)
      BY <2>o DEF IsFinish
    <3>2. \A j \in DOMAIN ops : OffQueue(j)' <=> OffQueue(j)
      BY <2>o DEF OffQueue
    <3>3. \A j, k \in DOMAIN ops' : j < k /\ k \in DOMAIN ops => j \in DOMAIN ops
      BY <2>o
    <3> QED
      BY <3>1, <3>2, <3>3 DEF GrpcInv, FinishInv
  <2>R. ReadInv'
    <3>1. \A j \in completions' : ops'[j].type = "read" => j \in completions /\ ops'[j] = ops[j]
      BY <2>o DEF GrpcInv, TypeOK
    <3>2. \A j \in DOMAIN ops : NoLater(j, {"read"}) => NoLater(j, {"read"})'
      BY <2>o DEF NoLater
    <3>3. \A j \in DOMAIN ops' : CallbackToRun(j)' => j = new \/ (j \in DOMAIN ops /\ CallbackToRun(j))
      BY <2>o DEF CallbackToRun, Waiting
    <3>4. \A j \in completions : ops[j].type = "read" => j \in completions' /\ ops'[j] = ops[j]
      BY <2>o DEF GrpcInv, TypeOK
    <3>5. completions \subseteq DOMAIN ops
      BY DEF GrpcInv, TypeOK
    <3> QED
      BY <2>o, <3>1, <3>2, <3>3, <3>4, <3>5 DEF GrpcInv, ReadInv
  <2>X. WriteInv'
    <3>1. \A i \in completions : ~IsWrite(i)
      BY <1>2 DEF GrpcInv, WriteInv
    <3>3. \A i \in completions' : IsWrite(i)' => i = new
      BY <3>1, <2>o DEF GrpcInv, TypeOK, IsWrite
    <3>4. NoLater(new, {"write", "last"})'
      BY <2>o DEF NoLater
    <3>5. Len(buffer') = 0 /\ DOMAIN buffer' = {} /\ written' \in Nat
      BY <1>2 DEF GrpcInv, TypeOK
    <3> QED
      BY <1>2, <2>o, <3>3, <3>4, <3>5 DEF WriteInv
  <2>Y. WireInv'
    <3>1. \A i \in DOMAIN ops : ~WriteWithGrpc(i)
      BY <1>2 DEF GrpcInv, WriteInv, CompletionsInv, OffQueue, WriteWithGrpc
    <3>2. WriteWithGrpc(new)' /\ \A i \in DOMAIN ops' : WriteWithGrpc(i)' => i = new
      BY <3>1, <2>o DEF WriteWithGrpc, IsWrite
    <3>3. Len(buffer) = 0 /\ Len(buffer') = 0 /\ written \in Nat /\ Len(wire) \in Nat
      BY <1>2 DEF GrpcInv, TypeOK
    <3>4. call = "live" => Len(wire) = written
      BY <3>1, <3>3 DEF GrpcInv, WireInv
    <3> QED
      BY <2>o, <3>2, <3>3, <3>4 DEF WireInv
  <2> QED
    BY <2>T, <2>Q, <2>C, <2>L, <2>W, <2>F, <2>R, <2>X, <2>Y DEF GrpcInv
<1> QED
  BY <1>1, <1>2, WriteStarts

\* GrpcStream::Write keeps the invariant.
LEMMA WriteKeeps == GrpcInv /\ Write => GrpcInv'
BY WrittenKeeps DEF Write

\* GrpcStream::WriteAndFinish, up to its wait, keeps the invariant.
LEMMA StopWithLastWriteKeeps == GrpcInv /\ StopWithLastWrite => GrpcInv'
<1> SUFFICES ASSUME GrpcInv, StopWithLastWrite PROVE GrpcInv'
  OBVIOUS
<1>1. CASE callFinished
  <2> USE <1>1 DEF StopWithLastWrite, writerVars, history, Open
  <2>T. TypeOK'
    BY DEF GrpcInv, TypeOK
  <2>Q. QueueInv'
    BY DEF GrpcInv, QueueInv, Waiting
  <2>C. CompletionsInv'
    BY DEF GrpcInv, CompletionsInv, OffQueue, CallbackToRun, Waiting
  <2>L. LifeInv'
    BY DEF GrpcInv, TypeOK, LifeInv
  <2>W. WorkerInv'
    BY DEF GrpcInv, TypeOK, LifeInv, WorkerInv, IsFinish
  <2>F. FinishInv'
    BY DEF GrpcInv, FinishInv, IsFinish, OffQueue
  <2>R. ReadInv'
    BY DEF GrpcInv, ReadInv, NoLater, CallbackToRun, Waiting
  <2>X. WriteInv'
    BY DEF GrpcInv, WriteInv, IsWrite, NoLater
  <2>Y. WireInv'
    BY DEF GrpcInv, WireInv, IsWrite, WriteWithGrpc
  <2> QED
    BY <2>T, <2>Q, <2>C, <2>L, <2>W, <2>F, <2>R, <2>X, <2>Y DEF GrpcInv
<1>2. CASE ~callFinished
  BY <1>2, WrittenKeeps DEF StopWithLastWrite
<1> QED
  BY <1>1, <1>2

\* A task the worker takes has been queued once and is not queued any more;
\* with a callback to run, it is about a completion of a stream that is alive.
LEMMA TaskFacts ==
  ASSUME GrpcInv, NEW i \in DOMAIN ops, Task(i)
  PROVE  /\ ops[i].at = "queued" /\ Waiting(i) /\ worker.at = "idle" /\ i \in Nat
         /\ workerQueue' \in Seq(Nat)
         /\ \A n \in DOMAIN workerQueue' : workerQueue'[n] \in DOMAIN ops
         /\ \A j \in DOMAIN ops : Waiting(j)' <=> Waiting(j) /\ j # i
         /\ \A m, n \in DOMAIN workerQueue' : workerQueue'[m] = workerQueue'[n] => m = n
         /\ ops[i].callback => i \in completions /\ stream = "alive"
<1>1. /\ workerQueue \in Seq(Nat) /\ workerQueue # << >> /\ i = workerQueue[1]
      /\ workerQueue' = Tail(workerQueue) /\ ops \in Seq(Op) /\ i \in Nat
  BY DEF Task, GrpcInv, TypeOK
<1>2. /\ workerQueue' \in Seq(Nat) /\ DOMAIN workerQueue = 1..Len(workerQueue) /\ Len(workerQueue) > 0
      /\ DOMAIN workerQueue' = 1..(Len(workerQueue) - 1)
      /\ \A n \in DOMAIN workerQueue' : workerQueue'[n] = workerQueue[n + 1]
  BY <1>1
<1>3. Waiting(i) /\ ops[i].at = "queued"
  BY <1>1, <1>2 DEF GrpcInv, QueueInv, Waiting
<1>4. \A n \in DOMAIN workerQueue' : workerQueue'[n] \in DOMAIN ops
  <2>1. \A n \in DOMAIN workerQueue : workerQueue[n] \in DOMAIN ops
    BY DEF GrpcInv, TypeOK
  <2> QED
    BY <1>2, <2>1
<1>5. \A m, n \in DOMAIN workerQueue : workerQueue[m] = workerQueue[n] => m = n
  BY DEF GrpcInv, QueueInv
<1>6. \A m, n \in DOMAIN workerQueue' : workerQueue'[m] = workerQueue'[n] => m = n
  <2>1. \A n \in DOMAIN workerQueue' : n \in Nat /\ n + 1 \in DOMAIN workerQueue
    BY <1>2
  <2> QED
    BY <1>2, <1>5, <2>1
<1>7. ASSUME NEW j \in DOMAIN ops PROVE Waiting(j)' <=> Waiting(j) /\ j # i
  <2>1. ASSUME Waiting(j)' PROVE Waiting(j) /\ j # i
    <3> PICK n \in DOMAIN workerQueue' : workerQueue'[n] = j
      BY <2>1 DEF Waiting
    <3>1. /\ workerQueue[n + 1] = j /\ n + 1 \in DOMAIN workerQueue /\ n + 1 # 1
          /\ 1 \in DOMAIN workerQueue
      BY <1>2
    <3>2. workerQueue[n + 1] # workerQueue[1]
      BY <1>5, <3>1
    <3> QED
      BY <1>1, <3>1, <3>2 DEF Waiting
  <2>2. ASSUME Waiting(j), j # i PROVE Waiting(j)'
    <3> PICK n \in DOMAIN workerQueue : workerQueue[n] = j
      BY <2>2 DEF Waiting
    <3>1. n # 1 /\ n - 1 \in DOMAIN workerQueue' /\ workerQueue'[n - 1] = workerQueue[(n - 1) + 1]
      BY <1>1, <1>2, <2>2
    <3>2. workerQueue'[n - 1] = j
      BY <1>2, <3>1
    <3> QED
      BY <3>1, <3>2 DEF Waiting
  <2> QED
    BY <2>1, <2>2
<1>8. ops[i].callback => i \in completions /\ stream = "alive"
  BY <1>3 DEF GrpcInv, TypeOK, CompletionsInv, CallbackToRun, LifeInv
<1> QED
  BY <1>1, <1>2, <1>3, <1>4, <1>6, <1>7, <1>8 DEF Task

\* Emptying the callbacks of S changes nothing else of the operations.
LEMMA CancelledOps ==
  ASSUME TypeOK, NEW S, Cancel(S)
  PROVE  /\ ops' \in Seq(Op) /\ Len(ops') = Len(ops) /\ DOMAIN ops' = DOMAIN ops
         /\ \A j \in DOMAIN ops :
              /\ ops'[j].type = ops[j].type /\ ops'[j].msg = ops[j].msg
              /\ ops'[j].at = ops[j].at /\ ops'[j].ok = ops[j].ok
              /\ ops'[j].callback <=> ops[j].callback /\ j \notin S
         /\ completions' = S
<1>1. ops \in Seq(Op) /\ DOMAIN ops = 1..Len(ops)
  BY DEF TypeOK
<1>2. \A j \in DOMAIN ops : [ops[j] EXCEPT !.callback = @ /\ j \notin S] \in Op
  <2> TAKE j \in DOMAIN ops
  <2>1. ops[j] \in Op
    BY <1>1
  <2>2. (ops[j].callback /\ j \notin S) \in BOOLEAN
    OBVIOUS
  <2> QED
    BY <2>1, <2>2 DEF Op
<1>3. \A j \in DOMAIN ops : ops[j] \in Op
  BY <1>1
<1> QED
  BY <1>1, <1>2, <1>3 DEF Cancel, Op

\* The poller changes the place of one operation and nothing else.
LEMMA MovedOps ==
  ASSUME TypeOK, NEW i \in DOMAIN ops, NEW place \in Place, ops' = [ops EXCEPT ![i].at = place]
  PROVE  /\ ops' \in Seq(Op) /\ Len(ops') = Len(ops) /\ DOMAIN ops' = DOMAIN ops
         /\ \A j \in DOMAIN ops :
              /\ j \in Nat
              /\ j # i => ops'[j] = ops[j]
              /\ ops'[j].type = ops[j].type /\ ops'[j].msg = ops[j].msg
              /\ ops'[j].ok = ops[j].ok /\ ops'[j].callback = ops[j].callback
         /\ ops'[i].at = place
<1>1. ops \in Seq(Op) /\ DOMAIN ops = 1..Len(ops) /\ ops[i] \in Op
  BY DEF TypeOK
<1>2. ops' = [ops EXCEPT ![i] = [ops[i] EXCEPT !.at = place]]
  OBVIOUS
<1>3. /\ [ops[i] EXCEPT !.at = place] \in Op /\ [ops[i] EXCEPT !.at = place].at = place
      /\ [ops[i] EXCEPT !.at = place].type = ops[i].type
      /\ [ops[i] EXCEPT !.at = place].msg = ops[i].msg
      /\ [ops[i] EXCEPT !.at = place].ok = ops[i].ok
      /\ [ops[i] EXCEPT !.at = place].callback = ops[i].callback
  BY <1>1 DEF Op
<1> QED
  BY <1>1, <1>2, <1>3

\* gRPC completes one operation; the others stay as they are.
LEMMA CompletedOps ==
  ASSUME TypeOK, NEW i \in DOMAIN ops, NEW ok \in BOOLEAN, NEW msg \in Nat,
         ops' = [ops EXCEPT ![i] = [@ EXCEPT !.at = "completed", !.ok = ok, !.msg = msg]]
  PROVE  /\ ops' \in Seq(Op) /\ Len(ops') = Len(ops) /\ DOMAIN ops' = DOMAIN ops
         /\ \A j \in DOMAIN ops :
              /\ j \in Nat
              /\ j # i => ops'[j] = ops[j]
              /\ ops'[j].type = ops[j].type /\ ops'[j].callback = ops[j].callback
         /\ ops'[i].at = "completed" /\ ops'[i].ok = ok /\ ops'[i].msg = msg
<1> DEFINE new == [ops[i] EXCEPT !.at = "completed", !.ok = ok, !.msg = msg]
<1>1. ops \in Seq(Op) /\ DOMAIN ops = 1..Len(ops) /\ ops[i] \in Op
  BY DEF TypeOK
<1>2. ops' = [ops EXCEPT ![i] = new]
  OBVIOUS
<1>3. /\ new \in Op /\ new.type = ops[i].type /\ new.callback = ops[i].callback
      /\ new.at = "completed" /\ new.ok = ok /\ new.msg = msg
  BY <1>1 DEF Op, Place
<1> QED
  BY <1>1, <1>2, <1>3

\* A task whose callback is empty keeps the invariant.
LEMMA CancelledTaskKeeps ==
  ASSUME GrpcInv, NEW i \in DOMAIN ops, CancelledTask(i) PROVE GrpcInv'
<1> USE DEF CancelledTask, writerVars, history
<1>t. /\ ops[i].at = "queued" /\ Waiting(i) /\ worker.at = "idle" /\ i \in Nat
      /\ workerQueue' \in Seq(Nat)
      /\ \A n \in DOMAIN workerQueue' : workerQueue'[n] \in DOMAIN ops
      /\ \A j \in DOMAIN ops : Waiting(j)' <=> Waiting(j) /\ j # i
      /\ \A m, n \in DOMAIN workerQueue' : workerQueue'[m] = workerQueue'[n] => m = n
      /\ ops[i].callback => i \in completions /\ stream = "alive"
  BY TaskFacts DEF CancelledTask
<1>T. TypeOK'
  BY <1>t DEF GrpcInv, TypeOK
<1>Q. QueueInv'
  BY <1>t DEF GrpcInv, TypeOK, QueueInv, Waiting
<1>C. CompletionsInv'
  BY <1>t DEF GrpcInv, TypeOK, CompletionsInv, OffQueue, CallbackToRun, Waiting
<1>L. LifeInv'
  BY <1>t DEF GrpcInv, TypeOK, LifeInv
<1>W. WorkerInv'
  BY <1>t DEF GrpcInv, TypeOK, LifeInv, WorkerInv, IsFinish
<1>F. FinishInv'
  BY <1>t DEF GrpcInv, TypeOK, FinishInv, IsFinish, OffQueue
<1>R. ReadInv'
  BY <1>t DEF GrpcInv, TypeOK, ReadInv, NoLater, CallbackToRun, Waiting
<1>X. WriteInv'
  BY <1>t DEF GrpcInv, TypeOK, WriteInv, IsWrite, NoLater
<1>Y. WireInv'
  BY <1>t DEF GrpcInv, TypeOK, WireInv, IsWrite, WriteWithGrpc
<1> QED
  BY <1>T, <1>Q, <1>C, <1>L, <1>W, <1>F, <1>R, <1>X, <1>Y DEF GrpcInv

\* The end of the call, after an operation has failed, keeps the invariant.
LEMMA OnFinishKeeps ==
  ASSUME GrpcInv, NEW i \in DOMAIN ops, OnFinish(i) PROVE GrpcInv'
<1> USE DEF OnFinish, writerVars, history
<1>t. /\ ops[i].at = "queued" /\ Waiting(i) /\ worker.at = "idle" /\ i \in Nat
      /\ workerQueue' \in Seq(Nat)
      /\ \A n \in DOMAIN workerQueue' : workerQueue'[n] \in DOMAIN ops
      /\ \A j \in DOMAIN ops : Waiting(j)' <=> Waiting(j) /\ j # i
      /\ \A m, n \in DOMAIN workerQueue' : workerQueue'[m] = workerQueue'[n] => m = n
      /\ ops[i].callback => i \in completions /\ stream = "alive"
  BY TaskFacts DEF OnFinish
<1>T. TypeOK'
  BY <1>t DEF GrpcInv, TypeOK
<1>Q. QueueInv'
  BY <1>t DEF GrpcInv, TypeOK, QueueInv, Waiting
<1>C. CompletionsInv'
  BY <1>t DEF GrpcInv, TypeOK, CompletionsInv, OffQueue, CallbackToRun, Waiting
<1>L. LifeInv'
  BY <1>t DEF GrpcInv, TypeOK, LifeInv
<1>W. WorkerInv'
  BY <1>t DEF GrpcInv, TypeOK, LifeInv, WorkerInv, IsFinish
<1>F. FinishInv'
  BY <1>t DEF GrpcInv, TypeOK, FinishInv, IsFinish, OffQueue
<1>R. ReadInv'
  BY <1>t DEF GrpcInv, TypeOK, ReadInv, NoLater, CallbackToRun, Waiting
<1>X. WriteInv'
  BY <1>t DEF GrpcInv, TypeOK, WriteInv, IsWrite, NoLater
<1>Y. WireInv'
  BY <1>t DEF GrpcInv, TypeOK, WireInv, IsWrite, WriteWithGrpc
<1> QED
  BY <1>T, <1>Q, <1>C, <1>L, <1>W, <1>F, <1>R, <1>X, <1>Y DEF GrpcInv

\* OnRead, with the read that follows, keeps the invariant.
LEMMA OnReadKeeps ==
  ASSUME GrpcInv, NEW i \in DOMAIN ops, OnRead(i) PROVE GrpcInv'
<1> USE DEF OnRead, writerVars, history
<1>t. /\ ops[i].at = "queued" /\ Waiting(i) /\ worker.at = "idle" /\ i \in Nat
      /\ workerQueue' \in Seq(Nat)
      /\ \A n \in DOMAIN workerQueue' : workerQueue'[n] \in DOMAIN ops
      /\ \A j \in DOMAIN ops : Waiting(j)' <=> Waiting(j) /\ j # i
      /\ \A m, n \in DOMAIN workerQueue' : workerQueue'[m] = workerQueue'[n] => m = n
      /\ ops[i].callback => i \in completions /\ stream = "alive"
  BY TaskFacts DEF OnRead
<1>o. PICK new \in Nat :
        /\ new = Len(ops) + 1
        /\ ops' \in Seq(Op) /\ DOMAIN ops' = DOMAIN ops \cup {new} /\ new \notin DOMAIN ops
        /\ \A j \in DOMAIN ops : j \in Nat /\ j < new /\ ops'[j] = ops[j]
        /\ ops'[new].type = "read" /\ ops'[new].msg = 0 /\ ops'[new].at = "grpc"
        /\ ops'[new].ok /\ ops'[new].callback
        /\ completions' = (completions \ {i}) \cup {new}
  <2>1. TypeOK /\ "read" \in OpType /\ 0 \in Nat
    BY DEF GrpcInv, OpType
  <2> QED
    BY <2>1, IssuedOp DEF Issue
<1>r. /\ completions' \subseteq DOMAIN ops' /\ ops[i].msg \in Nat
      /\ ops[i].type = "read" /\ ops[i].ok /\ CallbackToRun(i) /\ i \in completions
  <2>1. ops[i] \in Op /\ completions \subseteq DOMAIN ops
    BY DEF GrpcInv, TypeOK
  <2> QED
    BY <2>1, <1>t, <1>o DEF Op, CallbackToRun
<1>c. ~callFinished
  BY <1>r DEF GrpcInv, ReadInv
<1>T. TypeOK'
  BY <1>t, <1>o, <1>r, <1>c DEF GrpcInv, TypeOK
<1>Q. QueueInv'
  <2>1. ASSUME NEW j \in DOMAIN ops', Waiting(j)' PROVE j \in DOMAIN ops /\ Waiting(j)
    BY <1>t, <1>o, <2>1 DEF Waiting
  <2>2. \A j \in DOMAIN ops' : Waiting(j)' => ops'[j].at = "queued"
    BY <1>o, <2>1 DEF GrpcInv, QueueInv
  <2> QED
    BY <1>t, <2>2 DEF QueueInv
<1>C. CompletionsInv'
  <2>1. \A j \in DOMAIN ops : OffQueue(j)' <=> OffQueue(j)
    BY <1>o DEF OffQueue
  <2>2. \A j \in DOMAIN ops : CallbackToRun(j)' => CallbackToRun(j) /\ j # i
    BY <1>t, <1>o DEF CallbackToRun
  <2>3. OffQueue(i)
    BY <1>t, <1>o DEF OffQueue
  <2> QED
    BY <1>t, <1>o, <2>1, <2>2, <2>3 DEF GrpcInv, CompletionsInv
<1>L. LifeInv'
  BY <1>t, <1>o, <1>r, <1>c DEF GrpcInv, TypeOK, LifeInv
<1>W. WorkerInv'
  BY <1>t, <1>o, <1>r, <1>c DEF GrpcInv, TypeOK, LifeInv, WorkerInv, IsFinish
<1>F. FinishInv'
  BY <1>t, <1>o, <1>r, <1>c DEF GrpcInv, TypeOK, FinishInv, IsFinish, OffQueue
<1>R. ReadInv'
  <2>1. /\ completions \subseteq DOMAIN ops /\ told \in Seq(Nat)
        /\ told' = Append(told, ops[i].msg) /\ arrived' = arrived /\ callFinished' = callFinished
    BY DEF GrpcInv, TypeOK
  <2>2. ops[i].msg = arrived /\ arrived = Len(told) + 1
    BY <1>t, <1>r, <1>c DEF GrpcInv, ReadInv
  <2>3. \A j \in completions : ops[j].type = "read" => NoLater(j, {"read"})
    BY DEF GrpcInv, ReadInv
  <2>4. \A j \in completions : ops[j].type = "read" => j = i
    BY <1>o, <1>r, <2>1, <2>3 DEF NoLater
  <2>5. \A j \in completions' : ops'[j].type = "read" => j = new
    BY <1>o, <2>1, <2>4
  <2>6. NoLater(new, {"read"})'
    BY <1>o DEF NoLater
  <2>7. arrived' = Len(told')
    BY <1>r, <2>1, <2>2
  <2> QED
    BY <1>o, <1>c, <2>1, <2>5, <2>6, <2>7 DEF ReadInv
<1>X. WriteInv'
  BY <1>t, <1>o, <1>r, <1>c DEF GrpcInv, TypeOK, WriteInv, IsWrite, NoLater
<1>Y. WireInv'
  <2>1. \A j \in DOMAIN ops' : WriteWithGrpc(j)' <=> j \in DOMAIN ops /\ WriteWithGrpc(j)
    BY <1>o DEF WriteWithGrpc, IsWrite
  <2> QED
    BY <1>o, <2>1 DEF GrpcInv, WireInv
<1> QED
  BY <1>T, <1>Q, <1>C, <1>L, <1>W, <1>F, <1>R, <1>X, <1>Y DEF GrpcInv

\* OnWrite, with the write that follows if there is one, keeps the invariant.
LEMMA OnWriteKeeps ==
  ASSUME GrpcInv, NEW i \in DOMAIN ops, OnWrite(i) PROVE GrpcInv'
<1> USE DEF OnWrite, history
<1>t. /\ ops[i].at = "queued" /\ Waiting(i) /\ worker.at = "idle" /\ i \in Nat
      /\ workerQueue' \in Seq(Nat)
      /\ \A n \in DOMAIN workerQueue' : workerQueue'[n] \in DOMAIN ops
      /\ \A j \in DOMAIN ops : Waiting(j)' <=> Waiting(j) /\ j # i
      /\ \A m, n \in DOMAIN workerQueue' : workerQueue'[m] = workerQueue'[n] => m = n
      /\ ops[i].callback => i \in completions /\ stream = "alive"
  BY TaskFacts DEF OnWrite
<1>i. /\ i \in completions /\ IsWrite(i) /\ ops[i].type = "write"
      /\ \A j \in completions : IsWrite(j) => j = i
  <2>1. i \in completions /\ IsWrite(i)
    BY <1>t DEF IsWrite
  <2>2. \A j \in completions : IsWrite(j) => NoLater(j, {"write", "last"})
    BY DEF GrpcInv, WriteInv
  <2>3. completions \subseteq DOMAIN ops /\ \A j \in DOMAIN ops : j \in Nat
    BY DEF GrpcInv, TypeOK
  <2> QED
    BY <2>1, <2>2, <2>3 DEF NoLater, IsWrite
<1>g. \A j \in DOMAIN ops : ~WriteWithGrpc(j)
  BY <1>i, <1>t DEF GrpcInv, CompletionsInv, OffQueue, WriteWithGrpc
<1>1. CASE buffer = << >>
  <2>o. /\ buffer' = buffer /\ ~activeWrite' /\ activeWrite' \in BOOLEAN
        /\ completions' = completions \ {i} /\ ops' = ops
    BY <1>1 DEF TryStartWrite
  <2>T. TypeOK'
    BY <1>1, <1>t, <1>i, <2>o DEF GrpcInv, TypeOK
  <2>Q. QueueInv'
    BY <1>1, <1>t, <1>i, <2>o DEF GrpcInv, TypeOK, QueueInv, Waiting
  <2>C. CompletionsInv'
    BY <1>1, <1>t, <1>i, <2>o DEF GrpcInv, TypeOK, CompletionsInv, OffQueue, CallbackToRun, Waiting
  <2>L. LifeInv'
    BY <1>1, <1>t, <1>i, <2>o DEF GrpcInv, TypeOK, LifeInv
  <2>W. WorkerInv'
    BY <1>1, <1>t, <1>i, <2>o DEF GrpcInv, TypeOK, LifeInv, WorkerInv, IsFinish
  <2>F. FinishInv'
    BY <1>1, <1>t, <1>i, <2>o DEF GrpcInv, TypeOK, FinishInv, IsFinish, OffQueue
  <2>R. ReadInv'
    BY <1>1, <1>t, <1>i, <2>o DEF GrpcInv, TypeOK, ReadInv, NoLater, CallbackToRun, Waiting
  <2>X. WriteInv'
    BY <1>1, <1>t, <1>i, <2>o DEF GrpcInv, TypeOK, WriteInv, IsWrite, NoLater
  <2>Y. WireInv'
    BY <1>1, <1>t, <1>i, <2>o DEF GrpcInv, TypeOK, WireInv, IsWrite, WriteWithGrpc
  <2> QED
    BY <2>T, <2>Q, <2>C, <2>L, <2>W, <2>F, <2>R, <2>X, <2>Y DEF GrpcInv
<1>2. CASE buffer # << >>
  <2>h. /\ buffer' = Tail(buffer) /\ activeWrite' /\ activeWrite' \in BOOLEAN
        /\ ops' = Append(ops, NewOp("write", Head(buffer)))
        /\ completions' = (completions \ {i}) \cup {Len(ops) + 1}
    BY <1>2 DEF TryStartWrite, Issue
  <2>b. /\ buffer \in Seq(Nat) /\ Len(buffer) \in Nat /\ Len(buffer) > 0 /\ Head(buffer) \in Nat
        /\ buffer' \in Seq(Nat) /\ Len(buffer') = Len(buffer) - 1
        /\ DOMAIN buffer' = 1..(Len(buffer) - 1) /\ DOMAIN buffer = 1..Len(buffer)
        /\ \A k \in DOMAIN buffer' : buffer'[k] = buffer[k + 1]
        /\ Head(buffer) = buffer[1]
    BY <1>2, <2>h DEF GrpcInv, TypeOK
  <2>m. Head(buffer) = written - Len(buffer) + 1 /\ written \in Nat /\ Len(buffer) <= written
    <3>1. /\ \A k \in DOMAIN buffer : buffer[k] = written - Len(buffer) + k
          /\ Len(buffer) <= written /\ written \in Nat
      BY DEF GrpcInv, TypeOK, WriteInv
    <3>2. 1 \in DOMAIN buffer
      BY <2>b
    <3> QED
      BY <2>b, <3>1, <3>2
  <2>o. PICK new \in Nat :
          /\ new = Len(ops) + 1
          /\ ops' \in Seq(Op) /\ DOMAIN ops' = DOMAIN ops \cup {new} /\ new \notin DOMAIN ops
          /\ \A j \in DOMAIN ops : j \in Nat /\ j < new /\ ops'[j] = ops[j]
          /\ ops'[new].type = "write" /\ ops'[new].msg = Head(buffer) /\ ops'[new].at = "grpc"
          /\ ops'[new].ok /\ ops'[new].callback
    <3>1. TypeOK /\ "write" \in OpType
      BY DEF GrpcInv, OpType
    <3>2. ops' = Append(ops, NewOp("write", Head(buffer))) /\ Head(buffer) \in Nat
      BY <2>h, <2>b
    <3> HIDE DEF OnWrite
    <3> QED
      BY <3>1, <3>2, IssuedOp
  <2>c. /\ activeWrite' /\ activeWrite' \in BOOLEAN /\ buffer' \in Seq(Nat)
        /\ completions' = (completions \ {i}) \cup {new}
        /\ completions' \subseteq DOMAIN ops'
    BY <2>h, <2>b, <2>o DEF GrpcInv, TypeOK
  <2>T. TypeOK'
    BY <1>t, <2>o, <2>c DEF GrpcInv, TypeOK
  <2>Q. QueueInv'
    <3>1. ASSUME NEW j \in DOMAIN ops', Waiting(j)' PROVE j \in DOMAIN ops /\ Waiting(j)
      BY <1>t, <2>o, <3>1 DEF Waiting
    <3>2. \A j \in DOMAIN ops' : Waiting(j)' => ops'[j].at = "queued"
      BY <2>o, <3>1 DEF GrpcInv, QueueInv
    <3> QED
      BY <1>t, <3>2 DEF QueueInv
  <2>C. CompletionsInv'
    <3>1. \A j \in DOMAIN ops : OffQueue(j)' <=> OffQueue(j)
      BY <2>o DEF OffQueue
    <3>2. \A j \in DOMAIN ops : CallbackToRun(j)' => CallbackToRun(j) /\ j # i
      BY <1>t, <2>o, <2>c DEF CallbackToRun
    <3>3. OffQueue(i)
      BY <1>t, <2>o, <2>c DEF OffQueue
    <3> QED
      BY <1>t, <2>o, <2>c, <3>1, <3>2, <3>3 DEF GrpcInv, CompletionsInv
  <2>L. LifeInv'
    BY <1>t, <2>o, <2>c DEF GrpcInv, TypeOK, LifeInv
  <2>W. WorkerInv'
    BY <1>t, <2>o, <2>c DEF GrpcInv, TypeOK, LifeInv, WorkerInv, IsFinish
  <2>F. FinishInv'
    <3>1. \A j \in DOMAIN ops' : IsFinish(j)' => j \in DOMAIN ops /\ IsFinish(j)
      BY <2>o DEF IsFinish
    <3>2. \A j \in DOMAIN ops : OffQueue(j)' <=> OffQueue(j)
      BY <2>o DEF OffQueue
    <3>3. \A j, k \in DOMAIN ops' : j < k /\ k \in DOMAIN ops => j \in DOMAIN ops
      BY <2>o
    <3> QED
      BY <3>1, <3>2, <3>3 DEF GrpcInv, FinishInv
  <2>R. ReadInv'
    <3>1. \A j \in completions' : ops'[j].type = "read" => j \in completions /\ ops'[j] = ops[j]
      BY <2>o, <2>c DEF GrpcInv, TypeOK
    <3>2. \A j \in DOMAIN ops : NoLater(j, {"read"}) => NoLater(j, {"read"})'
      BY <2>o DEF NoLater
    <3>3. \A j \in DOMAIN ops' : CallbackToRun(j)' => j = new \/ (j \in DOMAIN ops /\ CallbackToRun(j))
      <4>1. \A j \in DOMAIN ops' : CallbackToRun(j)' => ops'[j].callback /\ (ops'[j].at = "queued" => Waiting(j)')
        BY DEF CallbackToRun
      <4>2. \A j \in DOMAIN ops' : j = new \/ (j \in DOMAIN ops /\ ops'[j] = ops[j])
        BY <2>o
      <4>3. \A j \in DOMAIN ops : ops[j].callback /\ (ops[j].at = "queued" => Waiting(j)) => CallbackToRun(j)
        BY DEF CallbackToRun
      <4> QED
        BY <1>t, <4>1, <4>2, <4>3
    <3>4. \A j \in completions : ops[j].type = "read" => j \in completions' /\ ops'[j] = ops[j]
      BY <1>i, <2>o, <2>c DEF GrpcInv, TypeOK
    <3>5. completions \subseteq DOMAIN ops
      BY DEF GrpcInv, TypeOK
    <3> QED
      BY <2>o, <3>1, <3>2, <3>3, <3>4, <3>5 DEF GrpcInv, ReadInv
  <2>X. WriteInv'
    <3>1. \A j \in completions' : IsWrite(j)' => j = new
      BY <1>i, <2>o, <2>c DEF GrpcInv, TypeOK, IsWrite
    <3>2. NoLater(new, {"write", "last"})'
      BY <2>o DEF NoLater
    <3>3. \A k \in DOMAIN buffer' : buffer'[k] = (written - (Len(buffer) - 1)) + k
      <4>1. \A k \in DOMAIN buffer : buffer[k] = written - Len(buffer) + k
        BY DEF GrpcInv, WriteInv
      <4>2. \A k \in DOMAIN buffer' : k \in Nat /\ k + 1 \in DOMAIN buffer /\ buffer'[k] = buffer[k + 1]
        <5>1. \A k \in 1..(Len(buffer) - 1) : k \in Nat /\ k + 1 \in 1..Len(buffer)
          BY <2>b
        <5> QED
          BY <2>b, <5>1
      <4> QED
        BY <2>b, <2>m, <4>1, <4>2
    <3> QED
      BY <2>h, <2>b, <2>m, <3>1, <3>2, <3>3 DEF WriteInv
  <2>Y. WireInv'
    <3>1. WriteWithGrpc(new)' /\ \A j \in DOMAIN ops' : WriteWithGrpc(j)' => j = new
      BY <1>g, <2>o DEF WriteWithGrpc, IsWrite
    <3>2. (call = "live" => Len(wire) = written - Len(buffer)) /\ Len(wire) \in Nat
      BY <1>g DEF GrpcInv, WireInv, TypeOK
    <3>3. written' - Len(buffer') = (written - Len(buffer)) + 1
      BY <2>b, <2>m
    <3>4. \A j \in DOMAIN ops' : WriteWithGrpc(j)' => ops'[j].msg = written - Len(buffer) + 1
      BY <2>m, <2>o, <3>1
    <3>5. call' = call /\ wire' = wire /\ new \in DOMAIN ops'
      BY <2>o
    <3> QED
      BY <2>b, <2>m, <3>1, <3>2, <3>3, <3>4, <3>5 DEF WireInv
  <2> QED
    BY <2>T, <2>Q, <2>C, <2>L, <2>W, <2>F, <2>R, <2>X, <2>Y DEF GrpcInv
<1> QED
  BY <1>1, <1>2

\* OnOperationFailed, the first and the next ones, keeps the invariant.
LEMMA OnOperationFailedKeeps ==
  ASSUME GrpcInv, NEW i \in DOMAIN ops, OnOperationFailed(i) PROVE GrpcInv'
<1> USE DEF OnOperationFailed, writerVars, history
<1>t. /\ ops[i].at = "queued" /\ Waiting(i) /\ worker.at = "idle" /\ i \in Nat
      /\ workerQueue' \in Seq(Nat)
      /\ \A n \in DOMAIN workerQueue' : workerQueue'[n] \in DOMAIN ops
      /\ \A j \in DOMAIN ops : Waiting(j)' <=> Waiting(j) /\ j # i
      /\ \A m, n \in DOMAIN workerQueue' : workerQueue'[m] = workerQueue'[n] => m = n
      /\ ops[i].callback => i \in completions /\ stream = "alive"
  BY TaskFacts DEF OnOperationFailed
<1>1. CASE callFinished
  <2>T. TypeOK'
    BY <1>1, <1>t DEF GrpcInv, TypeOK
  <2>Q. QueueInv'
    <3>1. \A j \in DOMAIN ops : Waiting(j)' => Waiting(j)
      BY <1>t
    <3> QED
      BY <1>1, <1>t, <3>1 DEF GrpcInv, QueueInv
  <2>C. CompletionsInv'
    <3>1. \A j \in DOMAIN ops : CallbackToRun(j)' => CallbackToRun(j) /\ j # i
      BY <1>1, <1>t DEF CallbackToRun
    <3>2. \A j \in DOMAIN ops : ~OffQueue(j)' => ~OffQueue(j) /\ j # i
      BY <1>1, <1>t DEF OffQueue
    <3> QED
      BY <1>1, <3>1, <3>2 DEF GrpcInv, CompletionsInv
  <2>L. LifeInv'
    BY <1>1, <1>t DEF GrpcInv, TypeOK, LifeInv
  <2>W. WorkerInv'
    BY <1>1, <1>t DEF GrpcInv, TypeOK, LifeInv, WorkerInv, IsFinish
  <2>F. FinishInv'
    BY <1>1, <1>t DEF GrpcInv, TypeOK, FinishInv, IsFinish, OffQueue
  <2>R. ReadInv'
    <3>1. /\ callFinished' = callFinished /\ ops' = ops /\ completions' = completions \ {i}
          /\ UNCHANGED <<stream, arrived, told>>
      BY <1>1
    <3>2. \A j \in DOMAIN ops : CallbackToRun(j)' => CallbackToRun(j)
      BY <1>t, <3>1 DEF CallbackToRun
    <3>3. \A j \in DOMAIN ops : NoLater(j, {"read"}) => NoLater(j, {"read"})'
      BY <3>1 DEF NoLater
    <3>4. completions \subseteq DOMAIN ops
      BY DEF GrpcInv, TypeOK
    <3> QED
      BY <1>1, <3>1, <3>2, <3>3, <3>4 DEF GrpcInv, ReadInv
  <2>X. WriteInv'
    BY <1>1, <1>t DEF GrpcInv, TypeOK, WriteInv, IsWrite, NoLater
  <2>Y. WireInv'
    BY <1>1, <1>t DEF GrpcInv, TypeOK, WireInv, IsWrite, WriteWithGrpc
  <2> QED
    BY <2>T, <2>Q, <2>C, <2>L, <2>W, <2>F, <2>R, <2>X, <2>Y DEF GrpcInv
<1>2. CASE ~callFinished
  <2>f. /\ callFinished' /\ callFinished' \in BOOLEAN
        /\ worker' = [at |-> "draining", why |-> "failed"]
        /\ Cancel(completions \ {i})
    BY <1>2 DEF FinishGrpcCall
  <2>o. /\ ops' \in Seq(Op) /\ Len(ops') = Len(ops) /\ DOMAIN ops' = DOMAIN ops
        /\ \A j \in DOMAIN ops :
             /\ ops'[j].type = ops[j].type /\ ops'[j].msg = ops[j].msg
             /\ ops'[j].at = ops[j].at /\ ops'[j].ok = ops[j].ok
             /\ ops'[j].callback <=> ops[j].callback /\ j \notin completions \ {i}
        /\ completions' = completions \ {i}
    BY <2>f, CancelledOps DEF GrpcInv
  <2>z. \A j \in DOMAIN ops : ~CallbackToRun(j)'
    <3>1. \A j \in DOMAIN ops : CallbackToRun(j)' => CallbackToRun(j) /\ j # i
      BY <1>t, <2>o DEF CallbackToRun
    <3> QED
      BY <2>o, <3>1 DEF GrpcInv, CompletionsInv, CallbackToRun
  <2>y. call \in {"failed", "cancelled"} /\ \A j \in DOMAIN ops : ~IsFinish(j)
    BY <1>2 DEF GrpcInv, LifeInv, FinishInv
  <2>T. TypeOK'
    BY <1>2, <1>t, <2>f, <2>o, <2>y, <2>z DEF GrpcInv, TypeOK
  <2>Q. QueueInv'
    <3>1. \A j \in DOMAIN ops : Waiting(j)' => Waiting(j)
      BY <1>t
    <3> QED
      BY <1>t, <2>o, <3>1 DEF GrpcInv, QueueInv
  <2>C. CompletionsInv'
    BY <1>2, <1>t, <2>f, <2>o, <2>y, <2>z DEF GrpcInv, TypeOK, CompletionsInv, OffQueue, CallbackToRun, Waiting
  <2>L. LifeInv'
    BY <1>2, <1>t, <2>f, <2>o, <2>y, <2>z DEF GrpcInv, TypeOK, LifeInv
  <2>W. WorkerInv'
    BY <1>2, <1>t, <2>f, <2>o, <2>y, <2>z DEF GrpcInv, TypeOK, LifeInv, WorkerInv, IsFinish
  <2>F. FinishInv'
    BY <1>2, <1>t, <2>f, <2>o, <2>y, <2>z DEF GrpcInv, TypeOK, FinishInv, IsFinish, OffQueue
  <2>R. ReadInv'
    <3>1. \A j \in completions' : ops'[j].type = "read" => j \in completions /\ ops[j].type = "read"
      BY <2>o DEF GrpcInv, TypeOK
    <3>2. \A j \in DOMAIN ops : NoLater(j, {"read"}) => NoLater(j, {"read"})'
      BY <2>o DEF NoLater
    <3>3. completions \subseteq DOMAIN ops
      BY DEF GrpcInv, TypeOK
    <3> QED
      BY <2>f, <2>o, <2>z, <3>1, <3>2, <3>3 DEF GrpcInv, ReadInv
  <2>X. WriteInv'
    BY <1>2, <1>t, <2>f, <2>o, <2>y, <2>z DEF GrpcInv, TypeOK, WriteInv, IsWrite, NoLater
  <2>Y. WireInv'
    BY <1>2, <1>t, <2>f, <2>o, <2>y, <2>z DEF GrpcInv, TypeOK, WireInv, IsWrite, WriteWithGrpc
  <2> QED
    BY <2>T, <2>Q, <2>C, <2>L, <2>W, <2>F, <2>R, <2>X, <2>Y DEF GrpcInv
<1> QED
  BY <1>1, <1>2

\* Shutdown, up to its first wait, keeps the invariant.
LEMMA ShutdownKeeps == GrpcInv /\ Shutdown => GrpcInv'
<1> SUFFICES ASSUME GrpcInv, Shutdown PROVE GrpcInv'
  OBVIOUS
<1> USE DEF Shutdown, writerVars, history
<1>s. stream = "alive" /\ (~callFinished => completions # {}) /\ call \in {"live", "failed", "cancelled"}
  BY DEF GrpcInv, TypeOK, LifeInv, WorkerInv, ReadInv
<1>1. CASE completions # {} /\ ~callFinished
  <2>f. /\ callFinished' /\ callFinished' \in BOOLEAN /\ Cancel(completions)
        /\ worker' = [at |-> "draining", why |-> worker.why]
        /\ call' = IF call = "live" THEN "cancelled" ELSE call
        /\ workerQueue' = workerQueue
    BY <1>1 DEF FinishGrpcCall
  <2>o. /\ ops' \in Seq(Op) /\ Len(ops') = Len(ops) /\ DOMAIN ops' = DOMAIN ops
        /\ \A j \in DOMAIN ops :
             /\ ops'[j].type = ops[j].type /\ ops'[j].msg = ops[j].msg
             /\ ops'[j].at = ops[j].at /\ ops'[j].ok = ops[j].ok
             /\ ops'[j].callback <=> ops[j].callback /\ j \notin completions
        /\ completions' = completions
    BY <2>f, CancelledOps DEF GrpcInv
  <2>z. \A j \in DOMAIN ops : ~CallbackToRun(j)'
    <3>1. \A j \in DOMAIN ops : CallbackToRun(j)' => CallbackToRun(j)
      BY <2>f, <2>o DEF CallbackToRun, Waiting
    <3> QED
      BY <2>o, <3>1 DEF GrpcInv, CompletionsInv, CallbackToRun
  <2>y. call' \in {"failed", "cancelled"} /\ \A j \in DOMAIN ops : ~IsFinish(j)
    BY <1>1, <1>s, <2>f DEF GrpcInv, FinishInv
  <2>T. TypeOK'
    BY <1>1, <1>s, <2>f, <2>o, <2>y, <2>z DEF GrpcInv, TypeOK
  <2>Q. QueueInv'
    BY <2>f, <2>o DEF GrpcInv, QueueInv, Waiting
  <2>C. CompletionsInv'
    BY <1>1, <1>s, <2>f, <2>o, <2>y, <2>z DEF GrpcInv, TypeOK, CompletionsInv, OffQueue, CallbackToRun, Waiting
  <2>L. LifeInv'
    BY <1>1, <1>s, <2>f, <2>o, <2>y, <2>z DEF GrpcInv, TypeOK, LifeInv
  <2>W. WorkerInv'
    BY <1>1, <1>s, <2>f, <2>o, <2>y, <2>z DEF GrpcInv, TypeOK, LifeInv, WorkerInv, IsFinish
  <2>F. FinishInv'
    BY <1>1, <1>s, <2>f, <2>o, <2>y, <2>z DEF GrpcInv, TypeOK, FinishInv, IsFinish, OffQueue
  <2>R. ReadInv'
    <3>1. \A j \in completions' : ops'[j].type = "read" => j \in completions /\ ops[j].type = "read"
      BY <2>o DEF GrpcInv, TypeOK
    <3>2. \A j \in DOMAIN ops : NoLater(j, {"read"}) => NoLater(j, {"read"})'
      BY <2>o DEF NoLater
    <3>3. completions \subseteq DOMAIN ops
      BY DEF GrpcInv, TypeOK
    <3> QED
      BY <2>f, <2>o, <2>z, <3>1, <3>2, <3>3 DEF GrpcInv, ReadInv
  <2>X. WriteInv'
    BY <1>1, <1>s, <2>f, <2>o, <2>y, <2>z DEF GrpcInv, TypeOK, WriteInv, IsWrite, NoLater
  <2>Y. WireInv'
    <3>1. \A j \in DOMAIN ops : WriteWithGrpc(j)' <=> WriteWithGrpc(j)
      BY <2>o DEF WriteWithGrpc, IsWrite
    <3>2. call' = "live" => call = "live"
      BY <2>f
    <3> QED
      BY <2>o, <3>1, <3>2 DEF GrpcInv, WireInv
  <2> QED
    BY <2>T, <2>Q, <2>C, <2>L, <2>W, <2>F, <2>R, <2>X, <2>Y DEF GrpcInv
<1>2. CASE callFinished
  <2>f. /\ callFinished' = callFinished /\ callFinished /\ Cancel(completions)
        /\ worker' = [at |-> "closing", why |-> worker.why] /\ call' = call
        /\ workerQueue' = workerQueue
    BY <1>2 DEF GoOn, GrpcInv, TypeOK
  <2>o. /\ ops' \in Seq(Op) /\ Len(ops') = Len(ops) /\ DOMAIN ops' = DOMAIN ops
        /\ \A j \in DOMAIN ops :
             /\ ops'[j].type = ops[j].type /\ ops'[j].msg = ops[j].msg
             /\ ops'[j].at = ops[j].at /\ ops'[j].ok = ops[j].ok
             /\ ops'[j].callback <=> ops[j].callback /\ j \notin completions
        /\ completions' = completions
    BY <2>f, CancelledOps DEF GrpcInv
  <2>z. \A j \in DOMAIN ops : ~CallbackToRun(j)'
    <3>1. \A j \in DOMAIN ops : CallbackToRun(j)' => CallbackToRun(j)
      BY <2>f, <2>o DEF CallbackToRun, Waiting
    <3> QED
      BY <2>o, <3>1 DEF GrpcInv, CompletionsInv, CallbackToRun
  <2>T. TypeOK'
    BY <1>2, <1>s, <2>f, <2>o, <2>z DEF GrpcInv, TypeOK
  <2>Q. QueueInv'
    BY <2>f, <2>o DEF GrpcInv, QueueInv, Waiting
  <2>C. CompletionsInv'
    BY <1>2, <1>s, <2>f, <2>o, <2>z DEF GrpcInv, TypeOK, CompletionsInv, OffQueue, CallbackToRun, Waiting
  <2>L. LifeInv'
    BY <1>2, <1>s, <2>f, <2>o, <2>z DEF GrpcInv, TypeOK, LifeInv
  <2>W. WorkerInv'
    BY <1>2, <1>s, <2>f, <2>o, <2>z DEF GrpcInv, TypeOK, LifeInv, WorkerInv, IsFinish
  <2>F. FinishInv'
    BY <1>2, <1>s, <2>f, <2>o, <2>z DEF GrpcInv, TypeOK, FinishInv, IsFinish, OffQueue
  <2>R. ReadInv'
    <3>1. \A j \in completions' : ops'[j].type = "read" => j \in completions /\ ops[j].type = "read"
      BY <2>o DEF GrpcInv, TypeOK
    <3>2. \A j \in DOMAIN ops : NoLater(j, {"read"}) => NoLater(j, {"read"})'
      BY <2>o DEF NoLater
    <3>3. completions \subseteq DOMAIN ops
      BY DEF GrpcInv, TypeOK
    <3> QED
      BY <2>f, <2>o, <2>z, <3>1, <3>2, <3>3 DEF GrpcInv, ReadInv
  <2>X. WriteInv'
    BY <1>2, <1>s, <2>f, <2>o, <2>z DEF GrpcInv, TypeOK, WriteInv, IsWrite, NoLater
  <2>Y. WireInv'
    <3>1. \A j \in DOMAIN ops : WriteWithGrpc(j)' <=> WriteWithGrpc(j)
      BY <2>o DEF WriteWithGrpc, IsWrite
    <3>2. call' = "live" => call = "live"
      BY <2>f
    <3> QED
      BY <2>o, <3>1, <3>2 DEF GrpcInv, WireInv
  <2> QED
    BY <2>T, <2>Q, <2>C, <2>L, <2>W, <2>F, <2>R, <2>X, <2>Y DEF GrpcInv
<1> QED
  BY <1>1, <1>2, <1>s

\* The end of Shutdown and the destruction of the stream keep the invariant.
LEMMA ClosedKeeps == GrpcInv /\ Closed => GrpcInv'
<1> SUFFICES ASSUME GrpcInv, Closed PROVE GrpcInv'
  OBVIOUS
<1> USE DEF Closed, Idle, AllOffQueue, writerVars, history
<1>o. /\ stream = "alive" /\ callFinished /\ registered = FALSE
      /\ \A i \in completions : ~ops[i].callback
      /\ worker.why \in {"stop", "badRead", "notify"}
  BY DEF GrpcInv, TypeOK, LifeInv, WorkerInv
<1>T. TypeOK'
  BY <1>o DEF GrpcInv, TypeOK
<1>Q. QueueInv'
  BY <1>o DEF GrpcInv, TypeOK, QueueInv, Waiting
<1>C. CompletionsInv'
  BY <1>o DEF GrpcInv, TypeOK, CompletionsInv, OffQueue, CallbackToRun, Waiting
<1>L. LifeInv'
  BY <1>o DEF GrpcInv, TypeOK, LifeInv
<1>W. WorkerInv'
  BY <1>o DEF GrpcInv, TypeOK, LifeInv, WorkerInv, IsFinish
<1>F. FinishInv'
  BY <1>o DEF GrpcInv, TypeOK, FinishInv, IsFinish, OffQueue
<1>R. ReadInv'
  BY <1>o DEF GrpcInv, TypeOK, ReadInv, NoLater, CallbackToRun, Waiting
<1>X. WriteInv'
  BY <1>o DEF GrpcInv, TypeOK, WriteInv, IsWrite, NoLater
<1>Y. WireInv'
  BY <1>o DEF GrpcInv, TypeOK, WireInv, IsWrite, WriteWithGrpc
<1> QED
  BY <1>T, <1>Q, <1>C, <1>L, <1>W, <1>F, <1>R, <1>X, <1>Y DEF GrpcInv

\* The poller's fulfilling of a promise keeps the invariant.
LEMMA PollKeeps ==
  ASSUME GrpcInv, NEW i \in DOMAIN ops, Poll(i) PROVE GrpcInv'
<1> USE DEF Poll, writerVars, history
<1>o. /\ ops' \in Seq(Op) /\ Len(ops') = Len(ops) /\ DOMAIN ops' = DOMAIN ops
      /\ \A j \in DOMAIN ops :
           /\ j \in Nat
           /\ j # i => ops'[j] = ops[j]
           /\ ops'[j].type = ops[j].type /\ ops'[j].msg = ops[j].msg
           /\ ops'[j].ok = ops[j].ok /\ ops'[j].callback = ops[j].callback
      /\ ops'[i].at = "polled"
  BY MovedOps DEF GrpcInv, Place
<1>T. TypeOK'
  BY <1>o DEF GrpcInv, TypeOK
<1>Q. QueueInv'
  BY <1>o DEF GrpcInv, TypeOK, QueueInv, Waiting
<1>C. CompletionsInv'
  BY <1>o DEF GrpcInv, TypeOK, CompletionsInv, OffQueue, CallbackToRun, Waiting
<1>L. LifeInv'
  BY <1>o DEF GrpcInv, TypeOK, LifeInv
<1>W. WorkerInv'
  BY <1>o DEF GrpcInv, TypeOK, LifeInv, WorkerInv, IsFinish
<1>F. FinishInv'
  BY <1>o DEF GrpcInv, TypeOK, FinishInv, IsFinish, OffQueue
<1>R. ReadInv'
  BY <1>o DEF GrpcInv, TypeOK, ReadInv, NoLater, CallbackToRun, Waiting
<1>X. WriteInv'
  BY <1>o DEF GrpcInv, TypeOK, WriteInv, IsWrite, NoLater
<1>Y. WireInv'
  BY <1>o DEF GrpcInv, TypeOK, WireInv, IsWrite, WriteWithGrpc
<1> QED
  BY <1>T, <1>Q, <1>C, <1>L, <1>W, <1>F, <1>R, <1>X, <1>Y DEF GrpcInv

\* The poller's queueing of a callback keeps the invariant.
LEMMA EnqueueKeeps ==
  ASSUME GrpcInv, NEW i \in DOMAIN ops, Enqueue(i) PROVE GrpcInv'
<1> USE DEF Enqueue, writerVars, history
<1>o. /\ ops' \in Seq(Op) /\ Len(ops') = Len(ops) /\ DOMAIN ops' = DOMAIN ops
      /\ \A j \in DOMAIN ops :
           /\ j \in Nat
           /\ j # i => ops'[j] = ops[j]
           /\ ops'[j].type = ops[j].type /\ ops'[j].msg = ops[j].msg
           /\ ops'[j].ok = ops[j].ok /\ ops'[j].callback = ops[j].callback
      /\ ops'[i].at = "queued"
  BY MovedOps DEF GrpcInv, Place
<1>t. /\ workerQueue' \in Seq(Nat)
      /\ \A n \in DOMAIN workerQueue' : workerQueue'[n] \in DOMAIN ops
      /\ \A m, n \in DOMAIN workerQueue' : workerQueue'[m] = workerQueue'[n] => m = n
      /\ \A j \in DOMAIN ops : Waiting(j)' <=> Waiting(j) \/ j = i
  <2>1. /\ workerQueue \in Seq(Nat) /\ workerQueue' = Append(workerQueue, i) /\ i \in Nat
        /\ ~Waiting(i) /\ \A n \in DOMAIN workerQueue : workerQueue[n] \in DOMAIN ops
        /\ \A m, n \in DOMAIN workerQueue : workerQueue[m] = workerQueue[n] => m = n
    BY <1>o DEF GrpcInv, TypeOK, QueueInv
  <2>2. /\ workerQueue' \in Seq(Nat) /\ DOMAIN workerQueue' = DOMAIN workerQueue \cup {Len(workerQueue) + 1}
        /\ \A n \in DOMAIN workerQueue : workerQueue'[n] = workerQueue[n]
        /\ workerQueue'[Len(workerQueue) + 1] = i
    BY <2>1
  <2>3. \A n \in DOMAIN workerQueue : workerQueue[n] # i
    BY <2>1 DEF Waiting
  <2>4. \A m, n \in DOMAIN workerQueue' : workerQueue'[m] = workerQueue'[n] => m = n
    BY <2>1, <2>2, <2>3
  <2>5. \A j \in DOMAIN ops : Waiting(j)' <=> Waiting(j) \/ j = i
    BY <2>2 DEF Waiting
  <2> QED
    BY <2>1, <2>2, <2>4, <2>5
<1>T. TypeOK'
  BY <1>o, <1>t DEF GrpcInv, TypeOK
<1>Q. QueueInv'
  BY <1>o, <1>t DEF GrpcInv, TypeOK, QueueInv, Waiting
<1>C. CompletionsInv'
  BY <1>o, <1>t DEF GrpcInv, TypeOK, CompletionsInv, OffQueue, CallbackToRun, Waiting
<1>L. LifeInv'
  BY <1>o, <1>t DEF GrpcInv, TypeOK, LifeInv
<1>W. WorkerInv'
  BY <1>o, <1>t DEF GrpcInv, TypeOK, LifeInv, WorkerInv, IsFinish
<1>F. FinishInv'
  BY <1>o, <1>t DEF GrpcInv, TypeOK, FinishInv, IsFinish, OffQueue
<1>R. ReadInv'
  <2>1. \A j \in DOMAIN ops : NoLater(j, {"read"}) => NoLater(j, {"read"})'
    BY <1>o DEF NoLater
  <2>2. \A j \in DOMAIN ops : CallbackToRun(j)' => CallbackToRun(j)
    BY <1>o, <1>t DEF CallbackToRun
  <2>3. \A j \in DOMAIN ops : ops'[j].at = "grpc" <=> ops[j].at = "grpc"
    BY <1>o
  <2>4. completions \subseteq DOMAIN ops
    BY DEF GrpcInv, TypeOK
  <2> QED
    BY <1>o, <2>1, <2>2, <2>3, <2>4 DEF GrpcInv, ReadInv
<1>X. WriteInv'
  BY <1>o, <1>t DEF GrpcInv, TypeOK, WriteInv, IsWrite, NoLater
<1>Y. WireInv'
  BY <1>o, <1>t DEF GrpcInv, TypeOK, WireInv, IsWrite, WriteWithGrpc
<1> QED
  BY <1>T, <1>Q, <1>C, <1>L, <1>W, <1>F, <1>R, <1>X, <1>Y DEF GrpcInv

\* An operation of a call that is over keeps the invariant when it comes back.
LEMMA OperationEndsKeeps ==
  ASSUME GrpcInv, NEW i \in DOMAIN ops, OperationEnds(i) PROVE GrpcInv'
<1> USE DEF OperationEnds, Completes, writerVars, history
<1>o. /\ ops' \in Seq(Op) /\ Len(ops') = Len(ops) /\ DOMAIN ops' = DOMAIN ops
      /\ \A j \in DOMAIN ops :
           /\ j \in Nat
           /\ j # i => ops'[j] = ops[j]
           /\ ops'[j].type = ops[j].type /\ ops'[j].callback = ops[j].callback
      /\ ops'[i].at = "completed" /\ ops'[i].ok = (ops[i].type \in {"finish", "close"}) /\ ops'[i].msg = ops[i].msg
  <2>1. TypeOK /\ arrived \in Nat /\ ops[i] \in Op
    BY DEF GrpcInv, TypeOK
  <2>2. (ops[i].type \in {"finish", "close"}) \in BOOLEAN /\ ops[i].msg \in Nat
    BY <2>1 DEF Op
  <2> QED
    BY <2>1, <2>2, CompletedOps
<1>T. TypeOK'
  BY <1>o DEF GrpcInv, TypeOK
<1>Q. QueueInv'
  BY <1>o DEF GrpcInv, TypeOK, QueueInv, Waiting
<1>C. CompletionsInv'
  BY <1>o DEF GrpcInv, TypeOK, CompletionsInv, OffQueue, CallbackToRun, Waiting
<1>L. LifeInv'
  BY <1>o DEF GrpcInv, TypeOK, LifeInv
<1>W. WorkerInv'
  BY <1>o DEF GrpcInv, TypeOK, LifeInv, WorkerInv, IsFinish
<1>F. FinishInv'
  BY <1>o DEF GrpcInv, TypeOK, FinishInv, IsFinish, OffQueue
<1>R. ReadInv'
  BY <1>o DEF GrpcInv, TypeOK, ReadInv, NoLater, CallbackToRun, Waiting
<1>X. WriteInv'
  BY <1>o DEF GrpcInv, TypeOK, WriteInv, IsWrite, NoLater
<1>Y. WireInv'
  BY <1>o DEF GrpcInv, TypeOK, WireInv, IsWrite, WriteWithGrpc
<1> QED
  BY <1>T, <1>Q, <1>C, <1>L, <1>W, <1>F, <1>R, <1>X, <1>Y DEF GrpcInv

\* A message from the server keeps the invariant.
LEMMA ReadSucceedsKeeps ==
  ASSUME GrpcInv, NEW i \in DOMAIN ops, ReadSucceeds(i) PROVE GrpcInv'
<1> USE DEF ReadSucceeds, Completes, writerVars, history
<1>o. /\ ops' \in Seq(Op) /\ Len(ops') = Len(ops) /\ DOMAIN ops' = DOMAIN ops
      /\ \A j \in DOMAIN ops :
           /\ j \in Nat
           /\ j # i => ops'[j] = ops[j]
           /\ ops'[j].type = ops[j].type /\ ops'[j].callback = ops[j].callback
      /\ ops'[i].at = "completed" /\ ops'[i].ok = (TRUE) /\ ops'[i].msg = arrived + 1
  <2>1. TypeOK /\ arrived \in Nat /\ ops[i] \in Op
    BY DEF GrpcInv, TypeOK
  <2>2. (TRUE) \in BOOLEAN /\ arrived + 1 \in Nat
    BY <2>1 DEF Op
  <2> QED
    BY <2>1, <2>2, CompletedOps
<1>T. TypeOK'
  BY <1>o DEF GrpcInv, TypeOK
<1>Q. QueueInv'
  BY <1>o DEF GrpcInv, TypeOK, QueueInv, Waiting
<1>C. CompletionsInv'
  BY <1>o DEF GrpcInv, TypeOK, CompletionsInv, OffQueue, CallbackToRun, Waiting
<1>L. LifeInv'
  BY <1>o DEF GrpcInv, TypeOK, LifeInv
<1>W. WorkerInv'
  BY <1>o DEF GrpcInv, TypeOK, LifeInv, WorkerInv, IsFinish
<1>F. FinishInv'
  <2>1. \A j \in DOMAIN ops : IsFinish(j)' <=> IsFinish(j)
    BY <1>o DEF IsFinish
  <2>2. \A j \in DOMAIN ops : OffQueue(j) => OffQueue(j)'
    BY <1>o DEF OffQueue
  <2> QED
    BY <1>o, <2>1, <2>2 DEF GrpcInv, FinishInv
<1>R. ReadInv'
  <2>1. i \in completions /\ ~callFinished /\ completions \subseteq DOMAIN ops
    BY DEF GrpcInv, TypeOK, LifeInv, CompletionsInv, OffQueue
  <2>2. \A j \in completions : ops[j].type = "read" => j = i
    BY <1>o, <2>1 DEF GrpcInv, ReadInv, NoLater
  <2>3. arrived = Len(told) /\ arrived \in Nat
    BY <2>1 DEF GrpcInv, TypeOK, ReadInv
  <2>4. \A j \in DOMAIN ops : NoLater(j, {"read"}) => NoLater(j, {"read"})'
    BY <1>o DEF NoLater
  <2>5. \A j \in completions' : ops'[j].type = "read" => j = i
    BY <1>o, <2>1, <2>2
  <2> QED
    BY <1>o, <2>1, <2>3, <2>4, <2>5 DEF GrpcInv, ReadInv
<1>X. WriteInv'
  BY <1>o DEF GrpcInv, TypeOK, WriteInv, IsWrite, NoLater
<1>Y. WireInv'
  <2>1. \A j \in DOMAIN ops : WriteWithGrpc(j)' <=> WriteWithGrpc(j)
    BY <1>o DEF WriteWithGrpc, IsWrite
  <2>2. \A j \in DOMAIN ops : WriteWithGrpc(j) => ops'[j] = ops[j]
    BY <1>o DEF WriteWithGrpc, IsWrite
  <2> QED
    BY <1>o, <2>1, <2>2 DEF GrpcInv, WireInv
<1> QED
  BY <1>T, <1>Q, <1>C, <1>L, <1>W, <1>F, <1>R, <1>X, <1>Y DEF GrpcInv

\* A message that goes out keeps the invariant.
LEMMA WriteSucceedsKeeps ==
  ASSUME GrpcInv, NEW i \in DOMAIN ops, WriteSucceeds(i) PROVE GrpcInv'
<1> USE DEF WriteSucceeds, Completes, writerVars, history
<1>o. /\ ops' \in Seq(Op) /\ Len(ops') = Len(ops) /\ DOMAIN ops' = DOMAIN ops
      /\ \A j \in DOMAIN ops :
           /\ j \in Nat
           /\ j # i => ops'[j] = ops[j]
           /\ ops'[j].type = ops[j].type /\ ops'[j].callback = ops[j].callback
      /\ ops'[i].at = "completed" /\ ops'[i].ok = (TRUE) /\ ops'[i].msg = ops[i].msg
  <2>1. TypeOK /\ arrived \in Nat /\ ops[i] \in Op
    BY DEF GrpcInv, TypeOK
  <2>2. (TRUE) \in BOOLEAN /\ ops[i].msg \in Nat
    BY <2>1 DEF Op
  <2> QED
    BY <2>1, <2>2, CompletedOps
<1>m. ops[i].msg \in Nat
  <2>1. ops[i] \in Op
    BY DEF GrpcInv, TypeOK
  <2> QED
    BY <2>1 DEF Op
<1>T. TypeOK'
  BY <1>o, <1>m DEF GrpcInv, TypeOK
<1>Q. QueueInv'
  BY <1>o, <1>m DEF GrpcInv, TypeOK, QueueInv, Waiting
<1>C. CompletionsInv'
  BY <1>o, <1>m DEF GrpcInv, TypeOK, CompletionsInv, OffQueue, CallbackToRun, Waiting
<1>L. LifeInv'
  BY <1>o, <1>m DEF GrpcInv, TypeOK, LifeInv
<1>W. WorkerInv'
  BY <1>o, <1>m DEF GrpcInv, TypeOK, LifeInv, WorkerInv, IsFinish
<1>F. FinishInv'
  BY <1>o, <1>m DEF GrpcInv, TypeOK, FinishInv, IsFinish, OffQueue
<1>R. ReadInv'
  BY <1>o, <1>m DEF GrpcInv, TypeOK, ReadInv, NoLater, CallbackToRun, Waiting
<1>X. WriteInv'
  BY <1>o, <1>m DEF GrpcInv, TypeOK, WriteInv, IsWrite, NoLater
<1>Y. WireInv'
  <2>1. WriteWithGrpc(i) /\ IsWrite(i)
    BY DEF WriteWithGrpc, IsWrite
  <2>2. \A j \in DOMAIN ops : WriteWithGrpc(j) => j \in completions /\ IsWrite(j)
    BY DEF GrpcInv, CompletionsInv, OffQueue, WriteWithGrpc
  <2>3. \A j \in completions : IsWrite(j) => j = i
    BY <1>o, <2>1, <2>2 DEF GrpcInv, TypeOK, WriteInv, NoLater, IsWrite
  <2>4. \A j \in DOMAIN ops' : ~WriteWithGrpc(j)'
    BY <1>o, <2>2, <2>3 DEF WriteWithGrpc, IsWrite
  <2>5. Len(wire) + 1 = written - Len(buffer)
    BY <2>1 DEF GrpcInv, WireInv
  <2>6. Len(wire') = Len(wire) + 1
    BY <1>m DEF GrpcInv, TypeOK
  <2> QED
    BY <2>4, <2>5, <2>6 DEF WireInv
<1> QED
  BY <1>T, <1>Q, <1>C, <1>L, <1>W, <1>F, <1>R, <1>X, <1>Y DEF GrpcInv

\* The finish that FinishGrpcCall issues after its wait keeps the invariant.
LEMMA DrainedKeeps == GrpcInv /\ Drained => GrpcInv'
<1> SUFFICES ASSUME GrpcInv, Drained PROVE GrpcInv'
  OBVIOUS
<1> USE DEF Drained, Idle, writerVars, history
<1>p. PICK new \in Nat, type \in {"finish", "close"} :
        /\ new = Len(ops) + 1
        /\ ops' \in Seq(Op) /\ DOMAIN ops' = DOMAIN ops \cup {new} /\ new \notin DOMAIN ops
        /\ \A j \in DOMAIN ops : j \in Nat /\ j < new /\ ops'[j] = ops[j]
        /\ ops'[new].type = type /\ ops'[new].at = "grpc" /\ ops'[new].ok
        /\ ops'[new].callback <=> worker.why = "failed"
        /\ completions' = {new}
        /\ worker' = IF worker.why = "failed" THEN Idle ELSE [at |-> "closing", why |-> worker.why]
  <2>1. CASE worker.why = "failed"
    BY <2>1, IssuedOp DEF GrpcInv, Issue, OpType
  <2>2. CASE worker.why # "failed"
    <3> DEFINE o == [NewOp("close", 0) EXCEPT !.callback = FALSE]
    <3>1. o \in Op /\ o.type = "close" /\ o.at = "grpc" /\ o.ok /\ o.callback = FALSE
      BY DEF NewOp, Op, OpType, Place
    <3>2. ops' = Append(ops, o) /\ ops \in Seq(Op) /\ Len(ops) + 1 \in Nat
      BY <2>2 DEF GrpcInv, TypeOK
    <3>3. completions' = {Len(ops) + 1} /\ worker' = [at |-> "closing", why |-> worker.why]
      BY <2>2 DEF GrpcInv, TypeOK, GoOn
    <3> HIDE DEF o
    <3>4. /\ ops' \in Seq(Op) /\ DOMAIN ops' = DOMAIN ops \cup {Len(ops) + 1}
          /\ Len(ops) + 1 \notin DOMAIN ops
          /\ \A j \in DOMAIN ops : j \in Nat /\ j < Len(ops) + 1 /\ ops'[j] = ops[j]
          /\ ops'[Len(ops) + 1] = o
      BY <3>1, <3>2, AppendOp
    <3> QED
      BY <2>2, <3>1, <3>2, <3>3, <3>4
  <2> QED
    BY <2>1, <2>2
<1>o. /\ callFinished /\ stream = "alive" /\ call \in {"failed", "cancelled"}
      /\ \A j \in DOMAIN ops : ~IsFinish(j) /\ OffQueue(j) /\ ~CallbackToRun(j)
  BY DEF GrpcInv, WorkerInv, LifeInv, CompletionsInv, AllOffQueue, CallbackToRun
<1>T. TypeOK'
  BY <1>p, <1>o DEF GrpcInv, TypeOK
<1>Q. QueueInv'
  BY <1>p, <1>o DEF GrpcInv, TypeOK, QueueInv, Waiting
<1>C. CompletionsInv'
  BY <1>p, <1>o DEF GrpcInv, TypeOK, CompletionsInv, OffQueue, CallbackToRun, Waiting
<1>L. LifeInv'
  BY <1>p, <1>o DEF GrpcInv, TypeOK, LifeInv
<1>W. WorkerInv'
  BY <1>p, <1>o DEF GrpcInv, TypeOK, LifeInv, WorkerInv, IsFinish
<1>F. FinishInv'
  BY <1>p, <1>o DEF GrpcInv, TypeOK, FinishInv, IsFinish, OffQueue
<1>R. ReadInv'
  BY <1>p, <1>o DEF GrpcInv, TypeOK, ReadInv, NoLater, CallbackToRun, Waiting
<1>X. WriteInv'
  BY <1>p, <1>o DEF GrpcInv, TypeOK, WriteInv, IsWrite, NoLater
<1>Y. WireInv'
  BY <1>p, <1>o DEF GrpcInv, TypeOK, WireInv, IsWrite, WriteWithGrpc
<1> QED
  BY <1>T, <1>Q, <1>C, <1>L, <1>W, <1>F, <1>R, <1>X, <1>Y DEF GrpcInv

\* The invariant holds before the stream is made.
LEMMA InitKeeps == Init => GrpcInv
<1> SUFFICES ASSUME Init PROVE GrpcInv
  OBVIOUS
<1> USE DEF Init, Idle
<1>T. TypeOK
  <2>1. /\ ops \in Seq(Op) /\ DOMAIN ops = {} /\ buffer \in Seq(Nat) /\ wire \in Seq(Nat)
        /\ workerQueue \in Seq(Nat) /\ DOMAIN workerQueue = {} /\ told \in Seq(Nat)
    OBVIOUS
  <2> QED
    BY <2>1 DEF TypeOK
<1>Q. QueueInv /\ CompletionsInv
  BY DEF QueueInv, CompletionsInv, Waiting
<1>L. LifeInv /\ WorkerInv
  BY DEF LifeInv, WorkerInv
<1>F. FinishInv /\ ReadInv
  BY DEF FinishInv, ReadInv
<1>X. WriteInv /\ WireInv
  BY DEF WriteInv, WireInv
<1> QED
  BY <1>T, <1>Q, <1>L, <1>F, <1>X DEF GrpcInv

\* Every step of the three threads keeps the invariant.
LEMMA NextKeeps == GrpcInv /\ [Next]_vars => GrpcInv'
<1> SUFFICES ASSUME GrpcInv, [Next]_vars PROVE GrpcInv'
  OBVIOUS
<1>1. CASE Start
  BY <1>1, StartKeeps
<1>2. CASE Write
  BY <1>2, WriteKeeps
<1>3. CASE Stop
  BY <1>3, StopKeeps
<1>4. CASE StopWithLastWrite
  BY <1>4, StopWithLastWriteKeeps
<1>5. CASE ConnectivityChanged
  BY <1>5, ConnectivityChangedKeeps
<1>6. CASE RunTask
  BY <1>6, CancelledTaskKeeps, OnReadKeeps, OnWriteKeeps, OnFinishKeeps, OnOperationFailedKeeps
     DEF RunTask
<1>7. CASE Continue
  BY <1>7, LastWriteWaitedKeeps, ShutdownKeeps, DrainedKeeps, ClosedKeeps DEF Continue
<1>8. CASE CallFails
  BY <1>8, CallFailsKeeps
<1>9. CASE \E i \in DOMAIN ops : ReadSucceeds(i) \/ WriteSucceeds(i) \/ OperationEnds(i)
  BY <1>9, ReadSucceedsKeeps, WriteSucceedsKeeps, OperationEndsKeeps
<1>10. CASE Poller
  BY <1>10, PollKeeps, EnqueueKeeps DEF Poller
<1>11. CASE UNCHANGED vars
  <2> USE <1>11 DEF vars, writerVars, history
  <2>T. TypeOK'
    BY DEF GrpcInv, TypeOK
  <2>Q. QueueInv'
    BY DEF GrpcInv, QueueInv, Waiting
  <2>C. CompletionsInv'
    BY DEF GrpcInv, CompletionsInv, OffQueue, CallbackToRun, Waiting
  <2>L. LifeInv'
    BY DEF GrpcInv, LifeInv
  <2>W. WorkerInv'
    BY DEF GrpcInv, WorkerInv, IsFinish
  <2>F. FinishInv'
    BY DEF GrpcInv, FinishInv, IsFinish, OffQueue
  <2>R. ReadInv'
    BY DEF GrpcInv, ReadInv, NoLater, CallbackToRun, Waiting
  <2>X. WriteInv'
    BY DEF GrpcInv, WriteInv, IsWrite, NoLater
  <2>Y. WireInv'
    BY DEF GrpcInv, WireInv, IsWrite, WriteWithGrpc
  <2> QED
    BY <2>T, <2>Q, <2>C, <2>L, <2>W, <2>F, <2>R, <2>X, <2>Y DEF GrpcInv
<1> QED
  BY <1>1, <1>2, <1>3, <1>4, <1>5, <1>6, <1>7, <1>8, <1>9, <1>10, <1>11 DEF Next

\* The invariant holds throughout, for any number of messages.
THEOREM Inductive == Spec => []GrpcInv
BY InitKeeps, NextKeeps, PTL DEF Spec

\* Types; and a stream is registered with its GrpcConnection, and has an
\* observer, only as long as it lives (the destructor's assertion).
THEOREM TypeCorrect == Spec => []TypeOK
<1>1. GrpcInv => TypeOK
  BY DEF GrpcInv
<1> QED
  BY <1>1, Inductive, PTL

\* Stream::Close may destroy the stream: gRPC holds nothing of its call any
\* more and no callback that is still queued will run.
THEOREM DestroyedIsUnused == Spec => []NoUseAfterDestroy
<1>1. GrpcInv => NoUseAfterDestroy
  BY DEF GrpcInv, CompletionsInv, LifeInv, NoUseAfterDestroy
<1> QED
  BY <1>1, Inductive, PTL

\* BufferedWriter, OnRead and FinishGrpcCall give gRPC one write and one read
\* at a time, and one finish after everything else has come back.
THEOREM GrpcIsObeyed == Spec => []OperationsObeyGrpc
<1>1. ASSUME GrpcInv PROVE OperationsObeyGrpc
  <2> SUFFICES ASSUME NEW i \in DOMAIN ops, NEW j \in DOMAIN ops, i < j, ~OffQueue(i)
               PROVE  \/ IsFinish(i) /\ ~IsFinish(j)
                      \/ ops[i].type = "read" /\ IsWrite(j)
                      \/ IsWrite(i) /\ ops[j].type = "read"
    BY DEF OperationsObeyGrpc
  <2>1. i \in completions /\ ~IsFinish(j) /\ ops[i].type \in OpType /\ ops[j].type \in OpType
    <3>1. ops[i] \in Op /\ ops[j] \in Op
      BY <1>1 DEF GrpcInv, TypeOK
    <3>2. i \in completions /\ ~IsFinish(j)
      BY <1>1 DEF GrpcInv, CompletionsInv, FinishInv
    <3> QED
      BY <3>1, <3>2 DEF Op
  <2>2. j > i
    BY <1>1 DEF GrpcInv, TypeOK
  <2>3. CASE ops[i].type = "read"
    <3>1. ops[j].type # "read"
      BY <1>1, <2>1, <2>2, <2>3 DEF GrpcInv, ReadInv, NoLater
    <3> QED
      BY <2>1, <2>3, <3>1 DEF OpType, IsFinish, IsWrite
  <2>4. CASE IsWrite(i)
    <3>1. ~IsWrite(j)
      BY <1>1, <2>1, <2>2, <2>4 DEF GrpcInv, WriteInv, NoLater, IsWrite
    <3> QED
      BY <2>1, <2>4, <3>1 DEF OpType, IsFinish, IsWrite
  <2> QED
    BY <2>1, <2>3, <2>4 DEF OpType, IsFinish, IsWrite
<1> QED
  BY <1>1, Inductive, PTL

\* RemoveCompletion finds its completion, FinishGrpcCall is called once, and
\* the destructor finds no completions: the assertions of grpc_stream.cc.
THEOREM AssertionsNeverFail == Spec => []AssertionsHold
<1>1. GrpcInv => AssertionsHold
  BY DEF GrpcInv, CompletionsInv, FinishInv, LifeInv, AssertionsHold
<1> QED
  BY <1>1, Inductive, PTL

\* Every step of the three threads is a step of Duplex, or one nobody sees.
LEMMA StepImplements == GrpcInv /\ [Next]_vars => [Promise!Next]_(Promise!vars)
<1> SUFFICES ASSUME GrpcInv, [Next]_vars PROVE [Promise!Next]_(Promise!vars)
  OBVIOUS
<1> USE DEF history, Promise!Next, Promise!vars
<1>e. /\ stream = "alive" => end = "none"
      /\ call = "live" => end = "none"
  BY DEF GrpcInv, TypeOK, LifeInv
<1>1. CASE UNCHANGED history
  BY <1>1
<1>2. CASE Write \/ StopWithLastWrite
  BY <1>2, <1>e DEF Write, StopWithLastWrite, Open, Promise!Write
<1>3. ASSUME NEW i \in DOMAIN ops, OnRead(i) PROVE [Promise!Next]_(Promise!vars)
  <2>1. /\ ops[i].at = "queued" /\ i \in completions /\ CallbackToRun(i) /\ stream = "alive"
        /\ ops[i].type = "read" /\ ops[i].ok
    BY <1>3, TaskFacts DEF OnRead, CallbackToRun
  <2>2. ops[i].msg = arrived /\ arrived = Len(told) + 1 /\ Len(told) \in Nat
    BY <2>1 DEF GrpcInv, TypeOK, ReadInv
  <2>3. Promise!Tell
    BY <1>3, <2>2 DEF OnRead, Promise!Tell
  <2> QED
    BY <1>3, <1>e, <2>1, <2>3 DEF OnRead
<1>4. ASSUME NEW i \in DOMAIN ops, ReadSucceeds(i) PROVE [Promise!Next]_(Promise!vars)
  BY <1>4, <1>e DEF ReadSucceeds, Completes, Promise!Arrive
<1>5. ASSUME NEW i \in DOMAIN ops, WriteSucceeds(i) PROVE [Promise!Next]_(Promise!vars)
  <2>1. WriteWithGrpc(i) /\ call = "live"
    BY <1>5 DEF WriteSucceeds, Completes, WriteWithGrpc, IsWrite
  <2>2. ops[i].msg = Len(wire) + 1 /\ Len(wire) + 1 = written - Len(buffer)
    BY <2>1 DEF GrpcInv, WireInv
  <2>3. Len(wire) \in Nat /\ written \in Nat /\ Len(buffer) \in Nat
    BY DEF GrpcInv, TypeOK
  <2>4. Promise!Transmit
    BY <1>5, <2>2, <2>3 DEF WriteSucceeds, Completes, Promise!Transmit
  <2> QED
    BY <1>5, <1>e, <2>1, <2>4 DEF WriteSucceeds, Completes
<1>6. CASE Closed
  BY <1>6, <1>e DEF Closed, Promise!End, GrpcInv, WorkerInv
<1>7. CASE RunTask
  <2>1. PICK i \in DOMAIN ops :
          CancelledTask(i) \/ OnRead(i) \/ OnWrite(i) \/ OnFinish(i) \/ OnOperationFailed(i)
    BY <1>7 DEF RunTask
  <2> QED
    BY <1>1, <1>3, <2>1 DEF CancelledTask, OnWrite, OnFinish, OnOperationFailed
<1>8. CASE Continue
  BY <1>1, <1>6, <1>8 DEF Continue, LastWriteWaited, Shutdown, Drained
<1>9. CASE \E i \in DOMAIN ops : ReadSucceeds(i) \/ WriteSucceeds(i) \/ OperationEnds(i)
  BY <1>1, <1>4, <1>5, <1>9 DEF OperationEnds, Completes
<1>10. CASE Poller
  BY <1>1, <1>10 DEF Poller, Poll, Enqueue
<1>11. CASE Start \/ Stop \/ ConnectivityChanged \/ CallFails
  BY <1>1, <1>11 DEF Start, Stop, ConnectivityChanged, CallFails
<1>12. CASE UNCHANGED vars
  BY <1>1, <1>12 DEF vars
<1> QED
  BY <1>2, <1>7, <1>8, <1>9, <1>10, <1>11, <1>12 DEF Next

\* A GrpcStream is the stream its header promises: what is written goes out and
\* what arrives is told, in order and once, and after the end there is silence.
THEOREM Refinement == Spec => ImplementsDuplex
<1>1. Init => Promise!Init
  BY DEF Init, Promise!Init
<1> QED
  BY <1>1, StepImplements, Inductive, PTL DEF Spec, ImplementsDuplex, Promise!Spec
=============================================================================
