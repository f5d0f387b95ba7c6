------------------------------ MODULE ChatBatch ------------------------------
(***************************************************************************)
(* The chat log on disk: a bounded queue that message handlers push to     *)
(* without waiting, and one goroutine that gathers batches of it and       *)
(* appends them to history.bin.                                            *)
(*                                                                         *)
(* The code is there twice, in HistoryService of chat-history-service and  *)
(* in the gateway (chat_business.go).  They differ in how they end: the    *)
(* first has a stopChan, the second only the context that main cancels as  *)
(* it returns, right before the process is gone.  "host" is the one        *)
(* looked at.                                                              *)
(*                                                                         *)
(* A message is the k-th of its sender.  Its text, and how it is cleaned   *)
(* and cut, are left out; so are lines written in part.                    *)
(***************************************************************************)
EXTENDS Naturals, Sequences, FiniteSets, SequencesExt

CONSTANTS Senders,
          QueueSize,    \* 50000
          BatchSize,    \* 30
          MaxSent,      \* bound on the messages of a sender
          MaxStarts     \* bound on the starts of the process

ASSUME BatchAssumption ==
  /\ QueueSize \in Nat \ {0} /\ BatchSize \in Nat \ {0}
  /\ MaxSent \in Nat /\ MaxStarts \in Nat

VARIABLES host,       \* which of the two copies runs
          phase,      \* of the process
          starts,     \* of the process so far
          sending,    \* senders between the clock and the queue
          sent,       \* number of messages a sender has made
          queue, batch, file,
          stopped,    \* stopChan is closed
          worker,     \* the goroutine
          disk,       \* what opening and writing the file does
          lost        \* history: messages gone, by cause

intake == <<sending, sent>>
process == <<host, phase, starts>>
batchVars == <<process, intake, queue, batch, file, stopped, worker, disk, lost>>

Message == Senders \X (1 .. MaxSent)
Latest(s) == <<s, sent[s]>>
Alive == phase # "down"

\* The messages a sender has brought as far as the queue.
Pushed == {m \in Message : m[2] <= sent[m[1]] /\ ~ (m[1] \in sending /\ m = Latest(m[1]))}
Memory == queue \o batch
-----------------------------------------------------------------------------
BatchInit ==
  /\ host \in {"history", "gateway"}
  /\ phase = "up" /\ starts = 1
  /\ sending = {} /\ sent = [s \in Senders |-> 0]
  /\ queue = <<>> /\ batch = <<>> /\ file = <<>>
  /\ stopped = FALSE /\ worker = "running"
  /\ disk = "good"
  /\ lost = [full |-> {}, unwritten |-> {}, forgotten |-> {}]

\* The limiter lets a message pass (TokenBucket) and it gets its time.  The
\* gRPC server of chat-history takes no call once it is being stopped.
ProcessIncomingMessage(s) ==
  /\ Alive /\ s \notin sending /\ sent[s] < MaxSent
  /\ host = "history" => phase = "up"
  /\ sent' = [sent EXCEPT ![s] = @ + 1]
  /\ sending' = sending \union {s}
  /\ UNCHANGED <<process, queue, batch, file, stopped, worker, disk, lost>>

\* The select with a default: a full queue costs the message, and the caller
\* is told nothing.
PushToBatchQueue(s) ==
  /\ Alive /\ s \in sending
  /\ sending' = sending \ {s}
  /\ \/ /\ Len(queue) < QueueSize
        /\ queue' = Append(queue, Latest(s))
        /\ UNCHANGED lost
     \/ /\ Len(queue) >= QueueSize
        /\ lost' = [lost EXCEPT !.full = @ \union {Latest(s)}]
        /\ UNCHANGED queue
  /\ UNCHANGED <<process, sent, batch, file, stopped, worker, disk>>

\* The sequences that leave out any elements of b.
Selections(b) ==
  {[i \in DOMAIN pick |-> b[pick[i]]] :
     pick \in {f \in UNION {[1 .. n -> DOMAIN b] : n \in 0 .. Len(b)} :
                 \A i, j \in DOMAIN f : i < j => f[i] < f[j]}}

\* flush on a batch b: a file that does not open keeps the batch, errors of
\* the writes are ignored.  The slip drops the batch either way.
Written(b, kept) ==
  /\ file' = file \o kept
  /\ lost' = [lost EXCEPT !.unwritten = @ \union (ToSet(b) \ ToSet(kept))]
FlushDropping(b) ==
  /\ batch' = <<>>
  /\ \/ disk = "gone" /\ UNCHANGED <<file, lost>>
     \/ disk = "good" /\ Written(b, b)
     \/ disk = "full" /\ \E kept \in Selections(b) : Written(b, kept)
Flush(b) ==
  \/ disk = "gone" /\ batch' = b /\ UNCHANGED <<file, lost>>
  \/ disk = "good" /\ batch' = <<>> /\ Written(b, b)
  \/ disk = "full" /\ batch' = <<>> /\ \E kept \in Selections(b) : Written(b, kept)

WorkerEnds ==
  /\ Flush(batch)
  /\ worker' = "gone"
  /\ UNCHANGED <<process, intake, queue, stopped, disk>>

\* The cases of the select; when several are ready any of them runs.
StopCase == Alive /\ worker = "running" /\ stopped /\ WorkerEnds
DoneCase == phase = "returned" /\ worker = "running" /\ WorkerEnds

\* The slip puts the newest message of a batch first.
ReceiveInFront ==
  /\ Alive /\ worker = "running" /\ queue # <<>>
  /\ queue' = Tail(queue)
  /\ LET b == <<Head(queue)>> \o batch
     IN  IF Len(b) >= BatchSize THEN Flush(b)
                                ELSE batch' = b /\ UNCHANGED <<file, lost>>
  /\ UNCHANGED <<process, intake, stopped, worker, disk>>
ReceiveCase ==
  /\ Alive /\ worker = "running" /\ queue # <<>>
  /\ queue' = Tail(queue)
  /\ LET b == Append(batch, Head(queue))
     IN  IF Len(b) >= BatchSize THEN Flush(b)
                                ELSE batch' = b /\ UNCHANGED <<file, lost>>
  /\ UNCHANGED <<process, intake, stopped, worker, disk>>

\* The slip flushes only what is a full batch.
TickFullOnly ==
  /\ Alive /\ worker = "running" /\ Len(batch) >= BatchSize
  /\ Flush(batch)
  /\ UNCHANGED <<process, intake, queue, stopped, worker, disk>>
TickCase ==
  /\ Alive /\ worker = "running" /\ batch # <<>>
  /\ Flush(batch)
  /\ UNCHANGED <<process, intake, queue, stopped, worker, disk>>

BatchJanitor == host = "history" /\ (StopCase \/ DoneCase \/ ReceiveCase \/ TickCase)
ChatBatchWorker == host = "gateway" /\ (DoneCase \/ ReceiveCase \/ TickCase)

Stop ==
  /\ Alive /\ host = "history" /\ ~ stopped
  /\ stopped' = TRUE
  /\ UNCHANGED <<process, intake, queue, batch, file, worker, disk, lost>>
-----------------------------------------------------------------------------
\* ListenSignals: GracefulStop waits for the calls of the gRPC server, which
\* in the gateway no chat message is, for as long as the timeout allows.
Signal ==
  /\ phase = "up"
  /\ phase' = "draining"
  /\ UNCHANGED <<host, starts, intake, queue, batch, file, stopped, worker, disk, lost>>

\* GracefulStop is through, or the timeout: main returns and cancels its
\* context.  The goroutines go on until the process is gone.
ShutdownOver ==
  /\ phase = "draining"
  /\ phase' = "returned"
  /\ UNCHANGED <<host, starts, intake, queue, batch, file, stopped, worker, disk, lost>>

\* The process ends, by return of main or by a crash, with what it has in
\* memory.
Exit ==
  /\ Alive
  /\ phase' = "down"
  /\ queue' = <<>> /\ batch' = <<>> /\ sending' = {}
  /\ worker' = "gone" /\ stopped' = FALSE
  /\ lost' = [lost EXCEPT !.forgotten =
                @ \union ToSet(Memory) \union {Latest(s) : s \in sending}]
  /\ UNCHANGED <<host, starts, sent, file, disk>>

\* The file is opened for append, so a new process goes on with it.
Start ==
  /\ phase = "down" /\ starts < MaxStarts
  /\ phase' = "up" /\ starts' = starts + 1
  /\ worker' = "running"
  /\ UNCHANGED <<host, intake, queue, batch, file, stopped, disk, lost>>

Disk(state) ==
  /\ disk # state
  /\ disk' = state
  /\ UNCHANGED <<process, intake, queue, batch, file, stopped, worker, lost>>

BatchNext ==
  \/ \E s \in Senders : ProcessIncomingMessage(s) \/ PushToBatchQueue(s)
  \/ BatchJanitor \/ ChatBatchWorker \/ Stop
  \/ Signal \/ ShutdownOver \/ Exit \/ Start
  \/ \E state \in {"good", "full", "gone"} : Disk(state)

BatchSpec == BatchInit /\ [][BatchNext]_batchVars

\* The goroutine runs as long as the process does.
BatchFairness == WF_batchVars(BatchJanitor \/ ChatBatchWorker)
-----------------------------------------------------------------------------
\* Every message that came as far as the queue is in one place: waiting, in
\* the batch, in the file once, or lost to a full queue, to a failed write or
\* to the end of the process.  A file that does not open costs nothing
\* (PushToBatchQueue, flush).
MessagesAccounted ==
  LET held == queue \o batch \o file
  IN  /\ IsInjective(held)
      /\ ToSet(held) \intersect (lost.full \union lost.unwritten \union lost.forgotten) = {}
      /\ Pushed \subseteq ToSet(held) \union lost.full \union lost.unwritten \union lost.forgotten

\* Across batches, failed writes and restarts the log has the messages of a
\* sender in the order they were sent (select of the worker, O_APPEND).
LogKeepsOrder ==
  LET held == file \o batch \o queue
  IN  \A i, j \in DOMAIN held :
        (i < j /\ held[i][1] = held[j][1]) => held[i][2] < held[j][2]

\* Unless the file cannot be opened again and again, every message in memory
\* leaves it as long as the worker is there: the ticker writes what is not a
\* full batch (case <-ticker.C).
BatchesReachDisk ==
  \A m \in Message :
    m \in ToSet(Memory) ~> (m \notin ToSet(Memory) \/ worker = "gone" \/ disk = "gone")
=============================================================================
