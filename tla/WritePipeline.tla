---------------------------- MODULE WritePipeline ----------------------------
(***************************************************************************)
(* The write pipeline: put_pipelined sends jobs through a bounded tokio    *)
(* channel to one worker task, which collects them into batches, stages    *)
(* the blocks that are new, commits one WriteBatch and answers every job   *)
(* on its oneshot channel.  Staging reads CF_BLOCKS block by block, and    *)
(* put_block on other threads may write between those reads and the        *)
(* commit.  A block is its hash; the index it enters is BlockStore's.      *)
(***************************************************************************)
EXTENDS Integers, Sequences, Functions

CONSTANTS
  Jobs,              \* calls of put_pipelined
  DirectPuts,        \* calls of put_block on other threads
  Block,             \* the block a call carries
  BatchSize,         \* config.write_pipeline_batch_size
  ChannelCapacity,   \* config.write_pipeline_channel_capacity
  CanFail,           \* bound: storage, encoding and dictionary training may fail
  CanStop            \* bound: the tokio runtime may shut down

ASSUME CallsAssumption == Jobs \cap DirectPuts = {}
ASSUME BlockAssumption == \A j \in Jobs \cup DirectPuts : j \in DOMAIN Block
ASSUME SizesAssumption == BatchSize \in Nat \ {0} /\ ChannelCapacity \in Nat \ {0}
ASSUME FaultAssumption == CanFail \in BOOLEAN /\ CanStop \in BOOLEAN

VARIABLES
  answer,     \* what each call has come to, see Answers
  waiting,    \* put_pipelined calls that wait for room in the channel, in order
  channel,    \* the mpsc queue
  dropped,    \* the last BlockStore handle, and with it the sender, is gone
  worker,     \* where run_write_pipeline is, see WorkerStates
  closing,    \* the flush under way is the last one
  buf, staged,
  seen,       \* hashes met by the flush under way
  rows        \* keys of CF_BLOCKS

vars == <<answer, waiting, channel, dropped, worker, closing, buf, staged, seen, rows>>
flushVars == <<staged, seen, rows>>

\* "pending": called, no answer yet; "written": put_block past its check;
\* TRUE and FALSE are Ok(true) and Ok(false), the rest are errors; "lost" is a
\* oneshot sender that was dropped.
Answers == {"idle", "pending", "written", "true", "false", "err", "closed", "lost"}
Resolved(j) == answer[j] \notin {"idle", "pending", "written"}

\* "none": not spawned; "recv", "collect": at the two awaits; "stage", "ack":
\* inside flush_pipeline_batch; "gone": returned or cancelled.
WorkerStates == {"none", "recv", "collect", "stage", "ack", "gone"}

Answer(S, a) == [j \in DOMAIN answer |-> IF j \in S THEN a ELSE answer[j]]

Init ==
  /\ answer = [j \in Jobs \cup DirectPuts |-> "idle"]
  /\ waiting = << >> /\ channel = << >>
  /\ dropped = FALSE
  /\ worker = "none" /\ closing = FALSE
  /\ buf = << >> /\ staged = << >> /\ seen = {} /\ rows = {}

-----------------------------------------------------------------------------
(***************************************************************************)
(* Callers.                                                                *)
(***************************************************************************)

\* put_pipelined: the first call spawns the worker (pipeline_sender); the
\* sender is kept for ever, also when the worker is gone.
PutPipelined(j) ==
  /\ ~dropped
  /\ answer[j] = "idle"
  /\ worker' = IF worker = "none" THEN "recv" ELSE worker
  /\ answer' = Answer({j}, "pending")
  /\ waiting' = Append(waiting, j)
  /\ UNCHANGED <<channel, dropped, closing, buf, flushVars>>

\* tx.send waits for room; tokio gives room in the order of the calls.
Send ==
  /\ waiting # << >>
  /\ worker # "gone"
  /\ Len(channel) < ChannelCapacity
  /\ channel' = Append(channel, Head(waiting))
  /\ waiting' = Tail(waiting)
  /\ UNCHANGED <<answer, dropped, worker, closing, buf, flushVars>>

\* The receiver is gone: PipelineClosed.
SendClosed ==
  /\ waiting # << >>
  /\ worker = "gone"
  /\ answer' = Answer({Head(waiting)}, "closed")
  /\ waiting' = Tail(waiting)
  /\ UNCHANGED <<channel, dropped, worker, closing, buf, flushVars>>

\* A call borrows a handle, so the last one is dropped when no call is waiting.
DropStore ==
  /\ ~dropped
  /\ waiting = << >>
  /\ \A d \in DirectPuts : answer[d] # "written"
  /\ dropped' = TRUE
  /\ UNCHANGED <<answer, waiting, channel, worker, closing, buf, flushVars>>

\* put_block on another thread: the check of CF_BLOCKS, then the write.
DirectCheck(d) ==
  /\ ~dropped
  /\ answer[d] = "idle"
  /\ answer' = Answer({d}, IF Block[d] \in rows THEN "false" ELSE "written")
  /\ UNCHANGED <<waiting, channel, dropped, worker, closing, buf, flushVars>>

DirectWrite(d) ==
  /\ answer[d] = "written"
  /\ rows' = rows \cup {Block[d]}
  /\ answer' = Answer({d}, "true")
  /\ UNCHANGED <<waiting, channel, dropped, worker, closing, buf, staged, seen>>

-----------------------------------------------------------------------------
(***************************************************************************)
(* The worker: run_write_pipeline.                                         *)
(***************************************************************************)

\* A job arrives; a full buffer goes to the flush.
Receive ==
  /\ worker \in {"recv", "collect"}
  /\ channel # << >>
  /\ buf' = Append(buf, Head(channel))
  /\ channel' = Tail(channel)
  /\ worker' = IF Len(buf') >= BatchSize THEN "stage" ELSE "collect"
  /\ UNCHANGED <<answer, waiting, dropped, closing, flushVars>>

\* Mutant: the timer does not flush a batch that is not full.
TimeoutFullOnly ==
  /\ worker = "collect"
  /\ channel = << >> /\ ~dropped
  /\ Len(buf) >= BatchSize
  /\ worker' = "stage"
  /\ UNCHANGED <<answer, waiting, channel, dropped, closing, buf, flushVars>>

\* The flush timer fires; the select is biased, so the channel was empty.
Timeout ==
  /\ worker = "collect"
  /\ channel = << >> /\ ~dropped
  /\ worker' = "stage"
  /\ UNCHANGED <<answer, waiting, channel, dropped, closing, buf, flushVars>>

\* Mutants: the worker leaves without its last flush; it never leaves.
ChannelClosedNoFlush ==
  /\ worker \in {"recv", "collect"}
  /\ channel = << >> /\ dropped
  /\ worker' = "gone"
  /\ closing' = TRUE
  /\ UNCHANGED <<answer, waiting, channel, dropped, buf, flushVars>>
ChannelClosedRetries ==
  /\ worker \in {"recv", "collect"}
  /\ channel = << >> /\ dropped
  /\ worker' = IF worker = "recv" THEN "recv" ELSE "stage"
  /\ UNCHANGED <<answer, waiting, channel, dropped, closing, buf, flushVars>>

\* recv yields None: leave at once when nothing is buffered, else flush first.
ChannelClosed ==
  /\ worker \in {"recv", "collect"}
  /\ channel = << >> /\ dropped
  /\ worker' = IF worker = "recv" THEN "gone" ELSE "stage"
  /\ closing' = TRUE
  /\ UNCHANGED <<answer, waiting, channel, dropped, buf, flushVars>>

\* The runtime drops the task at an await: what it held is never answered.
RuntimeShutdown ==
  /\ CanStop
  /\ worker \in {"recv", "collect"}
  /\ answer' = Answer(Range(channel) \cup Range(buf), "lost")
  /\ worker' = "gone"
  /\ channel' = << >> /\ buf' = << >>
  /\ UNCHANGED <<waiting, dropped, closing, flushVars>>

-----------------------------------------------------------------------------
(***************************************************************************)
(* flush_pipeline_batch.                                                   *)
(***************************************************************************)

\* Mutants: a repeat is not answered; repeats within the batch are not seen.
StageJobSilent ==
  LET j == Head(buf)
      new == Block[j] \notin seen \cup rows
  IN  /\ worker = "stage"
      /\ buf # << >>
      /\ buf' = Tail(buf)
      /\ seen' = seen \cup {Block[j]}
      /\ staged' = IF new THEN Append(staged, j) ELSE staged
      /\ UNCHANGED <<answer, waiting, channel, dropped, worker, closing, rows>>
StageJobUnseen ==
  LET j == Head(buf)
      new == Block[j] \notin rows
  IN  /\ worker = "stage"
      /\ buf # << >>
      /\ buf' = Tail(buf)
      /\ staged' = IF new THEN Append(staged, j) ELSE staged
      /\ answer' = IF new THEN answer ELSE Answer({j}, "false")
      /\ UNCHANGED <<waiting, channel, dropped, worker, closing, seen, rows>>

\* A repeat within the batch and a block that CF_BLOCKS holds are answered at
\* once; the others are staged.
StageJob ==
  LET j == Head(buf)
      new == Block[j] \notin seen \cup rows
  IN  /\ worker = "stage"
      /\ buf # << >>
      /\ buf' = Tail(buf)
      /\ seen' = seen \cup {Block[j]}
      /\ staged' = IF new THEN Append(staged, j) ELSE staged
      /\ answer' = IF new THEN answer ELSE Answer({j}, "false")
      /\ UNCHANGED <<waiting, channel, dropped, worker, closing, rows>>

\* The read of CF_BLOCKS or the encoding of the block fails: this job is told,
\* and its hash counts as seen.
StageFails ==
  LET j == Head(buf)
  IN  /\ CanFail
      /\ worker = "stage"
      /\ buf # << >> /\ Block[j] \notin seen
      /\ buf' = Tail(buf)
      /\ seen' = seen \cup {Block[j]}
      /\ answer' = Answer({j}, "err")
      /\ UNCHANGED <<waiting, channel, dropped, worker, closing, staged, rows>>

\* The worker's state once the flush has nothing left to do.
AfterFlush == IF closing THEN "gone" ELSE "recv"

\* The WriteBatch; an empty one is not written.
Commit ==
  /\ worker = "stage" /\ buf = << >>
  /\ rows' = rows \cup {Block[j] : j \in Range(staged)}
  /\ worker' = IF staged = << >> THEN AfterFlush ELSE "ack"
  /\ seen' = {}
  /\ UNCHANGED <<answer, waiting, channel, dropped, closing, buf, staged>>

\* Mutant: the error of the write is ignored.
CommitErrorIgnored ==
  /\ CanFail
  /\ worker = "stage" /\ buf = << >> /\ staged # << >>
  /\ worker' = "ack"
  /\ seen' = {}
  /\ UNCHANGED <<answer, waiting, channel, dropped, closing, buf, staged, rows>>

\* The write fails, or the update of canonical.bin after it: every staged job
\* is told.
CommitFails ==
  /\ CanFail
  /\ worker = "stage" /\ buf = << >> /\ staged # << >>
  /\ rows' \in {rows, rows \cup {Block[j] : j \in Range(staged)}}
  /\ answer' = Answer(Range(staged), "err")
  /\ worker' = AfterFlush
  /\ staged' = << >> /\ seen' = {}
  /\ UNCHANGED <<waiting, channel, dropped, closing, buf>>

\* Caches and the answer, job by job; the answer is an error when dictionary
\* training fails, although the block is stored.
AckJob ==
  /\ worker = "ack"
  /\ \E a \in {"true"} \cup (IF CanFail THEN {"err"} ELSE {}) :
       answer' = Answer({Head(staged)}, a)
  /\ staged' = Tail(staged)
  /\ worker' = IF Len(staged) = 1 THEN AfterFlush ELSE "ack"
  /\ UNCHANGED <<waiting, channel, dropped, closing, buf, seen, rows>>

WorkerStep == Receive \/ Timeout \/ ChannelClosed \/ StageJob \/ StageFails
              \/ Commit \/ CommitFails \/ AckJob

Next ==
  \/ \E j \in Jobs : PutPipelined(j)
  \/ \E d \in DirectPuts : DirectCheck(d) \/ DirectWrite(d)
  \/ Send \/ SendClosed \/ DropStore \/ RuntimeShutdown
  \/ WorkerStep

\* tokio runs a task that is ready and fires a timer that has elapsed.
Fairness == WF_vars(Send) /\ WF_vars(SendClosed) /\ WF_vars(WorkerStep)
Spec == Init /\ [][Next]_vars /\ Fairness

-----------------------------------------------------------------------------
(***************************************************************************)
(* Properties.                                                             *)
(***************************************************************************)

\* The types, and a worker that waits for its first job holds none.
TypeOK ==
  /\ answer \in [Jobs \cup DirectPuts -> Answers]
  /\ waiting \in Seq(Jobs) /\ channel \in Seq(Jobs)
  /\ buf \in Seq(Jobs) /\ staged \in Seq(Jobs)
  /\ worker \in WorkerStates
  /\ dropped \in BOOLEAN /\ closing \in BOOLEAN
  /\ worker \in {"none", "recv", "gone"} => buf = << >> /\ staged = << >>

\* Every call without an answer is in exactly one place of the pipeline, and
\* no call with an answer is in any: no job is lost, and none is answered
\* twice, by staging, commit, failure, shutdown or a dropped handle.
JobsAccounted ==
  LET held == waiting \o channel \o buf \o staged
  IN  /\ IsInjective(held)
      /\ Range(held) = {j \in Jobs : answer[j] = "pending"}

\* Ok(true) is durable: the row is in CF_BLOCKS when the caller hears of it.
TrueMeansStored ==
  \A j \in Jobs : answer[j] = "true" => Block[j] \in rows

\* A block is reported new to at most one of the pipelined calls that carry
\* it: repeats in one batch, in a later batch and after a failed write included.
NovelOnce ==
  \A j, k \in Jobs :
    j # k /\ Block[j] = Block[k] => ~(answer[j] = "true" /\ answer[k] = "true")

\* What makes the answers of a flush truthful: the blocks staged are different
\* ones, known as seen, and no call has been told that they are new; they are
\* stored when the flush comes to its answers; and a block counts as seen, or
\* was answered Ok(false), because it is stored or staged or has failed.
FlushInv ==
  LET stagedBlocks == {Block[staged[i]] : i \in DOMAIN staged}
      failed == {Block[k] : k \in {j \in Jobs : answer[j] = "err"}}
      repeated == {Block[k] : k \in {j \in Jobs : answer[j] = "false"}}
  IN  /\ \A i, k \in DOMAIN staged : Block[staged[i]] = Block[staged[k]] => i = k
      /\ \A k \in Jobs : Block[k] \in stagedBlocks => answer[k] # "true"
      /\ worker = "stage" => stagedBlocks \subseteq seen
      /\ worker = "ack" => /\ buf = << >> /\ seen = {} /\ staged # << >>
                         /\ stagedBlocks \subseteq rows
      /\ worker # "ack" /\ worker # "stage" => seen = {} /\ staged = << >>
      /\ seen \cup repeated \subseteq rows \cup stagedBlocks \cup failed

\* Every call of put_pipelined is answered: batches that do not fill up are
\* flushed by the timer or by closing, and waiting callers get room.
EveryJobAnswered == \A j \in Jobs : answer[j] = "pending" ~> Resolved(j)

\* BLK-008 AC 8: after the last handle is dropped, the worker exits.
WorkerExits == dropped /\ worker # "none" ~> worker = "gone"

\* BLK-008 AC 8: the block of every call gets stored, however soon the last
\* handle is dropped after it, or some call that carried it was told otherwise.
EveryBlockStored ==
  \A j \in Jobs :
    answer[j] = "pending" ~>
      \/ Block[j] \in rows
      \/ \E k \in Jobs : Block[k] = Block[j] /\ answer[k] \in {"err", "lost", "closed"}

\* Ok(false) is the answer to a repeat within a batch before the batch is
\* written: the block is stored, or the call it repeats has yet to hear of the
\* write, or has heard that it failed.
FalseMeansStored ==
  \A j \in Jobs :
    answer[j] = "false" =>
      \/ Block[j] \in rows
      \/ \E k \in Jobs : Block[k] = Block[j] /\ answer[k] \in {"pending", "err"}

=============================================================================
