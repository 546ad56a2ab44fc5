------------------------------ MODULE Pipeline ------------------------------
(***************************************************************************)
(* Pipeline.Run (pipeline.go): one goroutine formats the batches of the    *)
(* provider into a pipe, the other one uploads what it reads from the      *)
(* pipe; an errgroup cancels both when one of them fails.  The formatters  *)
(* (formatter.go) differ in when their bytes reach the pipe: csv buffers   *)
(* and writes when its buffer is full, jsonl writes at once, xlsx writes   *)
(* everything when it is closed.                                           *)
(*                                                                         *)
(* A row is one byte, a csv header one, an xlsx header and container two.  *)
(* A write to the pipe blocks until the uploader has read it or has closed *)
(* its end.                                                                *)
(***************************************************************************)
EXTENDS Integers

CONSTANTS
    Formats,            \* subset of {"csv", "jsonl", "xlsx"}
    BatchSizes,         \* rows a batch may have
    MaxRows,            \* export.max_rows
    MaxBytes,           \* export.max_bytes
    ProgressEvery,      \* export.progress_every_rows
    MaxBatches          \* bound: batches a provider sends

ASSUME FormatsAssumption == Formats \subseteq {"csv", "jsonl", "xlsx"}
ASSUME BatchSizesAssumption == BatchSizes \subseteq Nat
ASSUME PipelineLimitAssumption ==
    /\ MaxRows \in Nat \ {0}
    /\ MaxBytes \in Nat \ {0}
    /\ ProgressEvery \in Nat \ {0}
    /\ MaxBatches \in Nat \ {0}

VARIABLES
    format,
    canceled,           \* the group's context is done
    producer,           \* where the formatting goroutine is
    then,               \* where it goes when its write to the pipe returns
    failed,             \* it is on its way out with an error
    batches,            \* batches received
    batch,              \* rows of the batch in the callback
    done,               \* it had Done
    rows,
    lastReported,
    buffered,           \* bytes in the formatter, not written yet
    offered,            \* bytes of the write that is blocked on the pipe
    pending,            \* those of them that were not read yet
    written,            \* limitWriter.written
    hashed,             \* bytes added to the checksum
    writer,             \* the pipe's write end
    reader,             \* the pipe's read end
    uploader,           \* where the uploading goroutine is
    received,           \* bytes Put has read
    object,             \* bytes in the bucket, or NoObject
    result              \* what Run returned

producerVars == <<producer, then, failed, batches, batch, done, rows,
                  lastReported, buffered, offered, written, hashed, writer>>
uploaderVars == <<reader, uploader, received, object>>
vars == <<format, canceled, producerVars, pending, uploaderVars, result>>

NoObject == -1

TypeOK ==
    /\ format \in Formats
    /\ canceled \in BOOLEAN
    /\ producer \in {"starting", "streaming", "writing", "reporting", "closing",
                     "finishing", "returned"}
    /\ then \in {"none", "reporting", "finishing"}
    /\ failed \in BOOLEAN
    /\ batches \in 0 .. MaxBatches
    /\ batch \in BatchSizes \cup {0}
    /\ done \in BOOLEAN
    /\ rows \in Nat
    /\ lastReported \in 0 .. rows
    /\ buffered \in Nat
    /\ offered \in Nat
    /\ pending \in 0 .. offered
    /\ written \in Nat
    /\ hashed \in Nat
    /\ writer \in {"open", "eof", "error"}
    /\ reader \in {"open", "closed"}
    /\ uploader \in {"putting", "stored", "failed"}
    /\ received \in Nat
    /\ object \in Nat \cup {NoObject}
    /\ result \in {"none", "ok", "error"}

Init ==
    /\ format \in Formats
    /\ canceled = FALSE
    /\ producer = "starting" /\ then = "none" /\ failed = FALSE
    /\ batches = 0 /\ batch = 0 /\ done = FALSE /\ rows = 0 /\ lastReported = 0
    /\ buffered = 0 /\ offered = 0 /\ pending = 0 /\ written = 0 /\ hashed = 0
    /\ writer = "open" /\ reader = "open"
    /\ uploader = "putting" /\ received = 0 /\ object = NoObject
    /\ result = "none"

-----------------------------------------------------------------------------
(* The producer *)

\* What the header adds to the formatter's buffer.
Header == IF format = "jsonl" THEN 0 ELSE 1

\* What Close adds: the rest of the xlsx container.
Trailer == IF format = "xlsx" THEN 1 ELSE 0

\* The bytes of a complete file.
FileSize == Header + rows + Trailer

\* What a formatter holding b bytes may write when it is given more rows: csv
\* as much as fills its buffer, jsonl everything, xlsx nothing.
Flushes(b) == CASE format = "csv" -> 0 .. b
                [] format = "jsonl" -> {b}
                [] format = "xlsx" -> {0}

\* NewFormatter, and the start of the provider's stream.
Start ==
    /\ producer = "starting"
    /\ \/ producer' = "streaming" /\ UNCHANGED failed
       \/ producer' = "finishing" /\ failed' = TRUE
    /\ UNCHANGED <<format, canceled, then, batches, batch, done, rows,
                   lastReported, buffered, offered, pending, written, hashed, writer, uploaderVars,
                   result>>

\* Mutant of TooMuch: the limit applies to each write.
TooMuchAtOnce(bytes) == bytes > MaxBytes

\* limitWriter.Write refuses what would exceed the limit.
TooMuch(bytes) == bytes > MaxBytes - written

\* The formatter writes bytes, keeps left and goes on at next.  Writing
\* nothing does not reach the pipe; after an error nothing more is written.
Write(bytes, next, left) ==
    IF bytes = 0
    THEN producer' = next /\ buffered' = left /\ UNCHANGED <<then, offered, pending, failed>>
    ELSE IF TooMuch(bytes)
         THEN /\ failed' = TRUE
              /\ producer' = IF next = "finishing" THEN next ELSE "closing"
              /\ buffered' = 0
              /\ UNCHANGED <<then, offered, pending>>
         ELSE /\ producer' = "writing" /\ then' = next
              /\ offered' = bytes /\ pending' = bytes
              /\ buffered' = left
              /\ UNCHANGED failed

\* The row limit, checked before the rows are written.
WithinRowLimit(n) == rows + n <= MaxRows

\* The callback gets a batch of n rows.  The header of the first one is
\* written before the row limit is checked; a value may have no encoding.
Batch(n, last) ==
    LET headed == buffered + (IF batches = 0 THEN Header ELSE 0)
    IN
    /\ producer = "streaming"
    /\ batches < MaxBatches
    /\ batches' = batches + 1
    /\ done' = last
    /\ batch' = n
    /\ \/ /\ WithinRowLimit(n)
          /\ \E bytes \in Flushes(headed + n) :
                Write(bytes, "reporting", headed + n - bytes)
       \/ /\ failed' = TRUE
          /\ producer' = "closing"
          /\ buffered' = headed
          /\ UNCHANGED <<then, offered, pending>>
    /\ UNCHANGED <<format, canceled, rows, lastReported, written, hashed, writer,
                   uploaderVars, result>>

\* The stream fails: the first batch has no columns, the provider has an
\* error, or the context is done.
StreamFails ==
    /\ producer = "streaming"
    /\ producer' = "closing"
    /\ failed' = TRUE
    /\ UNCHANGED <<format, canceled, then, batches, batch, done, rows,
                   lastReported, buffered, offered, pending, written, hashed, writer, uploaderVars,
                   result>>

\* The pipe's write returns: the uploader has taken everything, or has closed
\* its end.  What the pipe has accepted is counted and hashed.
WriteReturns ==
    /\ producer = "writing"
    /\ pending = 0 \/ reader = "closed"
    /\ offered' = 0 /\ pending' = 0
    /\ then' = "none"
    /\ IF pending = 0
       THEN /\ written' = written + offered
            /\ hashed' = hashed + offered
            /\ producer' = then
            /\ UNCHANGED <<failed, buffered>>
       ELSE /\ failed' = TRUE
            /\ producer' = IF then = "finishing" THEN then ELSE "closing"
            /\ buffered' = 0
            /\ UNCHANGED <<written, hashed>>
    /\ UNCHANGED <<format, canceled, batches, batch, done, rows, lastReported,
                   writer, uploaderVars, result>>

\* Mutant of Checkpoint: the final batch is not special.
CheckpointByRows(total) == total - lastReported >= ProgressEvery

\* The progress report after a batch is a checkpoint.
Checkpoint(total) == total - lastReported >= ProgressEvery \/ done

\* The rows are counted.  onProgress accepts, or refuses because the job is
\* not running any more; after the final batch Stream returns and the
\* formatter is closed.
Report ==
    /\ producer = "reporting"
    /\ rows' = rows + batch
    /\ \/ /\ lastReported' = IF Checkpoint(rows') THEN rows' ELSE lastReported
          /\ producer' = IF done THEN "closing" ELSE "streaming"
          /\ UNCHANGED failed
       \/ /\ producer' = "closing"
          /\ failed' = TRUE
          /\ UNCHANGED lastReported
    /\ UNCHANGED <<format, canceled, then, batches, batch, done, buffered, offered,
                   pending, written, hashed, writer, uploaderVars, result>>

\* formatter.Close, whose error is ignored when there is one already.  The
\* file of a failed export is flushed too; the xlsx one may not be buildable.
Close ==
    /\ producer = "closing"
    /\ \/ Write(buffered + Trailer, "finishing", 0)
       \/ /\ format = "xlsx"
          /\ failed' = TRUE
          /\ producer' = "finishing"
          /\ UNCHANGED <<then, buffered, offered, pending>>
    /\ UNCHANGED <<format, canceled, batches, batch, done, rows, lastReported,
                   written, hashed, writer, uploaderVars, result>>

\* Mutant of ClosedWith: writer.Close() instead of writer.CloseWithError(err).
ClosedCleanly == "eof"

\* The deferred writer.CloseWithError(err): a nil error is the end of file.
ClosedWith == IF failed THEN "error" ELSE "eof"

\* The goroutine returns; the errgroup cancels the other one on an error.
Finish ==
    /\ producer = "finishing"
    /\ producer' = "returned"
    /\ writer' = ClosedWith
    /\ canceled' = (canceled \/ failed)
    /\ UNCHANGED <<format, then, failed, batches, batch, done, rows,
                   lastReported, buffered, offered, pending, written, hashed, uploaderVars, result>>

-----------------------------------------------------------------------------
(* The uploader: Storage.Put *)

Read ==
    /\ uploader = "putting"
    /\ pending > 0
    /\ received' = received + pending
    /\ pending' = 0
    /\ UNCHANGED <<format, canceled, producerVars, reader, uploader, object, result>>

\* Put reaches the end of file; the store may have kept less than it was sent.
PutCompletes ==
    /\ uploader = "putting"
    /\ writer = "eof"
    /\ uploader' = "stored"
    /\ \E size \in {received, received \div 2} : object' = size
    /\ UNCHANGED <<format, canceled, producerVars, pending, reader, received, result>>

\* Mutant of PutFailed: the read end stays open.
PutFailedSilently ==
    /\ uploader' = "failed"
    /\ canceled' = TRUE
    /\ UNCHANGED reader

PutFailed ==
    /\ uploader' = "failed"
    /\ reader' = "closed"
    /\ canceled' = TRUE

\* The error of the write end, or the context, ends Put; an unfinished
\* multipart upload leaves no object.
PutAborts ==
    /\ uploader = "putting"
    /\ \/ writer = "error"
       \/ canceled /\ (pending > 0 \/ writer = "eof")
    /\ PutFailed
    /\ UNCHANGED <<format, producerVars, pending, received, object, result>>

\* The object store fails, before or after it has stored the object.
PutErrs ==
    /\ uploader = "putting"
    /\ PutFailed
    /\ \/ UNCHANGED object
       \/ writer = "eof" /\ object' = received
    /\ UNCHANGED <<format, producerVars, pending, received, result>>

-----------------------------------------------------------------------------
\* The job's timeout, or the shutdown of the service.
Deadline ==
    /\ result = "none"
    /\ ~canceled
    /\ canceled' = TRUE
    /\ UNCHANGED <<format, producerVars, pending, uploaderVars, result>>

\* Mutant of SizeAgrees: the stored size is not compared.
SizeIgnored == TRUE

SizeAgrees == object = written

\* group.Wait returns.
Return ==
    /\ producer = "returned"
    /\ uploader # "putting"
    /\ result = "none"
    /\ result' = IF ~failed /\ uploader = "stored" /\ SizeAgrees THEN "ok" ELSE "error"
    /\ UNCHANGED <<format, canceled, producerVars, pending, uploaderVars>>

\* A batch arrives when the provider sends one: nothing makes it.
ProviderStep == \E n \in BatchSizes, last \in BOOLEAN : Batch(n, last)

ProducerStep ==
    \/ Start \/ WriteReturns \/ Report \/ Close \/ Finish
    \/ canceled /\ StreamFails

Next ==
    \/ ProviderStep \/ ProducerStep \/ StreamFails
    \/ Read \/ PutCompletes \/ PutAborts \/ PutErrs
    \/ Deadline
    \/ Return

Spec == Init /\ [][Next]_vars

\* Every job has a deadline; the code between two blocking calls runs; a call
\* with a context returns once the context is done, and Put once its reader
\* reports an error.  Neither the provider nor the object store owes progress.
FairSpec ==
    /\ Spec
    /\ WF_vars(ProducerStep)
    /\ WF_vars(PutAborts)
    /\ WF_vars(Deadline)
    /\ WF_vars(Return)

-----------------------------------------------------------------------------
\* An object appears in the bucket only after the formatter has been closed
\* without an error on the whole stream: a failed export, at whichever point
\* it fails, never exposes a partial file.
NoPartialObject ==
    object # NoObject => ~failed /\ done /\ producer = "returned" /\ received = FileSize

\* A result that Run returns describes the object: the same size, all rows,
\* and a checksum over exactly the stored bytes.
ResultDescribesObject ==
    result = "ok" =>
        /\ object = FileSize
        /\ written = object /\ hashed = object
        /\ done

\* Neither limit is ever exceeded, whatever the batches add up to.
LimitsHold == rows <= MaxRows /\ received <= MaxBytes

\* The worker has been told about every row before the result is returned.
FinalCheckpoint == result = "ok" => lastReported = rows

\* Run returns, and with it both goroutines: no blocked write, read or stream
\* keeps one of them once the other has failed or the deadline has passed.
RunReturns == <>(result # "none")

=============================================================================
