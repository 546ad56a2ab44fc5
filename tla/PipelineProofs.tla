--------------------------- MODULE PipelineProofs ---------------------------
(***************************************************************************)
(* Proofs about Pipeline, for all formats, batch sizes and limits: where   *)
(* the bytes of a file are at any moment, and hence what the bucket and    *)
(* the result of Run can hold.                                             *)
(***************************************************************************)
EXTENDS Pipeline, TLAPS

\* TypeOK in two parts.
FlagsOK == canceled \in BOOLEAN /\ failed \in BOOLEAN /\ done \in BOOLEAN

ValuesOK ==
    /\ format \in Formats
    /\ producer \in {"starting", "streaming", "writing", "reporting", "closing",
                     "finishing", "returned"}
    /\ then \in {"none", "reporting", "finishing"}
    /\ batches \in 0 .. MaxBatches
    /\ batch \in BatchSizes \cup {0}
    /\ rows \in Nat
    /\ lastReported \in 0 .. rows
    /\ buffered \in Nat
    /\ offered \in Nat
    /\ pending \in 0 .. offered
    /\ written \in Nat
    /\ hashed \in Nat
    /\ writer \in {"open", "eof", "error"}
    /\ reader \in {"open", "closed"}
    /\ uploader \in {"putting", "stored", "failed"}
    /\ received \in Nat
    /\ object \in Nat \cup {NoObject}
    /\ result \in {"none", "ok", "error"}

LEMMA TypeOKParts == TypeOK <=> FlagsOK /\ ValuesOK
BY Zenon DEF TypeOK, FlagsOK, ValuesOK

\* The write that is blocked on the pipe is within the byte limit, and is
\* read as a whole; outside of a write the pipe is empty.
PipeOK ==
    /\ producer # "writing" => offered = 0 /\ then = "none"
    /\ producer = "writing" => then # "none"
    /\ pending \in {0, offered}
    /\ written + offered <= MaxBytes

\* What the uploader has received and what was counted and hashed differ by
\* the write that was read and has not returned yet.
BytesAgree ==
    /\ hashed = written
    /\ received + pending = written + offered

\* The rows of the batch that is being written have passed the row limit.
BatchCounts == producer = "reporting" \/ (producer = "writing" /\ then = "reporting")

RowsOK ==
    /\ rows <= MaxRows
    /\ BatchCounts => rows + batch <= MaxRows

\* The bytes the formatter has produced so far.
Produced == written + offered + buffered

\* The formatter was closed.
Closed ==
    producer \in {"finishing", "returned"} \/ (producer = "writing" /\ then = "finishing")

\* Without an error, every byte of the rows so far is in the formatter, in
\* the pipe or with the uploader; the stream has ended before the formatter
\* is closed, and by then every row was reported.
ProgressOK ==
    /\ producer \in {"starting", "streaming"} \/ BatchCounts => ~failed
    /\ producer = "starting" => batches = 0 /\ rows = 0 /\ buffered = 0 /\ written = 0
    /\ producer \in {"starting", "streaming"} => ~done
    /\ producer \notin {"starting", "streaming"} /\ ~failed => batches > 0
    /\ producer = "streaming" =>
          Produced = (IF batches = 0 THEN 0 ELSE Header) + rows
    /\ BatchCounts => Produced = Header + rows + batch
    /\ producer = "closing" /\ ~failed =>
          Produced = Header + rows /\ done /\ lastReported = rows
    /\ Closed /\ ~failed =>
          /\ written + offered = FileSize
          /\ buffered = 0 /\ done /\ lastReported = rows

\* The two ends of the pipe and the object: nothing is stored before the
\* write end was closed without an error.
EndsOK ==
    /\ writer = IF producer = "returned" THEN ClosedWith ELSE "open"
    /\ object # NoObject => writer = "eof" /\ uploader # "putting"
    /\ result = "ok" =>
          /\ producer = "returned" /\ ~failed
          /\ uploader = "stored" /\ object = written

PipelineInv == FlagsOK /\ ValuesOK /\ PipeOK /\ BytesAgree /\ RowsOK /\ ProgressOK /\ EndsOK

-----------------------------------------------------------------------------
(* The operators the steps are built from *)

LEMMA Sizes == Header \in {0, 1} /\ Trailer \in {0, 1} /\ FileSize = Header + rows + Trailer
BY DEF Header, Trailer, FileSize

\* What a formatter writes is part of what it holds.
LEMMA FlushesPart ==
    ASSUME ValuesOK, NEW b \in Nat, NEW bytes \in Flushes(b)
    PROVE  bytes \in Nat /\ bytes <= b
<1>1. format \in {"csv", "jsonl", "xlsx"}
  BY FormatsAssumption DEF ValuesOK
<1>2. QED
  BY <1>1 DEF Flushes

LEMMA LimitTypes ==
    MaxRows \in Nat /\ MaxBytes \in Nat /\ MaxBatches \in Nat /\ BatchSizes \subseteq Nat
BY PipelineLimitAssumption, BatchSizesAssumption

-----------------------------------------------------------------------------
(* Every step keeps the invariant *)

LEMMA PipelineInvInit == Init => PipelineInv
<1> SUFFICES ASSUME Init PROVE PipelineInv
  OBVIOUS
<1>0. FlagsOK
  BY Zenon DEF Init, FlagsOK
<1>1. ValuesOK
  BY PipelineLimitAssumption DEF Init, ValuesOK, NoObject
<1>2. PipeOK /\ BytesAgree /\ RowsOK
  BY LimitTypes DEF Init, PipeOK, BytesAgree, RowsOK, BatchCounts
<1>3. ProgressOK /\ EndsOK
  BY DEF Init, ProgressOK, BatchCounts, Produced, Closed, EndsOK, NoObject
<1>4. QED
  BY <1>0, <1>1, <1>2, <1>3 DEF PipelineInv

LEMMA StartKeeps == ASSUME PipelineInv, Start PROVE PipelineInv'
<1> USE DEF PipelineInv
<1>0. FlagsOK'
  BY Zenon DEF Start, FlagsOK
<1>1. ValuesOK' /\ PipeOK' /\ BytesAgree'
  BY DEF Start, ValuesOK, PipeOK, BytesAgree, uploaderVars
<1>2. RowsOK' /\ EndsOK'
  BY DEF Start, ValuesOK, RowsOK, BatchCounts, EndsOK, uploaderVars
<1>3. ProgressOK'
  BY DEF Start, ValuesOK, PipeOK, ProgressOK, BatchCounts, Produced, Closed
<1>4. QED
  BY <1>0, <1>1, <1>2, <1>3

LEMMA StreamFailsKeeps == ASSUME PipelineInv, StreamFails PROVE PipelineInv'
<1> USE DEF PipelineInv
<1>0. FlagsOK'
  BY Zenon DEF StreamFails, FlagsOK
<1>1. ValuesOK' /\ PipeOK' /\ BytesAgree'
  BY DEF StreamFails, ValuesOK, PipeOK, BytesAgree, uploaderVars
<1>2. RowsOK' /\ EndsOK'
  BY DEF StreamFails, ValuesOK, RowsOK, BatchCounts, EndsOK, uploaderVars
<1>3. ProgressOK'
  BY DEF StreamFails, ProgressOK, BatchCounts, Closed
<1>4. QED
  BY <1>0, <1>1, <1>2, <1>3

LEMMA WriteReturnsKeeps == ASSUME PipelineInv, WriteReturns PROVE PipelineInv'
<1> USE DEF PipelineInv
<1>0. FlagsOK'
  BY Zenon DEF WriteReturns, FlagsOK, uploaderVars
<1>1. ValuesOK' /\ PipeOK' /\ BytesAgree'
  <2>t. then \in {"reporting", "finishing"}
    BY DEF WriteReturns, ValuesOK, PipeOK
  <2>1. CASE pending = 0
    <3>1. ValuesOK'
      BY <2>1, <2>t DEF WriteReturns, ValuesOK, uploaderVars
    <3>2. PipeOK' /\ BytesAgree'
      BY <2>1, <2>t DEF WriteReturns, ValuesOK, PipeOK, BytesAgree, uploaderVars
    <3>3. QED
      BY <3>1, <3>2
  <2>2. CASE pending # 0
    <3>1. producer' \in {"finishing", "closing"} /\ received = written
      BY <2>2, <2>t DEF WriteReturns, ValuesOK, PipeOK, BytesAgree
    <3>2. ValuesOK'
      BY <2>2, <3>1 DEF WriteReturns, ValuesOK, uploaderVars
    <3>3. PipeOK' /\ BytesAgree'
      BY <2>2, <3>1, LimitTypes DEF WriteReturns, ValuesOK, PipeOK, BytesAgree, uploaderVars
    <3>4. QED
      BY <3>2, <3>3
  <2>3. QED
    BY <2>1, <2>2
<1>2. RowsOK' /\ EndsOK'
  BY DEF WriteReturns, ValuesOK, PipeOK, RowsOK, BatchCounts, EndsOK, uploaderVars
<1>3. ProgressOK'
  BY DEF WriteReturns, ValuesOK, PipeOK, ProgressOK, BatchCounts, Produced, Closed,
     Header, Trailer, FileSize
<1>4. QED
  BY <1>0, <1>1, <1>2, <1>3

LEMMA ReportKeeps == ASSUME PipelineInv, Report PROVE PipelineInv'
<1> USE DEF PipelineInv
<1>n. MaxRows \in Nat /\ batch \in Nat
  BY LimitTypes DEF ValuesOK
<1>0. FlagsOK'
  BY Zenon DEF Report, FlagsOK
<1>1. ValuesOK'
  BY <1>n DEF Report, ValuesOK, uploaderVars
<1>2. PipeOK' /\ BytesAgree'
  BY DEF Report, ValuesOK, PipeOK, BytesAgree, uploaderVars
<1>3. RowsOK' /\ EndsOK'
  BY <1>n DEF Report, ValuesOK, RowsOK, BatchCounts, EndsOK, uploaderVars
<1>4. ProgressOK'
  BY <1>n DEF Report, Checkpoint, ValuesOK, PipeOK, ProgressOK, BatchCounts, Produced,
     Closed, Header
<1>5. QED
  BY <1>0, <1>1, <1>2, <1>3, <1>4

LEMMA FinishKeeps == ASSUME PipelineInv, Finish PROVE PipelineInv'
<1> USE DEF PipelineInv
<1>0. FlagsOK'
  BY Zenon DEF Finish, FlagsOK
<1>1. ValuesOK' /\ PipeOK' /\ BytesAgree'
  BY DEF Finish, ClosedWith, ValuesOK, PipeOK, BytesAgree, uploaderVars
<1>2. RowsOK' /\ EndsOK'
  BY DEF Finish, ValuesOK, RowsOK, BatchCounts, EndsOK, ClosedWith, uploaderVars
<1>3. ProgressOK'
  BY DEF Finish, ProgressOK, BatchCounts, Closed, FileSize, Header, Trailer
<1>4. QED
  BY <1>0, <1>1, <1>2, <1>3

\* The uploader and the deadline leave the producer's account alone.
LEMMA ProducerAlone ==
    ASSUME PipelineInv, UNCHANGED <<format, producerVars>>
    PROVE  RowsOK' /\ ProgressOK'
<1>1. RowsOK'
  BY Zenon DEF PipelineInv, producerVars, RowsOK, BatchCounts
<1>2. ProgressOK'
  BY Zenon DEF PipelineInv, producerVars, ProgressOK, BatchCounts, Closed, Produced,
     FileSize, Header, Trailer
<1>3. QED
  BY <1>1, <1>2

LEMMA ReadKeeps == ASSUME PipelineInv, Read PROVE PipelineInv'
<1> USE DEF PipelineInv
<1>0. FlagsOK' /\ RowsOK' /\ ProgressOK'
  BY ProducerAlone, Zenon DEF Read, FlagsOK, producerVars
<1>1. ValuesOK' /\ PipeOK' /\ BytesAgree'
  BY DEF Read, ValuesOK, PipeOK, BytesAgree, producerVars
<1>2. EndsOK'
  BY DEF Read, EndsOK, ClosedWith, producerVars
<1>3. QED
  BY <1>0, <1>1, <1>2

LEMMA PutCompletesKeeps == ASSUME PipelineInv, PutCompletes PROVE PipelineInv'
<1> USE DEF PipelineInv
<1>0. FlagsOK' /\ RowsOK' /\ ProgressOK'
  BY ProducerAlone, Zenon DEF PutCompletes, FlagsOK, producerVars
<1>1. ValuesOK' /\ PipeOK' /\ BytesAgree'
  BY DEF PutCompletes, ValuesOK, PipeOK, BytesAgree, producerVars
<1>2. EndsOK'
  BY DEF PutCompletes, ValuesOK, EndsOK, ClosedWith, producerVars
<1>3. QED
  BY <1>0, <1>1, <1>2

LEMMA PutAbortsKeeps == ASSUME PipelineInv, PutAborts PROVE PipelineInv'
<1> USE DEF PipelineInv
<1>0. FlagsOK' /\ RowsOK' /\ ProgressOK'
  BY ProducerAlone, Zenon DEF PutAborts, PutFailed, FlagsOK, producerVars
<1>1. ValuesOK' /\ PipeOK' /\ BytesAgree'
  BY DEF PutAborts, PutFailed, ValuesOK, PipeOK, BytesAgree, producerVars
<1>2. EndsOK'
  BY DEF PutAborts, PutFailed, EndsOK, ClosedWith, producerVars
<1>3. QED
  BY <1>0, <1>1, <1>2

LEMMA PutErrsKeeps == ASSUME PipelineInv, PutErrs PROVE PipelineInv'
<1> USE DEF PipelineInv
<1>0. FlagsOK' /\ RowsOK' /\ ProgressOK'
  BY ProducerAlone, Zenon DEF PutErrs, PutFailed, FlagsOK, producerVars
<1>1. ValuesOK' /\ PipeOK' /\ BytesAgree'
  BY DEF PutErrs, PutFailed, ValuesOK, PipeOK, BytesAgree, producerVars
<1>2. EndsOK'
  BY DEF PutErrs, PutFailed, EndsOK, ClosedWith, producerVars
<1>3. QED
  BY <1>0, <1>1, <1>2

LEMMA DeadlineKeeps == ASSUME PipelineInv, Deadline PROVE PipelineInv'
<1> USE DEF PipelineInv
<1>0. FlagsOK' /\ RowsOK' /\ ProgressOK'
  BY ProducerAlone, Zenon DEF Deadline, FlagsOK, producerVars
<1>1. ValuesOK' /\ PipeOK' /\ BytesAgree'
  BY DEF Deadline, ValuesOK, PipeOK, BytesAgree, producerVars, uploaderVars
<1>2. EndsOK'
  BY DEF Deadline, EndsOK, ClosedWith, producerVars, uploaderVars
<1>3. QED
  BY <1>0, <1>1, <1>2

LEMMA ReturnKeeps == ASSUME PipelineInv, Return PROVE PipelineInv'
<1> USE DEF PipelineInv
<1>0. FlagsOK' /\ RowsOK' /\ ProgressOK'
  BY ProducerAlone, Zenon DEF Return, FlagsOK, producerVars
<1>1. ValuesOK' /\ PipeOK' /\ BytesAgree'
  BY DEF Return, ValuesOK, PipeOK, BytesAgree, producerVars, uploaderVars
<1>2. EndsOK'
  BY DEF Return, SizeAgrees, EndsOK, ClosedWith, producerVars, uploaderVars
<1>3. QED
  BY <1>0, <1>1, <1>2

\* Batch, in the case where the rows are within the limit, and Close both end
\* in a write of the formatter.
LEMMA BatchKeeps ==
    ASSUME PipelineInv, NEW n \in BatchSizes, NEW last \in BOOLEAN, Batch(n, last)
    PROVE  PipelineInv'
<1> DEFINE headed == buffered + (IF batches = 0 THEN Header ELSE 0)
<1> USE DEF PipelineInv
<1>n. /\ n \in Nat /\ MaxBytes \in Nat /\ MaxRows \in Nat /\ MaxBatches \in Nat
      /\ Header \in {0, 1}
  BY LimitTypes, Sizes
<1>h. headed \in Nat
  BY <1>n DEF ValuesOK
<1>s. /\ producer = "streaming" /\ offered = 0 /\ pending = 0 /\ then = "none"
      /\ batches' = batches + 1 /\ batches < MaxBatches /\ batches' > 0
      /\ done' = last /\ batch' = n /\ ~failed
      /\ written + headed = Header + rows
  BY <1>n DEF Batch, ValuesOK, PipeOK, ProgressOK, Produced
<1>u. UNCHANGED <<format, canceled, rows, lastReported, written, hashed, writer,
                  reader, uploader, received, object, result>>
  BY DEF Batch, uploaderVars
<1>f. Header' = Header
  BY <1>u DEF Header
<1>1. CASE failed' = TRUE /\ producer' = "closing" /\ buffered' \in Nat
           /\ UNCHANGED <<then, offered, pending>>
  <2>0. FlagsOK'
    BY <1>1, <1>s, <1>u, Zenon DEF FlagsOK
  <2>1. ValuesOK' /\ PipeOK' /\ BytesAgree'
    BY <1>1, <1>s, <1>u, <1>n DEF ValuesOK, PipeOK, BytesAgree
  <2>2. RowsOK' /\ EndsOK' /\ ProgressOK'
    BY <1>1, <1>s, <1>u, <1>n DEF ValuesOK, RowsOK, BatchCounts, EndsOK, ProgressOK, Closed
  <2>3. QED
    BY <2>0, <2>1, <2>2
<1>2. ASSUME NEW bytes \in Flushes(headed + n), WithinRowLimit(n),
             Write(bytes, "reporting", headed + n - bytes)
      PROVE  PipelineInv'
  <2> DEFINE left == headed + n - bytes
  <2>b. bytes \in Nat /\ left \in Nat /\ bytes + left = headed + n
    BY <1>h, <1>n, FlushesPart
  <2>r. rows + n <= MaxRows
    BY <1>2 DEF WithinRowLimit
  <2>w. Write(bytes, "reporting", left)
    BY <1>2
  <2> HIDE DEF left, headed
  <2>1. CASE bytes = 0
    <3>1. /\ producer' = "reporting" /\ buffered' = left
          /\ UNCHANGED <<then, offered, pending, failed>>
      BY <2>1, <2>w DEF Write
    <3>2. FlagsOK'
      BY <3>1, <1>s, <1>u, Zenon DEF FlagsOK
    <3>3. ValuesOK' /\ PipeOK' /\ BytesAgree'
      BY <3>1, <1>s, <1>u, <1>n, <2>b DEF ValuesOK, PipeOK, BytesAgree
    <3>4. RowsOK' /\ EndsOK'
      BY <3>1, <1>s, <1>u, <1>n, <2>r DEF ValuesOK, RowsOK, BatchCounts, EndsOK
    <3>5. ProgressOK'
      BY <3>1, <1>s, <1>u, <1>n, <1>f, <1>h, <2>b, <2>1
      DEF ValuesOK, ProgressOK, BatchCounts, Closed, Produced
    <3>6. QED
      BY <3>2, <3>3, <3>4, <3>5
  <2>2. CASE bytes # 0 /\ TooMuch(bytes)
    BY <1>1, <2>2, <2>w DEF Write
  <2>3. CASE bytes # 0 /\ ~TooMuch(bytes)
    <3>1. /\ producer' = "writing" /\ then' = "reporting"
          /\ offered' = bytes /\ pending' = bytes
          /\ buffered' = left /\ UNCHANGED failed
      BY <2>3, <2>w DEF Write
    <3>2. FlagsOK'
      BY <3>1, <1>s, <1>u, Zenon DEF FlagsOK
    <3>3. ValuesOK' /\ PipeOK' /\ BytesAgree'
      BY <3>1, <1>s, <1>u, <1>n, <2>b, <2>3 DEF ValuesOK, PipeOK, BytesAgree, TooMuch
    <3>4. RowsOK' /\ EndsOK'
      BY <3>1, <1>s, <1>u, <1>n, <2>r DEF ValuesOK, RowsOK, BatchCounts, EndsOK
    <3>5. ProgressOK'
      BY <3>1, <1>s, <1>u, <1>n, <1>f, <1>h, <2>b
      DEF ValuesOK, ProgressOK, BatchCounts, Closed, Produced
    <3>6. QED
      BY <3>2, <3>3, <3>4, <3>5
  <2>4. QED
    BY <2>1, <2>2, <2>3
<1>3. QED
  BY <1>1, <1>2, <1>h DEF Batch

LEMMA CloseKeeps == ASSUME PipelineInv, Close PROVE PipelineInv'
<1> DEFINE bytes == buffered + Trailer
<1> USE DEF PipelineInv
<1>n. /\ Trailer \in {0, 1} /\ Header \in {0, 1} /\ MaxBytes \in Nat
      /\ FileSize = Header + rows + Trailer
  BY LimitTypes, Sizes
<1>b. bytes \in Nat /\ (bytes = 0 => Trailer = 0 /\ buffered = 0)
  BY <1>n DEF ValuesOK
<1>s. producer = "closing" /\ offered = 0 /\ pending = 0 /\ then = "none"
  BY DEF Close, ValuesOK, PipeOK
<1>c. ~failed => /\ written + bytes = FileSize /\ done /\ lastReported = rows
                 /\ batches > 0
  BY <1>n, <1>s DEF ValuesOK, ProgressOK, Produced
<1>u. UNCHANGED <<format, canceled, batches, batch, done, rows, lastReported,
                  written, hashed, writer, reader, uploader, received, object, result>>
  BY DEF Close, uploaderVars
<1>f. FileSize' = FileSize
  BY <1>u DEF FileSize, Header, Trailer
<1>1. CASE failed' = TRUE /\ producer' = "finishing" /\ buffered' \in Nat
           /\ UNCHANGED <<then, offered, pending>>
  <2>0. FlagsOK'
    BY <1>1, <1>u, Zenon DEF FlagsOK
  <2>1. ValuesOK' /\ PipeOK' /\ BytesAgree'
    BY <1>1, <1>s, <1>u, <1>n DEF ValuesOK, PipeOK, BytesAgree
  <2>2. RowsOK' /\ EndsOK' /\ ProgressOK'
    BY <1>1, <1>s, <1>u, <1>n DEF ValuesOK, RowsOK, BatchCounts, EndsOK, ProgressOK, Closed
  <2>3. QED
    BY <2>0, <2>1, <2>2
<1> HIDE DEF bytes
<1>2. CASE Write(bytes, "finishing", 0)
  <2>1. CASE bytes = 0
    <3>1. /\ producer' = "finishing" /\ buffered' = 0
          /\ UNCHANGED <<then, offered, pending, failed>>
      BY <1>2, <2>1 DEF Write
    <3>2. FlagsOK'
      BY <3>1, <1>u, Zenon DEF FlagsOK
    <3>3. ValuesOK' /\ PipeOK' /\ BytesAgree'
      BY <3>1, <1>s, <1>u, <1>n DEF ValuesOK, PipeOK, BytesAgree
    <3>4. RowsOK' /\ EndsOK' /\ ProgressOK'
      BY <3>1, <1>s, <1>u, <1>n, <1>f, <1>c, <2>1
      DEF ValuesOK, RowsOK, BatchCounts, EndsOK, ProgressOK, Closed
    <3>5. QED
      BY <3>2, <3>3, <3>4
  <2>2. CASE bytes # 0 /\ TooMuch(bytes)
    BY <1>1, <1>2, <2>2 DEF Write
  <2>3. CASE bytes # 0 /\ ~TooMuch(bytes)
    <3>1. /\ producer' = "writing" /\ then' = "finishing"
          /\ offered' = bytes /\ pending' = bytes
          /\ buffered' = 0 /\ UNCHANGED failed
      BY <1>2, <2>3 DEF Write
    <3>2. FlagsOK'
      BY <3>1, <1>u, Zenon DEF FlagsOK
    <3>3. ValuesOK' /\ PipeOK' /\ BytesAgree'
      BY <3>1, <1>s, <1>u, <1>n, <1>b, <2>3 DEF ValuesOK, PipeOK, BytesAgree, TooMuch
    <3>4. RowsOK' /\ EndsOK' /\ ProgressOK'
      BY <3>1, <1>s, <1>u, <1>n, <1>f, <1>c
      DEF ValuesOK, RowsOK, BatchCounts, EndsOK, ProgressOK, Closed
    <3>5. QED
      BY <3>2, <3>3, <3>4
  <2>4. QED
    BY <2>1, <2>2, <2>3
<1>3. QED
  BY <1>1, <1>2 DEF Close, bytes, ValuesOK

LEMMA PipelineInvNext == PipelineInv /\ [Next]_vars => PipelineInv'
<1> SUFFICES ASSUME PipelineInv, [Next]_vars PROVE PipelineInv'
  OBVIOUS
<1>1. CASE ProviderStep
  BY <1>1, BatchKeeps DEF ProviderStep
<1>2. CASE ProducerStep \/ StreamFails
  BY <1>2, StartKeeps, WriteReturnsKeeps, ReportKeeps, CloseKeeps, FinishKeeps,
     StreamFailsKeeps DEF ProducerStep
<1>3. CASE Read \/ PutCompletes \/ PutAborts \/ PutErrs
  BY <1>3, ReadKeeps, PutCompletesKeeps, PutAbortsKeeps, PutErrsKeeps
<1>4. CASE Deadline \/ Return
  BY <1>4, DeadlineKeeps, ReturnKeeps
<1>5. CASE UNCHANGED vars
  <2>0. FlagsOK' /\ RowsOK' /\ ProgressOK'
    BY <1>5, ProducerAlone, Zenon DEF vars, PipelineInv, FlagsOK, producerVars
  <2>1. ValuesOK' /\ PipeOK' /\ BytesAgree'
    BY <1>5 DEF vars, PipelineInv, ValuesOK, PipeOK, BytesAgree, producerVars, uploaderVars
  <2>2. EndsOK'
    BY <1>5, Zenon DEF vars, PipelineInv, EndsOK, ClosedWith, producerVars, uploaderVars
  <2>3. QED
    BY <2>0, <2>1, <2>2 DEF PipelineInv
<1>6. QED
  BY <1>1, <1>2, <1>3, <1>4, <1>5 DEF Next

LEMMA PipelineInvAlways == Spec => []PipelineInv
BY PipelineInvInit, PipelineInvNext, PTL DEF Spec

-----------------------------------------------------------------------------
\* Every variable keeps its type: no counter of the two goroutines is ever
\* negative, and no report is ahead of the rows.
THEOREM PipelineTypes == Spec => []TypeOK
<1>1. PipelineInv => TypeOK
  BY TypeOKParts DEF PipelineInv
<1>2. QED
  BY <1>1, PipelineInvAlways, PTL

\* Whenever one of the goroutines fails, whatever the formatter had buffered
\* and whatever the store does: an object in the bucket is a whole file.
THEOREM ObjectsAreWhole == Spec => []NoPartialObject
<1>1. PipelineInv => NoPartialObject
  BY DEF PipelineInv, ValuesOK, PipeOK, BytesAgree, ProgressOK, Closed, EndsOK,
     ClosedWith, NoPartialObject, FileSize
<1>2. QED
  BY <1>1, PipelineInvAlways, PTL

\* The size and the checksum that Run returns are those of the object.
THEOREM ResultIsTrue == Spec => []ResultDescribesObject
<1>1. PipelineInv => ResultDescribesObject
  BY DEF PipelineInv, ValuesOK, PipeOK, BytesAgree, ProgressOK, Closed, EndsOK,
     ResultDescribesObject, FileSize
<1>2. QED
  BY <1>1, PipelineInvAlways, PTL

\* export.max_rows and export.max_bytes are never exceeded, not even by what
\* is written when a failed export is closed.
THEOREM LimitsAreKept == Spec => []LimitsHold
<1>1. PipelineInv => LimitsHold
  BY LimitTypes DEF PipelineInv, ValuesOK, PipeOK, BytesAgree, RowsOK, LimitsHold
<1>2. QED
  BY <1>1, PipelineInvAlways, PTL

\* A result is returned only after all of its rows were reported.
THEOREM AllRowsReported == Spec => []FinalCheckpoint
<1>1. PipelineInv => FinalCheckpoint
  BY DEF PipelineInv, ProgressOK, Closed, EndsOK, FinalCheckpoint
<1>2. QED
  BY <1>1, PipelineInvAlways, PTL

=============================================================================
