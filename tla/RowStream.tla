----------------------------- MODULE RowStream -----------------------------
(***************************************************************************)
(* GRPCProvider.Stream and streamRows (provider.go): one export reads a    *)
(* dataset from a provider as a stream of batches, hands every batch to    *)
(* the consumer callback of the pipeline, and after a retryable failure    *)
(* opens a new stream that resumes at the cursor of the last batch the     *)
(* consumer has accepted.                                                  *)
(*                                                                         *)
(* The dataset is BatchCount batches; batch n is followed by n + 1 and the *)
(* last one carries done.  The cursor after batch n is n, and 0 is the     *)
(* empty cursor, from which a stream starts at the first batch.  A         *)
(* provider may leave out the cursor of any batch.  The data changes       *)
(* between two streams; a provider with snapshots returns a token with     *)
(* every batch and serves a stream opened with it from that snapshot.      *)
(***************************************************************************)
EXTENDS Naturals, Sequences

CONSTANTS
    BatchCount,         \* batches of the dataset
    MaxAttempts,        \* provider_client.retry.max_attempts
    MaxEpoch            \* bound: changes of the provider's data

ASSUME BatchCountAssumption == BatchCount \in Nat \ {0}
ASSUME MaxAttemptsAssumption == MaxAttempts \in Nat
ASSUME MaxEpochAssumption == MaxEpoch \in Nat

VARIABLES
    cursors,            \* the batches the provider returns a next cursor with
    snapshots,          \* does the provider support snapshots?
    epoch,              \* the provider's current data
    pc,
    attempt,
    cursor,             \* request.Cursor, 0 is ""
    token,              \* request.SnapshotToken, 0 is ""
    delivered,
    stream,             \* [next, epoch]: what the open stream sends next
    written,            \* what the consumer has written to the file
    report              \* what Stream told the service discovery

streamVars == <<cursors, snapshots, epoch, pc, attempt, cursor, token,
                delivered, stream, written, report>>

Errors == {"truncated",         \* io.EOF before the final batch
           "unavailable",       \* codes.Unavailable, codes.ResourceExhausted
           "rejected",          \* any other status, the context's included
           "consumer"}          \* the callback's error

Piece == [batch : 1 .. BatchCount, epoch : 1 .. MaxEpoch + 1]

TypeOK ==
    /\ cursors \subseteq 1 .. BatchCount
    /\ snapshots \in BOOLEAN
    /\ epoch \in 1 .. MaxEpoch + 1
    /\ pc \in {"selecting", "opening", "receiving", "waiting", "done", "failed"}
    /\ attempt \in Nat
    /\ cursor \in 0 .. BatchCount
    /\ token \in 0 .. MaxEpoch + 1
    /\ delivered \in BOOLEAN
    /\ stream \in [next : 1 .. BatchCount + 1, epoch : 1 .. MaxEpoch + 1]
    /\ written \in Seq(Piece)
    /\ report \in {"none", "failure", "success"}

Init ==
    /\ cursors \in SUBSET (1 .. BatchCount)
    /\ snapshots \in BOOLEAN
    /\ epoch = 1
    /\ pc = "selecting"
    /\ attempt = 1
    /\ cursor = 0
    /\ token = 0
    /\ delivered = FALSE
    /\ stream = [next |-> 1, epoch |-> 1]
    /\ written = <<>>
    /\ report = "none"

-----------------------------------------------------------------------------
\* streamRows makes at least one attempt whatever is configured.
Attempts == IF MaxAttempts < 1 THEN 1 ELSE MaxAttempts

retryableStreamError(err) == err \in {"truncated", "unavailable"}

\* GRPCProvider.Stream returns; a failed stream is reported when blamed.
Return(outcome, blamed) ==
    /\ pc' = outcome
    /\ report' = CASE outcome = "done" -> "success"
                   [] outcome = "failed" /\ blamed -> "failure"
                   [] OTHER -> report

\* Mutant of AttemptFailed: the end of the stream is the end of the data.
EndOfStreamIsSuccess(err) ==
    IF err = "truncated"
    THEN Return("done", FALSE)
    ELSE IF retryableStreamError(err) /\ attempt < Attempts
         THEN pc' = "waiting" /\ UNCHANGED report
         ELSE Return("failed", retryableStreamError(err))

\* Mutant of AttemptFailed: without a cursor the stream starts over.
StartOver(err) ==
    IF ~retryableStreamError(err)
    THEN Return("failed", FALSE)
    ELSE IF attempt = Attempts
         THEN Return("failed", TRUE)
         ELSE pc' = "waiting" /\ UNCHANGED report

\* Mutant of AttemptFailed: whoever failed, the provider is reported.
BlameAnyway(err) ==
    IF ~retryableStreamError(err) \/ (delivered' /\ cursor' = 0)
    THEN Return("failed", TRUE)
    ELSE IF attempt = Attempts
         THEN Return("failed", TRUE)
         ELSE pc' = "waiting" /\ UNCHANGED report

\* The body of streamRows after an attempt that ended with err.
AttemptFailed(err) ==
    IF ~retryableStreamError(err) \/ (delivered' /\ cursor' = 0)
    THEN Return("failed", retryableStreamError(err))
    ELSE IF attempt = Attempts
         THEN Return("failed", TRUE)
         ELSE pc' = "waiting" /\ UNCHANGED report

-----------------------------------------------------------------------------
\* GRPCProvider.client finds a healthy instance with the dataset, or Stream
\* returns its error.
Select ==
    /\ pc = "selecting"
    /\ \/ pc' = "opening" /\ UNCHANGED report
       \/ Return("failed", FALSE)
    /\ UNCHANGED <<cursors, snapshots, epoch, attempt, cursor, token, delivered,
                   stream, written>>

\* open succeeds: the provider serves the batches after the cursor, from the
\* snapshot of the token if there is one and from its current data if not.
Open ==
    /\ pc = "opening"
    /\ pc' = "receiving"
    /\ stream' = [next |-> cursor + 1, epoch |-> IF token = 0 THEN epoch ELSE token]
    /\ UNCHANGED <<cursors, snapshots, epoch, attempt, cursor, token, delivered,
                   written, report>>

\* open or Recv fails.
Break(err) ==
    /\ \/ pc = "opening" /\ err # "truncated"
       \/ pc = "receiving"
    /\ UNCHANGED <<cursor, delivered>>
    /\ AttemptFailed(err)
    /\ UNCHANGED <<cursors, snapshots, epoch, attempt, token, stream, written>>

Sent == [batch |-> stream.next, epoch |-> stream.epoch]

\* Mutant of NextToken: the token of the response is not kept.
TokenDropped == 0

\* The cursor and the token of the response that carries the next batch.
NextCursor == IF stream.next \in cursors THEN stream.next ELSE 0

NextToken == IF snapshots THEN stream.epoch ELSE 0

\* receiveRows: the consumer accepts the batch, and the request moves on to
\* the response's cursor and token.
Accept ==
    /\ pc = "receiving"
    /\ stream.next <= BatchCount
    /\ written' = Append(written, Sent)
    /\ delivered' = TRUE
    /\ cursor' = NextCursor
    /\ token' = NextToken
    /\ stream' = [next |-> stream.next + 1, epoch |-> stream.epoch]
    /\ IF stream.next = BatchCount
       THEN Return("done", FALSE)
       ELSE UNCHANGED <<pc, report>>
    /\ UNCHANGED <<cursors, snapshots, epoch, attempt>>

\* The consumer refuses the batch: before it wrote the rows (row limit, no
\* columns), or after (the progress update lost the running state).
Refuse ==
    /\ pc = "receiving"
    /\ stream.next <= BatchCount
    /\ written' \in {written, Append(written, Sent)}
    /\ UNCHANGED <<cursor, delivered>>
    /\ AttemptFailed("consumer")
    /\ UNCHANGED <<cursors, snapshots, epoch, attempt, token, stream>>

\* Mutant of Wait: the attempt is not counted.
WaitUncounted ==
    /\ pc = "waiting"
    /\ \/ pc' = "opening" /\ UNCHANGED report
       \/ Return("failed", FALSE)
    /\ UNCHANGED <<cursors, snapshots, epoch, attempt, cursor, token, delivered,
                   stream, written>>

\* waitStreamRetry: the timer fires, or the context ends first.
Wait ==
    /\ pc = "waiting"
    /\ \/ /\ attempt' = attempt + 1
          /\ pc' = "opening"
          /\ UNCHANGED report
       \/ Return("failed", FALSE) /\ UNCHANGED attempt
    /\ UNCHANGED <<cursors, snapshots, epoch, cursor, token, delivered, stream,
                   written>>

\* Somebody changes the provider's data.
DataChanges ==
    /\ epoch <= MaxEpoch
    /\ epoch' = epoch + 1
    /\ UNCHANGED <<cursors, snapshots, pc, attempt, cursor, token, delivered,
                   stream, written, report>>

StreamStep ==
    \/ Select \/ Open \/ Accept \/ Refuse \/ Wait
    \/ \E err \in Errors \ {"consumer"} : Break(err)

Next == StreamStep \/ DataChanges

Spec == Init /\ [][Next]_streamVars

\* Every call of a stream ends: with an answer, or with the job's deadline.
FairSpec == Spec /\ WF_streamVars(StreamStep)

-----------------------------------------------------------------------------
\* The file holds the batches of the dataset in order, none twice and none
\* left out, however often the stream is cut and resumed.
RowsInOrder == \A i \in 1 .. Len(written) : written[i].batch = i

\* Stream returns without an error, and reports the instance as healthy, only
\* when the file holds the whole dataset.
SuccessIsComplete ==
    pc = "done" \/ report = "success" => Len(written) = BatchCount

\* With a provider that supports snapshots, the file never mixes two states
\* of its data.
OneSnapshot ==
    snapshots => \A i, k \in 1 .. Len(written) : written[i].epoch = written[k].epoch

\* An instance is reported as failing only when it has cut a stream that
\* cannot be resumed: the budget is spent, or a batch came without a cursor.
\* A consumer that refuses a batch, a rejected call or a canceled job never
\* ejects it.
BlameIsFair ==
    [][report' = "failure" /\ report # "failure" =>
        /\ \E err \in Errors : retryableStreamError(err) /\ Break(err)
        /\ attempt = Attempts \/ (delivered /\ cursor = 0)]_streamVars

\* Stream returns.
StreamReturns == <>(pc \in {"done", "failed"})

=============================================================================
