-------------------------- MODULE RowStreamProofs --------------------------
(***************************************************************************)
(* Proofs about RowStream, for every number of batches and of attempts:    *)
(* the file never holds a batch twice or out of order, a successful stream *)
(* is complete, a provider with snapshots is read from one snapshot, and   *)
(* only a provider that has cut a stream for good is reported as failing.  *)
(***************************************************************************)
EXTENDS RowStream, TLAPS

\* While the stream goes on, the cursor is either empty or the last batch of
\* the file, and an open stream sends the batch after it.
CursorIsCommitPoint ==
    /\ pc \in {"selecting", "opening", "waiting"} => cursor = Len(written)
    /\ pc # "failed" => cursor \in {0, Len(written)}
    /\ pc = "receiving" => stream.next = Len(written) + 1

\* A consumer that has accepted nothing has written nothing.
NothingUndelivered == pc # "failed" /\ ~delivered => Len(written) = 0

\* What is written, the token and the open stream are of one snapshot.
TokenPinsSnapshot ==
    snapshots =>
        /\ pc # "failed" => \A i \in 1 .. Len(written) : written[i].epoch = token
        /\ pc = "receiving" => \A i \in 1 .. Len(written) : written[i].epoch = stream.epoch

\* Nothing is reported before the end, and success is the end of all batches.
EndIsReported ==
    /\ pc = "done" => Len(written) = BatchCount
    /\ report = "success" => pc = "done"

StreamInv ==
    /\ TypeOK
    /\ RowsInOrder
    /\ OneSnapshot
    /\ CursorIsCommitPoint
    /\ NothingUndelivered
    /\ TokenPinsSnapshot
    /\ EndIsReported

USE BatchCountAssumption, MaxAttemptsAssumption, MaxEpochAssumption

-----------------------------------------------------------------------------
\* What appending the batch on the stream does to the file.
LEMMA AppendSent ==
    ASSUME TypeOK, pc = "receiving", stream.next <= BatchCount
    PROVE  /\ Append(written, Sent) \in Seq(Piece)
           /\ Len(Append(written, Sent)) = Len(written) + 1
           /\ \A i \in 1 .. Len(written) : Append(written, Sent)[i] = written[i]
           /\ Append(written, Sent)[Len(written) + 1] = Sent
           /\ Sent.batch = stream.next
           /\ Sent.epoch = stream.epoch
<1>1. Sent \in Piece
  BY DEF TypeOK, Sent, Piece
<1>2. written \in Seq(Piece)
  BY DEF TypeOK
<1> QED
  BY <1>1, <1>2 DEF Sent

\* The consumer wrote the batch on the stream: the file stays in order and of
\* one snapshot.
LEMMA WrittenStaysInOrder ==
    ASSUME StreamInv, pc = "receiving", stream.next <= BatchCount,
           written' = Append(written, Sent), UNCHANGED snapshots
    PROVE  /\ written' \in Seq(Piece)
           /\ Len(written') = Len(written) + 1
           /\ RowsInOrder'
           /\ snapshots => \A i \in 1 .. Len(written') : written'[i].epoch = stream.epoch
<1>1. TypeOK /\ RowsInOrder /\ CursorIsCommitPoint /\ TokenPinsSnapshot
  BY DEF StreamInv
<1>2. /\ written' \in Seq(Piece)
      /\ Len(written') = Len(written) + 1
      /\ \A i \in 1 .. Len(written) : written'[i] = written[i]
      /\ written'[Len(written) + 1].batch = stream.next
      /\ written'[Len(written) + 1].epoch = stream.epoch
  BY <1>1, AppendSent
<1>3. Len(written) \in Nat
  BY <1>1 DEF TypeOK
<1>4. stream.next = Len(written) + 1
  BY <1>1 DEF CursorIsCommitPoint
<1>5. RowsInOrder'
  BY <1>1, <1>2, <1>3, <1>4 DEF RowsInOrder
<1>6. snapshots => \A i \in 1 .. Len(written') : written'[i].epoch = stream.epoch
  BY <1>1, <1>2, <1>3 DEF TokenPinsSnapshot
<1> QED
  BY <1>2, <1>5, <1>6

LEMMA StreamInvInit == Init => StreamInv
<1> SUFFICES ASSUME Init PROVE StreamInv
  OBVIOUS
<1>1. TypeOK
  <2>1. <<>> \in Seq(Piece)
    OBVIOUS
  <2>2. cursors \subseteq 1 .. BatchCount
    BY Zenon DEF Init
  <2>3. stream \in [next : 1 .. BatchCount + 1, epoch : 1 .. MaxEpoch + 1]
    BY DEF Init
  <2>4. snapshots \in BOOLEAN /\ delivered \in BOOLEAN
    BY Zenon DEF Init
  <2>5. /\ epoch \in 1 .. MaxEpoch + 1 /\ token \in 0 .. MaxEpoch + 1
        /\ attempt \in Nat /\ cursor \in 0 .. BatchCount
    BY DEF Init
  <2>6. /\ pc \in {"selecting", "opening", "receiving", "waiting", "done", "failed"}
        /\ report \in {"none", "failure", "success"}
        /\ written \in Seq(Piece)
    BY <2>1 DEF Init
  <2> QED
    BY <2>2, <2>3, <2>4, <2>5, <2>6 DEF TypeOK
<1>2. Len(written) = 0 /\ 1 .. Len(written) = {}
  BY DEF Init
<1>3. /\ pc = "selecting" /\ cursor = 0 /\ report = "none"
  BY DEF Init
<1> QED
  BY <1>1, <1>2, <1>3 DEF StreamInv, RowsInOrder, OneSnapshot, CursorIsCommitPoint,
     NothingUndelivered, TokenPinsSnapshot, EndIsReported

LEMMA StreamInvSelect == StreamInv /\ Select => StreamInv'
BY DEF StreamInv, Select, Return, TypeOK, RowsInOrder, OneSnapshot,
   CursorIsCommitPoint, NothingUndelivered, TokenPinsSnapshot, EndIsReported

LEMMA StreamInvWait == StreamInv /\ Wait => StreamInv'
BY DEF StreamInv, Wait, Return, TypeOK, RowsInOrder, OneSnapshot,
   CursorIsCommitPoint, NothingUndelivered, TokenPinsSnapshot, EndIsReported

LEMMA StreamInvDataChanges == StreamInv /\ DataChanges => StreamInv'
BY DEF StreamInv, DataChanges, TypeOK, RowsInOrder, OneSnapshot,
   CursorIsCommitPoint, NothingUndelivered, TokenPinsSnapshot, EndIsReported

LEMMA StreamInvStutter == StreamInv /\ UNCHANGED streamVars => StreamInv'
BY DEF StreamInv, streamVars, TypeOK, RowsInOrder, OneSnapshot,
   CursorIsCommitPoint, NothingUndelivered, TokenPinsSnapshot, EndIsReported

LEMMA StreamInvBreak ==
    ASSUME StreamInv, NEW err \in Errors, Break(err)
    PROVE  StreamInv'
BY DEF StreamInv, Break, AttemptFailed, Return, TypeOK, RowsInOrder, OneSnapshot,
   CursorIsCommitPoint, NothingUndelivered, TokenPinsSnapshot, EndIsReported

\* A new stream starts after the cursor, at the token's snapshot; without a
\* token, nothing has been written from a provider that has snapshots.
LEMMA StreamInvOpen == StreamInv /\ Open => StreamInv'
<1> SUFFICES ASSUME StreamInv, Open PROVE StreamInv'
  OBVIOUS
<1> USE DEF StreamInv, Open
<1>1. TypeOK'
  BY DEF TypeOK
<1>2. RowsInOrder' /\ OneSnapshot' /\ NothingUndelivered' /\ EndIsReported'
  BY DEF RowsInOrder, OneSnapshot, NothingUndelivered, EndIsReported
<1>3. CursorIsCommitPoint'
  BY DEF TypeOK, CursorIsCommitPoint
<1>4. TokenPinsSnapshot'
  <2>1. ASSUME snapshots, token = 0, Len(written) # 0 PROVE FALSE
    <3>1. 1 \in 1 .. Len(written) /\ written[1] \in Piece
      BY <2>1 DEF TypeOK
    <3>2. written[1].epoch = 0
      BY <2>1, <3>1 DEF TokenPinsSnapshot
    <3>3. written[1].epoch \in 1 .. MaxEpoch + 1
      BY <3>1 DEF Piece
    <3> QED
      BY <3>2, <3>3
  <2> QED
    BY <2>1 DEF TypeOK, TokenPinsSnapshot
<1> QED
  BY <1>1, <1>2, <1>3, <1>4

LEMMA StreamInvAccept == StreamInv /\ Accept => StreamInv'
<1> SUFFICES ASSUME StreamInv, Accept PROVE StreamInv'
  OBVIOUS
<1>1. /\ TypeOK
      /\ pc = "receiving" /\ stream.next <= BatchCount
      /\ written' = Append(written, Sent)
      /\ UNCHANGED <<cursors, snapshots, epoch, attempt>>
      /\ delivered' = TRUE
      /\ cursor' = NextCursor /\ token' = NextToken
      /\ stream' = [next |-> stream.next + 1, epoch |-> stream.epoch]
  BY DEF StreamInv, Accept
<1>2. \/ /\ stream.next = BatchCount
         /\ pc' = "done" /\ report' = "success"
      \/ /\ stream.next # BatchCount
         /\ pc' = "receiving" /\ report' = report
  BY <1>1 DEF Accept, Return
<1>3. /\ written' \in Seq(Piece)
      /\ Len(written') = Len(written) + 1
      /\ RowsInOrder'
      /\ snapshots => \A i \in 1 .. Len(written') : written'[i].epoch = stream.epoch
  BY <1>1, WrittenStaysInOrder
<1>4. stream.next = Len(written) + 1 /\ Len(written) \in Nat
  BY <1>1 DEF StreamInv, CursorIsCommitPoint, TypeOK
<1>5. /\ stream'.next = stream.next + 1
      /\ stream'.epoch = stream.epoch
      /\ stream' \in [next : 1 .. BatchCount + 1, epoch : 1 .. MaxEpoch + 1]
  BY <1>1 DEF TypeOK
<1>6. TypeOK'
  BY <1>1, <1>2, <1>3, <1>5 DEF TypeOK, NextCursor, NextToken
<1>7. OneSnapshot' /\ TokenPinsSnapshot'
  BY <1>1, <1>3, <1>5 DEF OneSnapshot, TokenPinsSnapshot, NextToken
<1>8. CursorIsCommitPoint'
  BY <1>1, <1>2, <1>3, <1>4, <1>5 DEF CursorIsCommitPoint, NextCursor
<1>9. NothingUndelivered' /\ EndIsReported'
  BY <1>1, <1>2, <1>3, <1>4 DEF NothingUndelivered, EndIsReported, StreamInv
<1> QED
  BY <1>3, <1>6, <1>7, <1>8, <1>9 DEF StreamInv

\* A refused batch may be in the file already, which is why it ends the
\* stream whatever the error is.
LEMMA StreamInvRefuse == StreamInv /\ Refuse => StreamInv'
<1> SUFFICES ASSUME StreamInv, Refuse PROVE StreamInv'
  OBVIOUS
<1>1. /\ TypeOK
      /\ pc = "receiving" /\ stream.next <= BatchCount
      /\ UNCHANGED <<cursors, snapshots, epoch, attempt, cursor, token, delivered, stream>>
      /\ pc' = "failed" /\ report' = report
  BY DEF StreamInv, Refuse, AttemptFailed, retryableStreamError, Return
<1>2. report # "success"
  BY <1>1 DEF StreamInv, EndIsReported
<1>3. /\ written' \in Seq(Piece)
      /\ RowsInOrder'
      /\ OneSnapshot'
  <2>1. CASE written' = written
    BY <2>1, <1>1 DEF StreamInv, TypeOK, RowsInOrder, OneSnapshot
  <2>2. CASE written' = Append(written, Sent)
    BY <2>2, <1>1, WrittenStaysInOrder DEF OneSnapshot
  <2> QED
    BY <2>1, <2>2 DEF Refuse
<1>4. TypeOK'
  BY <1>1, <1>3 DEF TypeOK
<1> QED
  BY <1>1, <1>2, <1>3, <1>4 DEF StreamInv, CursorIsCommitPoint, NothingUndelivered,
     TokenPinsSnapshot, EndIsReported

-----------------------------------------------------------------------------
LEMMA StreamInvAlways == Spec => []StreamInv
<1>1. StreamInv /\ [Next]_streamVars => StreamInv'
  BY StreamInvSelect, StreamInvOpen, StreamInvAccept, StreamInvRefuse,
     StreamInvWait, StreamInvBreak, StreamInvDataChanges, StreamInvStutter
     DEF Next, StreamStep
<1> QED
  BY <1>1, StreamInvInit, PTL DEF Spec

\* The file of an export holds every batch at most once and in the order of
\* the dataset, whatever streamRows had to resume.
THEOREM ExactlyOnceInOrder == Spec => []RowsInOrder
<1>1. StreamInv => RowsInOrder
  BY DEF StreamInv
<1> QED
  BY <1>1, StreamInvAlways, PTL

\* GRPCProvider.Stream returns success for complete files only.
THEOREM SuccessfulStreamIsComplete == Spec => []SuccessIsComplete
<1>1. StreamInv => SuccessIsComplete
  BY DEF StreamInv, EndIsReported, SuccessIsComplete
<1> QED
  BY <1>1, StreamInvAlways, PTL

\* The snapshot token kept in the request pins the data across resumptions.
THEOREM ResumedStreamsKeepSnapshot == Spec => []OneSnapshot
<1>1. StreamInv => OneSnapshot
  BY DEF StreamInv
<1> QED
  BY <1>1, StreamInvAlways, PTL

\* No step but the break of a stream that cannot be resumed reports a failure.
LEMMA OnlyBreaksBlame ==
    ASSUME [Next]_streamVars, report' = "failure", report # "failure"
    PROVE  /\ \E err \in Errors : retryableStreamError(err) /\ Break(err)
           /\ attempt = Attempts \/ (delivered /\ cursor = 0)
<1>1. ~Select /\ ~Open /\ ~Accept /\ ~Wait /\ ~DataChanges /\ ~UNCHANGED streamVars
  BY DEF Select, Open, Accept, Wait, DataChanges, Return, streamVars
<1>2. ~Refuse
  BY DEF Refuse, AttemptFailed, retryableStreamError, Return
<1>3. PICK err \in Errors : Break(err)
  BY <1>1, <1>2 DEF Next, StreamStep
<1>4. AttemptFailed(err) /\ UNCHANGED <<cursor, delivered>>
  BY <1>3 DEF Break
<1>5. retryableStreamError(err)
  BY <1>4 DEF AttemptFailed, Return
<1>6. attempt = Attempts \/ (delivered /\ cursor = 0)
  BY <1>4, <1>5 DEF AttemptFailed
<1> QED
  BY <1>3, <1>5, <1>6

\* The discovery is told of a failure only when the provider has cut a stream
\* that cannot be resumed, never for what a consumer or a context did.
THEOREM BlameGoesToProviders == Spec => BlameIsFair
<1>1. [Next]_streamVars =>
        [report' = "failure" /\ report # "failure" =>
            /\ \E err \in Errors : retryableStreamError(err) /\ Break(err)
            /\ attempt = Attempts \/ (delivered /\ cursor = 0)]_streamVars
  BY OnlyBreaksBlame
<1> QED
  BY <1>1, PTL DEF Spec, BlameIsFair

=============================================================================
