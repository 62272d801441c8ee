--------------------------- MODULE ObjectStorage ---------------------------
(***************************************************************************)
(* ObjectStorage.get: the stream of an object and the receipt of its       *)
(* operation, which stays open until the stream is read to its end, fails  *)
(* or is closed.  One thread reads while another may close, as when an     *)
(* asyncio.to_thread read is given up.  The provider's stream may hold     *)
(* less or more than the size it announced.                                *)
(*                                                                         *)
(* A thread is interrupted in the provider's read and close only: the      *)
(* lines in between call nothing that gives up the interpreter.            *)
(***************************************************************************)
EXTENDS Integers, Sequences, FiniteSetsExt

CONSTANTS
  Sizes,     \* announced and real sizes, in blocks
  Reads,     \* the sizes passed to read; AllOf is read(-1)
  AllOf,
  MaxReads   \* bound: calls of read

VARIABLES
  size,      \* metadata.size
  raw,       \* the provider's stream: [left, open]
  content,   \* the _ObservedStream: [remaining, ended, closed]
  receipt,   \* the outcomes the receipt reported
  reader,    \* the reading thread: the size it asked for, if it is reading
  closer,    \* the closing thread
  got,       \* history: blocks the reader was given
  reads      \* calls of read so far


StorageInit ==
  /\ size \in Sizes
  /\ raw \in [left : Sizes, open : {TRUE}]
  /\ content = [remaining |-> size, ended |-> FALSE, closed |-> FALSE]
  /\ receipt = <<>>
  /\ reader = {}
  /\ closer = "idle"
  /\ got = 0
  /\ reads = 0

-----------------------------------------------------------------------------
\* finish without a look at ended.
Report(outcome) == receipt' = Append(receipt, outcome)

\* _Receipt.finish: the first outcome stands.
FinishReceipt(outcome) ==
  receipt' = IF receipt = <<>> THEN <<outcome>> ELSE receipt

\* read is called on a stream that is neither closed nor at its end.
Read(n) ==
  /\ reader = {} /\ reads < MaxReads
  /\ ~content.closed /\ ~content.ended
  /\ reader' = {n}
  /\ reads' = reads + 1
  /\ UNCHANGED <<size, raw, content, receipt, closer, got>>

\* The read fails: the receipt is finished and the provider's stream closed.
Fail ==
  /\ FinishReceipt("io")
  /\ content' = [content EXCEPT !.closed = TRUE]
  /\ raw' = [raw EXCEPT !.open = FALSE]
  /\ UNCHANGED got

\* A block of k is short of the end, beyond it, or the last.
Accept(n, k) ==
  LET remaining == content.remaining - k
      last == k = 0 \/ n = AllOf
  IN  IF k > content.remaining \/ (last /\ remaining # 0)
        THEN Fail
        ELSE /\ content' = [content EXCEPT !.remaining = remaining, !.ended = last]
             /\ got' = got + k
             /\ raw' = [raw EXCEPT !.left = @ - k]
             /\ IF last THEN FinishReceipt("success") ELSE UNCHANGED receipt

\* The provider's read returns up to n blocks, none only at its end.
ReadReturns ==
  /\ \E n \in reader :
       /\ raw.open
       /\ \E k \in 0 .. Min({raw.left, n}) :
            /\ k = 0 => raw.left = 0
            /\ Accept(n, k)
  /\ reader' = {}
  /\ UNCHANGED <<size, closer, reads>>

\* The provider's read raises, as it does on a stream closed meanwhile.
ReadRaises ==
  /\ reader # {}
  /\ Fail
  /\ reader' = {}
  /\ UNCHANGED <<size, closer, reads>>

\* close marks the stream closed and closes that of the provider, which waits
\* for a read that is running or not, and may raise.
Close ==
  /\ closer = "idle"
  /\ ~content.closed
  /\ closer' = "closing"
  /\ content' = [content EXCEPT !.closed = TRUE]
  /\ UNCHANGED <<size, raw, receipt, reader, got, reads>>

CloseEnds ==
  /\ closer = "closing"
  /\ closer' = "idle"
  /\ raw' = [raw EXCEPT !.open = FALSE]
  /\ \E outcome \in {"cancelled", "io"} : FinishReceipt(outcome)
  /\ UNCHANGED <<size, content, reader, got, reads>>

StorageNext ==
  \/ \E n \in Reads : Read(n)
  \/ ReadReturns \/ ReadRaises \/ Close \/ CloseEnds

-----------------------------------------------------------------------------
\* However reads, failures and a close from another thread interleave: the
\* receipt reports one outcome, "success" only for a stream that was read to
\* its end and gave exactly the announced blocks; and once a stream is closed
\* and nobody is in it, its receipt is finished and the provider's stream was
\* closed (_Receipt.finish, _ObservedStream.read and close).
ReceiptHonest ==
  /\ Len(receipt) <= 1
  /\ got + content.remaining = size
  /\ receipt = <<"success">> => content.ended /\ got = size
  /\ content.closed /\ closer = "idle" /\ reader = {} => receipt # <<>> /\ ~raw.open
=============================================================================
