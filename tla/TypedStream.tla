---------------------------- MODULE TypedStream ----------------------------
(***************************************************************************)
(* TypedStream over SqlDataServiceExecutor._query_stream over the rows of  *)
(* a transport: __anext__ and aclose of one stream, called by several      *)
(* tasks, with the two telemetry operations they keep open, the query and  *)
(* the statement.                                                          *)
(*                                                                         *)
(* Other tasks run at an await only: while a chunk is fetched and while a  *)
(* cursor that is not exhausted is closed.  _query_stream hands a chunk on *)
(* when it has fetched the next, or the end.  A transport releases its     *)
(* connection before it reports its end, an error or a cancellation.  Rows *)
(* are counted; they are handed on in their order.                         *)
(***************************************************************************)
EXTENDS Integers, FiniteSetsExt

CONSTANTS
  Tasks,     \* tasks that call __anext__ and aclose
  Totals,    \* how many rows the query may return
  ChunkSize  \* rows in a chunk; the last one may be shorter

VARIABLES
  left,      \* the rows still to be fetched
  total,     \* history: the rows of the result
  cursor,    \* _query_stream: pending chunk, connection and statement
  stream,    \* the attributes of the TypedStream
  polling    \* polling[t]: what task t awaits


StreamInit ==
  /\ left \in Totals
  /\ total = left
  /\ cursor = [pending |-> 0, connection |-> "none", statement |-> "none"]
  /\ stream = [closed |-> FALSE, busy |-> FALSE, rows |-> 0, delivered |-> 0, scope |-> "none"]
  /\ polling = [t \in Tasks |-> "none"]

-----------------------------------------------------------------------------
Busy(s) == [s EXCEPT !.busy = TRUE]
Ended(s, outcome) == [s EXCEPT !.closed = TRUE, !.busy = FALSE, !.scope = outcome]

\* A scope is ended once.
EndStatement(c, outcome) == [c EXCEPT !.statement = IF @ = "open" THEN outcome ELSE @]

\* The statement counts as over with the last chunk, which is not handed on.
OverEarly(c) == EndStatement([c EXCEPT !.connection = "closed", !.pending = 0], "success")

\* The transport has no more rows: the pending chunk is the last.
Over(c) ==
  IF c.pending = 0 THEN EndStatement([c EXCEPT !.connection = "closed"], "success")
  ELSE [c EXCEPT !.connection = "closed", !.pending = 0]

\* Task t has the next of the rows in s at hand: it is delivered; or hydrate
\* raises, and the cursor is closed, at once if its transport has ended.
Deliver(t, s, c) ==
  \/ /\ stream' = [s EXCEPT !.busy = FALSE, !.rows = @ - 1, !.delivered = @ + 1]
     /\ polling' = [polling EXCEPT ![t] = "none"]
     /\ cursor' = c
  \/ /\ c.connection # "open"
     /\ stream' = Ended(s, "failure")
     /\ polling' = [polling EXCEPT ![t] = "none"]
     /\ cursor' = EndStatement(c, "cancelled")
  \/ /\ c.connection = "open"
     /\ stream' = [Busy(s) EXCEPT !.closed = TRUE]
     /\ polling' = [polling EXCEPT ![t] = "hydrate"]
     /\ cursor' = c

\* The cursor is exhausted, unless the record of the successful statement is
\* refused by a broken diagnostic destination.
Exhaust(t, c) ==
  /\ \E outcome \in {"success", "failure"} : stream' = Ended(stream, outcome)
  /\ polling' = [polling EXCEPT ![t] = "none"]
  /\ cursor' = c

\* __anext__ of a stream that is neither closed nor busy, up to its first await.
\* The first call starts the scope; query_stream and _query_stream check the
\* request, which may raise, before the statement is started.
Poll(t) ==
  /\ ~stream.closed /\ ~stream.busy
  /\ LET s == [stream EXCEPT !.scope = "open"]
     IN  \/ /\ s.rows > 0
            /\ Deliver(t, s, cursor)
         \/ /\ s.rows = 0 /\ cursor.connection = "closed"
            /\ Exhaust(t, EndStatement(cursor, "success"))
         \/ /\ s.rows = 0 /\ cursor.connection # "closed"
            /\ stream' = Busy(s)
            /\ polling' = [polling EXCEPT ![t] = "fetch"]
            /\ cursor' = [cursor EXCEPT !.statement = "open"]
         \/ /\ cursor.statement = "none"
            /\ stream' = Ended(s, "failure")
            /\ UNCHANGED <<polling, cursor>>
  /\ UNCHANGED <<left, total>>

\* A chunk arrives: the one before it is handed on, or the next is awaited.
FetchChunk(t) ==
  /\ polling[t] = "fetch"
  /\ left > 0
  /\ LET chunk == Min({left, ChunkSize})
         c == [cursor EXCEPT !.connection = "open", !.pending = chunk]
     IN  /\ left' = left - chunk
         /\ IF cursor.pending = 0
              THEN cursor' = c /\ UNCHANGED <<stream, polling>>
              ELSE Deliver(t, [stream EXCEPT !.rows = cursor.pending], c)
  /\ UNCHANGED total

\* The transport ends: the pending chunk is handed on, or there was none.
FetchEnd(t) ==
  /\ polling[t] = "fetch"
  /\ left = 0
  /\ IF cursor.pending > 0
       THEN Deliver(t, [stream EXCEPT !.rows = cursor.pending], Over(cursor))
       ELSE Exhaust(t, Over(cursor))
  /\ UNCHANGED <<left, total>>

\* The transport or the conversion of its rows raises, or t is cancelled.
FetchFails(t) ==
  /\ polling[t] = "fetch"
  /\ \E outcome \in {"failure", "cancelled"} :
       /\ cursor' = EndStatement([cursor EXCEPT !.connection = "closed"], outcome)
       /\ stream' = Ended(stream, outcome)
  /\ polling' = [polling EXCEPT ![t] = "none"]
  /\ UNCHANGED <<left, total>>

\* aclose, which a busy stream refuses: of a stream that was never polled, of
\* an exhausted cursor, or up to the await of the cursor's close.
Close(t) ==
  /\ ~stream.closed /\ ~stream.busy
  /\ IF cursor.connection = "open"
       THEN /\ stream' = [Busy(stream) EXCEPT !.closed = TRUE]
            /\ polling' = [polling EXCEPT ![t] = "close"]
            /\ UNCHANGED cursor
       ELSE /\ stream' = Ended(stream, IF stream.scope = "none" THEN "none" ELSE "cancelled")
            /\ cursor' = EndStatement(cursor, "cancelled")
            /\ UNCHANGED polling
  /\ UNCHANGED <<left, total>>

\* The cursor's close ends.  _query_stream passes over an error or a
\* cancellation of its own cleanup, so it ends alike in each case.
Closed(t) ==
  /\ polling[t] \in {"hydrate", "close"}
  /\ cursor' = EndStatement([cursor EXCEPT !.connection = "closed"], "cancelled")
  /\ stream' = Ended(stream, IF polling[t] = "hydrate" THEN "failure" ELSE "cancelled")
  /\ polling' = [polling EXCEPT ![t] = "none"]
  /\ UNCHANGED <<left, total>>

StreamNext == \E t \in Tasks :
  Poll(t) \/ FetchChunk(t) \/ FetchEnd(t) \/ FetchFails(t) \/ Close(t) \/ Closed(t)

-----------------------------------------------------------------------------
\* Whichever tasks poll and close the stream, and wherever a fetch, hydrate or
\* a close fails or is cancelled: no row is skipped, query and statement count
\* as a success only when every row was delivered, the query only when the
\* statement does; and a stream that is closed has ended both operations and
\* released its connection as soon as it is no longer busy.
StreamSettles ==
  /\ ~stream.closed => stream.delivered + stream.rows + cursor.pending + left = total
  /\ stream.scope = "success" => stream.delivered = total /\ cursor.statement = "success"
  /\ cursor.statement = "success" =>
       stream.delivered = total /\ stream.scope \in {"success", "failure"}
  /\ stream.closed /\ ~stream.busy =>
       /\ cursor.connection # "open"
       /\ "open" \notin {stream.scope, cursor.statement}
  /\ stream.busy <=> \E t \in Tasks : polling[t] # "none"
=============================================================================
