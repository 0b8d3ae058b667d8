--------------------------- MODULE AnalyticsStore ---------------------------
(***************************************************************************)
(* The analytics pipeline of a gateway (internal/analytics): the request   *)
(* path puts events into a channel, flushLoop gathers them into batches    *)
(* and sends those to ClickHouse, Close ends it at shutdown, and the API   *)
(* reads summaries from the table.                                         *)
(*                                                                         *)
(* buf is touched by flushLoop's goroutine only, so that the mutex around  *)
(* it orders nothing, and taking the batch out of it is one step.  A Send  *)
(* may store any part of its batch: rows may fail to be appended, and a    *)
(* Send that fails or times out may or may not have been carried out.  A   *)
(* series of a summary may be cut short without an error.                  *)
(* The events are those of the project and the window a summary asks for.  *)
(* The process may exit at any time, and then no further step is taken.    *)
(***************************************************************************)
EXTENDS Integers, Sequences, FiniteSets, Functions

CONSTANTS
    Events,    \* the exchanges a gateway records
    Errors,    \* those with a status of 400 or more
    Capacity,  \* the channel's (1024)
    BatchSize  \* a batch is sent when it has this many events (500)

ASSUME AnalyticsConstants ==
    /\ Errors \subseteq Events
    /\ Capacity \in Nat \ {0}
    /\ BatchSize \in Nat \ {0}

VARIABLES
    conn,      \* the connection to ClickHouse: "disabled", "open" or "closed"
    done,      \* whether the channel done is closed
    recorded,  \* events that Record was called with
    dropped,   \* those that found the channel full, or the store disabled
    queue,     \* the channel
    buf,       \* the batch being gathered
    batch,     \* the batch being sent
    failed,    \* events of batches that were not, or not known to be, stored
    loop,      \* where flushLoop's goroutine stands
    final,     \* whether it is in its last flush
    table,     \* table[e]: rows of event e in ClickHouse
    answers    \* what the queries of a summary have returned so far

analyticsVars == <<conn, done, recorded, dropped, queue, buf, batch, failed, loop, final, table, answers>>

\* Open: disabled without a URL, or when ClickHouse does not answer.
AnalyticsInit ==
    /\ conn \in {"disabled", "open"}
    /\ loop = IF conn = "open" THEN "select" ELSE "ended"
    /\ done = FALSE /\ final = FALSE
    /\ recorded = {} /\ dropped = {} /\ failed = {}
    /\ queue = <<>> /\ buf = <<>> /\ batch = <<>>
    /\ table = [e \in Events |-> 0]
    /\ answers = <<>>
-----------------------------------------------------------------------------
(* The request path: Server.capture, Store.Record                          *)

Room == Len(queue) < Capacity

\* It never waits, not even for a store that was closed before the last
\* requests were served.
Record(e) ==
    /\ e \notin recorded
    /\ recorded' = recorded \cup {e}
    /\ IF conn # "disabled" /\ Room
       THEN queue' = Append(queue, e) /\ UNCHANGED dropped
       ELSE dropped' = dropped \cup {e} /\ UNCHANGED queue
    /\ UNCHANGED <<conn, done, buf, batch, failed, loop, final, table, answers>>
-----------------------------------------------------------------------------
(* flushLoop and flush                                                     *)

\* flush takes the batch out of buf and goes on to PrepareBatch.
Flush(events) ==
    /\ batch' = events /\ buf' = <<>>
    /\ loop' = "preparing"

TakeEvent ==
    /\ loop = "select" /\ queue # <<>>
    /\ queue' = Tail(queue)
    /\ LET gathered == Append(buf, Head(queue)) IN
          IF Len(gathered) >= BatchSize
          THEN Flush(gathered)
          ELSE buf' = gathered /\ UNCHANGED <<batch, loop>>
    /\ UNCHANGED <<conn, done, recorded, dropped, failed, final, table, answers>>

\* Mutant of Tick: batches are sent when full only.
BugNoTick == FALSE /\ UNCHANGED analyticsVars

\* The ticker fires every second; an empty batch is not sent.
Tick ==
    /\ loop = "select" /\ buf # <<>>
    /\ Flush(buf)
    /\ UNCHANGED <<conn, done, recorded, dropped, queue, failed, final, table, answers>>

\* Mutant of SeeDone: the loop goes on after the last flush.
BugGoesOn ==
    /\ loop = "select" /\ done
    /\ IF buf = <<>> THEN UNCHANGED <<buf, batch, loop>> ELSE Flush(buf)
    /\ UNCHANGED <<conn, done, recorded, dropped, queue, failed, final, table, answers>>

\* select takes any branch that is ready: done may win over a full channel,
\* and what is in the channel then stays there.
SeeDone ==
    /\ loop = "select" /\ done
    /\ final' = TRUE
    /\ IF buf = <<>>
       THEN loop' = "ended" /\ UNCHANGED <<buf, batch>>
       ELSE Flush(buf)
    /\ UNCHANGED <<conn, done, recorded, dropped, queue, failed, table, answers>>

\* Where the goroutine goes when flush returns.
Returned == IF final THEN "ended" ELSE "select"

Prepare ==
    /\ loop = "preparing" /\ conn = "open"
    /\ loop' = "sending"
    /\ UNCHANGED <<conn, done, recorded, dropped, queue, buf, batch, failed, final, table, answers>>

\* No connection, or ClickHouse refuses: the batch is given up, with a warning.
PrepareFails ==
    /\ loop = "preparing"
    /\ failed' = failed \cup Range(batch)
    /\ batch' = <<>>
    /\ loop' = Returned
    /\ UNCHANGED <<conn, done, recorded, dropped, queue, buf, final, table, answers>>

\* Mutant of Send: a batch that was not stored whole is sent again.
BugSendsAgain(stored) ==
    /\ loop = "sending"
    /\ table' = [e \in Events |-> IF e \in stored THEN table[e] + 1 ELSE table[e]]
    /\ IF stored = Range(batch)
       THEN batch' = <<>> /\ loop' = Returned
       ELSE loop' = "preparing" /\ UNCHANGED batch
    /\ UNCHANGED <<conn, done, recorded, dropped, queue, buf, failed, final, answers>>

\* Whatever part of the batch is stored, nothing is sent again.
Send(stored) ==
    /\ loop = "sending"
    /\ table' = [e \in Events |-> IF e \in stored THEN table[e] + 1 ELSE table[e]]
    /\ failed' = failed \cup (Range(batch) \ stored)
    /\ batch' = <<>>
    /\ loop' = Returned
    /\ UNCHANGED <<conn, done, recorded, dropped, queue, buf, final, answers>>
-----------------------------------------------------------------------------
(* Shutdown: Store.Close, called before the HTTP server's Shutdown         *)

CloseDone ==
    /\ conn = "open" /\ ~done
    /\ done' = TRUE
    /\ UNCHANGED <<conn, recorded, dropped, queue, buf, batch, failed, loop, final, table, answers>>

\* Close does not wait for the loop's last flush.
CloseConn ==
    /\ conn = "open" /\ done
    /\ conn' = "closed"
    /\ UNCHANGED <<done, recorded, dropped, queue, buf, batch, failed, loop, final, table, answers>>
-----------------------------------------------------------------------------
(* A summary: Store.QuerySummary, in the API's process                     *)

\* The rows of the given events: each with its event and its number.
Rows(E) == UNION {{e} \X (1..table[e]) : e \in E}

\* count(), countIf().
Count(E) == Cardinality(Rows(E))

\* Mutant of Queries: the series is read first.
BugQueries == <<"series", "totals">>

\* The order of the two queries.
Queries == <<"totals", "series">>

\* What the loop over the rows of an answer has read when it ends.  The totals
\* are one row, which is there or the summary fails; of the series, an hour a
\* row, any part may have come before the stream broke, for rows.Err() is not
\* asked why rows.Next() returned false.
ReadBy(query) == IF query = "totals" THEN {Events} ELSE SUBSET Events

\* Each query counts the rows, and those of them that are errors.  The API has
\* a connection of its own to ClickHouse.
Query ==
    /\ Len(answers) < Len(Queries)
    /\ LET query == Queries[Len(answers) + 1] IN
          \E read \in ReadBy(query) :
              answers' = Append(answers,
                                [to |-> query, rows |-> IF read = Events THEN "all" ELSE "some",
                                 requests |-> Count(read), errors |-> Count(read \cap Errors)])
    /\ UNCHANGED <<conn, done, recorded, dropped, queue, buf, batch, failed, loop, final, table>>
-----------------------------------------------------------------------------
Loop ==
    \/ TakeEvent \/ Tick \/ SeeDone
    \/ Prepare \/ PrepareFails
    \/ \E stored \in SUBSET Range(batch) : Send(stored)

AnalyticsNext ==
    \/ \E e \in Events : Record(e)
    \/ Loop
    \/ CloseDone \/ CloseConn
    \/ Query

\* flushLoop's goroutine goes on: its ticker fires, and ClickHouse answers or
\* the batch's deadline of ten seconds ends.
AnalyticsFairness == WF_analyticsVars(Loop)

AnalyticsSpec == AnalyticsInit /\ [][AnalyticsNext]_analyticsVars /\ AnalyticsFairness
-----------------------------------------------------------------------------
(* Properties                                                              *)

AnalyticsTypeOK ==
    /\ conn \in {"disabled", "open", "closed"}
    /\ done \in BOOLEAN /\ final \in BOOLEAN
    /\ recorded \subseteq Events /\ dropped \subseteq Events /\ failed \subseteq Events
    /\ queue \in Seq(Events) /\ Len(queue) <= Capacity
    /\ buf \in Seq(Events) /\ Len(buf) < BatchSize
    /\ batch \in Seq(Events) /\ Len(batch) <= BatchSize
    /\ loop \in {"select", "preparing", "sending", "ended"}
    /\ table \in [Events -> Nat]
    /\ Len(answers) <= Len(Queries)

\* Where an event is that Record has not let fall.
InHand == Range(queue) \cup Range(buf) \cup Range(batch)

\* No exchange counts twice in the analytics and none disappears, whatever part
\* of a batch a failed or late Send has stored: a row is at most one per event;
\* what is in a channel, buffer or batch has no row and was not given up; and a
\* recorded event is there, stored, or one of those whose loss the code takes
\* into account, which found the channel full or were in a failed flush.
Accounted ==
    /\ AnalyticsTypeOK
    /\ \A e \in Events : table[e] <= 1
    /\ \A e \in InHand : table[e] = 0 /\ e \notin failed \cup dropped
    /\ \A e \in recorded : e \in InHand \cup dropped \cup failed \/ table[e] > 0

\* A summary agrees with the traffic and, as far as it was read, with itself:
\* totals and series count no more requests than were recorded, and no more
\* errors than requests (the error rate is at most 1); and a series that was read
\* to its end, after the totals while events arrive, has at least their requests
\* and errors.  A series that broke off has any part of them, and nothing tells.
SummaryConsistent ==
    /\ \A a \in Range(answers) :
          a.errors <= a.requests /\ a.requests <= Cardinality(recorded)
    /\ \A t, s \in Range(answers) :
          t.to = "totals" /\ s.to = "series" /\ s.rows = "all" =>
              t.requests <= s.requests /\ t.errors <= s.errors

\* While the store is not closed, an accepted event is stored or given up,
\* also when the traffic ends before the batch is full.
AcceptedSettles ==
    \A e \in Events : e \in Range(queue) ~> table[e] > 0 \/ e \in failed \/ done

\* Close ends the loop, even when the connection goes away under its last flush.
LoopEnds == done ~> loop = "ended"
=============================================================================
