------------------------------ MODULE LogQueue ------------------------------
(***************************************************************************)
(* The slog handler that writes log entries into SQLite                    *)
(* (pkg/sqllogger/handler.go): goroutines put entries into a bounded       *)
(* queue, one goroutine inserts them, and close lets the queue run empty.  *)
(* handleWG counts the callers of Handle that are past its first check.    *)
(***************************************************************************)
EXTENDS Naturals, Sequences, FiniteSets

CONSTANTS
    Loggers,        \* goroutines that log, each one entry
    Closers,        \* goroutines that call Close
    QueueSize       \* bound of the channel

VARIABLES
    closed,         \* handlerCore.closed
    logger,         \* where each caller of Handle is
    queue,          \* the channel
    inserting,      \* entries run() has taken and not yet inserted
    inserted,       \* entries the insert function was called with
    run,            \* the goroutine: "running", "draining", "done"
    cancelled,      \* handlerCore.ctx
    closer          \* where each caller of Close is
vars == <<closed, logger, queue, inserting, inserted, run, cancelled, closer>>

InHandle == {l \in Loggers : logger[l] \in {"counted", "enqueue"}}

Init ==
    /\ closed = FALSE /\ cancelled = FALSE
    /\ logger = [l \in Loggers |-> "check"]
    /\ queue = <<>> /\ inserting = {} /\ inserted = {}
    /\ run = "running"
    /\ closer = [c \in Closers |-> "idle"]

---------------------------------------------------------------------------
Goes(l, at) == logger' = [logger EXCEPT ![l] = at]
Returns(c, at) == closer' = [closer EXCEPT ![c] = at]

\* Handle: the first check, and handleWG.Add
HandleChecks(l) ==
    /\ logger[l] = "check"
    /\ Goes(l, IF closed THEN "refused" ELSE "add")
    /\ UNCHANGED <<closed, queue, inserting, inserted, run, cancelled, closer>>

HandleAdds(l) ==
    /\ logger[l] = "add"
    /\ Goes(l, "counted")
    /\ UNCHANGED <<closed, queue, inserting, inserted, run, cancelled, closer>>

\* Faulty variant: one check is thought to be enough.
HandleChecksOnce(l) ==
    /\ logger[l] = "counted"
    /\ Goes(l, "enqueue")
    /\ UNCHANGED <<closed, queue, inserting, inserted, run, cancelled, closer>>

HandleChecksAgain(l) ==
    /\ logger[l] = "counted"
    /\ Goes(l, IF closed THEN "refused" ELSE "enqueue")
    /\ UNCHANGED <<closed, queue, inserting, inserted, run, cancelled, closer>>

\* A full queue, or the caller's context, refuses the entry.
enqueue(l) ==
    /\ logger[l] = "enqueue"
    /\ \/ /\ Len(queue) < QueueSize
          /\ queue' = Append(queue, l) /\ Goes(l, "accepted")
       \/ Goes(l, "refused") /\ UNCHANGED queue
    /\ UNCHANGED <<closed, inserting, inserted, run, cancelled, closer>>

\* run and drainQueue take one entry; process inserts it, with or without an error.
Takes ==
    /\ run # "done" /\ inserting = {} /\ queue # <<>>
    /\ inserting' = {Head(queue)}
    /\ queue' = Tail(queue)
    /\ UNCHANGED <<closed, logger, inserted, run, cancelled, closer>>

process ==
    /\ inserting # {}
    /\ inserted' = inserted \cup inserting
    /\ inserting' = {}
    /\ UNCHANGED <<closed, logger, queue, run, cancelled, closer>>

SeesCancel ==
    /\ run = "running" /\ cancelled /\ inserting = {}
    /\ run' = "draining"
    /\ UNCHANGED <<closed, logger, queue, inserting, inserted, cancelled, closer>>

drainQueueEnds ==
    /\ run = "draining" /\ inserting = {} /\ queue = <<>>
    /\ run' = "done"
    /\ UNCHANGED <<closed, logger, queue, inserting, inserted, cancelled, closer>>

\* close: only the first caller goes on, the others return nil at once.
CloseSwaps(c) ==
    /\ closer[c] = "idle"
    /\ Returns(c, IF closed THEN "second" ELSE "waitHandlers")
    /\ closed' = TRUE
    /\ UNCHANGED <<logger, queue, inserting, inserted, run, cancelled>>

CloseCancels(c) ==
    /\ closer[c] = "waitHandlers" /\ InHandle = {}
    /\ cancelled' = TRUE
    /\ Returns(c, "waitRun")
    /\ UNCHANGED <<closed, logger, queue, inserting, inserted, run>>

CloseReturns(c) ==
    /\ closer[c] = "waitRun" /\ run = "done"
    /\ Returns(c, "closed")
    /\ UNCHANGED <<closed, logger, queue, inserting, inserted, run, cancelled>>

CloseTimesOut(c) ==
    /\ closer[c] = "waitRun"
    /\ Returns(c, "timeout")
    /\ UNCHANGED <<closed, logger, queue, inserting, inserted, run, cancelled>>

Progress ==
    \/ \E l \in Loggers :
        HandleChecks(l) \/ HandleAdds(l) \/ HandleChecksAgain(l) \/ enqueue(l)
    \/ Takes \/ process \/ SeesCancel \/ drainQueueEnds
    \/ \E c \in Closers : CloseCancels(c) \/ CloseReturns(c)

Next == Progress \/ \E c \in Closers : CloseSwaps(c) \/ CloseTimesOut(c)

---------------------------------------------------------------------------
\* When the Close that did the work returns nil, every entry Handle accepted has been
\* inserted and none is accepted later, although Close and Handle run at the same
\* time (handler.go:152-160 against handler.go:255-262).
FlushedWhenClosed ==
    (\E c \in Closers : closer[c] = "closed")
        => \A l \in Loggers : logger[l] = "accepted" => l \in inserted
=============================================================================
