---------------------------- MODULE CassandraRead ----------------------------
(***************************************************************************)
(* The read path of CassandraStore (src/docs/CONTRIBUTING): Search        *)
(* offers a ChunkReadRequest to the bounded read queue without blocking,  *)
(* then waits for its result or its context; ReadConcurrency worker       *)
(* goroutines (processReadQueue) take requests, drop the canceled and the *)
(* too old, run the others with the caller's context and send the result  *)
(* on the request's results channel of capacity 1.                        *)
(*                                                                         *)
(* A query's rows are abstracted to its outcome: "ok", "qerr" (Cassandra  *)
(* failed) or "aborted" (its context was canceled while it ran).  Whether *)
(* a request waited longer than omitReadTimeout depends on the clock and  *)
(* is a free choice at the worker's check.                                *)
(***************************************************************************)
EXTENDS Integers, Sequences

CONSTANTS
    Searches,        \* concurrent Search calls, one request each
    Workers,         \* the ReadConcurrency goroutines
    ReadQueueSize,   \* capacity of c.readQueue
    ResultsSize      \* capacity of results := make(chan readResult, 1)

VARIABLES
    search,     \* search[s]: pc of Search, "offer", "wait", "scan", "done"
    canceled,   \* canceled[s]: the caller's context is done
    outcome,    \* outcome[s]: what Search returned
    iter,       \* iter[s]: the result Search received, while scanning it
    results,    \* results[s]: the request's results channel
    readQueue,  \* c.readQueue, of search ids
    worker,     \* worker[w]: [pc, req, res]
    checkedCanceled, \* history: requests whose context was done at the worker's check
    queried        \* history: requests whose query was executed

vars == <<search, canceled, outcome, iter, results, readQueue, worker,
          checkedCanceled, queried>>

Outcomes == {"none", "empty", "rows", "errReadQueueFull", "errReadTooOld", "qerr",
             "errChunk"}
Results == {"errCtxCanceled", "errReadTooOld", "ok", "qerr", "aborted"}

Init ==
    /\ search = [s \in Searches |-> "offer"]
    /\ canceled = [s \in Searches |-> FALSE]
    /\ outcome = [s \in Searches |-> "none"]
    /\ iter = [s \in Searches |-> "none"]
    /\ results = [s \in Searches |-> <<>>]
    /\ readQueue = <<>>
    /\ worker = [w \in Workers |-> [pc |-> "take", req |-> "none", res |-> "none"]]
    /\ checkedCanceled = {}
    /\ queried = {}

Return(s, o) ==
    /\ search' = [search EXCEPT ![s] = "done"]
    /\ outcome' = [outcome EXCEPT ![s] = o]

\* the caller's context is canceled (or its deadline passes)
Cancel(s) ==
    /\ search[s] # "done" /\ ~canceled[s]
    /\ canceled' = [canceled EXCEPT ![s] = TRUE]
    /\ UNCHANGED <<search, outcome, iter, results, readQueue, worker, checkedCanceled, queried>>

(***************************************************************************)
(* select { case <-ctx.Done(): return nil, nil                             *)
(*          case c.readQueue <- &crr:                                      *)
(*          default: return nil, errReadQueueFull }                        *)
(* Go picks at random among the ready cases; default only if none is.      *)
(***************************************************************************)
OfferDone(s) ==
    /\ search[s] = "offer" /\ canceled[s]
    /\ Return(s, "empty")
    /\ UNCHANGED <<canceled, iter, results, readQueue, worker, checkedCanceled, queried>>

\* bug variant: a send that does not respect the channel's capacity
OfferQueuedNoBound(s) ==
    /\ search[s] = "offer"
    /\ readQueue' = Append(readQueue, s)
    /\ search' = [search EXCEPT ![s] = "wait"]
    /\ UNCHANGED <<canceled, outcome, iter, results, worker, checkedCanceled, queried>>

OfferQueued(s) ==
    /\ search[s] = "offer" /\ Len(readQueue) < ReadQueueSize
    /\ readQueue' = Append(readQueue, s)
    /\ search' = [search EXCEPT ![s] = "wait"]
    /\ UNCHANGED <<canceled, outcome, iter, results, worker, checkedCanceled, queried>>

OfferFull(s) ==
    /\ search[s] = "offer" /\ ~canceled[s] /\ Len(readQueue) >= ReadQueueSize
    /\ Return(s, "errReadQueueFull")
    /\ UNCHANGED <<canceled, iter, results, readQueue, worker, checkedCanceled, queried>>

(***************************************************************************)
(* select { case <-ctx.Done(): return nil, nil                             *)
(*          case res = <-results: errCtxCanceled -> nil, nil;              *)
(*                                other errors -> nil, err; else scan }    *)
(***************************************************************************)
AwaitDone(s) ==
    /\ search[s] = "wait" /\ canceled[s]
    /\ Return(s, "empty")
    /\ UNCHANGED <<canceled, iter, results, readQueue, worker, checkedCanceled, queried>>

AwaitResult(s) ==
    /\ search[s] = "wait" /\ results[s] # <<>>
    /\ LET res == Head(results[s])
       IN  CASE res = "errCtxCanceled" -> Return(s, "empty") /\ UNCHANGED iter
             [] res = "errReadTooOld"  -> Return(s, "errReadTooOld") /\ UNCHANGED iter
             [] OTHER -> /\ search' = [search EXCEPT ![s] = "scan"]
                         /\ iter' = [iter EXCEPT ![s] = res]
                         /\ UNCHANGED outcome
    /\ results' = [results EXCEPT ![s] = Tail(@)]
    /\ UNCHANGED <<canceled, readQueue, worker, checkedCanceled, queried>>

\* scan the rows: a chunk shorter than 2 bytes or failing chunk.NewGen
\* returns the iters so far with its error; then res.i.Close():
\* context.Canceled or DeadlineExceeded -> nil, nil; another error -> err.
\* A page fetched after the caller's cancel fails with context.Canceled.
Scan(s) ==
    /\ search[s] = "scan"
    /\ CASE iter[s] = "aborted" -> Return(s, "empty")
         [] iter[s] = "qerr"    -> Return(s, "qerr")
         [] iter[s] = "ok"      -> \E o \in {"rows", "errChunk"} \cup
                                            IF canceled[s] THEN {"empty"} ELSE {} :
                                      Return(s, o)
    /\ UNCHANGED <<canceled, iter, results, readQueue, worker, checkedCanceled, queried>>

-----------------------------------------------------------------------------
(* processReadQueue                                                        *)

\* for crr := range c.readQueue
Take(w) ==
    /\ worker[w].pc = "take" /\ readQueue # <<>>
    /\ worker' = [worker EXCEPT ![w] = [pc |-> "check", req |-> Head(readQueue), res |-> "none"]]
    /\ readQueue' = Tail(readQueue)
    /\ UNCHANGED <<search, canceled, outcome, iter, results, queried, checkedCanceled>>

\* history: the request's context is done when the worker looks at it
RecordCheck(w) ==
    checkedCanceled' = IF canceled[worker[w].req] THEN checkedCanceled \cup {worker[w].req}
                                                ELSE checkedCanceled

\* bug variant: the wait is checked before the context
CheckTooOldFirst(w) ==
    /\ worker[w].pc = "check"
    /\ \E tooOld \in BOOLEAN :
          worker' = [worker EXCEPT
                       ![w].pc = IF tooOld \/ canceled[worker[w].req] THEN "send" ELSE "exec",
                       ![w].res = IF tooOld THEN "errReadTooOld"
                                  ELSE IF canceled[worker[w].req] THEN "errCtxCanceled" ELSE "none"]
    /\ RecordCheck(w)
    /\ UNCHANGED <<search, canceled, outcome, iter, results, readQueue, queried>>

\* bug variant: a too old request dropped with no readResult sent
CheckTooOldNoSend(w) ==
    /\ worker[w].pc = "check"
    /\ \/ canceled[worker[w].req]
          /\ worker' = [worker EXCEPT ![w].pc = "send", ![w].res = "errCtxCanceled"]
       \/ ~canceled[worker[w].req]
          /\ \E tooOld \in BOOLEAN :
                worker' = [worker EXCEPT ![w] = IF tooOld
                                                THEN [pc |-> "take", req |-> "none", res |-> "none"]
                                                ELSE [@ EXCEPT !.pc = "exec"]]
    /\ UNCHANGED <<search, canceled, outcome, iter, results, readQueue, checkedCanceled, queried>>

\* canceled: errCtxCanceled; waited > omitReadTimeout: errReadTooOld
Check(w) ==
    /\ worker[w].pc = "check"
    /\ \/ canceled[worker[w].req]
          /\ worker' = [worker EXCEPT ![w].pc = "send", ![w].res = "errCtxCanceled"]
       \/ ~canceled[worker[w].req]
          /\ \E tooOld \in BOOLEAN :
                worker' = [worker EXCEPT ![w].pc = IF tooOld THEN "send" ELSE "exec",
                                         ![w].res = IF tooOld THEN "errReadTooOld" ELSE "none"]
    /\ RecordCheck(w)
    /\ UNCHANGED <<search, canceled, outcome, iter, results, readQueue, queried>>

\* c.Session.Query(crr.q, crr.p...).WithContext(crr.ctx).Iter()
Exec(w) ==
    /\ worker[w].pc = "exec"
    /\ \E res \in IF canceled[worker[w].req] THEN {"aborted"} ELSE {"ok", "qerr"} :
          worker' = [worker EXCEPT ![w].pc = "send", ![w].res = res]
    /\ queried' = queried \cup {worker[w].req}
    /\ UNCHANGED <<search, canceled, outcome, iter, results, readQueue, checkedCanceled>>

\* bug variant: an unbuffered results channel, a send needing the receiver
CanSendUnbuffered(s) == search[s] = "wait" /\ results[s] = <<>>

\* crr.out <- readResult{...} blocks while the channel is full
CanSend(s) == Len(results[s]) < ResultsSize

Send(w) ==
    /\ worker[w].pc = "send"
    /\ CanSend(worker[w].req)
    /\ results' = [results EXCEPT ![worker[w].req] = Append(@, worker[w].res)]
    /\ worker' = [worker EXCEPT ![w] = [pc |-> "take", req |-> "none", res |-> "none"]]
    /\ UNCHANGED <<search, canceled, outcome, iter, readQueue, checkedCanceled, queried>>

SearchStep(s) ==
    OfferDone(s) \/ OfferQueued(s) \/ OfferFull(s) \/ AwaitDone(s) \/ AwaitResult(s) \/ Scan(s)

WorkerStep(w) == Take(w) \/ Check(w) \/ Exec(w) \/ Send(w)

Next ==
    \/ \E s \in Searches : Cancel(s) \/ SearchStep(s)
    \/ \E w \in Workers : WorkerStep(w)

\* every goroutine that can go on eventually does; cancellation is the
\* caller's and is not assumed to happen
Fairness ==
    /\ \A s \in Searches : WF_vars(SearchStep(s))
    /\ \A w \in Workers : WF_vars(WorkerStep(w))

Spec == Init /\ [][Next]_vars /\ Fairness

-----------------------------------------------------------------------------
\* The read queue never holds more than its capacity, and each request's
\* results channel never more than its own.
TypeOK ==
    /\ search \in [Searches -> {"offer", "wait", "scan", "done"}]
    /\ outcome \in [Searches -> Outcomes]
    /\ readQueue \in Seq(Searches) /\ Len(readQueue) <= ReadQueueSize
    /\ \A s \in Searches : results[s] \in Seq(Results) /\ Len(results[s]) <= ResultsSize

(***************************************************************************)
(* A search whose context is done when a worker looks at its request       *)
(* performs no query and returns empty with no error (spec 5, property 8,  *)
(* and its failure table: canceled mid-flight returns empty).              *)
(* processReadQueue tests crr.ctx.Done() before the wait and before        *)
(* Query().Iter(), and Search turns errCtxCanceled, or its own ctx.Done()  *)
(* case, into nil, nil.  So an errReadTooOld or a query error reaches a    *)
(* canceled caller only when the cancel came after the worker's check and  *)
(* Search's second select took the result rather than ctx.Done().          *)
(***************************************************************************)
CanceledBeforeCheckNoQuery ==
    \A s \in checkedCanceled : s \notin queried /\ outcome[s] \in {"none", "empty"}

(***************************************************************************)
(* Every Search returns, whether or not its caller cancels it: each of     *)
(* processReadQueue's exits sends one readResult, so the second select is  *)
(* always answered, and the first select never blocks.                     *)
(***************************************************************************)
SearchReturns == \A s \in Searches : <>(search[s] = "done")

(***************************************************************************)
(* A worker that has taken a request gets back to the queue: its send on   *)
(* the request's results channel (capacity 1, one send per request) never  *)
(* blocks, even when Search has already returned through ctx.Done().      *)
(***************************************************************************)
WorkerNeverBlocked ==
    \A w \in Workers : worker[w].pc = "send" ~> worker[w].pc = "take"

=============================================================================
