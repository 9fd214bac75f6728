------------------------------- MODULE Sinks -------------------------------
(***************************************************************************)
(* Three sinks that answer events on their own, in their own time: rest    *)
(* (src/sink/rest.rs), elastic (src/sink/elastic.rs with                   *)
(* src/async_sink.rs) and kafka (src/sink/kafka.rs).                       *)
(*                                                                         *)
(* rest starts a task per event, as long as a counter allows, that has its *)
(* request encoded by the codec task, sends it and has the codec task      *)
(* answer.  elastic starts a job per event and keeps a queue of the jobs.  *)
(* kafka hands the records to the producer and starts a task that waits    *)
(* for their delivery.  Payloads, responses and error events sent through  *)
(* the ports of a linked offramp are left out.                             *)
(***************************************************************************)
EXTENDS Integers, Sequences, SequencesExt, FiniteSets

CONSTANTS
    Kinds,          \* the sinks to check: the kind and its config.concurrency
    ErrorRoom,      \* QSIZE: the places of kafka's channel of fatal errors
    SinkIds         \* ids of the events

ASSUME SinksAssumption ==
    /\ Kinds \subseteq {"rest", "elastic", "kafka"} \X (Nat \ {0})
    /\ ErrorRoom \in Nat \ {0}

VARIABLES
    kind,       \* which sink
    limit,      \* rest, elastic: config.concurrency
    tx,         \* are the events transactional?
    stage,      \* where the task or job of an event is
    slots,      \* rest: num_inflight_requests
    mail,       \* rest: the channel to the codec task
    waiting,    \* rest: the event whose ReportFailure on_event waits to send
    codec,      \* rest: the codec task is running
    served,     \* rest: it has taken a message
    queue,      \* elastic: AsyncSink.queue
    fatal,      \* kafka: fatal errors in the error channel
    replies,    \* the reply channel, verdicts under way
    verdicts,   \* history: the verdicts on every event
    taken       \* history: the events the target system has taken

rest == <<slots, mail, waiting, codec, served>>
sinkVars == <<kind, limit, tx, stage, rest, queue, fatal, replies, verdicts, taken>>

Nobody == -1

NoStage == [e \in SinkIds |-> "none"]
NoVerdict == [e \in SinkIds |-> <<>>]

SinkInit ==
    /\ (\E k \in Kinds : kind = k[1] /\ limit = k[2]) /\ tx \in BOOLEAN
    /\ stage = NoStage /\ verdicts = NoVerdict /\ taken = {} /\ replies = <<>>
    /\ slots = 0 /\ mail = <<>> /\ waiting = Nobody /\ codec = TRUE /\ served = FALSE
    /\ queue = <<>> /\ fatal = 0

\* The process starts again.
SinkRestart ==
    /\ stage' = NoStage /\ verdicts' = NoVerdict /\ taken' = {} /\ replies' = <<>>
    /\ slots' = 0 /\ mail' = <<>> /\ waiting' = Nobody /\ codec' = TRUE /\ served' = FALSE
    /\ queue' = <<>> /\ fatal' = 0
    /\ UNCHANGED <<kind, limit, tx>>

----------------------------------------------------------------------------

\* An insight about e is sent through the reply channel.
Insight(e, cb) ==
    /\ replies' = Append(replies, [id |-> e, cb |-> cb])
    /\ verdicts' = [verdicts EXCEPT ![e] = Append(@, cb)]
NoInsight == UNCHANGED <<replies, verdicts>>
Answer(e, cb) == (tx /\ Insight(e, cb)) \/ (~tx /\ NoInsight)

Move(e, s) == stage' = [stage EXCEPT ![e] = s]

\* on_event returned an error: the offramp answers for the sink.
OnEventFails(e) == Answer(e, "fail") /\ Move(e, "end")

----------------------------------------------------------------------------
(* rest                                                                    *)

RoomInMail == Len(mail) < limit
Post(what, e) == mail' = Append(mail, [what |-> what, id |-> e])

\* Faulty variant: the counter lets one too many through.
FreeSlotPlusOne == slots <= limit

\* AtomicMaxCounter::inc
FreeSlot == slots < limit

\* on_event: a batch for a linked offramp is failed, otherwise a task is
\* started, or the overload reported, which waits while the channel is full
\* and is an error when the codec task is gone.
RestOnEvent(e, refused) ==
    /\ kind = "rest" /\ waiting = Nobody
    /\ \/ refused /\ Answer(e, "fail") /\ Move(e, "end") /\ UNCHANGED rest
       \/ /\ ~refused /\ FreeSlot
          /\ slots' = slots + 1 /\ Move(e, "send")
          /\ NoInsight /\ UNCHANGED <<mail, waiting, codec, served>>
       \/ /\ ~refused /\ ~FreeSlot /\ codec
          /\ waiting' = e /\ Move(e, "end")
          /\ NoInsight /\ UNCHANGED <<slots, mail, codec, served>>
       \/ ~refused /\ ~FreeSlot /\ ~codec /\ OnEventFails(e) /\ UNCHANGED rest
    /\ UNCHANGED <<kind, limit, tx, queue, fatal, taken>>

\* The rest of that on_event: the ReportFailure is sent.
RestOverload ==
    /\ waiting # Nobody
    /\ \/ codec /\ RoomInMail /\ Post("failure", waiting) /\ NoInsight
       \/ ~codec /\ Answer(waiting, "fail") /\ UNCHANGED mail
    /\ waiting' = Nobody
    /\ UNCHANGED <<kind, limit, tx, stage, slots, codec, served, queue, fatal, taken>>

\* The task of e sends to the codec task what its stage asks for.  When the
\* channel is closed the task ends without freeing its slot.
TaskSend(e, from, what, to) ==
    /\ stage[e] = from
    /\ \/ codec /\ RoomInMail /\ Post(what, e) /\ Move(e, to)
       \/ ~codec /\ UNCHANGED mail /\ Move(e, "lost")
    /\ UNCHANGED <<kind, limit, tx, slots, waiting, codec, served, queue, fatal, replies, verdicts, taken>>

RestTask(e) ==
    \/ TaskSend(e, "send", "request", "encode")
    \/ TaskSend(e, "answered", "response", "free")
    \/ TaskSend(e, "rejected", "rejection", "free")
    \/ TaskSend(e, "broken", "failure", "free")

\* The http client comes back: with a response below 400, another response, or
\* an error.
RestHttp(e) ==
    /\ kind = "rest" /\ stage[e] = "http"
    /\ \/ Move(e, "answered") /\ taken' = taken \cup {e}
       \/ stage' \in {[stage EXCEPT ![e] = s] : s \in {"rejected", "broken"}} /\ UNCHANGED taken
    /\ UNCHANGED <<kind, limit, tx, rest, queue, fatal, replies, verdicts>>

\* AtomicMaxCounter::dec_from
RestFree(e) ==
    /\ stage[e] = "free" /\ Move(e, "end")
    /\ slots' = slots - 1
    /\ UNCHANGED <<kind, limit, tx, mail, waiting, codec, served, queue, fatal, replies, verdicts, taken>>

\* Faulty variant: the status of the response is not looked at.
VerdictIgnoringStatus(what) == IF what = "failure" THEN {"fail"} ELSE {"ack"}

\* The verdict of the codec task on a message of a task; a response that a
\* linked sink cannot decode is a failure.
CodecVerdicts(what) == IF what = "response" THEN {"ack", "fail"} ELSE {"fail"}

\* Faulty variant: a request that cannot be encoded is dropped unanswered.
CodecForgets ==
    /\ codec /\ mail # <<>> /\ mail' = Tail(mail) /\ served' = TRUE
    /\ LET e == Head(mail).id
       IN  \/ Head(mail).what = "request" /\ Move(e, "http") /\ NoInsight
           \/ Head(mail).what = "request" /\ Move(e, "free") /\ NoInsight
           \/ /\ Head(mail).what # "request"
              /\ \E cb \in CodecVerdicts(Head(mail).what) : Answer(e, cb)
              /\ UNCHANGED stage
    /\ UNCHANGED <<kind, limit, tx, slots, waiting, codec, queue, fatal, taken>>

\* One message of the codec task.
Codec ==
    /\ codec /\ mail # <<>> /\ mail' = Tail(mail) /\ served' = TRUE
    /\ LET e == Head(mail).id
       IN  \/ /\ Head(mail).what = "request"
              /\ \/ Move(e, "http") /\ NoInsight
                 \/ Move(e, "free") /\ Answer(e, "fail")
           \/ /\ Head(mail).what # "request"
              /\ \E cb \in CodecVerdicts(Head(mail).what) : Answer(e, cb)
              /\ UNCHANGED stage
    /\ UNCHANGED <<kind, limit, tx, slots, waiting, codec, queue, fatal, taken>>

\* No token can be made, when the codec task starts or of a request: the task
\* ends.  The tasks that wait for an encoded request end with it.
CodecDies ==
    /\ codec /\ (~served \/ (mail # <<>> /\ Head(mail).what = "request"))
    /\ codec' = FALSE /\ mail' = <<>>
    /\ stage' = [e \in SinkIds |-> IF stage[e] = "encode" THEN "lost" ELSE stage[e]]
    /\ UNCHANGED <<kind, limit, tx, slots, waiting, served, queue, fatal, replies, verdicts, taken>>

----------------------------------------------------------------------------
(* elastic                                                                 *)

\* AsyncSink::dequeue: the oldest job, if it is done
Dequeue(q) == IF q # <<>> /\ stage[Head(q)] = "done" THEN Tail(q) ELSE q

\* Faulty variant: the queue has no end.
NeverOverloaded(q) == FALSE

\* maybe_enque: NotReady and no capacity
Overloaded(q) == Dequeue(q) = q /\ q # <<>> /\ Len(q) >= limit

\* on_event: an empty batch is acknowledged; an event is failed when the queue
\* is full or when no request can be made of it, transactional or not;
\* otherwise a job is started.
ElasticOnEvent(e, isEmpty, invalid) ==
    /\ kind = "elastic"
    /\ \/ isEmpty /\ Answer(e, "ack") /\ Move(e, "end") /\ UNCHANGED queue
       \/ ~isEmpty /\ Overloaded(queue) /\ Insight(e, "fail") /\ Move(e, "end") /\ UNCHANGED queue
       \/ /\ ~isEmpty /\ ~Overloaded(queue) /\ invalid
          /\ queue' = Dequeue(queue) /\ Insight(e, "fail") /\ Move(e, "end")
       \/ /\ ~isEmpty /\ ~Overloaded(queue) /\ ~invalid
          /\ queue' = Append(Dequeue(queue), e) /\ NoInsight /\ Move(e, "job")
    /\ UNCHANGED <<kind, limit, tx, rest, fatal, taken>>

\* The job gets an answer to its bulk request, or none, and sends the verdict.
\* Items of the bulk that were refused do not make it a failure.
ElasticJob(e) ==
    /\ kind = "elastic" /\ stage[e] = "job" /\ Move(e, "told")
    /\ \/ Answer(e, "ack") /\ taken' \in {taken, taken \cup {e}}
       \/ Answer(e, "fail") /\ UNCHANGED taken
    /\ UNCHANGED <<kind, limit, tx, rest, queue, fatal>>

\* ... and marks itself as done.
ElasticDone(e) ==
    /\ kind = "elastic" /\ stage[e] = "told" /\ Move(e, "done")
    /\ UNCHANGED <<kind, limit, tx, rest, queue, fatal, replies, verdicts, taken>>

----------------------------------------------------------------------------
(* kafka                                                                   *)

\* Faulty variant: the error of the producer does not end on_event.
KafkaOnEventGoesOn(e, bad) ==
    /\ kind = "kafka"
    /\ fatal' = 0 /\ Move(e, "delivery")
    /\ (bad /\ Answer(e, "fail")) \/ (~bad /\ NoInsight)
    /\ UNCHANGED <<kind, limit, tx, rest, queue, taken>>

\* on_event: drain the fatal errors, where making a new client may fail, then
\* encode and enqueue the records, where the codec or the producer may fail.
KafkaOnEvent(e, bad) ==
    /\ kind = "kafka"
    /\ \/ fatal > 0 /\ fatal' = fatal - 1 /\ bad /\ OnEventFails(e)
       \/ fatal' = 0 /\ bad /\ OnEventFails(e)
       \/ fatal' = 0 /\ ~bad /\ NoInsight /\ Move(e, "delivery")
    /\ UNCHANGED <<kind, limit, tx, rest, queue, taken>>

\* wait_for_delivery: all records delivered; the wait cancelled or an error of
\* a transaction; any other error, which is acknowledged.  A fatal error is
\* reported to the sink first.
KafkaDelivery(e) ==
    /\ kind = "kafka" /\ stage[e] = "delivery"
    /\ \/ Move(e, "end") /\ Answer(e, "ack") /\ taken' \in {taken, taken \cup {e}}
       \/ Move(e, "end") /\ Answer(e, "fail") /\ UNCHANGED taken
       \/ Move(e, "fatal") /\ NoInsight /\ UNCHANGED taken
    /\ UNCHANGED <<kind, limit, tx, rest, queue, fatal>>

KafkaFatal(e) ==
    /\ stage[e] = "fatal" /\ fatal < ErrorRoom
    /\ fatal' = fatal + 1 /\ Answer(e, "fail") /\ Move(e, "end")
    /\ UNCHANGED <<kind, limit, tx, rest, queue, taken>>

\* on_signal: drain the fatal errors, as on_event does.
KafkaOnSignal ==
    /\ kind = "kafka" /\ fatal > 0
    /\ fatal' = 0 \/ fatal' = fatal - 1
    /\ UNCHANGED <<kind, limit, tx, stage, rest, queue, replies, verdicts, taken>>

----------------------------------------------------------------------------

SinkOnEvent(e) ==
    \/ \E refused \in BOOLEAN : RestOnEvent(e, refused)
    \/ \E isEmpty, invalid \in BOOLEAN : ElasticOnEvent(e, isEmpty, invalid)
    \/ \E bad \in BOOLEAN : KafkaOnEvent(e, bad)

\* The steps of the tasks and the ticks, which nothing from outside can hold up.
SinkWork ==
    \/ RestOverload \/ Codec \/ KafkaOnSignal
    \/ \E e \in SinkIds : \/ RestTask(e) \/ RestHttp(e) \/ RestFree(e)
                          \/ ElasticJob(e) \/ ElasticDone(e)
                          \/ KafkaDelivery(e) \/ KafkaFatal(e)

----------------------------------------------------------------------------

Holding == {"send", "encode", "http", "answered", "rejected", "broken", "free", "lost"}

SinkTypeOK ==
    /\ <<kind, limit>> \in Kinds /\ tx \in BOOLEAN /\ slots \in 0 .. limit
    /\ Len(mail) <= limit /\ waiting \in SinkIds \cup {Nobody}
    /\ Len(queue) <= limit /\ fatal \in 0 .. ErrorRoom

\* "send one ack or fail CB insight for each incoming event if it is
\* transactional.  Otherwise dont send any" (Sink::auto_ack): never two,
\* whatever fails on the way, and none for other events, but for the elastic
\* sink, which fails events it cannot send without asking.
AtMostOneVerdict ==
    \A e \in SinkIds : Len(verdicts[e]) <= IF tx \/ kind = "elastic" THEN 1 ELSE 0

\* "maximum number of parallel in flight batches": a slot of the rest sink is
\* held by one task, and elastic runs no more jobs than its queue has places.
ConcurrencyKept ==
    /\ kind = "rest" => slots = Cardinality({e \in SinkIds : stage[e] \in Holding})
    /\ kind = "elastic" => Cardinality({e \in SinkIds : stage[e] = "job"}) <= limit

\* The rest sink acknowledges only what the server accepted.
RestAcksAccepted ==
    kind = "rest" => \A e \in SinkIds : verdicts[e] = <<"ack">> => e \in taken
============================================================================
