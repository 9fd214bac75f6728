------------------------------ MODULE Delivery ------------------------------
(***************************************************************************)
(* A kafka source and a sink that answers on its own (modules KafkaSource  *)
(* and Sinks) at the two ends of a pipeline that passes everything on: the *)
(* events in order to the sink, the verdicts in the order they were given  *)
(* to the source.  What lies between is the subject of module Flow.        *)
(***************************************************************************)
EXTENDS KafkaSource, Sinks

\* The events the sink gets are those the source has numbered.
ASSUME DeliveryAssumption == SinkIds = 0 .. MaxId - 1

VARIABLES
    inbox       \* the events on their way to the sink

deliveryVars == <<source, sourceBounds, sinkVars, inbox>>

DeliveryInit == SourceInit /\ SinkInit /\ inbox = <<>>

----------------------------------------------------------------------------

\* The source reads a message of partition p as k events and sends them.  When
\* one of its pipelines does not take an event the message is failed at once;
\* the j events sent before, or all of them by way of another, go on.
Read(p, k, sendFails) ==
    /\ \/ tx /\ Pull(p, k, sendFails)
       \/ ~tx /\ ~sendFails /\ PullAutoCommit(p, k)
    /\ \E j \in 0 .. k : /\ sendFails \/ j = k
                        /\ inbox' = inbox \o [i \in 1 .. j |-> nextId + i - 1]
    /\ UNCHANGED sinkVars

Skip(p) == tx /\ PullUnreadable(p) /\ UNCHANGED <<inbox, sinkVars>>

\* The offramp takes an event, unless on_event is still waiting.
Take ==
    /\ inbox # <<>> /\ inbox' = Tail(inbox)
    /\ SinkOnEvent(Head(inbox))
    /\ UNCHANGED <<source, sourceBounds>>

\* The next verdict reaches the source.
Return ==
    /\ replies # <<>> /\ replies' = Tail(replies)
    /\ \/ tx /\ Head(replies).cb = "ack" /\ SourceAck(Head(replies).id)
       \/ tx /\ Head(replies).cb = "fail" /\ SourceFail(Head(replies).id)
       \/ ~tx /\ UNCHANGED <<source, sourceBounds>>
    /\ UNCHANGED <<kind, limit, tx, stage, rest, queue, fatal, verdicts, taken, inbox>>

Work == SinkWork /\ UNCHANGED <<source, sourceBounds, inbox>>
TokenFails == kind = "rest" /\ CodecDies /\ UNCHANGED <<source, sourceBounds, inbox>>

\* The process starts again: everything but the broker's offsets is gone.
Restart ==
    /\ SourceRestart /\ SinkRestart
    /\ inbox' = <<>>

Next ==
    \/ \E p \in Partitions, k \in 0 .. 2, sendFails \in BOOLEAN : Read(p, k, sendFails)
    \/ \E p \in Partitions : Skip(p)
    \/ Take \/ Return \/ Work \/ TokenFails \/ Restart

Spec == DeliveryInit /\ [][Next]_deliveryVars

\* The tasks of the sink go on, and so do the channels.
FairSpec == Spec /\ WF_deliveryVars(Take) /\ WF_deliveryVars(Return) /\ WF_deliveryVars(Work)

----------------------------------------------------------------------------

TypeOK == SourceTypeOK /\ SinkTypeOK

\* When every event was acknowledged and nothing failed, the broker has it:
\* only messages that became no event are not committed.
CommitsCatchUp ==
    tx /\ fails = 0 /\ errors = 0 /\ replies = <<>> /\ (\A x \in emitted : verdicts[x.id] = <<"ack">>) =>
        \A p \in Partitions : \A o \in committed[p] .. pos[p] - 1 : <<p, o>> \in empty

\* Every event the offramp takes is answered, by its task or by the offramp,
\* while the codec task lives and the process does not start again.  A full
\* channel of kafka's fatal errors is drained by a tick, if not by an event.
EveryEventAnswered ==
    \A e \in SinkIds :
        tx /\ stage[e] # "none" ~> (verdicts[e] # <<>> \/ stage[e] = "none" \/ ~codec)

\* A sink gives an event at most one verdict, an Ack of the rest sink means that
\* the server accepted the event, and no sink runs more jobs than it may.
SinkRight == TypeOK /\ AtMostOneVerdict /\ RestAcksAccepted /\ ConcurrencyKept
============================================================================
