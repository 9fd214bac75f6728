-------------------------------- MODULE Flow --------------------------------
(***************************************************************************)
(* Event flow and contraflow between the tasks of a deployment: a source   *)
(* (src/source.rs), pipelines (src/pipeline.rs) and offramps with their    *)
(* sinks (src/offramp.rs, src/sink.rs).                                    *)
(*                                                                         *)
(* Events and ticks go forward through bounded channels; a task that sends *)
(* to several destinations sends to one after the other and waits where a  *)
(* channel is full.  Verdicts on events (Ack, Fail) and the circuit        *)
(* breaker (Open, Close) go back through unbounded channels, which a task  *)
(* looks at before its forward channel (PriorityMerge).  Looking at the    *)
(* two is not atomic: low says that a task found the first one empty and   *)
(* is about to take from the second.                                       *)
(*                                                                         *)
(* The topology is fixed and linked, the insights of the linking have been *)
(* delivered, and every event is transactional.  What a pipeline's graph   *)
(* does to an event is reduced to forwarding it to every destination or    *)
(* dropping it (filtered, or failed in an operator).  Sending an insight   *)
(* to several unbounded channels is one step: no sender waits there.       *)
(***************************************************************************)
EXTENDS Integers, Sequences, FiniteSets, Functions

CONSTANTS
    Src,            \* the source
    Pipes,          \* pipelines
    Sinks,          \* offramps
    Plans,          \* the deployments to look at
    QSize,          \* capacity of the forward channels
    MaxEvents       \* bound: events the source can emit in any deployment

\* A deployment also has the bounds to explore it with:
\*   maxEvents: events the source emits;
\*   maxTicks:  ticks that wait in a pipeline's channel;
\*   maxFlips:  connections lost by a sink, or regained by a worker;
\*   maxDrops:  events not forwarded by a pipeline;
\*   maxStops:  offramps that are stopped.
Bounds == {"maxEvents", "maxTicks", "maxFlips", "maxDrops", "maxStops"}

Senders == {Src} \union Pipes
Tasks == Senders \union Sinks

\* "auto": auto_ack, the verdict is whether on_event succeeded (blackhole, file,
\* stdout).  "tcp": the verdict is in the replies of on_event (tcp).  "async": a
\* worker sends the verdict over the reply channel (ws; rest, kafka and others
\* without the breaker).
SinkKinds == {"auto", "tcp", "async"}

ASSUME FlowAssumption ==
    /\ Src \notin Pipes \union Sinks /\ Pipes \intersect Sinks = {}
    /\ \A d \in Plans :
          /\ d.kind \in [Sinks -> SinkKinds]
          /\ d.outs \in [Senders -> Seq(Pipes \union Sinks)]
          /\ \A i \in DOMAIN d.outs[Src] : d.outs[Src][i] \in Pipes
          /\ d.bound \in [Bounds -> Nat] /\ d.bound.maxEvents <= MaxEvents
    /\ QSize \in Nat \ {0}
    /\ MaxEvents \in Nat

Events == 1 .. MaxEvents
Tick == 0
Stop == -1                                  \* Terminate, or the last Disconnect
Msgs == Events \union {Tick, Stop}
Verdicts == [cb : {"ack", "fail"}, id : Events]
Breaker == [cb : {"open", "close"}, id : {0}]
Insights == Verdicts \union Breaker

VARIABLES
    chan,       \* forward channel of a pipeline or sink
    outbox,     \* what a sender still has to send: sequence of <<to, message>>
    cf,         \* contraflow channel of a pipeline
    onramp,     \* channel of the source
    replies,    \* reply channel of a sink
    pending,    \* events a sink's worker has not answered yet
    low,        \* tasks that found their priority channel empty
    triggered,  \* the source's breaker
    plan,       \* the deployment: kind of the sinks, outs of the senders, bounds
    stream,     \* sinks whose stream is Some: what on_signal takes for connected
    up,         \* sinks that are running
    emitted,    \* events emitted by the source
    flips, drops, stops, \* counted for the bounds
    \* History:
    got,        \* sink -> events it took from its channel, in order
    said,       \* verdicts given by sinks
    heard,      \* verdicts that reached the source
    dropped,    \* events a pipeline did not forward
    lastcb,     \* the last breaker message a sink sent
    overshoot   \* events pulled since the source was first told to stop

channels == <<chan, outbox, cf, onramp, replies>>
history == <<got, said, heard, dropped, lastcb, overshoot>>
bounds == <<flips, drops, stops>>
vars == <<channels, pending, low, triggered, plan, stream, up, emitted, bounds, history>>

\* Who gets the insights of pipeline p: the inputs connected to it.
Inputs(p) == {t \in Senders : p \in Range(plan.outs[t])}

\* The pipelines connected to sink s.
SinkPipes(s) == {p \in Pipes : s \in Range(plan.outs[p])}

Init ==
    /\ chan = [t \in Pipes \union Sinks |-> <<>>]
    /\ outbox = [t \in Senders |-> <<>>]
    /\ cf = [p \in Pipes |-> <<>>]
    /\ onramp = <<>>
    /\ replies = [s \in Sinks |-> <<>>]
    /\ pending = [s \in Sinks |-> {}]
    /\ low = {}
    /\ triggered = FALSE
    /\ plan \in Plans /\ stream = Sinks /\ up = Sinks
    /\ emitted = 0
    /\ flips = 0 /\ drops = 0 /\ stops = 0
    /\ got = [s \in Sinks |-> <<>>]
    /\ said = {} /\ heard = {} /\ dropped = {}
    /\ lastcb = [s \in Sinks |-> "open"] /\ overshoot = 0

-----------------------------------------------------------------------------
(* Sending (faulty variants of a definition stand before it)               *)

\* The message put in every destination's entry of the outbox.
ToAll(t, m) == [i \in DOMAIN plan.outs[t] |-> <<plan.outs[t][i], m>>]

\* A pipeline does not pass ticks on to other pipelines: the sender goes on, up
\* to the next destination that it sends to.
FromNextDue(q) ==
    LET due == {i \in DOMAIN q : ~(q[i][2] = Tick /\ q[i][1] \in Pipes)}
    IN  IF due = {} THEN <<>> ELSE SubSeq(q, CHOOSE i \in due : \A j \in due : i <= j, Len(q))

\* send_signal: the first destination comes last.
TickToSinks(p) ==
    LET all == ToAll(p, Tick)
    IN  FromNextDue(IF all = <<>> THEN all ELSE Tail(all) \o <<Head(all)>>)

\* The send does not wait for room.
RoomIgnored(to) == TRUE

Room(to) == Len(chan[to]) < QSize

\* try_send: what finds a full channel is lost.
DeliverOrLose(t) ==
    /\ outbox[t] # <<>>
    /\ LET to == Head(outbox[t])[1]
       IN  /\ to \in Pipes \union up
           /\ chan' = IF Room(to) THEN [chan EXCEPT ![to] = Append(@, Head(outbox[t])[2])]
                                  ELSE chan
    /\ outbox' = [outbox EXCEPT ![t] = FromNextDue(Tail(@))]
    /\ UNCHANGED <<cf, onramp, replies, pending, low, triggered, plan, stream, up, emitted,
                   bounds, history>>

\* The next send of a task succeeds, once the channel has room.
Deliver(t) ==
    /\ outbox[t] # <<>>
    /\ LET to == Head(outbox[t])[1]
           m == Head(outbox[t])[2]
       IN  /\ to \in Pipes \union up
           /\ Room(to)
           /\ chan' = [chan EXCEPT ![to] = Append(@, m)]
    /\ outbox' = [outbox EXCEPT ![t] = FromNextDue(Tail(@))]
    /\ UNCHANGED <<cf, onramp, replies, pending, low, triggered, plan, stream, up, emitted,
                   bounds, history>>

\* The destination is gone: send_events and send_signal return the error and
\* drop what is left of the event set, other destinations included.
DeliverFails(p) ==
    /\ outbox[p] # <<>> /\ Head(outbox[p])[1] \in Sinks \ up
    /\ outbox' = [outbox EXCEPT ![p] = <<>>]
    /\ UNCHANGED <<chan, cf, onramp, replies, pending, low, triggered, plan, stream, up,
                   emitted, bounds, history>>

-----------------------------------------------------------------------------
(* The source                                                              *)

\* run() goes to pull an event without a look at its channel.
SrcPollBlind ==
    /\ outbox[Src] = <<>> /\ ~triggered /\ Src \notin low
    /\ low' = low \union {Src}
    /\ UNCHANGED <<channels, pending, triggered, plan, stream, up, emitted, bounds, history>>

\* handle_pipelines returns: the breaker is open and no message waits.
SrcPoll ==
    /\ outbox[Src] = <<>> /\ onramp = <<>> /\ ~triggered /\ Src \notin low
    /\ low' = low \union {Src}
    /\ UNCHANGED <<channels, pending, triggered, plan, stream, up, emitted, bounds, history>>

\* The source is told to stop: its breaker is closed, or a Close waits for it.
ToldToStop == triggered \/ \E i \in DOMAIN onramp : onramp[i].cb = "close"

\* run: an event is pulled and transmitted to every pipeline.
SrcPull ==
    /\ Src \in low /\ emitted < plan.bound.maxEvents
    /\ emitted' = emitted + 1
    /\ outbox' = [outbox EXCEPT ![Src] = ToAll(Src, emitted + 1)]
    /\ low' = low \ {Src}
    /\ overshoot' = IF ToldToStop THEN overshoot + 1 ELSE overshoot
    /\ UNCHANGED <<chan, cf, onramp, replies, pending, triggered, plan, stream, up, bounds,
                   got, said, heard, dropped, lastcb>>

\* pull_event has nothing to give: the loop starts over.
SrcEmpty ==
    /\ Src \in low /\ onramp # <<>>
    /\ low' = low \ {Src}
    /\ UNCHANGED <<channels, pending, triggered, plan, stream, up, emitted, bounds, history>>

\* The breaker is closed by Close and never opened again.
BreakerStuck(b, i) == b \/ i.cb = "close"

\* The breaker after insight i.
BreakerAfter(b, i) == IF i \in Breaker THEN i.cb = "close" ELSE b

\* handle_pipelines: one message.
SrcHandle ==
    /\ outbox[Src] = <<>> /\ Src \notin low /\ onramp # <<>>
    /\ triggered' = BreakerAfter(triggered, Head(onramp))
    /\ heard' = heard \union ({Head(onramp)} \intersect Verdicts)
    /\ onramp' = Tail(onramp)
    /\ overshoot' = IF ToldToStop' THEN overshoot ELSE 0
    /\ UNCHANGED <<chan, outbox, cf, replies, pending, low, plan, stream, up, emitted, bounds,
                   got, said, dropped, lastcb>>

-----------------------------------------------------------------------------
(* A pipeline                                                              *)

\* The insights is appended to the contraflow channels of the pipelines ps.
CfAppend(ps, is) == [p \in Pipes |-> IF p \in ps THEN cf[p] \o is ELSE cf[p]]

\* handle_insight: the insight goes to every connected input.
ForwardInsight(p, i) == CfAppend(Inputs(p) \intersect Pipes, <<i>>)

PipeInsight(p) ==
    /\ outbox[p] = <<>> /\ p \notin low /\ cf[p] # <<>>
    /\ LET i == Head(cf[p])
       IN  /\ cf' = [ForwardInsight(p, i) EXCEPT ![p] = Tail(@)]
           /\ onramp' = IF Src \in Inputs(p) THEN Append(onramp, i) ELSE onramp
    /\ UNCHANGED <<chan, outbox, replies, pending, low, triggered, plan, stream, up, emitted,
                   bounds, history>>

\* Forward flow is taken without a look at the contraflow.
PipePollAny(p) ==
    /\ outbox[p] = <<>> /\ p \notin low /\ chan[p] # <<>>
    /\ low' = low \union {p}
    /\ UNCHANGED <<channels, pending, triggered, plan, stream, up, emitted, bounds, history>>

PipePoll(p) ==
    /\ outbox[p] = <<>> /\ p \notin low /\ cf[p] = <<>> /\ chan[p] # <<>>
    /\ low' = low \union {p}
    /\ UNCHANGED <<channels, pending, triggered, plan, stream, up, emitted, bounds, history>>

PipeForward(p) ==
    /\ p \in low
    /\ LET m == Head(chan[p])
       IN  outbox' = [outbox EXCEPT ![p] = IF m = Tick THEN TickToSinks(p) ELSE ToAll(p, m)]
    /\ chan' = [chan EXCEPT ![p] = Tail(@)]
    /\ low' = low \ {p}
    /\ UNCHANGED <<cf, onramp, replies, pending, triggered, plan, stream, up, emitted, bounds,
                   history>>

\* A filtered event is acknowledged.
PipeDropAcks(p) ==
    /\ p \in low /\ drops < plan.bound.maxDrops
    /\ Head(chan[p]) \in Events
    /\ dropped' = dropped \union {Head(chan[p])}
    /\ drops' = drops + 1
    /\ chan' = [chan EXCEPT ![p] = Tail(@)]
    /\ low' = low \ {p}
    /\ cf' = [cf EXCEPT ![p] = Append(@, [cb |-> "ack", id |-> Head(chan[p])])]
    /\ UNCHANGED <<outbox, onramp, replies, pending, triggered, plan, stream, up, emitted,
                   flips, stops, got, said, heard, lastcb, overshoot>>

\* The graph filters the event or fails on it: no destination hears of it, and
\* neither does the source.
PipeDrop(p) ==
    /\ p \in low /\ drops < plan.bound.maxDrops
    /\ Head(chan[p]) \in Events
    /\ dropped' = dropped \union {Head(chan[p])}
    /\ drops' = drops + 1
    /\ chan' = [chan EXCEPT ![p] = Tail(@)]
    /\ low' = low \ {p}
    /\ UNCHANGED <<outbox, cf, onramp, replies, pending, triggered, plan, stream, up, emitted,
                   flips, stops, got, said, heard, lastcb, overshoot>>

\* The tick task of a pipeline shares the forward channel with its inputs.
PipeTick(p) ==
    /\ Len(SelectSeq(chan[p], LAMBDA m : m = Tick)) < plan.bound.maxTicks
    /\ Room(p)
    /\ chan' = [chan EXCEPT ![p] = Append(@, Tick)]
    /\ UNCHANGED <<outbox, cf, onramp, replies, pending, low, triggered, plan, stream, up,
                   emitted, bounds, history>>

-----------------------------------------------------------------------------
(* An offramp and its sink                                                 *)

Verdict(ok, e) == [cb |-> IF ok THEN "ack" ELSE "fail", id |-> e]

BreakerMsg(restore) == [cb |-> IF restore THEN "open" ELSE "close", id |-> 0]

\* The priority channel is the reply channel.
SinkReply(s) ==
    /\ s \in up /\ s \notin low /\ replies[s] # <<>>
    /\ cf' = CfAppend(SinkPipes(s), <<Head(replies[s])>>)
    /\ replies' = [replies EXCEPT ![s] = Tail(@)]
    /\ UNCHANGED <<chan, outbox, onramp, pending, low, triggered, plan, stream, up, emitted,
                   bounds, history>>

SinkPoll(s) ==
    /\ s \in up /\ s \notin low /\ replies[s] = <<>> /\ chan[s] # <<>>
    /\ low' = low \union {s}
    /\ UNCHANGED <<channels, pending, triggered, plan, stream, up, emitted, bounds, history>>

TakeFrom(s) ==
    /\ s \in low
    /\ low' = low \ {s}
    /\ chan' = [chan EXCEPT ![s] = Tail(@)]

\* What on_event may meet: success, an error of the socket, another error.
Results(s) ==
    IF plan.kind[s] = "tcp" /\ s \notin stream
      THEN {"io"}
      ELSE {"ok", "err"} \union
             (IF plan.kind[s] = "tcp" /\ flips < plan.bound.maxFlips THEN {"io"} ELSE {})

CloseOnIo(r) == IF r = "io" THEN <<BreakerMsg(FALSE)>> ELSE <<>>

\* The replies of on_event: tcp never returns an error, "io" also closes the
\* breaker.
OnEventReplies(s, r, e) ==
    (IF plan.kind[s] = "tcp" THEN <<Verdict(r = "ok", e)>> ELSE <<>>) \o CloseOnIo(r)

\* A ws sink that handles a message first looks for news of its connection, which
\* its worker may have lost or regained, and sends it over the reply channel.
Lifecycle(s) ==
    {<<>>} \union (IF plan.kind[s] = "async" /\ flips < plan.bound.maxFlips
                     THEN {<<BreakerMsg(lastcb[s] = "close")>>} ELSE {})

\* The last word of sink s on its breaker after it sent the breaker messages bs.
LastCb(s, bs) == IF bs = <<>> THEN lastcb ELSE [lastcb EXCEPT ![s] = bs[Len(bs)].cb]

\* on_event returned an error.
Failed(s, r) == r = "err" /\ plan.kind[s] # "tcp"

\* A sink without auto_ack that fails says nothing.
VerdictDueAutoOnly(s, r) == plan.kind[s] = "auto"

\* "always send a fail, if on_event errored": offramp_task adds the verdict when
\* on_event failed or the sink has auto_ack.
VerdictDue(s, r) == Failed(s, r) \/ plan.kind[s] = "auto"

\* The replies go out before offramp_task looks at the result.  send_event leaves
\* the stream in place whatever went wrong.
SinkEvent(s) ==
    /\ TakeFrom(s) /\ Head(chan[s]) \in Events
    /\ \E r \in Results(s), news \in Lifecycle(s) :
          LET e == Head(chan[s])
              verdict == IF VerdictDue(s, r) THEN <<Verdict(~Failed(s, r), e)>> ELSE <<>>
              insights == OnEventReplies(s, r, e) \o verdict
          IN  /\ got' = [got EXCEPT ![s] = Append(@, e)]
              /\ cf' = CfAppend(SinkPipes(s), insights)
              /\ said' = said \union (Range(insights) \intersect Verdicts)
              /\ replies' = [replies EXCEPT ![s] = @ \o news]
              /\ flips' = flips + Len(news) + (IF r = "io" /\ s \in stream THEN 1 ELSE 0)
              /\ lastcb' = LastCb(s, news \o CloseOnIo(r))
              /\ pending' = IF plan.kind[s] = "async" /\ r = "ok"
                              THEN [pending EXCEPT ![s] = @ \union {e}] ELSE pending
    /\ UNCHANGED <<outbox, onramp, triggered, plan, stream, up, emitted, drops, stops,
                   heard, dropped, overshoot>>

\* on_signal of tcp reconnects if the stream is gone and says how it went; that of
\* ws looks for news; the other sinks have nothing to say.
SinkTick(s) ==
    /\ TakeFrom(s) /\ Head(chan[s]) = Tick
    /\ \E ok \in BOOLEAN, news \in Lifecycle(s) :
          LET gone == plan.kind[s] = "tcp" /\ s \notin stream
              back == IF gone THEN <<BreakerMsg(ok)>> ELSE <<>>
          IN  /\ stream' = IF gone /\ ok THEN stream \union {s} ELSE stream
              /\ cf' = CfAppend(SinkPipes(s), back)
              /\ replies' = [replies EXCEPT ![s] = @ \o news]
              /\ lastcb' = LastCb(s, news \o back)
              /\ flips' = flips + Len(news) + (IF gone /\ ~ok THEN 1 ELSE 0)
              /\ flips' <= plan.bound.maxFlips
    /\ UNCHANGED <<outbox, onramp, pending, triggered, plan, up, emitted, drops, stops, got,
                   said, heard, dropped, overshoot>>

\* The worker of an async sink answers an event, in any order.
WorkerAnswer(s) ==
    /\ s \in up
    /\ \E e \in pending[s], ok \in BOOLEAN :
          /\ replies' = [replies EXCEPT ![s] = Append(@, Verdict(ok, e))]
          /\ said' = said \union {Verdict(ok, e)}
          /\ pending' = [pending EXCEPT ![s] = @ \ {e}]
    /\ UNCHANGED <<chan, outbox, cf, onramp, low, triggered, plan, stream, up, emitted,
                   bounds, got, heard, dropped, lastcb, overshoot>>

\* Terminate, or the Disconnect of the last pipeline, is sent to the offramp.
SendStop(s) ==
    /\ s \in up /\ stops < plan.bound.maxStops /\ stops' = stops + 1
    /\ Room(s)
    /\ chan' = [chan EXCEPT ![s] = Append(@, Stop)]
    /\ UNCHANGED <<outbox, cf, onramp, replies, pending, low, triggered, plan, stream, up,
                   emitted, flips, drops, history>>

\* The task ends, its channels are closed and what they hold is gone.
SinkStop(s) ==
    /\ s \in low /\ low' = low \ {s} /\ Head(chan[s]) = Stop
    /\ up' = up \ {s}
    /\ chan' = [chan EXCEPT ![s] = <<>>]
    /\ replies' = [replies EXCEPT ![s] = <<>>]
    /\ pending' = [pending EXCEPT ![s] = {}]
    /\ UNCHANGED <<outbox, cf, onramp, triggered, plan, stream, emitted, bounds, history>>

-----------------------------------------------------------------------------

SrcStep == SrcPoll \/ SrcPull \/ SrcEmpty \/ SrcHandle
PipeStep(p) == PipeInsight(p) \/ PipePoll(p) \/ PipeForward(p) \/ PipeDrop(p)
SinkStep(s) == SinkReply(s) \/ SinkPoll(s) \/ SinkEvent(s) \/ SinkTick(s) \/ SinkStop(s)

Next ==
    \/ SrcStep
    \/ \E t \in Senders : Deliver(t)
    \/ \E p \in Pipes : DeliverFails(p)
    \/ \E p \in Pipes : PipeStep(p)
    \/ \E p \in Pipes : PipeTick(p)
    \/ \E s \in Sinks : SinkStep(s)
    \/ \E s \in Sinks : WorkerAnswer(s)
    \/ \E s \in Sinks : SendStop(s)

Spec == Init /\ [][Next]_vars

\* Every task is scheduled, and every worker answers in the end.  The tick task
\* competes for the room in a channel, but it sleeps between two ticks and the
\* channel wakes waiting senders in turn: a send cannot be overtaken for ever.
Fairness ==
    /\ WF_vars(SrcStep)
    /\ \A t \in Senders : SF_vars(Deliver(t))
    /\ \A p \in Pipes : WF_vars(PipeStep(p)) /\ WF_vars(DeliverFails(p))
    /\ \A p \in Pipes : WF_vars(PipeTick(p))
    /\ \A s \in Sinks : WF_vars(SinkStep(s)) /\ WF_vars(WorkerAnswer(s))

FairSpec == Spec /\ Fairness

-----------------------------------------------------------------------------
(* Properties                                                              *)

\* Type invariant; the forward channels keep their capacity.
TypeOK ==
    /\ \A t \in Pipes \union Sinks : chan[t] \in Seq(Msgs) /\ Len(chan[t]) <= QSize
    /\ \A t \in Senders : outbox[t] \in Seq((Pipes \union Sinks) \X Msgs)
    /\ \A p \in Pipes : cf[p] \in Seq(Insights)
    /\ onramp \in Seq(Insights)
    /\ \A s \in Sinks : replies[s] \in Seq(Insights) /\ pending[s] \subseteq Events
    /\ low \subseteq Tasks /\ triggered \in BOOLEAN
    /\ plan \in Plans /\ stream \subseteq Sinks /\ up \subseteq Sinks
    /\ lastcb \in [Sinks -> {"open", "close"}]
    /\ emitted \in 0 .. MaxEvents
    /\ \A s \in Sinks : got[s] \in Seq(Events)
    /\ said \subseteq Verdicts /\ heard \subseteq Verdicts /\ dropped \subseteq Events

\* Task x is named once in the links.
FedOnce(x) ==
    \A t, u \in Senders : \A i \in DOMAIN plan.outs[t], j \in DOMAIN plan.outs[u] :
       plan.outs[t][i] = x /\ plan.outs[u][j] = x => t = u /\ i = j

\* Every task of Z is, and the pipeline that feeds it is one of them.
LoneWay(Z) ==
    \A x \in Z : FedOnce(x) /\ \A p \in Pipes : x \in Range(plan.outs[p]) => p \in Z

\* Only one path leads to sink s.
OnePath(s) == \E Z \in SUBSET (Pipes \union Sinks) : s \in Z /\ LoneWay(Z)

\* transmit_event, send_events: a sink reached by one path gets the events in the
\* order of the source, each once, and none is missing between two it got, unless
\* a pipeline dropped it or an offramp stopped (which costs its neighbours the
\* rest of the event set).
DeliveredInOrder ==
    \A s \in Sinks : OnePath(s) =>
       /\ \A i, j \in DOMAIN got[s] : i < j => got[s][i] < got[s][j]
       /\ stops = 0 =>
             \A f \in Range(got[s]), e \in Events :
                e < f => e \in Range(got[s]) \union dropped

\* handle_insight, offramp_task: the source is told of a verdict only if a sink
\* gave it, and a sink gives verdicts only on events it got.
VerdictsGenuine ==
    /\ heard \subseteq said
    /\ \A v \in said : \E s \in Sinks : v.id \in Range(got[s])

\* Every insight that was sent has arrived.
Quiet ==
    /\ onramp = <<>>
    /\ \A p \in Pipes : cf[p] = <<>>
    /\ \A s \in Sinks : replies[s] = <<>>

\* The single flag triggered of the source serves every sink: when all insights
\* have arrived and no sink's last word was Close, the source is not left closed,
\* in whatever order the words of the sinks met.
ResumesWhenAllOpen ==
    Quiet /\ up = Sinks /\ (\A s \in Sinks : lastcb[s] = "open") => ~triggered

\* Every destination of pipeline p is a sink that answers at once and answers no
\* other pipeline.
OwnSinks(p) ==
    \A d \in Range(plan.outs[p]) : d \in Sinks /\ plan.kind[d] # "async" /\ SinkPipes(d) = {p}

\* start_pipeline: "the counterflow channel is always bounded by the forward
\* flow".  At most what the channels of the sinks hold, and the event in hand,
\* waits as verdicts.  A sink that several pipelines feed answers all of them, and
\* what one of them sends is not held back by the counterflow of another: the
\* bound is for pipelines with sinks of their own.
ContraflowBounded ==
    \A p \in Pipes : OwnSinks(p) =>
       Cardinality({k \in DOMAIN cf[p] : cf[p][k] \in Verdicts}) <= Len(plan.outs[p]) * (QSize + 1)

\* run, handle_pipelines: looking at the channel and the breaker, and pulling an
\* event, are two steps, with the awaited pull_event in between.  Whatever the
\* other tasks do meanwhile, once a Close has reached the source at most one more
\* event is pulled until the source is open again.
OnePullPastClose == overshoot <= 1

\* Every event the source emits is answered, or was dropped by a pipeline: no
\* full channel and no waiting contraflow stops the tasks for good.
EveryEventAnswered ==
    \A e \in Events :
       emitted >= e ~> (e \in dropped \/ stops > 0 \/ \E v \in heard : v.id = e)

\* Once connections are no longer lost, a closed breaker is opened again.
BreakerRecovers == triggered ~> ~triggered

\* No channel outgrows its bound: those for forward flow their capacity, the
\* unbounded ones for contraflow what the forward flow can cause.
ChannelsBounded == TypeOK /\ ContraflowBounded
=============================================================================
