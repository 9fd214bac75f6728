----------------------------- MODULE FlowProofs -----------------------------
(***************************************************************************)
(* Verdicts, the breaker and the order of events in every deployment: any  *)
(* number of pipelines and sinks, wired in any way, of any kinds, with     *)
(* channels of any size.  The theorems are                                 *)
(*   VerdictsNotInvented  a verdict the source hears was given by a sink   *)
(*                        that got the event,                              *)
(*   StopsAfterClose      the source pulls at most once past a Close,      *)
(*   NeverLeftClosed      and is not left closed when all sinks are open,  *)
(*   OrderIsKept          a sink at the end of one path gets the events in *)
(*                        order, each once and none missing,               *)
(*   CounterflowIsBounded no channel for events outgrows its capacity, and *)
(*                        none for verdicts what those let through.        *)
(*                                                                         *)
(* VerdictsGenuine speaks of what the source has heard, which a step takes *)
(* from its channel; so the invariant follows a verdict all the way back:  *)
(* whatever waits in a contraflow channel, the channel of the source or a  *)
(* reply channel is known, that is said by a sink or a breaker message,    *)
(* and what a worker has yet to answer is an event its sink got.           *)
(***************************************************************************)
EXTENDS Flow, NaturalsInduction, WellFoundedInduction, FiniteSetTheorems, TLAPS

Known == said \union Breaker

KnownChannels ==
    /\ cf \in [Pipes -> Seq(Known)]
    /\ onramp \in Seq(Known)
    /\ replies \in [Sinks -> Seq(Known)]
    /\ said \subseteq Verdicts
    /\ heard \subseteq said

WorkersKnow ==
    /\ got \in [Sinks -> Seq(Events)]
    /\ pending \in [Sinks -> SUBSET Events]
    /\ \A s \in Sinks : pending[s] \subseteq Range(got[s])
    /\ \A v \in said : \E s \in Sinks : v.id \in Range(got[s])

\* The inductive invariant.
KnownInv == KnownChannels /\ WorkersKnow

-----------------------------------------------------------------------------
(* Sequences                                                               *)

\* A sequence over a set is one over a larger set.
LEMMA SeqMono ==
    ASSUME NEW S, NEW T, S \subseteq T, NEW q \in Seq(S)
    PROVE  q \in Seq(T)
  OBVIOUS

\* What is left of a non-empty sequence, and its head.
LEMMA SeqTake ==
    ASSUME NEW S, NEW q \in Seq(S), q # <<>>
    PROVE  Head(q) \in S /\ Tail(q) \in Seq(S)
  OBVIOUS

\* The empty sequence and the sequences of one element.
LEMMA SeqSmall ==
    ASSUME NEW S
    PROVE  <<>> \in Seq(S) /\ \A x \in S : <<x>> \in Seq(S)
  OBVIOUS

\* Concatenation stays over the set, and is not empty if its first part is not.
LEMMA SeqJoin ==
    ASSUME NEW S, NEW q \in Seq(S), NEW r \in Seq(S)
    PROVE  q \o r \in Seq(S) /\ (q # <<>> => q \o r # <<>>)
  OBVIOUS

\* A sequence is one over any set that holds its elements.
LEMMA SeqRange ==
    ASSUME NEW S, NEW q \in Seq(S)
    PROVE  /\ Range(q) \subseteq S
           /\ \A T : Range(q) \subseteq T => q \in Seq(T)
  <1>1. \A i \in DOMAIN q : q[i] \in S
    OBVIOUS
  <1>2. ASSUME NEW T, \A i \in DOMAIN q : q[i] \in T
        PROVE  q \in Seq(T)
    BY <1>2
  <1> QED BY <1>1, <1>2 DEF Range

\* Appending keeps what is there and adds the element.
LEMMA RangeAppend ==
    ASSUME NEW S, NEW q \in Seq(S), NEW e \in S
    PROVE  Append(q, e) \in Seq(S) /\ Range(Append(q, e)) = Range(q) \union {e}
  <1>1. Append(q, e) \in Seq(S) /\ Len(Append(q, e)) = Len(q) + 1
    OBVIOUS
  <1>2. \A i \in 1 .. Len(q) : Append(q, e)[i] = q[i]
    OBVIOUS
  <1>3. Append(q, e)[Len(q) + 1] = e
    OBVIOUS
  <1>4. DOMAIN Append(q, e) = DOMAIN q \union {Len(q) + 1}
    BY <1>1
  <1> QED BY <1>1, <1>2, <1>3, <1>4 DEF Range

\* send_to_pipelines, handle_insight: appending known insights to the contraflow
\* channels of any pipelines leaves known insights in all of them.
LEMMA CfAppendKnown ==
    ASSUME NEW S, cf \in [Pipes -> Seq(S)], NEW ps, NEW is \in Seq(S)
    PROVE  /\ CfAppend(ps, is) \in [Pipes -> Seq(S)]
           /\ \A p \in Pipes : cf[p] # <<>> => CfAppend(ps, is)[p] # <<>>
  <1>1. \A p \in Pipes : cf[p] \o is \in Seq(S) /\ (cf[p] # <<>> => cf[p] \o is # <<>>)
    BY SeqJoin
  <1> QED BY <1>1 DEF CfAppend

\* Verdicts and breaker messages are different insights.
LEMMA InsightKinds ==
    /\ Verdicts \intersect Breaker = {}
    /\ \A e \in Events, ok \in BOOLEAN : Verdict(ok, e) \in Verdicts /\ Verdict(ok, e).id = e
    /\ \A ok \in BOOLEAN : BreakerMsg(ok) \in Breaker
  BY DEF Verdicts, Breaker, Verdict, BreakerMsg

-----------------------------------------------------------------------------
(* The steps                                                               *)

\* Nothing was said and nothing waits at the start.
LEMMA KnownInit == Init => KnownInv
  <1> SUFFICES ASSUME Init PROVE KnownInv
    OBVIOUS
  <1>1. <<>> \in Seq(Known) /\ <<>> \in Seq(Events)
    OBVIOUS
  <1> QED BY <1>1 DEF Init, KnownInv, KnownChannels, WorkersKnow

\* WorkersKnow depends on three variables.
LEMMA WorkersKnowSame == WorkersKnow /\ UNCHANGED <<got, pending, said>> => WorkersKnow'
  BY DEF WorkersKnow, Range

\* Sends, looks, ticks, drops and stops leave every verdict where it is, but for
\* what a stopped offramp takes with it.
LEMMA KnownUntouched ==
    ASSUME KnownInv, UNCHANGED <<cf, onramp, got, said, heard>>,
           \/ UNCHANGED <<replies, pending>>
           \/ \E s \in Sinks : /\ replies' = [replies EXCEPT ![s] = <<>>]
                               /\ pending' = [pending EXCEPT ![s] = {}]
    PROVE  KnownInv'
  <1>1. <<>> \in Seq(Known)
    OBVIOUS
  <1>2. Known' = Known
    BY DEF Known
  <1>3. replies' \in [Sinks -> Seq(Known)]
    BY <1>1 DEF KnownInv, KnownChannels
  <1>4. /\ pending' \in [Sinks -> SUBSET Events]
        /\ \A s \in Sinks : pending'[s] \subseteq Range(got[s])
    BY DEF KnownInv, WorkersKnow
  <1> QED BY <1>2, <1>3, <1>4 DEF KnownInv, KnownChannels, WorkersKnow, Range

\* handle_pipelines: what the source hears was known.
LEMMA KnownSrcHandle == KnownInv /\ SrcHandle => KnownInv'
  <1> SUFFICES ASSUME KnownInv, SrcHandle PROVE KnownInv'
    OBVIOUS
  <1>1. Head(onramp) \in Known /\ Tail(onramp) \in Seq(Known)
    BY SeqTake DEF KnownInv, KnownChannels, SrcHandle
  <1>2. {Head(onramp)} \intersect Verdicts \subseteq said
    BY <1>1, InsightKinds DEF Known
  <1>3. Known' = Known
    BY DEF Known, SrcHandle
  <1>8. KnownChannels'
    BY <1>1, <1>2, <1>3 DEF KnownInv, KnownChannels, SrcHandle
  <1>9. WorkersKnow'
    BY WorkersKnowSame DEF KnownInv, SrcHandle
  <1> QED BY <1>8, <1>9 DEF KnownInv

\* handle_insight moves a known insight towards the source.
LEMMA KnownPipeInsight == ASSUME NEW p \in Pipes, KnownInv, PipeInsight(p) PROVE KnownInv'
  <1> DEFINE i == Head(cf[p])
             fwd == ForwardInsight(p, i)
  <1>1. i \in Known
    BY SeqTake DEF KnownInv, KnownChannels, PipeInsight
  <1>2. <<i>> \in Seq(Known)
    BY <1>1
  <1>3. fwd \in [Pipes -> Seq(Known)] /\ fwd[p] # <<>>
    BY <1>2, CfAppendKnown DEF ForwardInsight, KnownInv, KnownChannels, PipeInsight
  <1>4. Tail(fwd[p]) \in Seq(Known)
    BY <1>3, SeqTake
  <1>5. cf' \in [Pipes -> Seq(Known)]
    BY <1>3, <1>4 DEF PipeInsight
  <1>6. onramp' \in Seq(Known)
    BY <1>1 DEF PipeInsight, KnownInv, KnownChannels
  <1>7. Known' = Known
    BY DEF Known, PipeInsight, history
  <1>8. KnownChannels'
    BY <1>5, <1>6, <1>7 DEF KnownInv, KnownChannels, PipeInsight, history
  <1>9. WorkersKnow'
    BY WorkersKnowSame DEF KnownInv, PipeInsight, history
  <1> QED BY <1>8, <1>9 DEF KnownInv

\* offramp_task passes a reply of the worker on to the pipelines.
LEMMA KnownSinkReply == ASSUME NEW s \in Sinks, KnownInv, SinkReply(s) PROVE KnownInv'
  <1>1. Head(replies[s]) \in Known /\ Tail(replies[s]) \in Seq(Known)
    BY SeqTake DEF KnownInv, KnownChannels, SinkReply
  <1>2. <<Head(replies[s])>> \in Seq(Known)
    BY <1>1
  <1>3. cf' \in [Pipes -> Seq(Known)]
    BY <1>2, CfAppendKnown DEF SinkReply, KnownInv, KnownChannels
  <1>4. replies' \in [Sinks -> Seq(Known)]
    BY <1>1 DEF SinkReply, KnownInv, KnownChannels
  <1>5. Known' = Known
    BY DEF Known, SinkReply, history
  <1>8. KnownChannels'
    BY <1>3, <1>4, <1>5 DEF KnownInv, KnownChannels, SinkReply, history
  <1>9. WorkersKnow'
    BY WorkersKnowSame DEF KnownInv, SinkReply, history
  <1> QED BY <1>8, <1>9 DEF KnownInv

\* What a sink says about its connection is known.
LEMMA KnownNews ==
    ASSUME NEW s \in Sinks, NEW news \in Lifecycle(s), NEW S, Breaker \subseteq S,
           replies \in [Sinks -> Seq(S)]
    PROVE  [replies EXCEPT ![s] = @ \o news] \in [Sinks -> Seq(S)]
  <1>1. BreakerMsg(lastcb[s] = "close") \in S
    BY InsightKinds
  <1>2. news = <<>> \/ news = <<BreakerMsg(lastcb[s] = "close")>>
    BY DEF Lifecycle
  <1>3. news \in Seq(S)
    BY <1>1, <1>2, SeqSmall, Zenon
  <1> QED BY <1>3, SeqJoin

\* A sink that looks at its connection adds breaker messages.
LEMMA KnownSinkTick == ASSUME NEW s \in Sinks, KnownInv, SinkTick(s) PROVE KnownInv'
  <1> DEFINE back(ok) == IF plan.kind[s] = "tcp" /\ s \notin stream
                           THEN <<BreakerMsg(ok)>> ELSE <<>>
  <1>1. PICK ok \in BOOLEAN, news \in Lifecycle(s) :
           /\ cf' = CfAppend(SinkPipes(s), back(ok))
           /\ replies' = [replies EXCEPT ![s] = @ \o news]
    BY DEF SinkTick
  <1>2. back(ok) \in Seq(Known)
    <2>1. BreakerMsg(ok) \in Known
      BY InsightKinds DEF Known
    <2> QED BY <2>1, SeqSmall, Zenon
  <1> HIDE DEF back
  <1>3. cf' \in [Pipes -> Seq(Known)]
    BY <1>1, <1>2, CfAppendKnown DEF KnownInv, KnownChannels
  <1>4. replies' \in [Sinks -> Seq(Known)]
    BY <1>1, KnownNews DEF KnownInv, KnownChannels, Known
  <1>5. Known' = Known
    BY DEF Known, SinkTick
  <1>8. KnownChannels'
    BY <1>3, <1>4, <1>5 DEF KnownInv, KnownChannels, SinkTick
  <1>9. WorkersKnow'
    BY WorkersKnowSame DEF KnownInv, SinkTick
  <1> QED BY <1>8, <1>9 DEF KnownInv

\* A worker answers an event that its sink got.
LEMMA KnownWorkerAnswer == ASSUME NEW s \in Sinks, KnownInv, WorkerAnswer(s) PROVE KnownInv'
  <1>1. PICK e \in pending[s], ok \in BOOLEAN :
           /\ replies' = [replies EXCEPT ![s] = Append(@, Verdict(ok, e))]
           /\ said' = said \union {Verdict(ok, e)}
           /\ pending' = [pending EXCEPT ![s] = @ \ {e}]
    BY DEF WorkerAnswer
  <1>2. e \in Events /\ e \in Range(got[s])
    BY DEF KnownInv, WorkersKnow
  <1>3. Verdict(ok, e) \in Verdicts /\ Verdict(ok, e).id = e
    BY <1>2, InsightKinds
  <1>4. Known \subseteq Known' /\ Verdict(ok, e) \in Known'
    BY <1>1 DEF Known
  <1>5. cf' \in [Pipes -> Seq(Known')] /\ onramp' \in Seq(Known')
    BY <1>4, SeqMono DEF WorkerAnswer, KnownInv, KnownChannels
  <1>6. replies \in [Sinks -> Seq(Known')]
    BY <1>4, SeqMono DEF KnownInv, KnownChannels
  <1>7. replies' \in [Sinks -> Seq(Known')]
    BY <1>1, <1>4, <1>6
  <1>8. KnownChannels'
    BY <1>1, <1>3, <1>5, <1>7 DEF KnownInv, KnownChannels, WorkerAnswer
  <1>9. \A v \in said' : \E t \in Sinks : v.id \in Range(got[t])
    BY <1>1, <1>2, <1>3 DEF KnownInv, WorkersKnow
  <1>10. /\ pending' \in [Sinks -> SUBSET Events]
         /\ \A t \in Sinks : pending'[t] \subseteq Range(got[t])
    BY <1>1 DEF KnownInv, WorkersKnow
  <1> QED BY <1>8, <1>9, <1>10 DEF KnownInv, WorkersKnow, WorkerAnswer, Range

\* What a sink sends for event e: verdicts on e, and Close.
Reply(e) == {Verdict(TRUE, e), Verdict(FALSE, e), BreakerMsg(FALSE)}

\* on_event and offramp_task: the insights for an event are known once they are
\* said, and the verdicts among them are on an event the sink has got.
LEMMA KnownSinkEvent == ASSUME NEW s \in Sinks, KnownInv, SinkEvent(s) PROVE KnownInv'
  <1> DEFINE e == Head(chan[s])
             verdict(r) == IF VerdictDue(s, r) THEN <<Verdict(~Failed(s, r), e)>> ELSE <<>>
             insights(r) == OnEventReplies(s, r, e) \o verdict(r)
  <1>1. PICK r \in Results(s), news \in Lifecycle(s) :
           /\ replies' = [replies EXCEPT ![s] = @ \o news]
           /\ got' = [got EXCEPT ![s] = Append(@, e)]
           /\ cf' = CfAppend(SinkPipes(s), insights(r))
           /\ said' = said \union (Range(insights(r)) \intersect Verdicts)
           /\ pending' = IF plan.kind[s] = "async" /\ r = "ok"
                           THEN [pending EXCEPT ![s] = @ \union {e}] ELSE pending
    BY DEF SinkEvent
  <1>2. e \in Events /\ UNCHANGED <<onramp, heard>>
    BY DEF SinkEvent
  <1>3. insights(r) \in Seq(Reply(e))
    <2>1. \A ok \in BOOLEAN : Verdict(ok, e) \in Reply(e)
      BY Zenon DEF Reply
    <2>2. BreakerMsg(FALSE) \in Reply(e)
      BY DEF Reply
    <2>3. \A i \in Reply(e) : <<i>> \in Seq(Reply(e))
      OBVIOUS
    <2>4. <<>> \in Seq(Reply(e))
      OBVIOUS
    <2>5. (~Failed(s, r)) \in BOOLEAN /\ (r = "ok") \in BOOLEAN
      BY DEF Failed
    <2>6. verdict(r) \in Seq(Reply(e))
      BY <2>1, <2>3, <2>4, <2>5, Zenon
    <2>7. (IF plan.kind[s] = "tcp" THEN <<Verdict(r = "ok", e)>> ELSE <<>>) \in Seq(Reply(e))
      BY <2>1, <2>3, <2>4, <2>5, Zenon
    <2>8. CloseOnIo(r) \in Seq(Reply(e))
      BY <2>2, <2>3, <2>4, Zenon DEF CloseOnIo
    <2>9. OnEventReplies(s, r, e) \in Seq(Reply(e))
      BY <2>7, <2>8, SeqJoin DEF OnEventReplies
    <2> QED BY <2>6, <2>9, SeqJoin
  <1>4. \A i \in Reply(e) : i \in Breaker \/ (i \in Verdicts /\ i.id = e)
    BY <1>2, InsightKinds DEF Reply
  <1> HIDE DEF insights
  <1>5. Range(insights(r)) \subseteq Reply(e)
    BY <1>3, SeqRange
  <1>6. Known \subseteq Known'
    BY <1>1 DEF Known
  <1>7. insights(r) \in Seq(Known')
    <2>1. Range(insights(r)) \subseteq Known'
      BY <1>1, <1>4, <1>5 DEF Known
    <2> QED BY <1>3, <2>1, SeqRange
  <1>8. cf \in [Pipes -> Seq(Known')]
    BY <1>6, SeqMono DEF KnownInv, KnownChannels
  <1>9. cf' \in [Pipes -> Seq(Known')]
    BY <1>1, <1>7, <1>8, CfAppendKnown
  <1>10. onramp' \in Seq(Known') /\ replies' \in [Sinks -> Seq(Known')]
    <2>1. onramp' \in Seq(Known') /\ replies \in [Sinks -> Seq(Known')]
      BY <1>2, <1>6, SeqMono DEF KnownInv, KnownChannels
    <2>2. Breaker \subseteq Known'
      BY DEF Known, Breaker
    <2> QED BY <1>1, <2>1, <2>2, KnownNews
  <1>11. KnownChannels'
    BY <1>1, <1>2, <1>9, <1>10 DEF KnownInv, KnownChannels
  <1>12. /\ Append(got[s], e) \in Seq(Events)
         /\ Range(Append(got[s], e)) = Range(got[s]) \union {e}
    BY <1>2, RangeAppend DEF KnownInv, WorkersKnow
  <1>13. /\ got' \in [Sinks -> Seq(Events)]
         /\ \A t \in Sinks : Range(got[t]) \subseteq Range(got'[t])
         /\ e \in Range(got'[s])
    BY <1>1, <1>12 DEF KnownInv, WorkersKnow
  <1>14. \A v \in said' : \E t \in Sinks : v.id \in Range(got'[t])
    <2>1. \A v \in said : \E t \in Sinks : v.id \in Range(got'[t])
      BY <1>13 DEF KnownInv, WorkersKnow
    <2>2. \A v \in Range(insights(r)) \intersect Verdicts : v.id = e
      BY <1>4, <1>5, InsightKinds
    <2> QED BY <1>1, <1>13, <2>1, <2>2
  <1>15. /\ pending' \in [Sinks -> SUBSET Events]
         /\ \A t \in Sinks : pending'[t] \subseteq Range(got'[t])
    BY <1>1, <1>2, <1>13 DEF KnownInv, WorkersKnow
  <1>16. WorkersKnow'
    BY <1>13, <1>14, <1>15 DEF WorkersKnow, Range
  <1> QED BY <1>11, <1>16 DEF KnownInv

-----------------------------------------------------------------------------
(* The theorem                                                             *)

\* Every step keeps the verdicts known.
LEMMA KnownNext == KnownInv /\ [Next]_vars => KnownInv'
  <1> SUFFICES ASSUME KnownInv, [Next]_vars PROVE KnownInv'
    OBVIOUS
  <1>1. CASE SrcPoll \/ SrcPull \/ SrcEmpty
    BY <1>1, KnownUntouched DEF SrcPoll, SrcPull, SrcEmpty, channels, history
  <1>2. CASE SrcHandle
    BY <1>2, KnownSrcHandle
  <1>3. CASE \E t \in Senders : Deliver(t)
    BY <1>3, KnownUntouched DEF Deliver, history
  <1>4. CASE \E p \in Pipes : DeliverFails(p) \/ PipePoll(p) \/ PipeForward(p) \/ PipeTick(p)
    BY <1>4, KnownUntouched DEF DeliverFails, PipePoll, PipeForward, PipeTick, channels, history
  <1>5. CASE \E p \in Pipes : PipeDrop(p)
    BY <1>5, KnownUntouched DEF PipeDrop
  <1>6. CASE \E p \in Pipes : PipeInsight(p)
    BY <1>6, KnownPipeInsight
  <1>7. CASE \E s \in Sinks : SinkReply(s)
    BY <1>7, KnownSinkReply
  <1>8. CASE \E s \in Sinks : SinkEvent(s)
    BY <1>8, KnownSinkEvent
  <1>9. CASE \E s \in Sinks : SinkTick(s)
    BY <1>9, KnownSinkTick
  <1>10. CASE \E s \in Sinks : WorkerAnswer(s)
    BY <1>10, KnownWorkerAnswer
  <1>11. CASE \E s \in Sinks : SinkPoll(s) \/ SendStop(s)
    BY <1>11, KnownUntouched DEF SinkPoll, SendStop, channels, history
  <1>12. CASE \E s \in Sinks : SinkStop(s)
    BY <1>12, KnownUntouched DEF SinkStop, history
  <1>13. CASE UNCHANGED vars
    BY <1>13, KnownUntouched DEF vars, channels, history
  <1>14. Next => \/ SrcPoll \/ SrcPull \/ SrcEmpty \/ SrcHandle
                 \/ \E t \in Senders : Deliver(t)
                 \/ \E p \in Pipes : DeliverFails(p) \/ PipePoll(p) \/ PipeForward(p)
                                     \/ PipeTick(p)
                 \/ \E p \in Pipes : PipeDrop(p)
                 \/ \E p \in Pipes : PipeInsight(p)
                 \/ \E s \in Sinks : SinkReply(s)
                 \/ \E s \in Sinks : SinkEvent(s)
                 \/ \E s \in Sinks : SinkTick(s)
                 \/ \E s \in Sinks : WorkerAnswer(s)
                 \/ \E s \in Sinks : SinkPoll(s) \/ SendStop(s)
                 \/ \E s \in Sinks : SinkStop(s)
    BY Zenon DEF Next, SrcStep, PipeStep, SinkStep
  <1> QED BY <1>1, <1>2, <1>3, <1>4, <1>5, <1>6, <1>7, <1>8, <1>9, <1>10, <1>11,
             <1>12, <1>13, <1>14

\* In every deployment, a verdict that reaches the source was given by a sink, on
\* an event the sink got (handle_insight, offramp_task, handle_pipelines).
THEOREM VerdictsNotInvented == Spec => []VerdictsGenuine
  <1>1. KnownInv => VerdictsGenuine
    BY DEF KnownInv, KnownChannels, WorkersKnow, VerdictsGenuine
  <1> QED BY <1>1, KnownInit, KnownNext, PTL DEF Spec

\* The source that went to pull an event found its breaker open, and nothing
\* closes it before the event is pulled: the other tasks only send it messages.
\* Once it has pulled one past a Close, it does not go to pull another.
OvershootInv ==
    /\ Src \in low => ~triggered
    /\ overshoot \in {0, 1}
    /\ overshoot = 1 => Src \notin low /\ ToldToStop

\* What is appended to the channel of the source takes no Close away.
LEMMA StillTold ==
    ASSUME onramp \in Seq(Insights), NEW i \in Insights, onramp' \in {onramp, Append(onramp, i)},
           triggered' = triggered, ToldToStop
    PROVE  ToldToStop'
  <1>1. \A k \in DOMAIN onramp : k \in DOMAIN onramp' /\ onramp'[k] = onramp[k]
    OBVIOUS
  <1> QED BY <1>1 DEF ToldToStop

LEMMA OvershootNext == KnownInv /\ OvershootInv /\ [Next]_vars => OvershootInv'
  <1> SUFFICES ASSUME KnownInv, OvershootInv, [Next]_vars PROVE OvershootInv'
    OBVIOUS
  <1>1. Src \notin Pipes /\ Src \notin Sinks
    BY FlowAssumption
  <1>2. ASSUME UNCHANGED <<onramp, triggered, overshoot>>, Src \in low' => Src \in low PROVE OvershootInv'
    <2>1. ToldToStop' <=> ToldToStop
      BY <1>2 DEF ToldToStop
    <2> QED BY <1>2, <2>1 DEF OvershootInv
  <1>3. CASE SrcPoll
    <2>1. onramp = <<>> /\ ~triggered /\ UNCHANGED <<triggered, overshoot>>
      BY <1>3 DEF SrcPoll, history
    <2>2. ~ToldToStop
      BY <2>1 DEF ToldToStop
    <2> QED BY <2>1, <2>2 DEF OvershootInv
  <1>4. CASE SrcPull
    <2>1. /\ Src \in low /\ Src \notin low' /\ UNCHANGED <<onramp, triggered>>
          /\ overshoot' = IF ToldToStop THEN overshoot + 1 ELSE overshoot
      BY <1>4 DEF SrcPull
    <2>2. overshoot = 0 /\ (ToldToStop' <=> ToldToStop)
      BY <2>1 DEF OvershootInv, ToldToStop
    <2> QED BY <2>1, <2>2 DEF OvershootInv
  <1>5. CASE SrcEmpty
    BY <1>2, <1>5 DEF SrcEmpty, channels, history
  <1>6. CASE SrcHandle
    <2>1. Src \notin low' /\ overshoot' = IF ToldToStop' THEN overshoot ELSE 0
      BY <1>6 DEF SrcHandle
    <2> QED BY <2>1 DEF OvershootInv
  <1>7. CASE \E t \in Senders : Deliver(t)
    BY <1>2, <1>7 DEF Deliver, history
  <1>8. CASE \E p \in Pipes : DeliverFails(p) \/ PipeTick(p)
    BY <1>2, <1>8 DEF DeliverFails, PipeTick, history
  <1>9. CASE \E p \in Pipes : PipePoll(p) \/ PipeForward(p) \/ PipeDrop(p)
    BY <1>1, <1>2, <1>9 DEF PipePoll, PipeForward, PipeDrop, channels, history
  <1>10. ASSUME NEW p \in Pipes, PipeInsight(p) PROVE OvershootInv'
    <2>1. onramp \in Seq(Known) /\ cf[p] \in Seq(Known) /\ cf[p] # <<>> /\ Known \subseteq Insights
      BY <1>10 DEF KnownInv, KnownChannels, Known, Insights, PipeInsight
    <2>2. Head(cf[p]) \in Insights /\ onramp \in Seq(Insights)
      BY <2>1, SeqTake, SeqMono
    <2>3. /\ onramp' \in {onramp, Append(onramp, Head(cf[p]))}
          /\ UNCHANGED <<low, triggered, overshoot>>
      BY <1>10 DEF PipeInsight, history
    <2>4. ToldToStop => ToldToStop'
      BY <2>2, <2>3, StillTold
    <2> QED BY <2>3, <2>4 DEF OvershootInv
  <1>11. CASE \E s \in Sinks : SinkStep(s)
    BY <1>1, <1>2, <1>11 DEF SinkStep, SinkReply, SinkPoll, SinkEvent, SinkTick,
                             SinkStop, TakeFrom, channels, history
  <1>12. CASE \E s \in Sinks : WorkerAnswer(s) \/ SendStop(s)
    BY <1>2, <1>12 DEF WorkerAnswer, SendStop, history
  <1>13. CASE UNCHANGED vars
    BY <1>2, <1>13 DEF vars, channels, history
  <1> QED BY <1>3, <1>4, <1>5, <1>6, <1>7, <1>8, <1>9, <1>10, <1>11, <1>12, <1>13 DEF Next, SrcStep, PipeStep

\* run, handle_pipelines: in any deployment and however the tasks interleave, once
\* a Close has reached the source at most one more event is pulled until the
\* source is open again.
THEOREM StopsAfterClose == Spec => []OnePullPastClose
  <1>1. Init => OvershootInv
    BY DEF Init, OvershootInv
  <1>2. OvershootInv => OnePullPastClose
    BY DEF OvershootInv, OnePullPastClose
  <1> QED BY <1>1, <1>2, KnownInit, KnownNext, OvershootNext, PTL DEF Spec

-----------------------------------------------------------------------------
(***************************************************************************)
(* The breaker of the source.  One flag serves every sink, and the words   *)
(* Open and Close of the sinks reach it along many ways, which may share   *)
(* pipelines, split and meet again, or run in circles.  ResumesWhenAllOpen *)
(* speaks of the moment when they have all arrived; the invariant has to   *)
(* say of any moment why a Close that is still believed will be corrected. *)
(*                                                                         *)
(* A place believes in a Close if nothing in its own channel contradicts   *)
(* it.  Then the contradiction is on its way to the place, or is still to  *)
(* be said: among all that feeds the place, directly or through others, a  *)
(* pipeline or sink has an Open in its channel, or a sink's last word was  *)
(* Close.  "Directly or through others" is said without recursion, by      *)
(* every set that is closed under being fed.                               *)
(***************************************************************************)

\* An Open waits in channel q.
HasOpen(q) == \E j \in DOMAIN q : q[j].cb = "open"

\* Every Close in channel q has an Open behind it.
Corrected(q) ==
    \A i \in DOMAIN q : q[i].cb = "close" => \E j \in DOMAIN q : i < j /\ q[j].cb = "open"

Nodes == Pipes \union Sinks

\* Who gets what the pipeline or sink n passes on, and from whom x gets it.
PassesTo(n) == IF n \in Pipes THEN Inputs(n) ELSE SinkPipes(n)
Feeders(x) == {n \in Nodes : x \in PassesTo(n)}
ClosedUp(Z) == \A x \in Z : x \in Pipes => Feeders(x) \subseteq Z

\* Pipeline or sink n has a correction to pass on, or will have.
Calling(n) == IF n \in Pipes THEN HasOpen(cf[n])
              ELSE HasOpen(replies[n]) \/ lastcb[n] = "close"

\* The source or pipeline x has the correction of every Close it believes.
Settled(x) == IF x \in Pipes THEN Corrected(cf[x])
              ELSE Corrected(onramp) /\ (triggered => HasOpen(onramp))

\* The argument above.
CorrectionsCome ==
    \A x \in Senders, Z \in SUBSET Nodes :
       ClosedUp(Z) /\ Feeders(x) \subseteq Z => Settled(x) \/ \E n \in Z : Calling(n)

\* The same for the reply channel of a sink, which only the sink feeds.
RepliesCorrected == \A s \in Sinks : Corrected(replies[s]) \/ lastcb[s] = "close"

\* Only a worker uses the reply channel.
RepliesUsed ==
    \A s \in Sinks : plan.kind[s] # "async" => replies[s] = <<>> /\ pending[s] = {}

\* The inductive invariant.
BreakerInv ==
    /\ RepliesUsed
    /\ lastcb \in [Sinks -> {"open", "close"}]
    /\ up = Sinks => CorrectionsCome /\ RepliesCorrected

\* Taking the first message of a channel.
LEMMA TakenWords ==
    ASSUME NEW S, NEW q \in Seq(S), q # <<>>
    PROVE  /\ Corrected(q) => Corrected(Tail(q))
           /\ Corrected(q) /\ Head(q).cb = "close" => HasOpen(Tail(q))
           /\ HasOpen(q) /\ Head(q).cb # "open" => HasOpen(Tail(q))
  <1>1. PICK n \in Nat : n = Len(q) - 1 /\ DOMAIN q = 1 .. n + 1
    OBVIOUS
  <1>2. DOMAIN Tail(q) = 1 .. n /\ \A i \in 1 .. n : Tail(q)[i] = q[i + 1]
    BY <1>1
  <1>3. Head(q) = q[1]
    OBVIOUS
  <1>4. \A j \in DOMAIN q : j > 1 => j - 1 \in DOMAIN Tail(q) /\ Tail(q)[j - 1] = q[j]
    BY <1>1, <1>2
  <1>5. ASSUME Corrected(q) PROVE Corrected(Tail(q))
    <2> SUFFICES ASSUME NEW i \in 1 .. n, Tail(q)[i].cb = "close"
                 PROVE  \E j \in 1 .. n : i < j /\ Tail(q)[j].cb = "open"
      BY <1>2 DEF Corrected
    <2>1. i + 1 \in DOMAIN q /\ q[i + 1].cb = "close"
      BY <1>1, <1>2
    <2>2. PICK j \in DOMAIN q : i + 1 < j /\ q[j].cb = "open"
      BY <1>5, <2>1 DEF Corrected
    <2>3. j - 1 \in 1 .. n /\ i < j - 1
      BY <1>1, <2>2
    <2> QED BY <1>1, <1>4, <2>2, <2>3
  <1>6. ASSUME Corrected(q), Head(q).cb = "close" PROVE HasOpen(Tail(q))
    <2>1. 1 \in DOMAIN q
      BY <1>1
    <2>2. PICK j \in DOMAIN q : 1 < j /\ q[j].cb = "open"
      BY <1>3, <1>6, <2>1 DEF Corrected
    <2> QED BY <1>4, <2>2 DEF HasOpen
  <1>7. ASSUME HasOpen(q), Head(q).cb # "open" PROVE HasOpen(Tail(q))
    <2>1. PICK j \in DOMAIN q : q[j].cb = "open"
      BY <1>7 DEF HasOpen
    <2>2. j > 1
      BY <1>1, <1>3, <1>7, <2>1
    <2> QED BY <1>4, <2>1, <2>2 DEF HasOpen
  <1> QED BY <1>5, <1>6, <1>7

\* Adding messages to a channel: neither Open nor Close among them, or an Open.
LEMMA AddedWords ==
    ASSUME NEW S, NEW q \in Seq(S), NEW r \in Seq(S)
    PROVE  /\ HasOpen(q) => HasOpen(q \o r)
           /\ HasOpen(r) => HasOpen(q \o r)
           /\ Corrected(q) /\ (\A i \in DOMAIN r : r[i].cb # "close") => Corrected(q \o r)
           /\ Len(r) = 1 /\ HasOpen(r) => Corrected(q \o r)
  <1>1. PICK n \in Nat, k \in Nat : n = Len(q) /\ k = Len(r) /\ DOMAIN q = 1 .. n /\ DOMAIN r = 1 .. k
    OBVIOUS
  <1>2. DOMAIN (q \o r) = 1 .. n + k
    BY <1>1
  <1>3. \A i \in 1 .. n : i \in DOMAIN (q \o r) /\ (q \o r)[i] = q[i]
    BY <1>1
  <1>4. \A i \in 1 .. k : n + i \in DOMAIN (q \o r) /\ (q \o r)[n + i] = r[i]
    BY <1>1
  <1>5. HasOpen(q) => HasOpen(q \o r)
    BY <1>1, <1>3 DEF HasOpen
  <1>6. HasOpen(r) => HasOpen(q \o r)
    BY <1>1, <1>4 DEF HasOpen
  <1>7. ASSUME Corrected(q), \A i \in DOMAIN r : r[i].cb # "close" PROVE Corrected(q \o r)
    <2> SUFFICES ASSUME NEW i \in 1 .. n + k, (q \o r)[i].cb = "close"
                 PROVE  \E j \in DOMAIN (q \o r) : i < j /\ (q \o r)[j].cb = "open"
      BY <1>2 DEF Corrected
    <2>1. i \in 1 .. n
      <3>1. SUFFICES ASSUME i > n PROVE FALSE
        BY <1>1
      <3>2. i - n \in 1 .. k /\ i = n + (i - n)
        BY <1>1, <3>1
      <3>3. (q \o r)[i] = r[i - n]
        BY <1>4, <3>2
      <3> QED BY <1>1, <1>7, <3>2, <3>3
    <2>2. PICK j \in DOMAIN q : i < j /\ q[j].cb = "open"
      BY <1>1, <1>3, <1>7, <2>1 DEF Corrected
    <2> QED BY <1>1, <1>3, <2>2
  <1>8. ASSUME Len(r) = 1, HasOpen(r) PROVE Corrected(q \o r)
    <2>1. k = 1 /\ r[1].cb = "open"
      BY <1>1, <1>8 DEF HasOpen
    <2>2. n + 1 \in DOMAIN (q \o r) /\ (q \o r)[n + 1].cb = "open"
      BY <1>4, <2>1
    <2> SUFFICES ASSUME NEW i \in 1 .. n + 1, (q \o r)[i].cb = "close"
                 PROVE  i < n + 1
      BY <1>2, <2>1, <2>2 DEF Corrected
    <2>3. "open" # "close"
      OBVIOUS
    <2>4. i # n + 1
      BY <2>2, <2>3
    <2> QED BY <1>1, <2>4
  <1> QED BY <1>5, <1>6, <1>7, <1>8

\* An empty channel, and one with a single message.
LEMMA FewWords ==
    /\ Corrected(<<>>) /\ ~HasOpen(<<>>)
    /\ \A m : m.cb = "open" => HasOpen(<<m>>) /\ Len(<<m>>) = 1
    /\ \A m : m.cb # "close" => \A i \in DOMAIN <<m>> : <<m>>[i].cb # "close"
  BY DEF Corrected, HasOpen

\* A step of pipeline or sink n keeps the argument: the others keep what they
\* have to pass on; if n gives away its last correction, all it passes to have
\* got it; and if it hands a Close to x, it keeps a correction or was not settled
\* itself.
LEMMA HandOver ==
    ASSUME CorrectionsCome, UNCHANGED plan, NEW n \in Nodes,
           \A m \in Nodes : m # n /\ Calling(m) => Calling(m)',
           Calling(n) => \/ Calling(n)'
                         \/ \A y \in PassesTo(n) : /\ y \in Senders => Settled(y)'
                                                   /\ y \in Pipes => Calling(y)',
           \A x \in Senders : Settled(x) =>
              \/ Settled(x)'
              \/ x \in PassesTo(n) /\ (Calling(n)' \/ (n \in Pipes /\ ~Settled(n)))
    PROVE  CorrectionsCome'
  <1>1. \A m : PassesTo(m)' = PassesTo(m)
    BY DEF PassesTo, Inputs, SinkPipes
  <1>2. \A x : Feeders(x)' = Feeders(x)
    BY <1>1 DEF Feeders
  <1>3. \A Z : ClosedUp(Z)' <=> ClosedUp(Z)
    BY <1>2 DEF ClosedUp
  <1> SUFFICES ASSUME NEW x \in Senders, NEW Z \in SUBSET Nodes,
                      ClosedUp(Z), Feeders(x) \subseteq Z, ~Settled(x)'
               PROVE  \E m \in Z : Calling(m)'
    BY <1>2, <1>3 DEF CorrectionsCome
  <1>4. ASSUME NEW m \in Z, Calling(m) PROVE \E k \in Z : Calling(k)'
    <2>1. CASE m # n \/ Calling(n)'
      BY <1>4, <2>1
    <2>2. CASE m = n /\ ~Calling(n)'
      <3>1. \A y \in PassesTo(n) : (y \in Senders => Settled(y)') /\ (y \in Pipes => Calling(y)')
        BY <1>4, <2>2
      <3>2. x \notin PassesTo(n)
        BY <3>1
      <3>3. CASE \E y \in PassesTo(n) : y \in Z /\ y \in Pipes
        BY <3>1, <3>3
      <3>4. CASE \A y \in PassesTo(n) : y \in Z => y \notin Pipes
        <4>1. Feeders(x) \subseteq Z \ {n}
          BY <3>2 DEF Feeders
        <4>2. ClosedUp(Z \ {n})
          BY <3>4 DEF ClosedUp, Feeders
        <4>3. Settled(x) \/ \E k \in Z \ {n} : Calling(k)
          BY <4>1, <4>2 DEF CorrectionsCome
        <4>4. ~Settled(x)
          BY <3>2
        <4> QED BY <4>3, <4>4
      <3> QED BY <3>3, <3>4
    <2> QED BY <2>1, <2>2
  <1>5. CASE ~Settled(x)
    BY <1>4, <1>5 DEF CorrectionsCome
  <1>6. CASE Settled(x)
    <2>1. x \in PassesTo(n) /\ (Calling(n)' \/ (n \in Pipes /\ ~Settled(n)))
      BY <1>6
    <2>2. n \in Z
      BY <2>1 DEF Feeders
    <2>3. CASE Calling(n)'
      BY <2>2, <2>3
    <2>4. CASE n \in Pipes /\ ~Settled(n)
      <3>1. Feeders(n) \subseteq Z /\ n \in Senders
        BY <2>2, <2>4 DEF ClosedUp, Senders
      <3> QED BY <1>4, <2>4, <3>1 DEF CorrectionsCome
    <2> QED BY <2>1, <2>3, <2>4
  <1> QED BY <1>5, <1>6

\* A step after which everyone is as settled and calls as much as before.
LEMMA NothingLost ==
    ASSUME CorrectionsCome, UNCHANGED plan,
           \A m \in Nodes : Calling(m) => Calling(m)',
           \A x \in Senders : Settled(x) => Settled(x)'
    PROVE  CorrectionsCome'
  <1>1. \A m : PassesTo(m)' = PassesTo(m)
    BY DEF PassesTo, Inputs, SinkPipes
  <1>2. \A x : Feeders(x)' = Feeders(x)
    BY <1>1 DEF Feeders
  <1>3. \A Z : ClosedUp(Z)' <=> ClosedUp(Z)
    BY <1>2 DEF ClosedUp
  <1> QED BY <1>2, <1>3 DEF CorrectionsCome

\* Nobody believes in a Close at the start.
LEMMA BreakerInit == Init => BreakerInv
  <1> SUFFICES ASSUME Init PROVE BreakerInv
    OBVIOUS
  <1>1. RepliesUsed /\ RepliesCorrected
    BY FewWords DEF Init, RepliesUsed, RepliesCorrected
  <1>2. \A x \in Senders : Settled(x)
    BY FewWords DEF Init, Settled
  <1> QED BY <1>1, <1>2 DEF Init, BreakerInv, CorrectionsCome

\* Sends, looks, ticks and drops: the invariant does not speak of them.
LEMMA BreakerUntouched ==
    ASSUME BreakerInv,
           UNCHANGED <<cf, onramp, replies, pending, triggered, plan, up, lastcb>>
    PROVE  BreakerInv'
  <1>1. RepliesUsed'
    BY DEF BreakerInv, RepliesUsed
  <1>2. CorrectionsCome => CorrectionsCome'
    <2> SUFFICES ASSUME CorrectionsCome PROVE CorrectionsCome'
      OBVIOUS
    <2> QED BY NothingLost DEF Calling, Settled
  <1>3. RepliesCorrected => RepliesCorrected'
    BY DEF RepliesCorrected
  <1> QED BY <1>1, <1>2, <1>3 DEF BreakerInv

\* A stopped offramp ends the promise: its pipelines may keep its last Close.
LEMMA BreakerSinkStop == ASSUME NEW s \in Sinks, KnownInv, BreakerInv, SinkStop(s) PROVE BreakerInv'
  <1>1. up' # Sinks
    BY DEF SinkStop
  <1>2. RepliesUsed'
    BY DEF SinkStop, BreakerInv, RepliesUsed, KnownInv, KnownChannels, WorkersKnow
  <1> QED BY <1>1, <1>2 DEF SinkStop, BreakerInv, history

\* handle_pipelines: the flag follows the last word, and the channel has the rest.
LEMMA BreakerSrcHandle == ASSUME KnownInv, BreakerInv, SrcHandle PROVE BreakerInv'
  <1> USE DEF SrcHandle
  <1>1. onramp \in Seq(Known) /\ onramp # <<>>
    BY DEF KnownInv, KnownChannels
  <1>2. PICK i \in Known : i = Head(onramp)
    BY <1>1
  <1>3. Src \notin Pipes
    BY FlowAssumption
  <1>4. \A b \in Breaker : b.cb = "open" \/ b.cb = "close"
    BY DEF Breaker
  <1>5. Settled(Src) => Settled(Src)'
    <2> SUFFICES ASSUME Corrected(onramp), triggered => HasOpen(onramp)
                 PROVE  Corrected(Tail(onramp)) /\ (triggered' => HasOpen(Tail(onramp)))
      BY <1>3 DEF Settled
    <2>1. Corrected(Tail(onramp))
      BY <1>1, TakenWords
    <2>2. CASE i.cb = "close"
      BY <1>1, <1>2, <2>1, <2>2, TakenWords
    <2>3. CASE i.cb = "open"
      <3>1. i \in Breaker
        BY <2>3 DEF Known, KnownInv, KnownChannels, Verdicts
      <3> QED BY <1>2, <2>1, <2>3, <3>1 DEF BreakerAfter
    <2>4. CASE i.cb # "open" /\ i.cb # "close"
      <3>1. triggered' = triggered
        BY <1>2, <1>4, <2>4 DEF BreakerAfter
      <3> QED BY <1>1, <1>2, <2>1, <2>4, <3>1, TakenWords
    <2> QED BY <2>2, <2>3, <2>4
  <1>6. \A x \in Senders : Settled(x) => Settled(x)'
    BY <1>3, <1>5 DEF Settled, Senders
  <1>7. \A m \in Nodes : Calling(m) => Calling(m)'
    BY DEF Calling
  <1>8. CorrectionsCome => CorrectionsCome'
    BY <1>6, <1>7, NothingLost
  <1>9. RepliesUsed' /\ (RepliesCorrected => RepliesCorrected')
    BY DEF BreakerInv, RepliesUsed, RepliesCorrected
  <1> QED BY <1>8, <1>9 DEF BreakerInv

\* The verdict of a worker is neither Open nor Close.
LEMMA BreakerWorkerAnswer ==
    ASSUME NEW s \in Sinks, KnownInv, BreakerInv, WorkerAnswer(s)
    PROVE  BreakerInv'
  <1>1. PICK e \in pending[s], ok \in BOOLEAN :
           /\ replies' = [replies EXCEPT ![s] = Append(@, Verdict(ok, e))]
           /\ pending' = [pending EXCEPT ![s] = @ \ {e}]
    BY DEF WorkerAnswer
  <1>2. UNCHANGED <<cf, onramp, triggered, plan, up, lastcb>>
    BY DEF WorkerAnswer
  <1>3. replies \in [Sinks -> Seq(Known)] /\ pending \in [Sinks -> SUBSET Events]
    BY DEF KnownInv, KnownChannels, WorkersKnow
  <1>4. PICK v : v = Verdict(ok, e)
    OBVIOUS
  <1>5. v.cb # "open" /\ v.cb # "close"
    BY <1>4 DEF Verdict
  <1>6. PICK S : S = Known \union {v}
    OBVIOUS
  <1>7. replies[s] \in Seq(S) /\ <<v>> \in Seq(S)
    BY <1>3, <1>6, SeqMono
  <1>8. replies'[s] = replies[s] \o <<v>> /\ \A t \in Sinks : t # s => replies'[t] = replies[t]
    <2>1. Append(replies[s], v) = replies[s] \o <<v>>
      BY <1>7
    <2> QED BY <1>1, <1>3, <1>4, <2>1
  <1>9. /\ HasOpen(replies[s]) => HasOpen(replies'[s])
        /\ Corrected(replies[s]) => Corrected(replies'[s])
    BY <1>5, <1>7, <1>8, AddedWords, FewWords
  <1>10. \A m \in Nodes : Calling(m) => Calling(m)'
    BY <1>2, <1>8, <1>9 DEF Calling, Nodes
  <1>11. \A x \in Senders : Settled(x) => Settled(x)'
    BY <1>2 DEF Settled
  <1>12. CorrectionsCome => CorrectionsCome'
    BY <1>2, <1>10, <1>11, NothingLost
  <1>13. RepliesCorrected => RepliesCorrected'
    BY <1>2, <1>8, <1>9 DEF RepliesCorrected
  <1>14. RepliesUsed'
    <2>1. plan.kind[s] = "async"
      BY DEF BreakerInv, RepliesUsed
    <2>2. \A t \in Sinks : t # s => pending'[t] = pending[t]
      BY <1>1, <1>3
    <2> QED BY <1>2, <1>8, <2>1, <2>2 DEF BreakerInv, RepliesUsed
  <1> QED BY <1>2, <1>12, <1>13, <1>14 DEF BreakerInv

\* handle_insight: a pipeline passes the word on to all its inputs at once.
LEMMA BreakerPipeInsight ==
    ASSUME NEW p \in Pipes, KnownInv, BreakerInv, PipeInsight(p)
    PROVE  BreakerInv'
  <1>1. UNCHANGED <<replies, pending, triggered, plan, up, lastcb>> /\ cf[p] # <<>>
    BY DEF PipeInsight, history
  <1>2. cf \in [Pipes -> Seq(Known)] /\ onramp \in Seq(Known)
    BY DEF KnownInv, KnownChannels
  <1>3. PICK i \in Known, t \in Seq(Known) : i = Head(cf[p]) /\ t = Tail(cf[p])
    <2>1. Head(cf[p]) \in Known /\ Tail(cf[p]) \in Seq(Known)
      BY <1>1, <1>2, SeqTake
    <2> QED BY <2>1
  <1>4. <<i>> \in Seq(Known)
    BY <1>3
  <1>5. Src \notin Pipes
    BY FlowAssumption
  <1>6. /\ \A y \in Pipes : y # p => cf'[y] = IF y \in Inputs(p) THEN cf[y] \o <<i>> ELSE cf[y]
        /\ cf'[p] = IF p \in Inputs(p) THEN t \o <<i>> ELSE t
    <2>1. cf' = [ForwardInsight(p, i) EXCEPT ![p] = Tail(@)]
      BY <1>3 DEF PipeInsight
    <2>2. Tail(cf[p] \o <<i>>) = t \o <<i>>
      BY <1>1, <1>2, <1>3, <1>4
    <2> QED BY <1>3, <2>1, <2>2 DEF ForwardInsight, CfAppend
  <1>7. onramp' = IF Src \in Inputs(p) THEN onramp \o <<i>> ELSE onramp
    <2>1. Append(onramp, i) = onramp \o <<i>>
      BY <1>2, <1>3
    <2> QED BY <1>3, <2>1 DEF PipeInsight
  <1>8. \A y \in Pipes : y # p => (HasOpen(cf[y]) => HasOpen(cf'[y]))
    <2>1. \A q \in Seq(Known) : HasOpen(q) => HasOpen(q \o <<i>>)
      BY <1>4, AddedWords
    <2> QED BY <1>2, <1>6, <2>1
  <1>9. HasOpen(t) => HasOpen(cf'[p])
    BY <1>3, <1>4, <1>6, AddedWords
  <1>10. ASSUME i.cb = "open"
         PROVE  /\ \A y \in Pipes : y \in Inputs(p) => HasOpen(cf'[y]) /\ Corrected(cf'[y])
                /\ Src \in Inputs(p) => HasOpen(onramp') /\ Corrected(onramp')
    <2>1. HasOpen(<<i>>) /\ Len(<<i>>) = 1
      BY <1>10, FewWords
    <2>2. \A q \in Seq(Known) : HasOpen(q \o <<i>>) /\ Corrected(q \o <<i>>)
      BY <1>4, <2>1, AddedWords
    <2> QED BY <1>2, <1>3, <1>6, <1>7, <2>2
  <1>11. ASSUME i.cb # "close"
         PROVE  /\ \A y \in Pipes : Corrected(cf[y]) => Corrected(cf'[y])
                /\ Corrected(onramp) => Corrected(onramp')
    <2>1. \A q \in Seq(Known) : Corrected(q) => Corrected(q \o <<i>>)
      BY <1>4, <1>11, AddedWords, FewWords
    <2>2. Corrected(cf[p]) => Corrected(t)
      BY <1>1, <1>2, <1>3, TakenWords
    <2> QED BY <1>2, <1>3, <1>6, <1>7, <2>1, <2>2
  <1>12. HasOpen(onramp) => HasOpen(onramp')
    BY <1>2, <1>4, <1>7, AddedWords
  <1>13. PassesTo(p) = Inputs(p) /\ Inputs(p) \subseteq Senders
    BY DEF PassesTo, Inputs
  <1>14. CorrectionsCome => CorrectionsCome'
    <2> SUFFICES ASSUME CorrectionsCome PROVE CorrectionsCome'
      OBVIOUS
    <2>1. \A m \in Nodes : m # p /\ Calling(m) => Calling(m)'
      BY <1>1, <1>8 DEF Calling, Nodes
    <2>2. Calling(p) => \/ Calling(p)'
                        \/ \A y \in PassesTo(p) : /\ y \in Senders => Settled(y)'
                                                  /\ y \in Pipes => Calling(y)'
      <3>1. CASE i.cb = "open"
        BY <1>5, <1>10, <1>13, <3>1 DEF Settled, Calling, Senders
      <3>2. CASE i.cb # "open"
        <4>1. HasOpen(cf[p]) => HasOpen(t)
          BY <1>1, <1>2, <1>3, <3>2, TakenWords
        <4> QED BY <1>9, <4>1 DEF Calling
      <3> QED BY <3>1, <3>2
    <2>3. \A x \in Senders : Settled(x) =>
             \/ Settled(x)'
             \/ x \in PassesTo(p) /\ (Calling(p)' \/ (p \in Pipes /\ ~Settled(p)))
      <3>1. CASE i.cb # "close"
        BY <1>1, <1>5, <1>11, <1>12, <3>1 DEF Settled, Senders
      <3>2. CASE i.cb = "close"
        <4>1. Corrected(cf[p]) => HasOpen(t) /\ Corrected(t)
          BY <1>1, <1>2, <1>3, <3>2, TakenWords
        <4>2. Settled(p) => Calling(p)'
          BY <1>9, <4>1 DEF Settled, Calling
        <4>3. ASSUME NEW x \in Senders, x \notin Inputs(p), Settled(x) PROVE Settled(x)'
          BY <1>1, <1>5, <1>6, <1>7, <4>1, <4>3 DEF Settled, Senders
        <4> QED BY <1>13, <4>2, <4>3
      <3> QED BY <3>1, <3>2
    <2> QED BY <1>1, <2>1, <2>2, <2>3, HandOver DEF Nodes
  <1>15. RepliesUsed' /\ (RepliesCorrected => RepliesCorrected')
    BY <1>1 DEF BreakerInv, RepliesUsed, RepliesCorrected
  <1> QED BY <1>1, <1>14, <1>15 DEF BreakerInv

\* What a sink sends to its pipelines directly: nothing about its breaker; Close,
\* which is then its last word; or Open, which all its pipelines get at once.
LEMMA SinkSays ==
    ASSUME NEW s \in Sinks, NEW S, cf \in [Pipes -> Seq(S)], NEW is \in Seq(S),
           cf' = CfAppend(SinkPipes(s), is), UNCHANGED <<onramp, triggered, plan>>,
           CorrectionsCome,
           \A t \in Sinks : t # s => replies'[t] = replies[t] /\ lastcb'[t] = lastcb[t],
           HasOpen(replies[s]) => HasOpen(replies'[s]),
           \/ /\ \A j \in DOMAIN is : is[j].cb # "close"
              /\ lastcb[s] = "close" => HasOpen(replies'[s]) \/ lastcb'[s] = "close"
           \/ lastcb'[s] = "close"
           \/ Len(is) = 1 /\ HasOpen(is) /\ replies[s] = <<>>
    PROVE  CorrectionsCome'
  <1>1. Pipes \intersect Sinks = {} /\ Src \notin Pipes
    BY FlowAssumption
  <1>2. \A y \in Pipes : cf'[y] = IF y \in SinkPipes(s) THEN cf[y] \o is ELSE cf[y]
    BY DEF CfAppend
  <1>3. \A q \in Seq(S) : HasOpen(q) => HasOpen(q \o is)
    BY AddedWords
  <1>4. \A y \in Pipes : HasOpen(cf[y]) => HasOpen(cf'[y])
    BY <1>2, <1>3
  <1>5. PassesTo(s) = SinkPipes(s) /\ SinkPipes(s) \subseteq Pipes
    BY <1>1 DEF PassesTo, SinkPipes
  <1>6. s \in Nodes /\ s \notin Pipes
    BY <1>1 DEF Nodes
  <1>7. \A m \in Nodes : m # s /\ Calling(m) => Calling(m)'
    BY <1>4 DEF Calling, Nodes
  <1>8. \A x \in Senders : x \notin PassesTo(s) /\ Settled(x) => Settled(x)'
    BY <1>2, <1>5 DEF Settled
  <1>9. CASE /\ \A j \in DOMAIN is : is[j].cb # "close"
             /\ lastcb[s] = "close" => HasOpen(replies'[s]) \/ lastcb'[s] = "close"
    <2>1. \A q \in Seq(S) : Corrected(q) => Corrected(q \o is)
      BY <1>9, AddedWords
    <2>2. \A x \in Senders : Settled(x) => Settled(x)'
      BY <1>2, <2>1 DEF Settled
    <2>3. Calling(s) => Calling(s)'
      BY <1>6, <1>9 DEF Calling
    <2> QED BY <1>7, <2>2, <2>3, NothingLost
  <1>10. CASE lastcb'[s] = "close"
    <2>1. Calling(s)'
      BY <1>6, <1>10 DEF Calling
    <2> QED BY <1>6, <1>7, <1>8, <2>1, HandOver
  <1>11. CASE Len(is) = 1 /\ HasOpen(is) /\ replies[s] = <<>>
    <2>1. \A q \in Seq(S) : HasOpen(q \o is) /\ Corrected(q \o is)
      BY <1>11, AddedWords
    <2>2. \A y \in PassesTo(s) : Settled(y)' /\ Calling(y)'
      BY <1>2, <1>5, <2>1 DEF Settled, Calling
    <2>3. \A x \in Senders : Settled(x) => Settled(x)'
      BY <1>8, <2>2
    <2> QED BY <1>6, <1>7, <2>2, <2>3, HandOver
  <1> QED BY <1>9, <1>10, <1>11

\* offramp_task passes a word of the worker on to all the pipelines of the sink.
LEMMA BreakerSinkReply ==
    ASSUME NEW s \in Sinks, KnownInv, BreakerInv, SinkReply(s)
    PROVE  BreakerInv'
  <1>1. UNCHANGED <<onramp, pending, triggered, plan, up, lastcb>> /\ replies[s] # <<>>
    BY DEF SinkReply, history
  <1>2. cf \in [Pipes -> Seq(Known)] /\ replies \in [Sinks -> Seq(Known)]
    BY DEF KnownInv, KnownChannels
  <1>3. PICK i \in Known, t \in Seq(Known) : i = Head(replies[s]) /\ t = Tail(replies[s])
    <2>1. Head(replies[s]) \in Known /\ Tail(replies[s]) \in Seq(Known)
      BY <1>1, <1>2, SeqTake
    <2> QED BY <2>1
  <1>4. <<i>> \in Seq(Known)
    BY <1>3
  <1>5. cf' = CfAppend(SinkPipes(s), <<i>>)
    BY <1>3 DEF SinkReply
  <1>6. replies'[s] = t /\ \A r \in Sinks : r # s => replies'[r] = replies[r]
    BY <1>2, <1>3 DEF SinkReply
  <1>7. Pipes \intersect Sinks = {} /\ Src \notin Pipes
    BY FlowAssumption
  <1>8. \A y \in Pipes : cf'[y] = IF y \in SinkPipes(s) THEN cf[y] \o <<i>> ELSE cf[y]
    BY <1>5 DEF CfAppend
  <1>9. \A y \in Pipes : HasOpen(cf[y]) => HasOpen(cf'[y])
    <2>1. \A q \in Seq(Known) : HasOpen(q) => HasOpen(q \o <<i>>)
      BY <1>4, AddedWords
    <2> QED BY <1>2, <1>8, <2>1
  <1>10. PassesTo(s) = SinkPipes(s) /\ SinkPipes(s) \subseteq Pipes
    BY <1>7 DEF PassesTo, SinkPipes
  <1>11. s \in Nodes /\ s \notin Pipes
    BY <1>7 DEF Nodes
  <1>12. \A m \in Nodes : m # s /\ Calling(m) => Calling(m)'
    BY <1>1, <1>6, <1>9 DEF Calling, Nodes
  <1>13. \A x \in Senders : x \notin PassesTo(s) /\ Settled(x) => Settled(x)'
    BY <1>1, <1>8, <1>10 DEF Settled
  <1>14. /\ Corrected(replies[s]) => Corrected(t)
         /\ Corrected(replies[s]) /\ i.cb = "close" => HasOpen(t)
         /\ HasOpen(replies[s]) /\ i.cb # "open" => HasOpen(t)
    BY <1>1, <1>2, <1>3, TakenWords
  <1>15. ASSUME CorrectionsCome, RepliesCorrected PROVE CorrectionsCome'
    <2>1. CASE i.cb = "open"
      <3>1. HasOpen(<<i>>) /\ Len(<<i>>) = 1
        BY <2>1, FewWords
      <3>2. \A q \in Seq(Known) : HasOpen(q \o <<i>>) /\ Corrected(q \o <<i>>)
        BY <1>4, <3>1, AddedWords
      <3>3. \A y \in PassesTo(s) : Settled(y)' /\ Calling(y)'
        BY <1>2, <1>8, <1>10, <3>2 DEF Settled, Calling
      <3>4. \A x \in Senders : Settled(x) => Settled(x)'
        BY <1>13, <3>3
      <3> QED BY <1>1, <1>11, <1>12, <1>15, <3>3, <3>4, HandOver
    <2>2. CASE i.cb = "close"
      <3>1. Calling(s)'
        BY <1>1, <1>6, <1>11, <1>14, <1>15, <2>2 DEF Calling, RepliesCorrected
      <3> QED BY <1>1, <1>11, <1>12, <1>13, <1>15, <3>1, HandOver
    <2>3. CASE i.cb # "open" /\ i.cb # "close"
      <3>1. \A q \in Seq(Known) : Corrected(q) => Corrected(q \o <<i>>)
        BY <1>4, <2>3, AddedWords, FewWords
      <3>2. \A x \in Senders : Settled(x) => Settled(x)'
        BY <1>1, <1>2, <1>8, <3>1 DEF Settled
      <3>3. Calling(s) => Calling(s)'
        BY <1>1, <1>6, <1>11, <1>14, <2>3 DEF Calling
      <3> QED BY <1>1, <1>12, <1>15, <3>2, <3>3, NothingLost
    <2> QED BY <2>1, <2>2, <2>3
  <1>16. RepliesCorrected => RepliesCorrected'
    BY <1>1, <1>6, <1>14 DEF RepliesCorrected
  <1>17. RepliesUsed'
    BY <1>1, <1>6 DEF BreakerInv, RepliesUsed
  <1> QED BY <1>1, <1>15, <1>16, <1>17 DEF BreakerInv

\* The words of the two breaker messages.
LEMMA BreakerWords ==
    /\ BreakerMsg(TRUE).cb = "open" /\ BreakerMsg(FALSE).cb = "close"
    /\ \A ok \in BOOLEAN : BreakerMsg(ok) \in Breaker
  BY DEF BreakerMsg, Breaker

\* A ws sink that learns of its connection says so in the reply channel; the others
\* have no news, and their last word is what they send to the pipelines.
LEMMA SinkNews ==
    ASSUME NEW s \in Sinks, NEW S, Breaker \subseteq S, replies \in [Sinks -> Seq(S)],
           lastcb \in [Sinks -> {"open", "close"}],
           NEW news \in Lifecycle(s), NEW bs, plan.kind[s] = "async" => bs = <<>>,
           bs = <<>> \/ \E ok \in BOOLEAN : bs = <<BreakerMsg(ok)>>,
           replies' = [replies EXCEPT ![s] = @ \o news],
           lastcb' = LastCb(s, news \o bs)
    PROVE  /\ \A t \in Sinks : t # s => replies'[t] = replies[t] /\ lastcb'[t] = lastcb[t]
           /\ HasOpen(replies[s]) => HasOpen(replies'[s])
           /\ bs = <<>> /\ lastcb[s] = "close" => HasOpen(replies'[s]) \/ lastcb'[s] = "close"
           /\ bs # <<>> => replies'[s] = replies[s] /\ lastcb'[s] = bs[1].cb
           /\ bs = <<>> /\ (Corrected(replies[s]) \/ lastcb[s] = "close")
                => Corrected(replies'[s]) \/ lastcb'[s] = "close"
           /\ plan.kind[s] # "async" => replies'[s] = replies[s]
           /\ lastcb' \in [Sinks -> {"open", "close"}]
  <1>1. PICK close \in BOOLEAN : close = (lastcb[s] = "close")
    OBVIOUS
  <1>2. news = <<>> \/ (plan.kind[s] = "async" /\ news = <<BreakerMsg(close)>>)
    BY <1>1 DEF Lifecycle
  <1>3. \A ok \in BOOLEAN : BreakerMsg(ok).cb \in {"open", "close"}
    BY BreakerWords
  <1>4. \A t \in Sinks : t # s => replies'[t] = replies[t]
    OBVIOUS
  <1>5. replies[s] \in Seq(S)
    OBVIOUS
  <1>6. CASE news = <<>>
    <2>1. replies'[s] = replies[s]
      BY <1>5, <1>6
    <2>2. news \o bs = bs
      BY <1>6
    <2>3. CASE bs = <<>>
      BY <1>4, <2>1, <2>2, <2>3 DEF LastCb
    <2>4. CASE bs # <<>>
      <3>1. PICK ok \in BOOLEAN : bs = <<BreakerMsg(ok)>>
        BY <2>4
      <3>2. lastcb' = [lastcb EXCEPT ![s] = BreakerMsg(ok).cb] /\ bs[1] = BreakerMsg(ok)
        BY <2>2, <3>1 DEF LastCb
      <3> QED BY <1>3, <1>4, <2>1, <2>4, <3>1, <3>2
    <2> QED BY <2>3, <2>4
  <1>7. CASE plan.kind[s] = "async" /\ news = <<BreakerMsg(close)>>
    <2>1. bs = <<>> /\ news \o bs = news /\ news \in Seq(S)
      BY <1>7, BreakerWords
    <2>2. lastcb' = [lastcb EXCEPT ![s] = BreakerMsg(close).cb]
      BY <1>7, <2>1 DEF LastCb
    <2>3. replies'[s] = replies[s] \o news
      OBVIOUS
    <2>4. HasOpen(replies[s]) => HasOpen(replies'[s])
      BY <1>5, <2>1, <2>3, AddedWords
    <2>5. /\ lastcb[s] = "close" => HasOpen(replies'[s])
          /\ Corrected(replies'[s]) \/ lastcb'[s] = "close"
      <3>1. CASE close
        <4>1. HasOpen(news) /\ Len(news) = 1
          BY <1>7, <3>1, FewWords, BreakerWords
        <4> QED BY <1>5, <2>1, <2>3, <4>1, AddedWords
      <3>2. CASE ~close
        <4>1. lastcb'[s] = "close"
          BY <2>2, <3>2, BreakerWords
        <4> QED BY <1>1, <3>2, <4>1
      <3> QED BY <3>1, <3>2
    <2>6. /\ lastcb' \in [Sinks -> {"open", "close"}]
          /\ \A t \in Sinks : t # s => lastcb'[t] = lastcb[t]
      BY <1>3, <2>2
    <2> QED BY <1>4, <1>7, <2>1, <2>4, <2>5, <2>6
  <1> QED BY <1>2, <1>6, <1>7

\* on_signal: a tcp sink says how its reconnecting went, a ws sink has news.
LEMMA BreakerSinkTick ==
    ASSUME NEW s \in Sinks, KnownInv, BreakerInv, SinkTick(s)
    PROVE  BreakerInv'
  <1> DEFINE Back(ok) == IF plan.kind[s] = "tcp" /\ s \notin stream
                           THEN <<BreakerMsg(ok)>> ELSE <<>>
  <1>1. PICK ok \in BOOLEAN, news \in Lifecycle(s) :
           /\ cf' = CfAppend(SinkPipes(s), Back(ok))
           /\ replies' = [replies EXCEPT ![s] = @ \o news]
           /\ lastcb' = LastCb(s, news \o Back(ok))
    BY DEF SinkTick
  <1>2. UNCHANGED <<onramp, pending, triggered, plan, up>>
    BY DEF SinkTick
  <1>3. PICK bs : bs = Back(ok)
    OBVIOUS
  <1>4. bs = <<>> \/ (plan.kind[s] = "tcp" /\ bs = <<BreakerMsg(ok)>>)
    BY <1>3
  <1>5. cf' = CfAppend(SinkPipes(s), bs) /\ lastcb' = LastCb(s, news \o bs)
    BY <1>1, <1>3
  <1> HIDE DEF Back
  <1>6. cf \in [Pipes -> Seq(Known)] /\ replies \in [Sinks -> Seq(Known)] /\ Breaker \subseteq Known
    BY DEF KnownInv, KnownChannels, Known
  <1>7. bs \in Seq(Known)
    BY <1>4, <1>6, BreakerWords, SeqSmall
  <1>8. plan.kind[s] = "async" => bs = <<>>
    BY <1>4
  <1>9. bs = <<>> \/ \E k \in BOOLEAN : bs = <<BreakerMsg(k)>>
    BY <1>4
  <1>10. lastcb \in [Sinks -> {"open", "close"}]
    BY DEF BreakerInv
  <1>11. /\ \A t \in Sinks : t # s => replies'[t] = replies[t] /\ lastcb'[t] = lastcb[t]
         /\ HasOpen(replies[s]) => HasOpen(replies'[s])
         /\ bs = <<>> /\ lastcb[s] = "close" => HasOpen(replies'[s]) \/ lastcb'[s] = "close"
         /\ bs # <<>> => replies'[s] = replies[s] /\ lastcb'[s] = bs[1].cb
         /\ bs = <<>> /\ (Corrected(replies[s]) \/ lastcb[s] = "close")
              => Corrected(replies'[s]) \/ lastcb'[s] = "close"
         /\ plan.kind[s] # "async" => replies'[s] = replies[s]
         /\ lastcb' \in [Sinks -> {"open", "close"}]
    BY <1>1, <1>5, <1>6, <1>8, <1>9, <1>10, SinkNews
  <1>12. bs # <<>> => replies[s] = <<>>
    BY <1>4 DEF BreakerInv, RepliesUsed
  <1>13. ASSUME CorrectionsCome PROVE CorrectionsCome'
    <2>1. CASE bs = <<>>
      <3>1. \A j \in DOMAIN bs : bs[j].cb # "close"
        BY <2>1
      <3> QED BY <1>2, <1>5, <1>6, <1>7, <1>11, <1>13, <2>1, <3>1, SinkSays
    <2>2. CASE bs # <<>> /\ ok
      <3>1. Len(bs) = 1 /\ HasOpen(bs)
        BY <1>4, <2>2, BreakerWords, FewWords
      <3> QED BY <1>2, <1>5, <1>6, <1>7, <1>11, <1>12, <1>13, <2>2, <3>1, SinkSays
    <2>3. CASE bs # <<>> /\ ~ok
      <3>1. lastcb'[s] = "close"
        <4>1. ok = FALSE /\ bs = <<BreakerMsg(ok)>>
          BY <1>4, <2>3
        <4>2. bs[1] = BreakerMsg(FALSE)
          BY <4>1
        <4> QED BY <1>11, <2>3, <4>2, BreakerWords
      <3> QED BY <1>2, <1>5, <1>6, <1>7, <1>11, <1>13, <3>1, SinkSays
    <2> QED BY <2>1, <2>2, <2>3
  <1>14. RepliesCorrected => RepliesCorrected'
    <2>1. bs # <<>> => Corrected(replies'[s])
      BY <1>11, <1>12, FewWords
    <2> QED BY <1>11, <2>1 DEF RepliesCorrected
  <1>15. RepliesUsed'
    BY <1>2, <1>11 DEF BreakerInv, RepliesUsed
  <1> QED BY <1>2, <1>11, <1>13, <1>14, <1>15 DEF BreakerInv

\* on_event: a tcp sink that loses its connection says Close behind its verdict.
LEMMA BreakerSinkEvent ==
    ASSUME NEW s \in Sinks, KnownInv, BreakerInv, SinkEvent(s)
    PROVE  BreakerInv'
  <1> DEFINE verdict(r, e) == IF VerdictDue(s, r) THEN <<Verdict(~Failed(s, r), e)>> ELSE <<>>
             First(r, e) == IF plan.kind[s] = "tcp" THEN <<Verdict(r = "ok", e)>> ELSE <<>>
             AllSaid(r, e) == (First(r, e) \o CloseOnIo(r)) \o verdict(r, e)
  <1>1. PICK r \in Results(s), news \in Lifecycle(s), e \in Events :
           /\ cf' = CfAppend(SinkPipes(s), AllSaid(r, e))
           /\ replies' = [replies EXCEPT ![s] = @ \o news]
           /\ lastcb' = LastCb(s, news \o CloseOnIo(r))
           /\ pending' = IF plan.kind[s] = "async" /\ r = "ok"
                           THEN [pending EXCEPT ![s] = @ \union {e}] ELSE pending
    BY DEF SinkEvent, OnEventReplies
  <1>2. UNCHANGED <<onramp, triggered, plan, up>>
    BY DEF SinkEvent
  <1>3. r = "io" => plan.kind[s] = "tcp"
    BY DEF Results
  <1>4. PICK bs : bs = CloseOnIo(r)
    OBVIOUS
  <1>5. bs = <<>> \/ (plan.kind[s] = "tcp" /\ bs = <<BreakerMsg(FALSE)>>)
    BY <1>3, <1>4 DEF CloseOnIo
  <1>6. PICK S : S = Known \union Reply(e)
    OBVIOUS
  <1>7. PICK v, w : v = First(r, e) /\ w = verdict(r, e)
    OBVIOUS
  <1>8. ASSUME NEW q, q = <<>> \/ \E ok \in BOOLEAN : q = <<Verdict(ok, e)>>
        PROVE  q \in Seq(S) /\ \A j \in DOMAIN q : q[j].cb # "close"
    <2>1. \A ok \in BOOLEAN : Verdict(ok, e) \in S /\ Verdict(ok, e).cb # "close"
      BY <1>6 DEF Reply, Verdict
    <2>2. ASSUME NEW m \in S, m.cb # "close", q = <<m>>
          PROVE  q \in Seq(S) /\ \A j \in DOMAIN q : q[j].cb # "close"
      BY <2>2
    <2>3. CASE q = <<>>
      BY <2>3
    <2> QED BY <1>8, <2>1, <2>2, <2>3
  <1>9. v \in Seq(S) /\ \A j \in DOMAIN v : v[j].cb # "close"
    <2>1. v = <<>> \/ \E ok \in BOOLEAN : v = <<Verdict(ok, e)>>
      BY <1>7
    <2> QED BY <1>8, <2>1
  <1>10. w \in Seq(S) /\ \A j \in DOMAIN w : w[j].cb # "close"
    <2>1. (~Failed(s, r)) \in BOOLEAN
      BY DEF Failed
    <2>2. w = <<>> \/ \E ok \in BOOLEAN : w = <<Verdict(ok, e)>>
      BY <1>7, <2>1
    <2> QED BY <1>8, <2>2
  <1>11. cf' = CfAppend(SinkPipes(s), (v \o bs) \o w) /\ lastcb' = LastCb(s, news \o bs)
    BY <1>1, <1>4, <1>7
  <1> HIDE DEF verdict, First, AllSaid
  <1>12. Known \subseteq S /\ Breaker \subseteq S
    BY <1>6 DEF Known
  <1>13. cf \in [Pipes -> Seq(S)] /\ replies \in [Sinks -> Seq(S)]
    BY <1>12, SeqMono DEF KnownInv, KnownChannels
  <1>14. bs \in Seq(S)
    BY <1>5, <1>12, BreakerWords, SeqSmall
  <1>15. PICK is \in Seq(S) : is = (v \o bs) \o w
    <2>1. v \o bs \in Seq(S)
      BY <1>9, <1>14, SeqJoin
    <2>2. (v \o bs) \o w \in Seq(S)
      BY <1>10, <2>1, SeqJoin
    <2> QED BY <2>2
  <1>16. bs = <<>> => \A j \in DOMAIN is : is[j].cb # "close"
    <2> SUFFICES ASSUME bs = <<>> PROVE \A j \in DOMAIN (v \o w) : (v \o w)[j].cb # "close"
      BY <1>9, <1>15
    <2> QED BY <1>9, <1>10
  <1>17. plan.kind[s] = "async" => bs = <<>>
    BY <1>5
  <1>18. bs = <<>> \/ \E k \in BOOLEAN : bs = <<BreakerMsg(k)>>
    BY <1>5
  <1>19. lastcb \in [Sinks -> {"open", "close"}]
    BY DEF BreakerInv
  <1>20. /\ \A t \in Sinks : t # s => replies'[t] = replies[t] /\ lastcb'[t] = lastcb[t]
         /\ HasOpen(replies[s]) => HasOpen(replies'[s])
         /\ bs = <<>> /\ lastcb[s] = "close" => HasOpen(replies'[s]) \/ lastcb'[s] = "close"
         /\ bs # <<>> => replies'[s] = replies[s] /\ lastcb'[s] = bs[1].cb
         /\ bs = <<>> /\ (Corrected(replies[s]) \/ lastcb[s] = "close")
              => Corrected(replies'[s]) \/ lastcb'[s] = "close"
         /\ plan.kind[s] # "async" => replies'[s] = replies[s]
         /\ lastcb' \in [Sinks -> {"open", "close"}]
    BY <1>1, <1>11, <1>12, <1>13, <1>17, <1>18, <1>19, SinkNews
  <1>21. bs # <<>> => lastcb'[s] = "close"
    <2> SUFFICES ASSUME bs # <<>> PROVE lastcb'[s] = "close"
      OBVIOUS
    <2>1. bs[1] = BreakerMsg(FALSE)
      <3>1. bs = <<BreakerMsg(FALSE)>>
        BY <1>5
      <3> QED BY <3>1
    <2> QED BY <1>20, <2>1, BreakerWords
  <1>22. CorrectionsCome => CorrectionsCome'
    BY <1>2, <1>11, <1>13, <1>15, <1>16, <1>20, <1>21, SinkSays
  <1>23. RepliesCorrected => RepliesCorrected'
    BY <1>20, <1>21 DEF RepliesCorrected
  <1>24. RepliesUsed'
    <2>1. \A t \in Sinks : plan.kind[t] # "async" => pending'[t] = pending[t]
      BY <1>1 DEF KnownInv, WorkersKnow
    <2> QED BY <1>2, <1>20, <2>1 DEF BreakerInv, RepliesUsed
  <1> QED BY <1>2, <1>20, <1>22, <1>23, <1>24 DEF BreakerInv

\* Every step keeps the argument.
LEMMA BreakerNext == KnownInv /\ BreakerInv /\ [Next]_vars => BreakerInv'
  <1> SUFFICES ASSUME KnownInv, BreakerInv, [Next]_vars PROVE BreakerInv'
    OBVIOUS
  <1>1. CASE SrcStep
    <2>1. CASE SrcPoll \/ SrcPull \/ SrcEmpty
      BY <2>1, BreakerUntouched DEF SrcPoll, SrcPull, SrcEmpty, channels, history
    <2> QED BY <1>1, <2>1, BreakerSrcHandle DEF SrcStep
  <1>2. CASE \E t \in Senders : Deliver(t)
    BY <1>2, BreakerUntouched DEF Deliver, history
  <1>3. CASE \E p \in Pipes : DeliverFails(p) \/ PipeTick(p)
    BY <1>3, BreakerUntouched DEF DeliverFails, PipeTick, history
  <1>4. CASE \E p \in Pipes : PipeStep(p)
    <2> PICK p \in Pipes : PipeStep(p)
      BY <1>4
    <2>1. CASE PipePoll(p) \/ PipeForward(p) \/ PipeDrop(p)
      BY <2>1, BreakerUntouched DEF PipePoll, PipeForward, PipeDrop, channels, history
    <2> QED BY <2>1, BreakerPipeInsight DEF PipeStep
  <1>5. CASE \E s \in Sinks : SinkStep(s)
    <2> PICK s \in Sinks : SinkStep(s)
      BY <1>5
    <2>1. CASE SinkPoll(s)
      BY <2>1, BreakerUntouched DEF SinkPoll, channels, history
    <2> QED BY <2>1, BreakerSinkReply, BreakerSinkEvent, BreakerSinkTick, BreakerSinkStop
            DEF SinkStep
  <1>6. CASE \E s \in Sinks : WorkerAnswer(s)
    BY <1>6, BreakerWorkerAnswer
  <1>7. CASE \E s \in Sinks : SendStop(s)
    BY <1>7, BreakerUntouched DEF SendStop, history
  <1>8. CASE UNCHANGED vars
    BY <1>8, BreakerUntouched DEF vars, channels, history
  <1> QED BY <1>1, <1>2, <1>3, <1>4, <1>5, <1>6, <1>7, <1>8 DEF Next

\* handle_pipelines, handle_insight, offramp_task: in every deployment, however its
\* ways meet, the source is not left closed when every sink's last word was Open
\* and all words have arrived.
THEOREM NeverLeftClosed == Spec => []ResumesWhenAllOpen
  <1>1. BreakerInv => ResumesWhenAllOpen
    <2> SUFFICES ASSUME BreakerInv, Quiet, up = Sinks, \A s \in Sinks : lastcb[s] = "open",
                        triggered
                 PROVE  FALSE
      BY DEF ResumesWhenAllOpen
    <2>1. Src \notin Pipes
      BY FlowAssumption
    <2>2. ~Settled(Src)
      BY <2>1, FewWords DEF Settled, Quiet
    <2>3. \A n \in Nodes : ~Calling(n)
      BY FewWords DEF Calling, Nodes, Quiet
    <2>4. ClosedUp(Nodes) /\ Feeders(Src) \subseteq Nodes
      BY DEF ClosedUp, Feeders
    <2> QED BY <2>2, <2>3, <2>4 DEF BreakerInv, CorrectionsCome, Senders
  <1> QED BY <1>1, KnownInit, KnownNext, BreakerInit, BreakerNext, PTL DEF Spec

-----------------------------------------------------------------------------
(***************************************************************************)
(* The order of events.  On a lone way every task has got the events up to *)
(* some number and has taken from its channel those up to another; the     *)
(* numbers are not in the state, but they exist, and they order what is in *)
(* the channels and in the hands of the senders all the way from the       *)
(* source to the sink.                                                     *)
(***************************************************************************)

\* The destinations of sender t.
Dests(t) == Range(plan.outs[t])

\* What is needed to know of the variables one by one.
FlowTypes ==
    /\ chan \in [Nodes -> Seq(Msgs)]
    /\ \A x \in Nodes : Len(chan[x]) <= QSize
    /\ outbox \in [Senders -> Seq(Nodes \X Msgs)]
    /\ \A t \in Senders : \A k \in DOMAIN outbox[t] : outbox[t][k][1] \in Dests(t)
    /\ plan \in Plans /\ triggered \in BOOLEAN /\ stream \subseteq Sinks /\ up \subseteq Sinks
    /\ emitted \in 0 .. MaxEvents /\ dropped \subseteq Events /\ stops \in Nat

\* A task that is about to take a message has one, and has sent what it took before.
Ready ==
    /\ low \subseteq Tasks
    /\ \A t \in low : (t # Src => chan[t] # <<>>) /\ (t \in Senders => outbox[t] = <<>>)

\* Nothing stops by itself.
StopsCounted ==
    stops = 0 => /\ up = Sinks
                 /\ \A x \in Nodes : \A i \in DOMAIN chan[x] : chan[x][i] # Stop
                 /\ \A t \in Senders : \A k \in DOMAIN outbox[t] : outbox[t][k][2] # Stop

\* h[z]: the last event sent to z; d[z]: the last one z took from its channel.
Taken(d, t) == IF t = Src THEN emitted ELSE d[t]

ChanOrder(Z, h, d) ==
    \A z \in Z :
       /\ d[z] <= h[z]
       /\ \A i \in DOMAIN chan[z] : chan[z][i] \in Events => d[z] < chan[z][i] /\ chan[z][i] <= h[z]
       /\ \A i, j \in DOMAIN chan[z] :
             i < j /\ chan[z][i] \in Events /\ chan[z][j] \in Events => chan[z][i] < chan[z][j]

\* The event number k of outbox q is for z.
ToSend(q, k, z) == q[k][1] = z /\ q[k][2] \in Events

\* Of all events, outbox q has at most v for z, which is later than b, and once.
OneLeft(q, z, b, v) ==
    /\ \A k \in DOMAIN q : ToSend(q, k, z) => q[k][2] = v /\ b < v
    /\ \A k, l \in DOMAIN q : ToSend(q, k, z) /\ ToSend(q, l, z) => k = l

EdgeOrder(Z, h, d) ==
    \A t \in Senders, z \in Z : z \in Dests(t) =>
       h[z] <= Taken(d, t) /\ OneLeft(outbox[t], z, h[z], Taken(d, t))

GotOrder(Z, d) ==
    \A s \in Z \intersect Sinks :
       /\ \A i \in DOMAIN got[s] : got[s][i] <= d[s]
       /\ \A i, j \in DOMAIN got[s] : i < j => got[s][i] < got[s][j]

\* Between two of the numbers nothing is missing but what was dropped.
ChanFull(Z, h, d) ==
    \A z \in Z, e \in Events : d[z] < e /\ e <= h[z] => e \in Range(chan[z]) \union dropped

EdgeFull(Z, h, d) ==
    \A t \in Senders, z \in Z : z \in Dests(t) =>
       \A e \in Events : h[z] < e /\ e <= Taken(d, t) => e \in dropped \/ <<z, e>> \in Range(outbox[t])

GotFull(Z, d) ==
    \A s \in Z \intersect Sinks, e \in Events : e <= d[s] => e \in Range(got[s]) \union dropped

InOrder(Z, h, d) ==
    /\ ChanOrder(Z, h, d) /\ EdgeOrder(Z, h, d) /\ GotOrder(Z, d)
    /\ stops = 0 => ChanFull(Z, h, d) /\ EdgeFull(Z, h, d) /\ GotFull(Z, d)

Ordered(Z) == \E h, d \in [Z -> 0 .. MaxEvents] : InOrder(Z, h, d)

\* The inductive invariant.
OrderInv ==
    /\ FlowTypes /\ Ready /\ StopsCounted
    /\ \A Z \in SUBSET Nodes : LoneWay(Z) => Ordered(Z)

\* Sequence r is q without its first c elements.
Rest(q, r, c) ==
    /\ c \in 0 .. Len(q) /\ DOMAIN r = 1 .. Len(q) - c
    /\ \A i \in 1 .. Len(q) - c : r[i] = q[i + c]

\* Tail takes one.
LEMMA TailRest ==
    ASSUME NEW S, NEW q \in Seq(S), q # <<>>
    PROVE  /\ Tail(q) \in Seq(S) /\ Rest(q, Tail(q), 1) /\ Len(Tail(q)) = Len(q) - 1
           /\ Head(q) = q[1] /\ 1 \in DOMAIN q /\ DOMAIN q = 1 .. Len(q) /\ Len(q) \in Nat
           /\ Head(q) \in S
  BY DEF Rest

\* A set of numbers up to n has a least element.
LEMMA LeastDue ==
    ASSUME NEW n \in Nat, NEW D \in SUBSET (1 .. n), D # {}
    PROVE  \E i \in D : \A j \in D : i <= j
  <1> DEFINE Less == {ss \in Nat \X Nat : ss[1] < ss[2]}
  <1>1. Less = OpToRel(<, Nat)
    BY Zenon DEF OpToRel
  <1>2. IsWellFoundedOn(Less, Nat)
    BY Zenon, <1>1, NatLessThanWellFounded
  <1>3. D \subseteq Nat
    OBVIOUS
  <1>4. PICK i \in D : \A j \in D : ~(<<j, i>> \in Less)
    <2> HIDE DEF Less
    <2> QED BY <1>2, <1>3, WFMin
  <1>5. \A j \in D : ~(j < i)
    BY <1>3, <1>4
  <1> QED BY <1>3, <1>5

\* send_signal skips only ticks for other pipelines.
LEMMA NextDue ==
    ASSUME NEW q \in Seq(Nodes \X Msgs)
    PROVE  /\ FromNextDue(q) \in Seq(Nodes \X Msgs)
           /\ \E c \in Nat : /\ Rest(q, FromNextDue(q), c)
                             /\ \A i \in DOMAIN q : q[i][2] # Tick => i > c
  <1>1. PICK n \in Nat : n = Len(q) /\ DOMAIN q = 1 .. n
    OBVIOUS
  <1>2. PICK due \in SUBSET (1 .. n) : due = {i \in DOMAIN q : ~(q[i][2] = Tick /\ q[i][1] \in Pipes)}
    BY <1>1
  <1>3. CASE due = {}
    <2>1. FromNextDue(q) = <<>>
      BY <1>2, <1>3 DEF FromNextDue
    <2>2. Rest(q, <<>>, n)
      BY <1>1 DEF Rest
    <2> QED BY <1>1, <1>2, <1>3, <2>1, <2>2
  <1>4. CASE due # {}
    <2>1. PICK m : m = CHOOSE i \in due : \A j \in due : i <= j
      OBVIOUS
    <2>2. m \in due /\ \A j \in due : m <= j
      BY <1>4, <2>1, LeastDue
    <2>3. FromNextDue(q) = SubSeq(q, m, n)
      BY <1>1, <1>2, <1>4, <2>1 DEF FromNextDue
    <2>4. m \in 1 .. n
      BY <2>2
    <2>5. SubSeq(q, m, n) \in Seq(Nodes \X Msgs) /\ Rest(q, SubSeq(q, m, n), m - 1)
      BY <1>1, <2>4 DEF Rest
    <2>6. \A i \in DOMAIN q : q[i][2] # Tick => i > m - 1
      BY <1>1, <1>2, <2>2, <2>4
    <2> QED BY <2>3, <2>4, <2>5, <2>6
  <1> QED BY <1>3, <1>4

\* What a deployment is made of.
LEMMA PlanFacts ==
    ASSUME plan \in Plans
    PROVE  /\ plan.outs \in [Senders -> Seq(Nodes)]
           /\ plan.bound.maxEvents \in Nat /\ plan.bound.maxEvents <= MaxEvents
           /\ MaxEvents \in Nat /\ QSize \in Nat /\ QSize > 0
           /\ Src \notin Nodes /\ Pipes \intersect Sinks = {}
  BY FlowAssumption DEF Nodes, Bounds

\* The kinds of messages.
LEMMA MessageKinds ==
    ASSUME MaxEvents \in Nat
    PROVE  /\ Tick \notin Events /\ Stop \notin Events /\ Tick # Stop
           /\ Msgs = Events \union {Tick, Stop}
           /\ \A e \in Events : e \in Nat /\ 1 <= e /\ e <= MaxEvents
           /\ \A e \in 1 .. MaxEvents : e \in Events
  BY DEF Tick, Stop, Events, Msgs

\* transmit_event, send_events: an event is sent to every destination.
LEMMA ToAllFacts ==
    ASSUME plan \in Plans, NEW t \in Senders, NEW m \in Msgs
    PROVE  /\ ToAll(t, m) \in Seq(Nodes \X Msgs)
           /\ DOMAIN ToAll(t, m) = DOMAIN plan.outs[t]
           /\ \A k \in DOMAIN ToAll(t, m) :
                 /\ ToAll(t, m)[k] = <<plan.outs[t][k], m>>
                 /\ ToAll(t, m)[k][1] \in Dests(t)
                 /\ ToAll(t, m)[k][2] = m
  <1>1. plan.outs[t] \in Seq(Nodes)
    BY PlanFacts
  <1>2. PICK n \in Nat : DOMAIN plan.outs[t] = 1 .. n
    BY <1>1
  <1>3. \A k \in 1 .. n : plan.outs[t][k] \in Nodes
    BY <1>1, <1>2
  <1>4. ToAll(t, m) = [k \in 1 .. n |-> <<plan.outs[t][k], m>>]
    BY <1>2 DEF ToAll
  <1>5. ToAll(t, m) \in Seq(Nodes \X Msgs)
    BY <1>3, <1>4
  <1> QED BY <1>2, <1>4, <1>5 DEF Range, Dests

\* send_signal: a tick is sent to some of the destinations.
LEMMA TickFacts ==
    ASSUME plan \in Plans, NEW p \in Pipes
    PROVE  /\ TickToSinks(p) \in Seq(Nodes \X Msgs)
           /\ \A k \in DOMAIN TickToSinks(p) : /\ TickToSinks(p)[k][1] \in Dests(p)
                                               /\ TickToSinks(p)[k][2] = Tick
  <1>1. p \in Senders /\ Tick \in Msgs
    BY DEF Senders, Msgs
  <1>2. PICK all : all = ToAll(p, Tick)
    OBVIOUS
  <1>3. /\ all \in Seq(Nodes \X Msgs)
        /\ \A k \in DOMAIN all : all[k][1] \in Dests(p) /\ all[k][2] = Tick
    BY <1>1, <1>2, ToAllFacts
  <1>4. PICK q : q = IF all = <<>> THEN all ELSE Tail(all) \o <<Head(all)>>
    OBVIOUS
  <1>5. /\ q \in Seq(Nodes \X Msgs)
        /\ \A k \in DOMAIN q : q[k][1] \in Dests(p) /\ q[k][2] = Tick
    <2>1. CASE all = <<>>
      BY <1>3, <1>4, <2>1
    <2>2. CASE all # <<>>
      <3>1. PICK n \in Nat : n = Len(all) /\ n >= 1 /\ DOMAIN all = 1 .. n
        BY <1>3, <2>2
      <3>2. /\ Tail(all) \in Seq(Nodes \X Msgs) /\ Head(all) \in Nodes \X Msgs /\ Head(all) = all[1]
            /\ Len(Tail(all)) = n - 1 /\ \A i \in 1 .. n - 1 : Tail(all)[i] = all[i + 1]
        BY <1>3, <2>2, <3>1
      <3>3. /\ q \in Seq(Nodes \X Msgs) /\ Len(q) = n /\ q[n] = all[1]
            /\ \A i \in 1 .. n - 1 : q[i] = all[i + 1]
        BY <1>4, <2>2, <3>1, <3>2
      <3>4. \A k \in DOMAIN q : \E j \in DOMAIN all : q[k] = all[j]
        <4> SUFFICES ASSUME NEW k \in 1 .. n PROVE \E j \in 1 .. n : q[k] = all[j]
          <5>1. DOMAIN q = 1 .. n
            BY <3>1, <3>3
          <5> QED BY <3>1, <5>1
        <4>1. CASE k = n
          BY <3>1, <3>3, <4>1
        <4>2. CASE k # n
          <5>1. k \in 1 .. n - 1 /\ k + 1 \in 1 .. n
            BY <3>1, <4>2
          <5> QED BY <3>3, <5>1
        <4> QED BY <4>1, <4>2
      <3> QED BY <1>3, <3>3, <3>4
    <2> QED BY <2>1, <2>2
  <1>6. TickToSinks(p) = FromNextDue(q)
    BY <1>2, <1>4 DEF TickToSinks
  <1>7. /\ FromNextDue(q) \in Seq(Nodes \X Msgs)
        /\ \E c \in Nat : Rest(q, FromNextDue(q), c)
    BY <1>5, NextDue
  <1>8. \A k \in DOMAIN FromNextDue(q) : \E j \in DOMAIN q : FromNextDue(q)[k] = q[j]
    <2>1. PICK c \in Nat, n \in Nat : Rest(q, FromNextDue(q), c) /\ n = Len(q) /\ DOMAIN q = 1 .. n
      BY <1>5, <1>7
    <2> SUFFICES ASSUME NEW k \in 1 .. n - c PROVE FromNextDue(q)[k] = q[k + c] /\ k + c \in 1 .. n
      BY <2>1 DEF Rest
    <2> QED BY <2>1 DEF Rest
  <1> QED BY <1>5, <1>6, <1>7, <1>8

\* What the sender has left after a send is what it had, in the same order, and no
\* event is skipped.
LEMMA DeliverFacts ==
    ASSUME FlowTypes, NEW t \in Senders, outbox[t] # <<>>
    PROVE  /\ FromNextDue(Tail(outbox[t])) \in Seq(Nodes \X Msgs)
           /\ Head(outbox[t]) = outbox[t][1] /\ 1 \in DOMAIN outbox[t] /\ outbox[t][1] \in Nodes \X Msgs
           /\ \E c \in Nat : /\ Rest(outbox[t], FromNextDue(Tail(outbox[t])), c)
                             /\ c >= 1
                             /\ \A i \in DOMAIN outbox[t] : i > 1 /\ outbox[t][i][2] # Tick => i > c
  <1>1. PICK q \in Seq(Nodes \X Msgs) : q = outbox[t]
    BY DEF FlowTypes
  <1>2. /\ Tail(q) \in Seq(Nodes \X Msgs) /\ Rest(q, Tail(q), 1) /\ Len(Tail(q)) = Len(q) - 1
        /\ Head(q) = q[1] /\ 1 \in DOMAIN q /\ DOMAIN q = 1 .. Len(q) /\ Len(q) \in Nat
        /\ Head(q) \in Nodes \X Msgs
    BY <1>1, TailRest
  <1>3. PICK r : r = FromNextDue(Tail(q))
    OBVIOUS
  <1>4. PICK c \in Nat : /\ Rest(Tail(q), r, c)
                         /\ \A i \in DOMAIN Tail(q) : Tail(q)[i][2] # Tick => i > c
    BY <1>2, <1>3, NextDue
  <1>5. r \in Seq(Nodes \X Msgs)
    BY <1>2, <1>3, NextDue
  <1>6. Rest(q, r, c + 1)
    <2>1. PICK n \in Nat : n = Len(q)
      BY <1>2
    <2>2. c \in 0 .. n - 1 /\ DOMAIN r = 1 .. (n - 1) - c /\ c + 1 \in 0 .. n
      BY <1>2, <1>4, <2>1 DEF Rest
    <2>3. (n - 1) - c = n - (c + 1)
      BY <2>2
    <2>4. ASSUME NEW i \in 1 .. n - (c + 1) PROVE r[i] = q[i + (c + 1)]
      <3>1. i + c \in 1 .. n - 1 /\ (i + c) + 1 = i + (c + 1)
        BY <2>2, <2>4
      <3>2. r[i] = Tail(q)[i + c]
        BY <1>2, <1>4, <2>1, <2>3 DEF Rest
      <3>3. Tail(q)[i + c] = q[(i + c) + 1]
        BY <1>2, <2>1, <3>1 DEF Rest
      <3> QED BY <3>1, <3>2, <3>3
    <2> QED BY <2>1, <2>2, <2>3, <2>4 DEF Rest
  <1>7. ASSUME NEW i \in DOMAIN q, i > 1, q[i][2] # Tick PROVE i > c + 1
    <2>1. i - 1 \in DOMAIN Tail(q) /\ Tail(q)[i - 1] = q[i]
      BY <1>2, <1>7 DEF Rest
    <2>2. i - 1 > c
      BY <1>4, <1>7, <2>1
    <2> QED BY <1>2, <2>2
  <1> QED BY <1>1, <1>2, <1>3, <1>5, <1>6, <1>7

Basics == FlowTypes /\ Ready /\ StopsCounted

\* A message is put in a channel that has room.
LEMMA ChanPut ==
    ASSUME FlowTypes, NEW x \in Nodes, NEW m \in Msgs, Room(x),
           chan' = [chan EXCEPT ![x] = Append(@, m)]
    PROVE  /\ chan' \in [Nodes -> Seq(Msgs)]
           /\ \A y \in Nodes : Len(chan'[y]) <= QSize /\ (chan[y] # <<>> => chan'[y] # <<>>)
           /\ \A y \in Nodes : \A i \in DOMAIN chan'[y] :
                 chan'[y][i] = m \/ (i \in DOMAIN chan[y] /\ chan'[y][i] = chan[y][i])
           /\ \A y \in Nodes : y # x => chan'[y] = chan[y]
           /\ chan[x] \in Seq(Msgs) /\ Len(chan[x]) \in Nat /\ DOMAIN chan[x] = 1 .. Len(chan[x])
           /\ DOMAIN chan'[x] = 1 .. Len(chan[x]) + 1
           /\ \A i \in 1 .. Len(chan[x]) : chan'[x][i] = chan[x][i]
           /\ chan'[x][Len(chan[x]) + 1] = m
  <1>1. PICK q \in Seq(Msgs) : q = chan[x] /\ Len(q) < QSize /\ q = chan[x]
    BY DEF FlowTypes, Room
  <1>2. QSize \in Nat
    BY FlowAssumption
  <1>3. PICK r \in Seq(Msgs) : r = Append(q, m)
    <2>1. Append(q, m) \in Seq(Msgs)
      OBVIOUS
    <2> QED BY <2>1
  <1>4. /\ r # <<>> /\ Len(r) <= QSize /\ DOMAIN r = 1 .. Len(q) + 1 /\ Len(q) \in Nat
        /\ r[Len(q) + 1] = m /\ DOMAIN q = 1 .. Len(q)
        /\ \A i \in 1 .. Len(q) : r[i] = q[i]
    BY <1>1, <1>2, <1>3
  <1>5. chan'[x] = r /\ \A y \in Nodes : y # x => chan'[y] = chan[y]
    BY <1>1, <1>3 DEF FlowTypes
  <1>6. \A i \in DOMAIN r : r[i] = m \/ (i \in DOMAIN q /\ r[i] = q[i])
    BY <1>4
  <1>7. chan' \in [Nodes -> Seq(Msgs)]
    BY <1>1, <1>3 DEF FlowTypes
  <1> QED BY <1>1, <1>4, <1>5, <1>6, <1>7 DEF FlowTypes

\* The first message is taken from a channel.
LEMMA ChanTake ==
    ASSUME FlowTypes, NEW x \in Nodes, chan[x] # <<>>,
           chan' = [chan EXCEPT ![x] = Tail(@)]
    PROVE  /\ chan' \in [Nodes -> Seq(Msgs)]
           /\ \A y \in Nodes : Len(chan'[y]) <= QSize /\ (y # x => chan'[y] = chan[y])
           /\ Head(chan[x]) \in Msgs /\ Head(chan[x]) = chan[x][1] /\ 1 \in DOMAIN chan[x]
           /\ \A i \in DOMAIN chan'[x] : /\ i \in Nat /\ i >= 1 /\ i + 1 \in DOMAIN chan[x]
                                         /\ chan'[x][i] = chan[x][i + 1]
           /\ \A i \in DOMAIN chan[x] : i \in Nat /\ (i # 1 => i > 1 /\ i - 1 \in DOMAIN chan'[x]
                                         /\ chan'[x][i - 1] = chan[x][i])
  <1>1. PICK q \in Seq(Msgs) : q = chan[x] /\ q # <<>> /\ Len(q) <= QSize
    BY DEF FlowTypes
  <1>2. QSize \in Nat
    BY FlowAssumption
  <1>3. /\ Tail(q) \in Seq(Msgs) /\ Rest(q, Tail(q), 1) /\ Len(Tail(q)) = Len(q) - 1
        /\ Head(q) = q[1] /\ 1 \in DOMAIN q /\ DOMAIN q = 1 .. Len(q) /\ Len(q) \in Nat
        /\ Head(q) \in Msgs
    BY <1>1, TailRest
  <1>4. chan'[x] = Tail(q) /\ \A y \in Nodes : y # x => chan'[y] = chan[y]
    BY <1>1 DEF FlowTypes
  <1>5. chan' \in [Nodes -> Seq(Msgs)]
    BY <1>1, <1>3 DEF FlowTypes
  <1>6. /\ \A i \in DOMAIN Tail(q) : i \in Nat /\ i >= 1 /\ i + 1 \in DOMAIN q /\ Tail(q)[i] = q[i + 1]
        /\ \A i \in DOMAIN q : i \in Nat /\ (i # 1 => i > 1 /\ i - 1 \in DOMAIN Tail(q)
                                                     /\ Tail(q)[i - 1] = q[i])
    BY <1>3 DEF Rest
  <1>7. Len(Tail(q)) <= QSize
    BY <1>1, <1>2, <1>3
  <1> QED BY <1>1, <1>3, <1>4, <1>5, <1>6, <1>7 DEF FlowTypes

\* The destinations stay what they are.
LEMMA SameDests == UNCHANGED plan => \A t : Dests(t)' = Dests(t)
  BY DEF Dests, Range

\* Messages that are put in a channel.
LEMMA BasicsPut ==
    ASSUME Basics, NEW x \in Nodes, NEW m \in Msgs, Room(x),
           chan' = [chan EXCEPT ![x] = Append(@, m)],
           UNCHANGED <<outbox, low, up, plan, triggered, stream, emitted, dropped>>,
           stops' \in Nat, stops' = 0 => stops = 0 /\ m # Stop
    PROVE  Basics'
  <1>0. triggered' \in BOOLEAN /\ \A t : Dests(t)' = Dests(t)
    BY SameDests DEF Basics, FlowTypes
  <1>1. /\ chan' \in [Nodes -> Seq(Msgs)]
        /\ \A y \in Nodes : Len(chan'[y]) <= QSize /\ (chan[y] # <<>> => chan'[y] # <<>>)
        /\ \A y \in Nodes : \A i \in DOMAIN chan'[y] :
              chan'[y][i] = m \/ (i \in DOMAIN chan[y] /\ chan'[y][i] = chan[y][i])
    BY ZenonT(60), ChanPut DEF Basics
  <1>2. FlowTypes'
    BY <1>0, <1>1 DEF Basics, FlowTypes
  <1>3. Ready'
    BY <1>1 DEF Basics, Ready, Tasks, Senders, Nodes
  <1>4. StopsCounted'
    BY <1>1 DEF Basics, StopsCounted
  <1> QED BY <1>2, <1>3, <1>4 DEF Basics

\* The next send of a task.
LEMMA BasicsDeliver == ASSUME NEW t \in Senders, Basics, Deliver(t) PROVE Basics'
  <1> USE DEF Deliver
  <1>1. PICK to \in Nodes, m \in Msgs : outbox[t][1] = <<to, m>> /\ Head(outbox[t]) = <<to, m>>
    BY DeliverFacts DEF Basics
  <1>2. PICK r \in Seq(Nodes \X Msgs), c \in Nat :
           r = FromNextDue(Tail(outbox[t])) /\ Rest(outbox[t], r, c) /\ c >= 1
    BY DeliverFacts DEF Basics
  <1>3. chan' = [chan EXCEPT ![to] = Append(@, m)] /\ Room(to)
    <2>1. Head(outbox[t])[1] = to /\ Head(outbox[t])[2] = m
      BY <1>1
    <2> QED BY <2>1, Zenon
  <1>4. outbox' = [outbox EXCEPT ![t] = r]
    BY <1>2
  <1>5. /\ chan' \in [Nodes -> Seq(Msgs)]
        /\ \A y \in Nodes : Len(chan'[y]) <= QSize /\ (chan[y] # <<>> => chan'[y] # <<>>)
        /\ \A y \in Nodes : \A i \in DOMAIN chan'[y] :
              chan'[y][i] = m \/ (i \in DOMAIN chan[y] /\ chan'[y][i] = chan[y][i])
    BY <1>1, <1>3, ChanPut DEF Basics
  <1>6. /\ outbox[t] \in Seq(Nodes \X Msgs) /\ 1 \in DOMAIN outbox[t]
        /\ \A k \in DOMAIN r : \E j \in DOMAIN outbox[t] : r[k] = outbox[t][j]
    <2>1. outbox[t] \in Seq(Nodes \X Msgs) /\ 1 \in DOMAIN outbox[t]
      BY DeliverFacts DEF Basics, FlowTypes
    <2>2. PICK n \in Nat : n = Len(outbox[t]) /\ DOMAIN outbox[t] = 1 .. n
      BY <2>1
    <2>3. ASSUME NEW k \in 1 .. n - c PROVE k + c \in 1 .. n /\ r[k] = outbox[t][k + c]
      BY <1>2, <2>2, <2>3 DEF Rest
    <2> QED BY <1>2, <2>1, <2>2, <2>3 DEF Rest
  <1>7. outbox' \in [Senders -> Seq(Nodes \X Msgs)]
    BY <1>4 DEF Basics, FlowTypes
  <1>8. /\ outbox'[t] = r
        /\ \A u \in Senders : u # t => outbox'[u] = outbox[u]
    BY <1>4 DEF Basics, FlowTypes
  <1>9. \A u \in Senders : \A k \in DOMAIN outbox'[u] : outbox'[u][k][1] \in Dests(u)
    BY <1>6, <1>8 DEF Basics, FlowTypes
  <1>10. FlowTypes'
    <2>1. UNCHANGED <<plan, triggered, stream, up, emitted, dropped, stops>>
      BY DEF history, bounds
    <2>2. triggered' \in BOOLEAN /\ \A u : Dests(u)' = Dests(u)
      BY <2>1, SameDests DEF Basics, FlowTypes
    <2> HIDE DEF Deliver
    <2> QED BY <1>5, <1>7, <1>9, <2>1, <2>2 DEF Basics, FlowTypes
  <1>11. Ready'
    <2>1. t \notin low
      BY DEF Basics, Ready
    <2> QED BY <1>5, <1>8, <2>1 DEF Basics, Ready, Tasks, Senders, Nodes
  <1>12. StopsCounted'
    <2>1. stops = 0 => m # Stop
      BY <1>1, <1>6 DEF Basics, StopsCounted
    <2>2. stops = 0 => \A u \in Senders : \A k \in DOMAIN outbox'[u] : outbox'[u][k][2] # Stop
      BY <1>6, <1>8 DEF Basics, StopsCounted
    <2>3. stops = 0 => \A y \in Nodes : \A i \in DOMAIN chan'[y] : chan'[y][i] # Stop
      <3> SUFFICES ASSUME stops = 0, NEW y \in Nodes, NEW i \in DOMAIN chan'[y]
                   PROVE  chan'[y][i] # Stop
        OBVIOUS
      <3>1. chan'[y][i] = m \/ (i \in DOMAIN chan[y] /\ chan'[y][i] = chan[y][i])
        BY <1>5
      <3>2. \A j \in DOMAIN chan[y] : chan[y][j] # Stop
        BY DEF Basics, StopsCounted
      <3> QED BY <2>1, <3>1, <3>2
    <2> QED BY <2>2, <2>3 DEF Basics, StopsCounted, bounds
  <1> QED BY <1>10, <1>11, <1>12 DEF Basics

\* A task takes a message; a pipeline sends it on, or not.
LEMMA BasicsTake ==
    ASSUME Basics, NEW x \in Nodes, x \in low, chan' = [chan EXCEPT ![x] = Tail(@)],
           low' = low \ {x},
           \/ UNCHANGED outbox
           \/ /\ x \in Pipes
              /\ \E q \in Seq(Nodes \X Msgs) :
                    /\ outbox' = [outbox EXCEPT ![x] = q]
                    /\ \A k \in DOMAIN q : /\ q[k][1] \in Dests(x)
                                           /\ q[k][2] = Stop => Head(chan[x]) = Stop,
           UNCHANGED <<plan, triggered, emitted, up, stops>>,
           dropped' \subseteq Events, stream' \subseteq Sinks
    PROVE  Basics'
  <1>1. x # Src
    BY FlowAssumption DEF Nodes
  <1>2. chan[x] # <<>>
    BY <1>1 DEF Basics, Ready
  <1>3. /\ chan' \in [Nodes -> Seq(Msgs)]
        /\ \A y \in Nodes : Len(chan'[y]) <= QSize /\ (y # x => chan'[y] = chan[y])
        /\ Head(chan[x]) \in Msgs /\ Head(chan[x]) = chan[x][1] /\ 1 \in DOMAIN chan[x]
        /\ \A i \in DOMAIN chan'[x] : i + 1 \in DOMAIN chan[x] /\ chan'[x][i] = chan[x][i + 1]
    BY <1>2, ChanTake DEF Basics
  <1>4. /\ outbox' \in [Senders -> Seq(Nodes \X Msgs)]
        /\ \A u \in Senders : u # x => outbox'[u] = outbox[u]
        /\ \A u \in Senders : \A k \in DOMAIN outbox'[u] :
              /\ outbox'[u][k][1] \in Dests(u)
              /\ stops = 0 => outbox'[u][k][2] # Stop
    <2>1. CASE UNCHANGED outbox
      BY <2>1 DEF Basics, FlowTypes, StopsCounted
    <2>2. CASE x \in Pipes /\ ~(UNCHANGED outbox)
      <3>1. PICK q \in Seq(Nodes \X Msgs) :
                    /\ outbox' = [outbox EXCEPT ![x] = q]
                    /\ \A k \in DOMAIN q : /\ q[k][1] \in Dests(x)
                                           /\ q[k][2] = Stop => Head(chan[x]) = Stop
        BY <2>2
      <3>2. x \in Senders
        BY <2>2 DEF Senders
      <3>3. stops = 0 => Head(chan[x]) # Stop
        BY <1>3 DEF Basics, StopsCounted
      <3>4. outbox' \in [Senders -> Seq(Nodes \X Msgs)] /\ outbox'[x] = q
        BY <3>1, <3>2 DEF Basics, FlowTypes
      <3>5. \A u \in Senders : u # x => outbox'[u] = outbox[u]
        BY <3>1 DEF Basics, FlowTypes
      <3> QED BY <3>1, <3>3, <3>4, <3>5 DEF Basics, FlowTypes, StopsCounted
    <2> QED BY <2>1, <2>2
  <1>5. FlowTypes'
    <2>1. triggered' \in BOOLEAN /\ \A t : Dests(t)' = Dests(t)
      BY SameDests DEF Basics, FlowTypes
    <2> QED BY <1>3, <1>4, <2>1 DEF Basics, FlowTypes
  <1>6. Ready'
    BY <1>3, <1>4 DEF Basics, Ready, Tasks, Senders, Nodes
  <1>7. StopsCounted'
    BY <1>3, <1>4 DEF Basics, StopsCounted
  <1> QED BY <1>5, <1>6, <1>7 DEF Basics

\* Looks and insights: no message moves; a task that goes to take one has one.
LEMMA BasicsLook ==
    ASSUME Basics, UNCHANGED <<chan, outbox, plan, stream, up, emitted, dropped, stops>>,
           triggered' \in BOOLEAN,
           \/ low' \subseteq low
           \/ \E t \in Tasks : /\ low' = low \union {t}
                               /\ t # Src => chan[t] # <<>>
                               /\ t \in Senders => outbox[t] = <<>>
    PROVE  Basics'
  <1>1. \A t : Dests(t)' = Dests(t)
    BY SameDests
  <1>2. FlowTypes'
    BY <1>1 DEF Basics, FlowTypes
  <1>3. Ready'
    BY DEF Basics, Ready
  <1>4. StopsCounted'
    BY DEF Basics, StopsCounted
  <1> QED BY <1>2, <1>3, <1>4 DEF Basics

\* run: an event is pulled.
LEMMA BasicsSrcPull == ASSUME Basics, SrcPull PROVE Basics'
  <1> USE DEF SrcPull
  <1>1. UNCHANGED <<chan, plan, triggered, stream, up, dropped, stops>>
    BY DEF history, bounds
  <1>2. \A t : Dests(t)' = Dests(t)
    BY <1>1, SameDests
  <1>3. plan \in Plans /\ Src \in Senders
    BY DEF Basics, FlowTypes, Senders
  <1>4. PICK e \in Events : e = emitted + 1 /\ emitted' = e
    BY <1>3, PlanFacts DEF Basics, FlowTypes, Events
  <1>5. MaxEvents \in Nat /\ e \in Msgs /\ e # Stop /\ e \in 0 .. MaxEvents
    BY <1>3, PlanFacts, MessageKinds
  <1>6. PICK q \in Seq(Nodes \X Msgs) :
           /\ outbox' = [outbox EXCEPT ![Src] = q]
           /\ \A k \in DOMAIN q : q[k][1] \in Dests(Src) /\ q[k][2] = e
    <2>1. outbox' = [outbox EXCEPT ![Src] = ToAll(Src, e)]
      BY <1>4
    <2>2. /\ ToAll(Src, e) \in Seq(Nodes \X Msgs)
          /\ \A k \in DOMAIN ToAll(Src, e) :
                ToAll(Src, e)[k][1] \in Dests(Src) /\ ToAll(Src, e)[k][2] = e
      BY <1>3, <1>5, ToAllFacts
    <2> QED BY <2>1, <2>2
  <1>7. outbox' \in [Senders -> Seq(Nodes \X Msgs)]
    BY <1>6 DEF Basics, FlowTypes
  <1>8. outbox'[Src] = q /\ \A u \in Senders : u # Src => outbox'[u] = outbox[u]
    BY <1>3, <1>6 DEF Basics, FlowTypes
  <1>9. \A u \in Senders : \A k \in DOMAIN outbox'[u] : outbox'[u][k][1] \in Dests(u)
    BY <1>6, <1>8 DEF Basics, FlowTypes
  <1>10. stops = 0 => \A u \in Senders : \A k \in DOMAIN outbox'[u] : outbox'[u][k][2] # Stop
    BY <1>5, <1>6, <1>8 DEF Basics, StopsCounted
  <1>11. triggered' \in BOOLEAN
    BY <1>1 DEF Basics, FlowTypes
  <1>12. FlowTypes'
    <2> HIDE DEF SrcPull
    <2> QED BY <1>1, <1>2, <1>4, <1>5, <1>7, <1>9, <1>11 DEF Basics, FlowTypes
  <1>13. Ready'
    BY <1>1, <1>8 DEF Basics, Ready
  <1>14. StopsCounted'
    BY <1>1, <1>10 DEF Basics, StopsCounted
  <1> QED BY <1>12, <1>13, <1>14 DEF Basics

\* The rest of an event set is dropped.
LEMMA BasicsDeliverFails == ASSUME NEW p \in Pipes, Basics, DeliverFails(p) PROVE Basics'
  <1> USE DEF DeliverFails
  <1>1. UNCHANGED <<chan, low, plan, triggered, stream, up, emitted, dropped, stops>>
    BY DEF history, bounds
  <1>2. p \in Senders /\ \A t : Dests(t)' = Dests(t)
    BY <1>1, SameDests DEF Senders
  <1>3. <<>> \in Seq(Nodes \X Msgs)
    OBVIOUS
  <1>4. outbox' \in [Senders -> Seq(Nodes \X Msgs)]
    BY <1>3 DEF Basics, FlowTypes
  <1>5. outbox'[p] = <<>> /\ \A u \in Senders : u # p => outbox'[u] = outbox[u]
    BY <1>2 DEF Basics, FlowTypes
  <1>6. triggered' \in BOOLEAN
    BY <1>1 DEF Basics, FlowTypes
  <1>7. \A u \in Senders : \A k \in DOMAIN outbox'[u] : u # p /\ outbox'[u] = outbox[u]
    BY <1>5
  <1>8. FlowTypes'
    <2> HIDE DEF DeliverFails
    <2> QED BY <1>1, <1>2, <1>4, <1>6, <1>7 DEF Basics, FlowTypes
  <1>9. Ready'
    BY <1>1, <1>5 DEF Basics, Ready
  <1>10. StopsCounted'
    BY <1>1, <1>7 DEF Basics, StopsCounted
  <1> QED BY <1>8, <1>9, <1>10 DEF Basics

\* An offramp ends; someone stopped it.
LEMMA BasicsSinkStop == ASSUME NEW s \in Sinks, Basics, SinkStop(s) PROVE Basics' /\ stops # 0
  <1> USE DEF SinkStop
  <1>1. UNCHANGED <<outbox, plan, triggered, stream, emitted, dropped, stops>>
    BY DEF history, bounds
  <1>2. s \in Nodes /\ s # Src /\ s \notin Senders /\ \A t : Dests(t)' = Dests(t)
    BY <1>1, SameDests, FlowAssumption DEF Senders, Nodes
  <1>3. stops # 0
    <2>1. chan[s] # <<>> /\ chan[s] \in Seq(Msgs)
      BY <1>2 DEF Basics, Ready, FlowTypes
    <2>2. 1 \in DOMAIN chan[s] /\ chan[s][1] = Stop
      BY <2>1
    <2> QED BY <1>2, <2>2 DEF Basics, StopsCounted
  <1>4. <<>> \in Seq(Msgs) /\ Len(<<>>) <= QSize
    BY FlowAssumption
  <1>5. chan' \in [Nodes -> Seq(Msgs)]
    BY <1>4 DEF Basics, FlowTypes
  <1>6. \A y \in Nodes : chan'[y] = IF y = s THEN <<>> ELSE chan[y]
    BY DEF Basics, FlowTypes
  <1>7. triggered' \in BOOLEAN
    BY <1>1 DEF Basics, FlowTypes
  <1>8. up' \subseteq Sinks /\ \A y \in Nodes : Len(chan'[y]) <= QSize
    BY <1>4, <1>6 DEF Basics, FlowTypes
  <1>9. FlowTypes'
    <2> HIDE DEF SinkStop
    <2> QED BY <1>1, <1>2, <1>5, <1>7, <1>8 DEF Basics, FlowTypes
  <1>10. Ready'
    BY <1>1, <1>6 DEF Basics, Ready, Tasks, Nodes, Senders
  <1>11. StopsCounted'
    BY <1>1, <1>3 DEF StopsCounted
  <1> QED BY <1>3, <1>9, <1>10, <1>11 DEF Basics

\* Every step keeps the types.
LEMMA BasicsNext == Basics /\ [Next]_vars => Basics'
  <1> SUFFICES ASSUME Basics, [Next]_vars PROVE Basics'
    OBVIOUS
  <1>1. Pipes \subseteq Nodes /\ Sinks \subseteq Nodes /\ Pipes \subseteq Senders /\ Nodes \subseteq Tasks
    BY DEF Nodes, Senders, Tasks
  <1>2. Src \in Tasks /\ Src \notin Nodes /\ Pipes \intersect Sinks = {} /\ Src \notin Sinks
    BY FlowAssumption DEF Nodes, Senders, Tasks
  <1>3. triggered \in BOOLEAN /\ plan \in Plans /\ MaxEvents \in Nat
    BY FlowAssumption DEF Basics, FlowTypes
  <1>4. CASE SrcStep
    <2>1. CASE SrcPoll
      BY <1>2, <1>3, <2>1, BasicsLook DEF SrcPoll, channels, history, bounds
    <2>2. CASE SrcEmpty
      BY <1>3, <2>2, BasicsLook DEF SrcEmpty, channels, history, bounds
    <2>3. CASE SrcHandle
      <3>1. triggered' \in BOOLEAN
        BY <1>3, <2>3 DEF SrcHandle, BreakerAfter
      <3> QED BY <2>3, <3>1, BasicsLook DEF SrcHandle, bounds
    <2> QED BY <1>4, <2>1, <2>2, <2>3, BasicsSrcPull DEF SrcStep
  <1>5. CASE \E t \in Senders : Deliver(t)
    BY <1>5, BasicsDeliver
  <1>6. CASE \E p \in Pipes : DeliverFails(p)
    BY <1>6, BasicsDeliverFails
  <1>7. CASE \E p \in Pipes : PipeStep(p)
    <2> PICK p \in Pipes : PipeStep(p)
      BY <1>7
    <2>1. CASE PipeInsight(p)
      BY <1>3, <2>1, BasicsLook DEF PipeInsight, history, bounds
    <2>2. CASE PipePoll(p)
      BY <1>1, <1>3, <2>2, BasicsLook DEF PipePoll, channels, history, bounds
    <2>3. CASE PipeForward(p)
      <3>1. Head(chan[p]) \in Msgs
        <4>1. chan[p] # <<>> /\ chan[p] \in Seq(Msgs)
          BY <1>1, <1>2, <2>3 DEF PipeForward, Basics, Ready, FlowTypes
        <4> QED BY <4>1
      <3>2. PICK q : q = IF Head(chan[p]) = Tick THEN TickToSinks(p) ELSE ToAll(p, Head(chan[p]))
        OBVIOUS
      <3>3. /\ q \in Seq(Nodes \X Msgs)
            /\ \A k \in DOMAIN q : q[k][1] \in Dests(p) /\ q[k][2] = Head(chan[p])
        BY <1>1, <1>3, <3>1, <3>2, TickFacts, ToAllFacts
      <3>4. outbox' = [outbox EXCEPT ![p] = q]
        BY <2>3, <3>2 DEF PipeForward
      <3>5. /\ p \in Nodes /\ p \in low /\ chan' = [chan EXCEPT ![p] = Tail(@)] /\ low' = low \ {p}
            /\ UNCHANGED <<plan, triggered, emitted, up, stops, stream, dropped>>
        BY <1>1, <2>3 DEF PipeForward, history, bounds
      <3>6. dropped' \subseteq Events /\ stream' \subseteq Sinks
        BY <3>5 DEF Basics, FlowTypes
      <3> QED BY <3>3, <3>4, <3>5, <3>6, BasicsTake
    <2>4. CASE PipeDrop(p)
      <3>1. /\ p \in Nodes /\ p \in low /\ chan' = [chan EXCEPT ![p] = Tail(@)] /\ low' = low \ {p}
            /\ UNCHANGED <<outbox, plan, triggered, emitted, up, stops, stream>>
        BY <1>1, <2>4 DEF PipeDrop
      <3>2. dropped' \subseteq Events /\ stream' \subseteq Sinks
        BY <2>4 DEF PipeDrop, Basics, FlowTypes
      <3> QED BY <3>1, <3>2, BasicsTake
    <2> QED BY <2>1, <2>2, <2>3, <2>4 DEF PipeStep
  <1>8. CASE \E p \in Pipes : PipeTick(p)
    <2> PICK p \in Pipes : PipeTick(p)
      BY <1>8
    <2>1. Tick \in Msgs /\ Tick # Stop /\ p \in Nodes /\ stops' \in Nat
      BY <1>1, <1>3, <1>8, MessageKinds DEF Basics, FlowTypes, PipeTick, bounds
    <2> QED BY <2>1, BasicsPut DEF PipeTick, history, bounds
  <1>9. CASE \E s \in Sinks : SinkStep(s)
    <2> PICK s \in Sinks : SinkStep(s)
      BY <1>9
    <2>1. CASE SinkReply(s)
      BY <1>3, <2>1, BasicsLook DEF SinkReply, history, bounds
    <2>2. CASE SinkPoll(s)
      <3>1. s \notin Senders /\ s \in Tasks
        BY <1>1, <1>2 DEF Senders
      <3> QED BY <1>3, <2>2, <3>1, BasicsLook DEF SinkPoll, channels, history, bounds
    <2>3. CASE SinkEvent(s)
      <3>1. /\ s \in Nodes /\ s \in low /\ chan' = [chan EXCEPT ![s] = Tail(@)] /\ low' = low \ {s}
            /\ UNCHANGED <<outbox, plan, triggered, emitted, up, stops, stream, dropped>>
        BY <1>1, <2>3 DEF SinkEvent, TakeFrom
      <3>2. dropped' \subseteq Events /\ stream' \subseteq Sinks
        BY <3>1 DEF Basics, FlowTypes
      <3> QED BY <3>1, <3>2, BasicsTake
    <2>4. CASE SinkTick(s)
      <3>1. /\ s \in Nodes /\ s \in low /\ chan' = [chan EXCEPT ![s] = Tail(@)] /\ low' = low \ {s}
            /\ UNCHANGED <<outbox, plan, triggered, emitted, up, stops, dropped>>
        BY <1>1, <2>4 DEF SinkTick, TakeFrom
      <3>2. dropped' \subseteq Events /\ stream' \subseteq Sinks
        BY <2>4, <3>1 DEF SinkTick, Basics, FlowTypes
      <3> QED BY <3>1, <3>2, BasicsTake
    <2> QED BY <2>1, <2>2, <2>3, <2>4, BasicsSinkStop DEF SinkStep
  <1>10. CASE \E s \in Sinks : WorkerAnswer(s)
    BY <1>3, <1>10, BasicsLook DEF WorkerAnswer, bounds
  <1>11. CASE \E s \in Sinks : SendStop(s)
    <2> PICK s \in Sinks : SendStop(s)
      BY <1>11
    <2>1. Stop \in Msgs /\ s \in Nodes /\ stops' \in Nat /\ stops' # 0
      BY <1>1, <1>3, MessageKinds DEF Basics, FlowTypes, SendStop
    <2> QED BY <2>1, BasicsPut DEF SendStop, history
  <1>12. CASE UNCHANGED vars
    BY <1>3, <1>12, BasicsLook DEF vars, channels, history, bounds
  <1> QED BY <1>4, <1>5, <1>6, <1>7, <1>8, <1>9, <1>10, <1>11, <1>12 DEF Next

\* On a lone way a task has one sender, which is the source or on the way, too,
\* and which names it once.
LEMMA LoneFacts ==
    ASSUME NEW Z, LoneWay(Z), NEW z \in Z, NEW t \in Senders, z \in Dests(t)
    PROVE  /\ t = Src \/ (t \in Pipes /\ t \in Z)
           /\ \A u \in Senders : z \in Dests(u) => u = t
           /\ \A i, j \in DOMAIN plan.outs[t] : plan.outs[t][i] = z /\ plan.outs[t][j] = z => i = j
  <1>1. FedOnce(z) /\ \A p \in Pipes : z \in Dests(p) => p \in Z
    BY DEF LoneWay, Dests
  <1>2. t = Src \/ (t \in Pipes /\ t \in Z)
    BY <1>1 DEF Senders
  <1>3. \A u \in Senders : z \in Dests(u) => u = t
    BY <1>1 DEF FedOnce, Dests, Range
  <1>4. \A i, j \in DOMAIN plan.outs[t] : plan.outs[t][i] = z /\ plan.outs[t][j] = z => i = j
    BY <1>1 DEF FedOnce
  <1> QED BY <1>2, <1>3, <1>4

\* Nothing is on its way at the start.
LEMMA OrderInit == Init => OrderInv
  <1> SUFFICES ASSUME Init PROVE OrderInv
    OBVIOUS
  <1> USE DEF Init
  <1>1. <<>> \in Seq(Msgs) /\ <<>> \in Seq(Nodes \X Msgs) /\ Len(<<>>) = 0 /\ DOMAIN <<>> = {}
    OBVIOUS
  <1>2. MaxEvents \in Nat /\ QSize \in Nat /\ Nodes = Pipes \union Sinks
    BY FlowAssumption DEF Nodes
  <1>3. FlowTypes
    <2>1. triggered \in BOOLEAN
      OBVIOUS
    <2>2. /\ chan \in [Nodes -> Seq(Msgs)] /\ outbox \in [Senders -> Seq(Nodes \X Msgs)]
          /\ \A x \in Nodes : Len(chan[x]) <= QSize
          /\ \A t \in Senders : DOMAIN outbox[t] = {}
      BY <1>1, <1>2
    <2> QED BY <1>2, <2>1, <2>2 DEF FlowTypes
  <1>4. Ready /\ StopsCounted
    BY <1>1 DEF Ready, StopsCounted, Nodes
  <1>5. ASSUME NEW Z \in SUBSET Nodes, LoneWay(Z) PROVE Ordered(Z)
    <2>1. PICK h \in [Z -> 0 .. MaxEvents] : \A z \in Z : h[z] = 0
      <3>1. [z \in Z |-> 0] \in [Z -> 0 .. MaxEvents]
        BY <1>2
      <3> QED BY <3>1
    <2>2. \A e \in Events : e \in Nat /\ e > 0
      BY <1>2, MessageKinds
    <2>3. ChanOrder(Z, h, h) /\ ChanFull(Z, h, h)
      BY <1>1, <1>2, <2>1, <2>2 DEF ChanOrder, ChanFull
    <2>4. ASSUME NEW t \in Senders, NEW z \in Z, z \in Dests(t)
          PROVE  Taken(h, t) = 0 /\ h[z] = 0 /\ outbox[t] = <<>>
      BY <1>5, <2>1, <2>4, LoneFacts DEF Taken
    <2>5. EdgeOrder(Z, h, h) /\ EdgeFull(Z, h, h)
      <3>1. \A z, b, v : OneLeft(<<>>, z, b, v)
        BY <1>1 DEF OneLeft
      <3> QED BY <1>1, <2>2, <2>4, <3>1 DEF EdgeOrder, EdgeFull
    <2>6. GotOrder(Z, h) /\ GotFull(Z, h)
      BY <1>1, <2>1, <2>2 DEF GotOrder, GotFull
    <2> QED BY <2>3, <2>5, <2>6 DEF Ordered, InOrder
  <1> QED BY <1>3, <1>4, <1>5 DEF OrderInv

\* Looks and insights move no event.
LEMMA OrderSame ==
    ASSUME NEW Z, Ordered(Z), UNCHANGED <<chan, outbox, plan, emitted, got, dropped, stops>>
    PROVE  Ordered(Z)'
  <1>1. PICK h \in [Z -> 0 .. MaxEvents], d \in [Z -> 0 .. MaxEvents] : InOrder(Z, h, d)
    BY DEF Ordered
  <1>2. \A t : Dests(t)' = Dests(t) /\ Taken(d, t)' = Taken(d, t)
    BY SameDests DEF Taken
  <1>3. ChanOrder(Z, h, d)' = ChanOrder(Z, h, d) /\ ChanFull(Z, h, d)' = ChanFull(Z, h, d)
    BY DEF ChanOrder, ChanFull, Range
  <1>4. EdgeOrder(Z, h, d)' = EdgeOrder(Z, h, d)
    BY <1>2 DEF EdgeOrder
  <1>5. EdgeFull(Z, h, d)' = EdgeFull(Z, h, d)
    <2>1. \A t : Range(outbox[t])' = Range(outbox[t])
      BY DEF Range
    <2> QED BY <1>2, <2>1 DEF EdgeFull
  <1>6. GotOrder(Z, d)' = GotOrder(Z, d) /\ GotFull(Z, d)' = GotFull(Z, d)
    BY DEF GotOrder, GotFull, Range
  <1> QED BY <1>1, <1>3, <1>4, <1>5, <1>6 DEF InOrder, Ordered

\* The numbers k are the numbers a after task x moved to message m.
Moved(Z, a, k, x, m) == \A z \in Z : k[z] = IF z = x /\ m \in Events THEN m ELSE a[z]

\* The events between a and b were dropped.
Gap(a, b) == \A e \in Events : a < e /\ e < b => e \in dropped

\* A message is put in the channel of x: an event is later than those before it.
LEMMA OrderPutChan ==
    ASSUME FlowTypes, NEW Z \in SUBSET Nodes,
           NEW h \in [Z -> 0 .. MaxEvents], NEW d \in [Z -> 0 .. MaxEvents],
           NEW x \in Nodes, NEW m \in Msgs, Room(x), chan' = [chan EXCEPT ![x] = Append(@, m)],
           ChanOrder(Z, h, d),
           NEW k \in [Z -> 0 .. MaxEvents],
           Moved(Z, h, k, x, m),
           x \in Z /\ m \in Events => h[x] < m
    PROVE  /\ ChanOrder(Z, k, d)'
           /\ /\ ChanFull(Z, h, d) /\ dropped' = dropped
              /\ x \in Z /\ m \in Events => Gap(h[x], m)
              => ChanFull(Z, k, d)'
  <1> USE DEF Moved, Gap
  <1>1. MaxEvents \in Nat
    BY FlowAssumption
  <1>2. \A e \in Events : e \in Nat
    BY <1>1, MessageKinds
  <1>3. /\ \A y \in Nodes : y # x => chan'[y] = chan[y]
        /\ chan[x] \in Seq(Msgs) /\ Len(chan[x]) \in Nat /\ DOMAIN chan[x] = 1 .. Len(chan[x])
        /\ DOMAIN chan'[x] = 1 .. Len(chan[x]) + 1
        /\ \A i \in 1 .. Len(chan[x]) : chan'[x][i] = chan[x][i]
        /\ chan'[x][Len(chan[x]) + 1] = m
    BY ChanPut
  <1>4. PICK n \in Nat : n = Len(chan[x])
    BY <1>3
  <1>5. \A i \in DOMAIN chan'[x] : /\ i \in Nat
                                   /\ (i \in DOMAIN chan[x] /\ i <= n /\ chan'[x][i] = chan[x][i])
                                      \/ (i = n + 1 /\ chan'[x][i] = m)
    BY <1>3, <1>4
  <1>6. ChanOrder(Z, k, d)'
    <2> SUFFICES ASSUME NEW z \in Z
                 PROVE  /\ d[z] <= k[z]
                        /\ \A i \in DOMAIN chan'[z] :
                              chan'[z][i] \in Events => d[z] < chan'[z][i] /\ chan'[z][i] <= k[z]
                        /\ \A i, j \in DOMAIN chan'[z] :
                              i < j /\ chan'[z][i] \in Events /\ chan'[z][j] \in Events
                              => chan'[z][i] < chan'[z][j]
      BY DEF ChanOrder
    <2>1. /\ d[z] <= h[z] /\ d[z] \in Nat /\ h[z] \in Nat
          /\ \A i \in DOMAIN chan[z] :
                chan[z][i] \in Events => d[z] < chan[z][i] /\ chan[z][i] <= h[z]
          /\ \A i, j \in DOMAIN chan[z] :
                i < j /\ chan[z][i] \in Events /\ chan[z][j] \in Events => chan[z][i] < chan[z][j]
      BY <1>1 DEF ChanOrder
    <2>2. CASE z # x
      BY <1>3, <2>1, <2>2
    <2>3. CASE z = x
      <3>1. m \in Events => h[z] < m /\ k[z] = m /\ m \in Nat
        BY <1>2, <2>3
      <3>2. m \notin Events => k[z] = h[z]
        OBVIOUS
      <3>3. \A i \in DOMAIN chan'[z] :
               chan'[z][i] \in Events => d[z] < chan'[z][i] /\ chan'[z][i] <= k[z]
        BY <1>2, <1>5, <2>1, <2>3, <3>1, <3>2
      <3>4. ASSUME NEW i \in DOMAIN chan'[z], NEW j \in DOMAIN chan'[z], i < j,
                   chan'[z][i] \in Events, chan'[z][j] \in Events
            PROVE  chan'[z][i] < chan'[z][j]
        <4>1. i \in DOMAIN chan[z] /\ i <= n /\ chan'[z][i] = chan[z][i]
          BY <1>5, <2>3, <3>4
        <4>2. CASE j \in DOMAIN chan[z] /\ chan'[z][j] = chan[z][j]
          BY <2>1, <3>4, <4>1, <4>2
        <4>3. CASE chan'[z][j] = m
          <5>1. chan[z][i] <= h[z] /\ chan[z][i] \in Nat
            BY <1>2, <2>1, <3>4, <4>1
          <5> QED BY <2>1, <3>1, <3>4, <4>1, <4>3, <5>1
        <4> QED BY <1>5, <2>3, <4>2, <4>3
      <3> QED BY <2>1, <3>1, <3>2, <3>3, <3>4
    <2> QED BY <2>2, <2>3
  <1>7. ASSUME ChanFull(Z, h, d), dropped' = dropped,
               x \in Z /\ m \in Events => Gap(h[x], m)
        PROVE  ChanFull(Z, k, d)'
    <2> SUFFICES ASSUME NEW z \in Z, NEW e \in Events, d[z] < e, e <= k[z]
                 PROVE  (\E i \in DOMAIN chan'[z] : chan'[z][i] = e) \/ e \in dropped
      BY <1>7 DEF ChanFull, Range
    <2>1. d[z] < e /\ e <= h[z] => (\E i \in DOMAIN chan[z] : chan[z][i] = e) \/ e \in dropped
      BY <1>7 DEF ChanFull, Range
    <2>2. CASE z # x
      BY <1>3, <2>1, <2>2
    <2>3. CASE z = x
      <3>1. \A i \in DOMAIN chan[z] : i \in DOMAIN chan'[z] /\ chan'[z][i] = chan[z][i]
        BY <1>3, <1>4, <2>3
      <3>2. CASE e <= h[z]
        BY <2>1, <3>1, <3>2
      <3>3. CASE ~(e <= h[z])
        <4>1. m \in Events /\ k[z] = m /\ m \in Nat
          BY <1>2, <2>3, <3>3
        <4>2. h[z] < e /\ (e = m \/ e < m)
          BY <1>1, <1>2, <3>3, <4>1
        <4>3. n + 1 \in DOMAIN chan'[z] /\ chan'[z][n + 1] = m
          BY <1>3, <1>4, <2>3
        <4> QED BY <1>7, <2>3, <4>1, <4>2, <4>3
      <3> QED BY <3>2, <3>3
    <2> QED BY <2>2, <2>3
  <1> QED BY <1>6, <1>7

\* Task x takes message m from its channel: the events left in it are later.
Takes(x, m) == chan[x] # <<>> /\ chan' = [chan EXCEPT ![x] = Tail(@)] /\ m = Head(chan[x])

LEMMA OrderTakeChan ==
    ASSUME FlowTypes, NEW Z \in SUBSET Nodes,
           NEW h \in [Z -> 0 .. MaxEvents], NEW d \in [Z -> 0 .. MaxEvents],
           NEW x \in Nodes, NEW m \in Msgs, Takes(x, m), ChanOrder(Z, h, d),
           NEW k \in [Z -> 0 .. MaxEvents],
           Moved(Z, d, k, x, m)
    PROVE  /\ ChanOrder(Z, h, k)'
           /\ x \in Z /\ m \in Events => d[x] < m
           /\ ChanFull(Z, h, d) /\ dropped \subseteq dropped' => ChanFull(Z, h, k)'
           /\ ChanFull(Z, h, d) /\ x \in Z /\ m \in Events => Gap(d[x], m)
  <1> USE DEF Moved, Gap
  <1>1. MaxEvents \in Nat
    BY FlowAssumption
  <1>2. \A e \in Events : e \in Nat
    BY <1>1, MessageKinds
  <1>3. /\ \A y \in Nodes : y # x => chan'[y] = chan[y]
        /\ m = chan[x][1] /\ 1 \in DOMAIN chan[x]
        /\ \A i \in DOMAIN chan'[x] : /\ i \in Nat /\ i >= 1 /\ i + 1 \in DOMAIN chan[x]
                                      /\ chan'[x][i] = chan[x][i + 1]
        /\ \A i \in DOMAIN chan[x] : i \in Nat /\ (i # 1 => i > 1 /\ i - 1 \in DOMAIN chan'[x]
                                      /\ chan'[x][i - 1] = chan[x][i])
    BY ChanTake DEF Takes
  <1>4. ASSUME NEW z \in Z
        PROVE  /\ d[z] <= h[z] /\ d[z] \in Nat /\ h[z] \in Nat
               /\ \A i \in DOMAIN chan[z] :
                     chan[z][i] \in Events => d[z] < chan[z][i] /\ chan[z][i] <= h[z]
               /\ \A i, j \in DOMAIN chan[z] :
                     i < j /\ chan[z][i] \in Events /\ chan[z][j] \in Events => chan[z][i] < chan[z][j]
    BY <1>1, <1>4 DEF ChanOrder
  <1>5. x \in Z /\ m \in Events => d[x] < m /\ m <= h[x] /\ m \in Nat
    BY <1>2, <1>3, <1>4
  <1>6. ASSUME x \in Z, m \in Events, NEW i \in DOMAIN chan[x], i # 1, chan[x][i] \in Events
        PROVE  m < chan[x][i]
    <2>1. 1 < i
      BY <1>3, <1>6
    <2> QED BY <1>3, <1>4, <1>6, <2>1
  <1>7. ChanOrder(Z, h, k)'
    <2> SUFFICES ASSUME NEW z \in Z
                 PROVE  /\ k[z] <= h[z]
                        /\ \A i \in DOMAIN chan'[z] :
                              chan'[z][i] \in Events => k[z] < chan'[z][i] /\ chan'[z][i] <= h[z]
                        /\ \A i, j \in DOMAIN chan'[z] :
                              i < j /\ chan'[z][i] \in Events /\ chan'[z][j] \in Events
                              => chan'[z][i] < chan'[z][j]
      BY DEF ChanOrder
    <2>1. CASE z # x
      BY <1>3, <1>4, <2>1
    <2>2. CASE z = x
      <3>1. k[z] <= h[z]
        BY <1>4, <1>5, <2>2
      <3>2. ASSUME NEW i \in DOMAIN chan'[z], chan'[z][i] \in Events
            PROVE  k[z] < chan'[z][i] /\ chan'[z][i] <= h[z]
        <4>1. i + 1 \in DOMAIN chan[x] /\ i + 1 # 1 /\ chan'[z][i] = chan[x][i + 1]
          BY <1>3, <2>2, <3>2
        <4> QED BY <1>4, <1>6, <2>2, <3>2, <4>1
      <3>3. ASSUME NEW i \in DOMAIN chan'[z], NEW j \in DOMAIN chan'[z], i < j,
                   chan'[z][i] \in Events, chan'[z][j] \in Events
            PROVE  chan'[z][i] < chan'[z][j]
        <4>1. /\ i + 1 \in DOMAIN chan[z] /\ j + 1 \in DOMAIN chan[z] /\ i + 1 < j + 1
              /\ chan'[z][i] = chan[z][i + 1] /\ chan'[z][j] = chan[z][j + 1]
          BY <1>3, <2>2, <3>3
        <4> QED BY <1>4, <3>3, <4>1
      <3> QED BY <3>1, <3>2, <3>3
    <2> QED BY <2>1, <2>2
  <1>8. ASSUME ChanFull(Z, h, d), NEW z \in Z, NEW e \in Events, d[z] < e, e <= h[z]
        PROVE  (\E i \in DOMAIN chan[z] : chan[z][i] = e) \/ e \in dropped
    BY <1>8 DEF ChanFull, Range
  <1>9. ASSUME ChanFull(Z, h, d), dropped \subseteq dropped' PROVE ChanFull(Z, h, k)'
    <2> SUFFICES ASSUME NEW z \in Z, NEW e \in Events, k[z] < e, e <= h[z]
                 PROVE  e \in Range(chan'[z]) \union dropped'
      BY DEF ChanFull
    <2>1. d[z] < e
      BY <1>2, <1>4, <1>5
    <2>2. (\E i \in DOMAIN chan[z] : chan[z][i] = e) \/ e \in dropped
      BY <1>8, <1>9, <2>1
    <2>3. z # x => chan'[z] = chan[z]
      BY <1>3
    <2>4. ASSUME NEW i \in DOMAIN chan[z], chan[z][i] = e, z = x
          PROVE  \E j \in DOMAIN chan'[z] : chan'[z][j] = e
      <3>1. i # 1
        <4> SUFFICES ASSUME i = 1 PROVE FALSE
          OBVIOUS
        <4>1. m = e /\ k[z] = m /\ e \in Nat
          BY <1>2, <1>3, <2>4
        <4>2. ~(e < e)
          BY <4>1
        <4> QED BY <4>1, <4>2
      <3>2. i - 1 \in DOMAIN chan'[x] /\ chan'[x][i - 1] = e
        BY <1>3, <2>4, <3>1
      <3> QED BY <2>4, <3>2
    <2>5. (\E j \in DOMAIN chan'[z] : chan'[z][j] = e) \/ e \in dropped'
      <3>1. CASE e \in dropped
        BY <1>9, <3>1
      <3>2. CASE z = x /\ e \notin dropped
        BY <2>2, <2>4, <3>2
      <3>3. CASE z # x /\ e \notin dropped
        BY <2>2, <2>3, <3>3
      <3> QED BY <3>1, <3>2, <3>3
    <2> QED BY <2>5 DEF Range
  <1>10. ASSUME ChanFull(Z, h, d), x \in Z, m \in Events, NEW e \in Events, d[x] < e, e < m
         PROVE  e \in dropped
    <2>1. e <= h[x]
      BY <1>2, <1>4, <1>5, <1>10
    <2>2. (\E i \in DOMAIN chan[x] : chan[x][i] = e) \/ e \in dropped
      BY <1>8, <1>10, <2>1
    <2>3. ASSUME NEW i \in DOMAIN chan[x], chan[x][i] = e PROVE FALSE
      <3>1. i # 1
        BY <1>2, <1>3, <1>10, <2>3
      <3>2. m < e
        BY <1>6, <1>10, <2>3, <3>1
      <3> QED BY <1>2, <1>10, <3>2
    <2> QED BY <2>2, <2>3
  <1>11. ChanFull(Z, h, d) /\ x \in Z /\ m \in Events => Gap(d[x], m)
    BY <1>10 DEF Gap
  <1> QED BY <1>5, <1>7, <1>9, <1>11

\* transmit_event, send_events: the event that t sends to x is later than all that
\* x got before, and t does not send it there again.
LEMMA OrderDeliver ==
    ASSUME Basics, NEW t \in Senders, Deliver(t), NEW Z \in SUBSET Nodes, LoneWay(Z), Ordered(Z)
    PROVE  Ordered(Z)'
  <1>1. PICK h \in [Z -> 0 .. MaxEvents], d \in [Z -> 0 .. MaxEvents] : InOrder(Z, h, d)
    BY DEF Ordered
  <1>2. UNCHANGED <<plan, emitted, got, dropped, stops>> /\ outbox[t] # <<>>
    BY DEF Deliver, history, bounds
  <1>3. FlowTypes /\ MaxEvents \in Nat
    BY FlowAssumption DEF Basics
  <1>4. \A e \in Events : e \in Nat /\ e <= MaxEvents /\ e >= 1 /\ e # Tick
    BY <1>3, MessageKinds
  <1>5. PICK to \in Nodes, m \in Msgs : /\ outbox[t][1] = <<to, m>> /\ Head(outbox[t]) = <<to, m>>
                                        /\ 1 \in DOMAIN outbox[t]
    BY <1>2, <1>3, DeliverFacts
  <1>6. PICK r \in Seq(Nodes \X Msgs), c \in Nat :
           /\ r = FromNextDue(Tail(outbox[t])) /\ Rest(outbox[t], r, c) /\ c >= 1
           /\ \A i \in DOMAIN outbox[t] : i > 1 /\ outbox[t][i][2] # Tick => i > c
    BY <1>2, <1>3, DeliverFacts
  <1>7. chan' = [chan EXCEPT ![to] = Append(@, m)] /\ Room(to)
    <2>1. Head(outbox[t])[1] = to /\ Head(outbox[t])[2] = m
      BY <1>5
    <2> QED BY <2>1, Zenon DEF Deliver
  <1>8. outbox'[t] = r /\ \A u \in Senders : u # t => outbox'[u] = outbox[u]
    BY <1>3, <1>6 DEF Deliver, FlowTypes
  <1>9. PICK n \in Nat : n = Len(outbox[t]) /\ DOMAIN outbox[t] = 1 .. n
    <2>1. outbox[t] \in Seq(Nodes \X Msgs)
      BY <1>3 DEF FlowTypes
    <2> QED BY <2>1
  <1>10. \A i \in DOMAIN r : i + c \in DOMAIN outbox[t] /\ i + c > 1 /\ r[i] = outbox[t][i + c] /\ i \in Nat
    <2>1. c \in 0 .. n /\ DOMAIN r = 1 .. n - c /\ \A i \in 1 .. n - c : r[i] = outbox[t][i + c]
      BY <1>6, <1>9 DEF Rest
    <2> SUFFICES ASSUME NEW i \in 1 .. n - c
                 PROVE  i + c \in 1 .. n /\ i + c > 1 /\ i \in Nat
      BY <1>9, <2>1
    <2> QED BY <1>6, <2>1
  <1>11. \A i \in DOMAIN outbox[t] : i # 1 /\ outbox[t][i][2] # Tick =>
            i - c \in DOMAIN r /\ r[i - c] = outbox[t][i]
    <2> SUFFICES ASSUME NEW i \in 1 .. n, i # 1, outbox[t][i][2] # Tick
                 PROVE  i - c \in 1 .. n - c /\ r[i - c] = outbox[t][i]
      BY <1>6, <1>9 DEF Rest
    <2>1. i > c
      <3>1. i > 1 /\ i \in DOMAIN outbox[t]
        BY <1>9
      <3> QED BY <1>6, <3>1
    <2>2. i - c \in 1 .. n - c /\ (i - c) + c = i
      BY <1>6, <2>1
    <2>3. r[i - c] = outbox[t][(i - c) + c]
      BY <1>6, <1>9, <2>2 DEF Rest
    <2> QED BY <2>2, <2>3
  <1>12. to \in Dests(t)
    BY <1>3, <1>5 DEF FlowTypes
  <1>13. \A u : Dests(u)' = Dests(u) /\ Taken(d, u)' = Taken(d, u)
    BY <1>2, SameDests DEF Taken
  <1>14. ASSUME to \in Z, m \in Events
         PROVE  /\ m = Taken(d, t) /\ h[to] < m
                /\ \A i \in DOMAIN outbox[t] : ToSend(outbox[t], i, to) => i = 1
    <2>1. ToSend(outbox[t], 1, to) /\ outbox[t][1][2] = m
      BY <1>5, <1>14 DEF ToSend
    <2>2. OneLeft(outbox[t], to, h[to], Taken(d, t))
      BY <1>1, <1>12, <1>14 DEF InOrder, EdgeOrder
    <2> QED BY <1>5, <2>1, <2>2 DEF OneLeft
  <1>15. PICK k \in [Z -> 0 .. MaxEvents] :
            Moved(Z, h, k, to, m) /\ \A z \in Z : k[z] = IF z = to /\ m \in Events THEN m ELSE h[z]
    <2>1. m \in Events => m \in 0 .. MaxEvents
      BY <1>3, <1>4
    <2>2. [z \in Z |-> IF z = to /\ m \in Events THEN m ELSE h[z]] \in [Z -> 0 .. MaxEvents]
      BY <2>1
    <2> QED BY <2>2 DEF Moved
  <1>16. ASSUME NEW u \in Senders, NEW z \in Z, z \in Dests(u)
         PROVE  (t = u /\ z = to) \/ ((t # u \/ z # to) /\ z # to)
    BY <1>12, <1>16, LoneFacts
  <1>17. \A i \in DOMAIN r : r[i] = outbox[t][i + c] =>
            \A z : ToSend(r, i, z) => ToSend(outbox[t], i + c, z) /\ r[i][2] = outbox[t][i + c][2]
    BY DEF ToSend
  <1>18. EdgeOrder(Z, k, d)'
    <2> SUFFICES ASSUME NEW u \in Senders, NEW z \in Z, z \in Dests(u)
                 PROVE  k[z] <= Taken(d, u) /\ OneLeft(outbox'[u], z, k[z], Taken(d, u))
      BY <1>13 DEF EdgeOrder
    <2>1. h[z] <= Taken(d, u) /\ OneLeft(outbox[u], z, h[z], Taken(d, u))
      BY <1>1 DEF InOrder, EdgeOrder
    <2>2. CASE u # t
      <3>1. z # to
        BY <1>16, <2>2
      <3> QED BY <1>8, <1>15, <2>1, <2>2, <3>1
    <2>3. CASE u = t
      <3>1. k[z] <= Taken(d, u)
        BY <1>4, <1>14, <1>15, <2>1, <2>3
      <3>2. ASSUME NEW i \in DOMAIN r, ToSend(r, i, z)
            PROVE  /\ i + c \in DOMAIN outbox[u] /\ i + c # 1 /\ i \in Nat
                   /\ ToSend(outbox[u], i + c, z) /\ r[i][2] = outbox[u][i + c][2]
        BY <1>10, <1>17, <2>3, <3>2
      <3>3. ASSUME NEW i \in DOMAIN r, ToSend(r, i, z)
            PROVE  r[i][2] = Taken(d, u) /\ k[z] < Taken(d, u)
        <4>1. i + c \in DOMAIN outbox[u] /\ i + c # 1 /\ ToSend(outbox[u], i + c, z)
          BY <3>2, <3>3
        <4>2. z = to => m \notin Events
          BY <1>14, <2>3, <4>1
        <4>3. k[z] = h[z]
          BY <1>15, <4>2
        <4> QED BY <2>1, <3>2, <3>3, <4>1, <4>3 DEF OneLeft
      <3>4. ASSUME NEW i \in DOMAIN r, NEW j \in DOMAIN r, ToSend(r, i, z), ToSend(r, j, z)
            PROVE  i = j
        <4>1. i + c = j + c
          BY <2>1, <3>2, <3>4 DEF OneLeft
        <4> QED BY <3>2, <3>4, <4>1
      <3>5. OneLeft(r, z, k[z], Taken(d, u))
        BY <3>3, <3>4 DEF OneLeft
      <3> QED BY <1>8, <2>3, <3>1, <3>5
    <2> QED BY <2>2, <2>3
  <1>19. stops = 0 => EdgeFull(Z, h, d) /\ ChanFull(Z, h, d) /\ GotFull(Z, d)
    BY <1>1 DEF InOrder
  <1>20. ASSUME stops = 0, NEW u \in Senders, NEW z \in Z, z \in Dests(u),
                NEW e \in Events, h[z] < e, e <= Taken(d, u)
         PROVE  e \in dropped \/ \E i \in DOMAIN outbox[u] : outbox[u][i] = <<z, e>>
    BY ZenonT(60), <1>19, <1>20 DEF EdgeFull, Range
  <1>21. ASSUME stops = 0 PROVE EdgeFull(Z, k, d)'
    <2> SUFFICES ASSUME NEW u \in Senders, NEW z \in Z, z \in Dests(u),
                        NEW e \in Events, k[z] < e, e <= Taken(d, u), e \notin dropped
                 PROVE  <<z, e>> \in Range(outbox'[u])
      BY <1>2, <1>13 DEF EdgeFull
    <2>1. h[z] < e
      BY <1>4, <1>14, <1>15
    <2>2. PICK i \in DOMAIN outbox[u] : outbox[u][i] = <<z, e>>
      BY <1>20, <1>21, <2>1
    <2>3. CASE u # t
      BY <1>8, <2>2, <2>3 DEF Range
    <2>4. CASE u = t
      <3>1. i # 1
        <4> SUFFICES ASSUME i = 1 PROVE FALSE
          OBVIOUS
        <4>1. z = to /\ e = m
          BY <1>5, <2>2, <2>4
        <4>2. k[z] = e /\ e \in Nat
          BY <1>4, <1>15, <4>1
        <4>3. ~(e < e)
          BY <4>2
        <4> QED BY <4>2, <4>3
      <3>2. outbox[t][i][2] # Tick
        BY <1>4, <2>2, <2>4
      <3>3. i - c \in DOMAIN r /\ r[i - c] = <<z, e>>
        BY <1>11, <2>2, <2>4, <3>1, <3>2
      <3> QED BY <1>8, <2>4, <3>3 DEF Range
    <2> QED BY <2>3, <2>4
  <1>22. /\ ChanOrder(Z, k, d)'
         /\ /\ ChanFull(Z, h, d) /\ dropped' = dropped
            /\ to \in Z /\ m \in Events => Gap(h[to], m)
            => ChanFull(Z, k, d)'
    <2>1. ChanOrder(Z, h, d) /\ (to \in Z /\ m \in Events => h[to] < m)
      BY <1>1, <1>14 DEF InOrder
    <2> QED BY <1>3, <1>7, <1>15, <2>1, OrderPutChan
  <1>23. ASSUME stops = 0, to \in Z, m \in Events, NEW e \in Events, h[to] < e, e < m
         PROVE  e \in dropped
    <2>1. e <= Taken(d, t)
      BY <1>4, <1>14, <1>23
    <2>2. e \in dropped \/ \E i \in DOMAIN outbox[t] : outbox[t][i] = <<to, e>>
      BY <1>12, <1>20, <1>23, <2>1
    <2>3. ASSUME NEW i \in DOMAIN outbox[t], outbox[t][i] = <<to, e>> PROVE FALSE
      <3>1. ToSend(outbox[t], i, to)
        BY <1>23, <2>3 DEF ToSend
      <3>2. i = 1
        BY <1>14, <1>23, <3>1
      <3>3. e = m
        BY <1>5, <2>3, <3>2
      <3> QED BY <1>4, <1>23, <3>3
    <2> QED BY <2>2, <2>3
  <1>24. stops = 0 /\ to \in Z /\ m \in Events => Gap(h[to], m)
    BY <1>23 DEF Gap
  <1>25. GotOrder(Z, d)' /\ (stops = 0 => GotFull(Z, d)')
    BY <1>1, <1>2, <1>19 DEF InOrder, GotOrder, GotFull, Range
  <1>26. InOrder(Z, k, d)'
    BY <1>2, <1>18, <1>19, <1>21, <1>22, <1>24, <1>25 DEF InOrder
  <1> QED BY <1>26 DEF Ordered

\* on_event: an event taken by a sink is later than those it got before.
LEMMA OrderGot ==
    ASSUME got \in [Sinks -> Seq(Events)], NEW Z \in SUBSET Nodes,
           NEW d \in [Z -> 0 .. MaxEvents], NEW k \in [Z -> 0 .. MaxEvents],
           NEW x \in Nodes, NEW m \in Msgs,
           Moved(Z, d, k, x, m),
           x \in Z /\ m \in Events => d[x] < m,
           got' = IF x \in Sinks /\ m \in Events THEN [got EXCEPT ![x] = Append(@, m)] ELSE got,
           dropped \subseteq dropped',
           GotOrder(Z, d)
    PROVE  /\ GotOrder(Z, k)'
           /\ /\ GotFull(Z, d)
              /\ x \in Z /\ m \in Events => Gap(d[x], m)
              => GotFull(Z, k)'
  <1> USE DEF Moved, Gap
  <1>1. MaxEvents \in Nat
    BY FlowAssumption
  <1>2. \A e \in Events : e \in Nat
    BY <1>1, MessageKinds
  <1>3. ASSUME NEW s \in Z \intersect Sinks
        PROVE  /\ d[s] \in Nat
               /\ \A i \in DOMAIN got[s] : got[s][i] <= d[s] /\ got[s][i] \in Nat /\ i \in Nat
               /\ \A i, j \in DOMAIN got[s] : i < j => got[s][i] < got[s][j]
    <2>1. got[s] \in Seq(Events)
      OBVIOUS
    <2>2. \A i \in DOMAIN got[s] : got[s][i] \in Nat /\ i \in Nat
      BY <1>2, <2>1
    <2> QED BY <1>1, <2>2 DEF GotOrder
  <1>4. ASSUME NEW s \in Z \intersect Sinks, s # x \/ m \notin Events
        PROVE  got'[s] = got[s] /\ k[s] = d[s]
    BY <1>4
  <1>5. ASSUME x \in Z \intersect Sinks, m \in Events
        PROVE  /\ k[x] = m /\ m \in Nat /\ d[x] < m
               /\ \E n \in Nat : /\ DOMAIN got[x] = 1 .. n /\ DOMAIN got'[x] = 1 .. n + 1
                                 /\ \A i \in 1 .. n : got'[x][i] = got[x][i]
                                 /\ got'[x][n + 1] = m
    <2>1. PICK q \in Seq(Events) : q = got[x]
      BY <1>5
    <2>2. got'[x] = Append(q, m)
      BY <1>5, <2>1
    <2>3. /\ DOMAIN q = 1 .. Len(q) /\ DOMAIN Append(q, m) = 1 .. Len(q) + 1 /\ Len(q) \in Nat
          /\ \A i \in 1 .. Len(q) : Append(q, m)[i] = q[i]
          /\ Append(q, m)[Len(q) + 1] = m
      BY <1>5
    <2> QED BY <1>2, <1>5, <2>1, <2>2, <2>3
  <1>6. GotOrder(Z, k)'
    <2> SUFFICES ASSUME NEW s \in Z \intersect Sinks
                 PROVE  /\ \A i \in DOMAIN got'[s] : got'[s][i] <= k[s]
                        /\ \A i, j \in DOMAIN got'[s] : i < j => got'[s][i] < got'[s][j]
      BY DEF GotOrder
    <2>1. CASE s # x \/ m \notin Events
      BY <1>3, <1>4, <2>1
    <2>2. CASE s = x /\ m \in Events
      <3>1. PICK n \in Nat : /\ DOMAIN got[x] = 1 .. n /\ DOMAIN got'[x] = 1 .. n + 1
                             /\ \A i \in 1 .. n : got'[x][i] = got[x][i]
                             /\ got'[x][n + 1] = m
        BY <1>5, <2>2
      <3>2. k[x] = m /\ m \in Nat /\ d[x] < m /\ d[x] \in Nat
        BY <1>3, <1>5, <2>2
      <3>3. \A i \in 1 .. n : got'[x][i] <= d[x] /\ got'[x][i] \in Nat
        BY <1>3, <2>2, <3>1
      <3>4. \A i \in 1 .. n + 1 : i \in 1 .. n \/ i = n + 1
        OBVIOUS
      <3>5. \A i \in 1 .. n + 1 : got'[x][i] <= k[x]
        BY <3>1, <3>2, <3>3, <3>4
      <3>6. ASSUME NEW i \in 1 .. n + 1, NEW j \in 1 .. n + 1, i < j
            PROVE  got'[x][i] < got'[x][j]
        <4>1. i \in 1 .. n
          BY <3>6
        <4>2. CASE j \in 1 .. n
          BY <1>3, <2>2, <3>1, <3>6, <4>1, <4>2
        <4>3. CASE j = n + 1
          <5>1. got'[x][j] = m
            BY <3>1, <4>3
          <5>2. got'[x][i] <= d[x] /\ got'[x][i] \in Nat
            BY <3>3, <4>1
          <5>3. \A a, b, e \in Nat : a <= b /\ b < e => a < e
            OBVIOUS
          <5> QED BY <3>2, <5>1, <5>2, <5>3, Zenon
        <4> QED BY <3>4, <4>2, <4>3
      <3> QED BY <2>2, <3>1, <3>5, <3>6
    <2> QED BY <2>1, <2>2
  <1>7. ASSUME GotFull(Z, d),
               x \in Z /\ m \in Events => Gap(d[x], m)
        PROVE  GotFull(Z, k)'
    <2> SUFFICES ASSUME NEW s \in Z \intersect Sinks, NEW e \in Events, e <= k[s], e \notin dropped'
                 PROVE  \E i \in DOMAIN got'[s] : got'[s][i] = e
      BY DEF GotFull, Range
    <2>1. e <= d[s] => \E i \in DOMAIN got[s] : got[s][i] = e
      BY <1>7 DEF GotFull, Range
    <2>2. CASE s # x \/ m \notin Events
      BY <1>4, <2>1, <2>2
    <2>3. CASE s = x /\ m \in Events
      <3>1. PICK n \in Nat : /\ DOMAIN got[x] = 1 .. n /\ DOMAIN got'[x] = 1 .. n + 1
                             /\ \A i \in 1 .. n : got'[x][i] = got[x][i]
                             /\ got'[x][n + 1] = m
        BY <1>5, <2>3
      <3>2. k[x] = m /\ m \in Nat /\ d[x] \in Nat /\ e \in Nat
        BY <1>2, <1>3, <1>5, <2>3
      <3>3. e = m \/ (d[x] < e /\ e < m) \/ e <= d[x]
        BY <2>3, <3>2
      <3>4. ~(d[x] < e /\ e < m)
        BY <1>7, <2>3
      <3>5. n + 1 \in 1 .. n + 1 /\ \A i \in 1 .. n : i \in 1 .. n + 1
        OBVIOUS
      <3> QED BY <2>1, <2>3, <3>1, <3>3, <3>4, <3>5
    <2> QED BY <2>2, <2>3
  <1> QED BY <1>6, <1>7

\* What a task x on the way Z does with the message m that it took: an event is
\* put in the outbox once for every destination or dropped, and nothing else is.
PassesOn(Z, x, m) ==
    /\ \A u \in Senders : u # x => outbox'[u] = outbox[u]
    /\ x \in Pipes => \A z \in Z : z \in Dests(x) =>
          /\ \A i \in DOMAIN outbox'[x] :
                ToSend(outbox'[x], i, z) => m \in Events /\ outbox'[x][i][2] = m
          /\ \A i, j \in DOMAIN outbox'[x] :
                ToSend(outbox'[x], i, z) /\ ToSend(outbox'[x], j, z) => i = j
          /\ m \in Events => m \in dropped' \/ <<z, m>> \in Range(outbox'[x])

\* Task x takes message m from its channel.
LEMMA OrderTake ==
    ASSUME Basics, got \in [Sinks -> Seq(Events)], NEW Z \in SUBSET Nodes, LoneWay(Z), Ordered(Z),
           NEW x \in Nodes, x \in low, chan' = [chan EXCEPT ![x] = Tail(@)],
           NEW m \in Msgs, m = Head(chan[x]), PassesOn(Z, x, m),
           got' = IF x \in Sinks /\ m \in Events THEN [got EXCEPT ![x] = Append(@, m)] ELSE got,
           UNCHANGED <<plan, emitted, stops>>, dropped \subseteq dropped'
    PROVE  Ordered(Z)'
  <1>1. PICK h \in [Z -> 0 .. MaxEvents], d \in [Z -> 0 .. MaxEvents] : InOrder(Z, h, d)
    BY DEF Ordered
  <1>2. FlowTypes /\ MaxEvents \in Nat /\ x # Src
    BY FlowAssumption DEF Basics, Nodes
  <1>3. chan[x] # <<>> /\ (x \in Pipes => outbox[x] = <<>>)
    BY <1>2 DEF Basics, Ready, Senders
  <1>4. \A e \in Events : e \in Nat /\ e \in 0 .. MaxEvents
    BY <1>2, MessageKinds
  <1>5. PICK k \in [Z -> 0 .. MaxEvents] :
            Moved(Z, d, k, x, m) /\ \A z \in Z : k[z] = IF z = x /\ m \in Events THEN m ELSE d[z]
    <2>1. [z \in Z |-> IF z = x /\ m \in Events THEN m ELSE d[z]] \in [Z -> 0 .. MaxEvents]
      BY <1>4
    <2> QED BY <2>1 DEF Moved
  <1>6. /\ ChanOrder(Z, h, d) /\ EdgeOrder(Z, h, d) /\ GotOrder(Z, d)
        /\ stops = 0 => ChanFull(Z, h, d) /\ EdgeFull(Z, h, d) /\ GotFull(Z, d)
    BY <1>1 DEF InOrder
  <1>7. /\ ChanOrder(Z, h, k)'
        /\ x \in Z /\ m \in Events => d[x] < m
        /\ ChanFull(Z, h, d) /\ dropped \subseteq dropped' => ChanFull(Z, h, k)'
        /\ ChanFull(Z, h, d) /\ x \in Z /\ m \in Events => Gap(d[x], m)
    <2>1. Takes(x, m)
      BY <1>3 DEF Takes
    <2> QED BY <1>2, <1>5, <1>6, <2>1, OrderTakeChan
  <1>8. /\ GotOrder(Z, k)'
        /\ /\ GotFull(Z, d)
           /\ x \in Z /\ m \in Events => Gap(d[x], m)
           => GotFull(Z, k)'
    BY <1>5, <1>6, <1>7, OrderGot
  <1>9. \A u : Dests(u)' = Dests(u) /\ Taken(k, u)' = Taken(k, u)
    BY SameDests DEF Taken
  <1>10. ASSUME NEW u \in Senders, NEW z \in Z, z \in Dests(u), u # x
         PROVE  outbox'[u] = outbox[u] /\ Taken(k, u) = Taken(d, u)
    <2>1. u = Src \/ u \in Z
      BY <1>10, LoneFacts
    <2> QED BY <1>5, <1>10, <2>1 DEF PassesOn, Taken
  <1>11. ASSUME NEW z \in Z, z \in Dests(x), x \in Senders
         PROVE  /\ x \in Z /\ x \in Pipes /\ Taken(d, x) = d[x] /\ Taken(k, x) = k[x] /\ outbox[x] = <<>>
                /\ d[x] \in Nat /\ k[x] \in Nat /\ h[z] \in Nat /\ h[z] <= d[x]
    <2>1. x \in Z /\ x \in Pipes
      BY <1>2, <1>11, LoneFacts
    <2>2. Taken(d, x) = d[x] /\ Taken(k, x) = k[x]
      BY <1>2 DEF Taken
    <2>3. h[z] <= Taken(d, x)
      BY <1>6, <1>11 DEF EdgeOrder
    <2>4. d[x] \in Nat /\ k[x] \in Nat /\ h[z] \in Nat
      BY <1>2, <2>1
    <2> QED BY <1>3, <2>1, <2>2, <2>3, <2>4
  <1>12. EdgeOrder(Z, h, k)'
    <2> SUFFICES ASSUME NEW u \in Senders, NEW z \in Z, z \in Dests(u)
                 PROVE  h[z] <= Taken(k, u) /\ OneLeft(outbox'[u], z, h[z], Taken(k, u))
      BY <1>9 DEF EdgeOrder
    <2>1. CASE u # x
      <3>1. h[z] <= Taken(d, u) /\ OneLeft(outbox[u], z, h[z], Taken(d, u))
        BY <1>6 DEF EdgeOrder
      <3> QED BY <1>10, <2>1, <3>1
    <2>2. CASE u = x
      <3>1. /\ x \in Z /\ x \in Pipes /\ Taken(k, u) = k[x] /\ d[x] \in Nat /\ k[x] \in Nat
            /\ h[z] \in Nat /\ h[z] <= d[x]
        BY <1>11, <2>2
      <3>2. m \in Events => k[x] = m /\ m \in Nat /\ h[z] < m
        BY <1>4, <1>5, <1>7, <3>1
      <3>3. m \notin Events => k[x] = d[x]
        BY <1>5, <3>1
      <3>4. h[z] <= k[x]
        BY <3>1, <3>2, <3>3
      <3>5. /\ \A i \in DOMAIN outbox'[x] :
                  ToSend(outbox'[x], i, z) => m \in Events /\ outbox'[x][i][2] = m
            /\ \A i, j \in DOMAIN outbox'[x] :
                  ToSend(outbox'[x], i, z) /\ ToSend(outbox'[x], j, z) => i = j
        BY <2>2, <3>1 DEF PassesOn
      <3>6. OneLeft(outbox'[x], z, h[z], k[x])
        BY <3>2, <3>5 DEF OneLeft
      <3> QED BY <2>2, <3>1, <3>4, <3>6
    <2> QED BY <2>1, <2>2
  <1>13. ASSUME stops = 0 PROVE EdgeFull(Z, h, k)'
    <2> SUFFICES ASSUME NEW u \in Senders, NEW z \in Z, z \in Dests(u),
                        NEW e \in Events, h[z] < e, e <= Taken(k, u), e \notin dropped'
                 PROVE  <<z, e>> \in Range(outbox'[u])
      BY <1>9 DEF EdgeFull
    <2>1. e <= Taken(d, u) => <<z, e>> \in Range(outbox[u])
      BY <1>6, <1>13 DEF EdgeFull
    <2>2. CASE u # x
      BY <1>10, <2>1, <2>2
    <2>3. CASE u = x
      <3>1. /\ x \in Z /\ x \in Pipes /\ Taken(k, u) = k[x] /\ Taken(d, u) = d[x] /\ outbox[u] = <<>>
            /\ d[x] \in Nat /\ k[x] \in Nat
        BY <1>11, <2>3
      <3>2. Range(<<>>) = {}
        BY DEF Range
      <3>3. ~(e <= d[x])
        BY <2>1, <3>1, <3>2
      <3>4. m \in Events /\ k[x] = m
        BY <1>5, <3>1, <3>3
      <3>5. ~(d[x] < e /\ e < m)
        BY <1>6, <1>7, <1>13, <3>1, <3>4 DEF Gap
      <3>6. e = m
        BY <1>4, <3>1, <3>3, <3>4, <3>5
      <3>7. m \in dropped' \/ <<z, m>> \in Range(outbox'[x])
        BY <2>3, <3>1, <3>4 DEF PassesOn
      <3> QED BY <2>3, <3>6, <3>7
    <2> QED BY <2>2, <2>3
  <1>14. InOrder(Z, h, k)'
    BY <1>6, <1>7, <1>8, <1>12, <1>13 DEF InOrder
  <1> QED BY <1>14 DEF Ordered

\* transmit_event, send_events: a destination on a lone way is sent the event once.
LEMMA AllOnce ==
    ASSUME plan \in Plans, NEW t \in Senders, NEW m \in Msgs, NEW Z, LoneWay(Z),
           NEW z \in Z, z \in Dests(t)
    PROVE  /\ \A i \in DOMAIN ToAll(t, m) : ToAll(t, m)[i][2] = m
           /\ \A i, j \in DOMAIN ToAll(t, m) :
                 ToSend(ToAll(t, m), i, z) /\ ToSend(ToAll(t, m), j, z) => i = j
           /\ <<z, m>> \in Range(ToAll(t, m))
  <1>1. PICK q : q = ToAll(t, m)
    OBVIOUS
  <1>2. /\ DOMAIN q = DOMAIN plan.outs[t]
        /\ \A i \in DOMAIN q : q[i] = <<plan.outs[t][i], m>> /\ q[i][2] = m
    BY <1>1, ToAllFacts
  <1>3. \A i, j \in DOMAIN plan.outs[t] : plan.outs[t][i] = z /\ plan.outs[t][j] = z => i = j
    BY LoneFacts
  <1>4. \A i \in DOMAIN q : ToSend(q, i, z) => plan.outs[t][i] = z
    BY <1>2 DEF ToSend
  <1>5. \E i \in DOMAIN plan.outs[t] : plan.outs[t][i] = z
    BY DEF Dests, Range
  <1>6. <<z, m>> \in Range(q)
    BY <1>2, <1>5 DEF Range
  <1> QED BY <1>1, <1>2, <1>3, <1>4, <1>6

\* run: the source emits the next event.
LEMMA OrderSrcPull ==
    ASSUME Basics, SrcPull, NEW Z \in SUBSET Nodes, LoneWay(Z), Ordered(Z)
    PROVE  Ordered(Z)'
  <1>1. PICK h \in [Z -> 0 .. MaxEvents], d \in [Z -> 0 .. MaxEvents] : InOrder(Z, h, d)
    BY DEF Ordered
  <1>2. FlowTypes /\ plan \in Plans /\ emitted \in Nat /\ Src \in Senders /\ MaxEvents \in Nat
    BY FlowAssumption DEF Basics, FlowTypes, Senders
  <1>3. /\ emitted' = emitted + 1 /\ outbox' = [outbox EXCEPT ![Src] = ToAll(Src, emitted + 1)]
        /\ emitted < plan.bound.maxEvents /\ Src \in low
        /\ UNCHANGED <<chan, plan, got, dropped, stops>>
    BY DEF SrcPull, history, bounds
  <1>4. emitted + 1 \in Events /\ emitted + 1 \in Msgs
    <2>1. emitted + 1 \in 1 .. MaxEvents
      BY <1>2, <1>3, PlanFacts
    <2> QED BY <1>2, <2>1, MessageKinds
  <1>5. \A e \in Events : e \in Nat
    BY <1>2, MessageKinds
  <1>6. outbox[Src] = <<>>
    BY <1>2, <1>3 DEF Basics, Ready
  <1>7. outbox'[Src] = ToAll(Src, emitted + 1) /\ \A u \in Senders : u # Src => outbox'[u] = outbox[u]
    BY <1>2, <1>3 DEF FlowTypes
  <1>8. \A u : Dests(u)' = Dests(u) /\ Taken(d, u)' = IF u = Src THEN emitted + 1 ELSE Taken(d, u)
    BY <1>3, SameDests DEF Taken
  <1>9. /\ ChanOrder(Z, h, d) /\ EdgeOrder(Z, h, d) /\ GotOrder(Z, d)
        /\ stops = 0 => ChanFull(Z, h, d) /\ EdgeFull(Z, h, d) /\ GotFull(Z, d)
    BY <1>1 DEF InOrder
  <1>10. ASSUME NEW z \in Z, z \in Dests(Src)
         PROVE  h[z] <= emitted /\ h[z] \in Nat
    BY <1>2, <1>9, <1>10 DEF EdgeOrder, Taken
  <1>11. EdgeOrder(Z, h, d)'
    <2> SUFFICES ASSUME NEW u \in Senders, NEW z \in Z, z \in Dests(u)
                 PROVE  h[z] <= Taken(d, u)' /\ OneLeft(outbox'[u], z, h[z], Taken(d, u)')
      BY <1>8 DEF EdgeOrder
    <2>1. CASE u # Src
      BY <1>7, <1>8, <1>9, <2>1 DEF EdgeOrder
    <2>2. CASE u = Src
      <3>1. h[z] <= emitted + 1 /\ h[z] < emitted + 1
        BY <1>2, <1>10, <2>2
      <3>2. /\ \A i \in DOMAIN ToAll(u, emitted + 1) : ToAll(u, emitted + 1)[i][2] = emitted + 1
            /\ \A i, j \in DOMAIN ToAll(u, emitted + 1) :
                 ToSend(ToAll(u, emitted + 1), i, z) /\ ToSend(ToAll(u, emitted + 1), j, z) => i = j
        BY <1>2, <1>4, AllOnce
      <3>3. OneLeft(outbox'[u], z, h[z], emitted + 1)
        BY <1>7, <2>2, <3>1, <3>2 DEF OneLeft
      <3> QED BY <1>8, <2>2, <3>1, <3>3
    <2> QED BY <2>1, <2>2
  <1>12. ASSUME stops = 0 PROVE EdgeFull(Z, h, d)'
    <2> SUFFICES ASSUME NEW u \in Senders, NEW z \in Z, z \in Dests(u),
                        NEW e \in Events, h[z] < e, e <= Taken(d, u)', e \notin dropped
                 PROVE  <<z, e>> \in Range(outbox'[u])
      BY <1>3, <1>8 DEF EdgeFull
    <2>1. e <= Taken(d, u) => <<z, e>> \in Range(outbox[u])
      BY <1>9, <1>12 DEF EdgeFull
    <2>2. CASE u # Src
      BY <1>7, <1>8, <2>1, <2>2
    <2>3. CASE u = Src
      <3>1. Range(<<>>) = {}
        BY DEF Range
      <3>2. ~(e <= emitted)
        BY <1>6, <2>1, <2>3, <3>1 DEF Taken
      <3>3. e = emitted + 1
        BY <1>2, <1>5, <1>8, <2>3, <3>2
      <3>4. <<z, emitted + 1>> \in Range(ToAll(u, emitted + 1))
        BY <1>2, <1>4, AllOnce
      <3> QED BY <1>7, <2>3, <3>3, <3>4
    <2> QED BY <2>2, <2>3
  <1>13. /\ ChanOrder(Z, h, d)' = ChanOrder(Z, h, d) /\ ChanFull(Z, h, d)' = ChanFull(Z, h, d)
         /\ GotOrder(Z, d)' = GotOrder(Z, d) /\ GotFull(Z, d)' = GotFull(Z, d)
    BY <1>3 DEF ChanOrder, ChanFull, GotOrder, GotFull, Range
  <1>14. InOrder(Z, h, d)'
    BY <1>3, <1>9, <1>11, <1>12, <1>13 DEF InOrder
  <1> QED BY <1>14 DEF Ordered

\* A tick, or the message that stops an offramp, is no event.
LEMMA OrderPutOther ==
    ASSUME FlowTypes, NEW Z \in SUBSET Nodes, Ordered(Z),
           NEW x \in Nodes, NEW m \in Msgs, m \notin Events, Room(x),
           chan' = [chan EXCEPT ![x] = Append(@, m)],
           UNCHANGED <<outbox, plan, emitted, got, dropped>>, stops' = stops \/ stops' # 0
    PROVE  Ordered(Z)'
  <1>1. PICK h \in [Z -> 0 .. MaxEvents], d \in [Z -> 0 .. MaxEvents] : InOrder(Z, h, d)
    BY DEF Ordered
  <1>2. /\ ChanOrder(Z, h, d) /\ EdgeOrder(Z, h, d) /\ GotOrder(Z, d)
        /\ stops = 0 => ChanFull(Z, h, d) /\ EdgeFull(Z, h, d) /\ GotFull(Z, d)
    BY <1>1 DEF InOrder
  <1>3. Moved(Z, h, h, x, m)
    BY DEF Moved
  <1>4. ChanOrder(Z, h, d)' /\ (ChanFull(Z, h, d) /\ dropped' = dropped => ChanFull(Z, h, d)')
    BY <1>2, <1>3, OrderPutChan
  <1>5. \A t : Dests(t)' = Dests(t) /\ Taken(d, t)' = Taken(d, t)
    BY SameDests DEF Taken
  <1>6. EdgeOrder(Z, h, d)' = EdgeOrder(Z, h, d)
    BY <1>5 DEF EdgeOrder
  <1>7. EdgeFull(Z, h, d)' = EdgeFull(Z, h, d)
    <2>1. \A t : Range(outbox[t])' = Range(outbox[t])
      BY DEF Range
    <2> QED BY <1>5, <2>1 DEF EdgeFull
  <1>8. GotOrder(Z, d)' = GotOrder(Z, d) /\ GotFull(Z, d)' = GotFull(Z, d)
    BY DEF GotOrder, GotFull, Range
  <1>9. InOrder(Z, h, d)'
    BY <1>2, <1>4, <1>6, <1>7, <1>8 DEF InOrder
  <1> QED BY <1>9 DEF Ordered

\* An offramp ends, or a pipeline drops what it had to send: the events that are
\* left are in order.
LEMMA OrderClear ==
    ASSUME FlowTypes, NEW Z \in SUBSET Nodes, Ordered(Z), stops' # 0,
           \A x \in Nodes : chan'[x] = chan[x] \/ chan'[x] = <<>>,
           \A t \in Senders : outbox'[t] = outbox[t] \/ outbox'[t] = <<>>,
           UNCHANGED <<plan, emitted, got>>
    PROVE  Ordered(Z)'
  <1>1. PICK h \in [Z -> 0 .. MaxEvents], d \in [Z -> 0 .. MaxEvents] : InOrder(Z, h, d)
    BY DEF Ordered
  <1>2. ChanOrder(Z, h, d) /\ EdgeOrder(Z, h, d) /\ GotOrder(Z, d)
    BY <1>1 DEF InOrder
  <1>3. DOMAIN <<>> = {}
    OBVIOUS
  <1>4. ChanOrder(Z, h, d)'
    <2> SUFFICES ASSUME NEW z \in Z
                 PROVE  /\ d[z] <= h[z]
                        /\ \A i \in DOMAIN chan'[z] :
                              chan'[z][i] \in Events => d[z] < chan'[z][i] /\ chan'[z][i] <= h[z]
                        /\ \A i, j \in DOMAIN chan'[z] :
                              i < j /\ chan'[z][i] \in Events /\ chan'[z][j] \in Events
                              => chan'[z][i] < chan'[z][j]
      BY DEF ChanOrder
    <2>1. /\ d[z] <= h[z]
          /\ \A i \in DOMAIN chan[z] :
                chan[z][i] \in Events => d[z] < chan[z][i] /\ chan[z][i] <= h[z]
          /\ \A i, j \in DOMAIN chan[z] :
                i < j /\ chan[z][i] \in Events /\ chan[z][j] \in Events => chan[z][i] < chan[z][j]
      BY <1>2 DEF ChanOrder
    <2>2. CASE chan'[z] = chan[z]
      BY <2>1, <2>2
    <2>3. CASE chan'[z] = <<>>
      BY <1>3, <2>1, <2>3
    <2> QED BY <2>2, <2>3
  <1>5. \A t : Dests(t)' = Dests(t) /\ Taken(d, t)' = Taken(d, t)
    BY SameDests DEF Taken
  <1>6. \A z, b, v : OneLeft(<<>>, z, b, v)
    BY <1>3 DEF OneLeft
  <1>7. EdgeOrder(Z, h, d)'
    BY <1>2, <1>5, <1>6 DEF EdgeOrder
  <1>8. GotOrder(Z, d)'
    BY <1>2 DEF GotOrder
  <1>9. InOrder(Z, h, d)'
    BY <1>4, <1>7, <1>8 DEF InOrder
  <1> QED BY <1>9 DEF Ordered

\* A pipeline takes a message.
LEMMA OrderPipeTakes ==
    ASSUME KnownInv, Basics, NEW p \in Pipes, PipeForward(p) \/ PipeDrop(p),
           NEW Z \in SUBSET Nodes, LoneWay(Z), Ordered(Z)
    PROVE  Ordered(Z)'
  <1>1. /\ p \in Nodes /\ p \in Senders /\ p \notin Sinks /\ p # Src
        /\ plan \in Plans /\ MaxEvents \in Nat /\ FlowTypes /\ got \in [Sinks -> Seq(Events)]
    BY FlowAssumption DEF Nodes, Senders, Basics, FlowTypes, KnownInv, WorkersKnow
  <1>2. /\ p \in low /\ chan' = [chan EXCEPT ![p] = Tail(@)] /\ got' = got
        /\ UNCHANGED <<plan, emitted, stops>> /\ dropped \subseteq dropped'
    BY DEF PipeForward, PipeDrop, history, bounds
  <1>3. chan[p] # <<>> /\ outbox[p] = <<>> /\ chan[p] \in Seq(Msgs)
    BY <1>1, <1>2 DEF Basics, Ready, FlowTypes
  <1>4. PICK m \in Msgs : m = Head(chan[p])
    BY <1>3
  <1>5. Tick \notin Events
    BY <1>1, MessageKinds
  <1>6. PassesOn(Z, p, m)
    <2>1. CASE PipeForward(p)
      <3>1. PICK q : q = IF m = Tick THEN TickToSinks(p) ELSE ToAll(p, m)
        OBVIOUS
      <3>2. outbox' = [outbox EXCEPT ![p] = q]
        BY <1>4, <2>1, <3>1 DEF PipeForward
      <3>3. outbox'[p] = q /\ \A u \in Senders : u # p => outbox'[u] = outbox[u]
        BY <1>1, <3>2 DEF FlowTypes
      <3>4. ASSUME NEW z \in Z, z \in Dests(p)
            PROVE  /\ \A i \in DOMAIN q : ToSend(q, i, z) => m \in Events /\ q[i][2] = m
                   /\ \A i, j \in DOMAIN q : ToSend(q, i, z) /\ ToSend(q, j, z) => i = j
                   /\ m \in Events => <<z, m>> \in Range(q)
        <4>1. CASE m = Tick
          <5>1. \A i \in DOMAIN q : q[i][2] = Tick
            BY <1>1, <3>1, <4>1, TickFacts
          <5>2. \A i \in DOMAIN q : ~ToSend(q, i, z)
            BY <1>5, <5>1 DEF ToSend
          <5> QED BY <1>5, <4>1, <5>2
        <4>2. CASE m # Tick
          <5>1. q = ToAll(p, m)
            BY <3>1, <4>2
          <5>2. /\ \A i \in DOMAIN q : q[i][2] = m
                /\ \A i, j \in DOMAIN q : ToSend(q, i, z) /\ ToSend(q, j, z) => i = j
                /\ <<z, m>> \in Range(q)
            BY <1>1, <3>4, <5>1, AllOnce
          <5>3. \A i \in DOMAIN q : ToSend(q, i, z) => m \in Events
            BY <5>2 DEF ToSend
          <5> QED BY <5>2, <5>3
        <4> QED BY <4>1, <4>2
      <3> QED BY <3>3, <3>4 DEF PassesOn
    <2>2. CASE PipeDrop(p)
      <3>1. outbox' = outbox /\ m \in dropped'
        BY <1>4, <2>2 DEF PipeDrop
      <3>2. DOMAIN outbox'[p] = {}
        BY <1>3, <3>1
      <3> QED BY <3>1, <3>2 DEF PassesOn
    <2> QED BY <2>1, <2>2
  <1> QED BY <1>1, <1>2, <1>4, <1>6, OrderTake

\* A sink takes a message.
LEMMA OrderSinkTakes ==
    ASSUME KnownInv, Basics, NEW s \in Sinks, SinkEvent(s) \/ SinkTick(s),
           NEW Z \in SUBSET Nodes, LoneWay(Z), Ordered(Z)
    PROVE  Ordered(Z)'
  <1>1. /\ s \in Nodes /\ s \notin Pipes /\ s # Src
        /\ plan \in Plans /\ MaxEvents \in Nat /\ FlowTypes /\ got \in [Sinks -> Seq(Events)]
    BY FlowAssumption DEF Nodes, Basics, FlowTypes, KnownInv, WorkersKnow
  <1>2. /\ s \in low /\ chan' = [chan EXCEPT ![s] = Tail(@)]
        /\ UNCHANGED <<outbox, plan, emitted, stops, dropped>>
    BY DEF SinkEvent, SinkTick, TakeFrom
  <1>3. chan[s] # <<>> /\ chan[s] \in Seq(Msgs)
    BY <1>1, <1>2 DEF Basics, Ready, FlowTypes
  <1>4. PICK m \in Msgs : m = Head(chan[s])
    BY <1>3
  <1>5. Tick \notin Events
    BY <1>1, MessageKinds
  <1>6. PassesOn(Z, s, m)
    BY <1>1, <1>2 DEF PassesOn
  <1>7. got' = IF s \in Sinks /\ m \in Events THEN [got EXCEPT ![s] = Append(@, m)] ELSE got
    <2>1. CASE SinkEvent(s)
      BY <1>4, <2>1 DEF SinkEvent
    <2>2. CASE SinkTick(s)
      BY <1>4, <1>5, <2>2 DEF SinkTick
    <2> QED BY <2>1, <2>2
  <1> QED BY <1>1, <1>2, <1>4, <1>6, <1>7, OrderTake

\* Every step keeps a lone way in order.
LEMMA OrderWay ==
    ASSUME KnownInv, Basics, Basics', [Next]_vars, NEW Z \in SUBSET Nodes, LoneWay(Z), Ordered(Z)
    PROVE  Ordered(Z)'
  <1>1. Pipes \subseteq Nodes /\ Sinks \subseteq Nodes /\ Pipes \subseteq Senders /\ FlowTypes
    BY DEF Nodes, Senders, Basics
  <1>2. /\ Tick \in Msgs /\ Tick \notin Events /\ Stop \in Msgs /\ Stop \notin Events
        /\ MaxEvents \in Nat /\ stops \in Nat
    BY FlowAssumption, MessageKinds DEF Basics, FlowTypes
  <1>3. CASE SrcStep
    <2>1. CASE SrcPoll \/ SrcEmpty
      BY <2>1, OrderSame DEF SrcPoll, SrcEmpty, channels, history, bounds
    <2>2. CASE SrcHandle
      BY <2>2, OrderSame DEF SrcHandle, bounds
    <2> QED BY <1>3, <2>1, <2>2, OrderSrcPull DEF SrcStep
  <1>4. CASE \E t \in Senders : Deliver(t)
    BY <1>4, OrderDeliver
  <1>5. CASE \E p \in Pipes : DeliverFails(p)
    <2> PICK p \in Pipes : DeliverFails(p)
      BY <1>5
    <2>1. stops' # 0
      <3>1. up # Sinks /\ stops' = stops
        BY DEF DeliverFails, bounds
      <3> QED BY <3>1 DEF Basics, StopsCounted
    <2>2. /\ \A t \in Senders : outbox'[t] = outbox[t] \/ outbox'[t] = <<>>
          /\ \A x \in Nodes : chan'[x] = chan[x] \/ chan'[x] = <<>>
          /\ UNCHANGED <<plan, emitted, got>>
      BY <1>1 DEF DeliverFails, FlowTypes, history
    <2> QED BY <1>1, <2>1, <2>2, OrderClear
  <1>6. CASE \E p \in Pipes : PipeStep(p)
    <2> PICK p \in Pipes : PipeStep(p)
      BY <1>6
    <2>1. CASE PipeInsight(p)
      BY <2>1, OrderSame DEF PipeInsight, history, bounds
    <2>2. CASE PipePoll(p)
      BY <2>2, OrderSame DEF PipePoll, channels, history, bounds
    <2> QED BY <2>1, <2>2, OrderPipeTakes DEF PipeStep
  <1>7. CASE \E p \in Pipes : PipeTick(p)
    <2> PICK p \in Pipes : PipeTick(p)
      BY <1>7
    <2>1. /\ p \in Nodes /\ Room(p) /\ chan' = [chan EXCEPT ![p] = Append(@, Tick)]
          /\ UNCHANGED <<outbox, plan, emitted, got, dropped>> /\ stops' = stops
      BY <1>1 DEF PipeTick, history, bounds
    <2> QED BY <1>1, <1>2, <2>1, OrderPutOther
  <1>8. CASE \E s \in Sinks : SinkStep(s)
    <2> PICK s \in Sinks : SinkStep(s)
      BY <1>8
    <2>1. CASE SinkReply(s)
      BY <2>1, OrderSame DEF SinkReply, history, bounds
    <2>2. CASE SinkPoll(s)
      BY <2>2, OrderSame DEF SinkPoll, channels, history, bounds
    <2>3. CASE SinkStop(s)
      <3>1. stops' # 0
        BY <2>3, BasicsSinkStop DEF SinkStop, bounds
      <3>2. /\ \A t \in Senders : outbox'[t] = outbox[t] \/ outbox'[t] = <<>>
            /\ \A x \in Nodes : chan'[x] = chan[x] \/ chan'[x] = <<>>
            /\ UNCHANGED <<plan, emitted, got>>
        BY <1>1, <2>3 DEF SinkStop, FlowTypes, history
      <3> QED BY <1>1, <3>1, <3>2, OrderClear
    <2> QED BY <2>1, <2>2, <2>3, OrderSinkTakes DEF SinkStep
  <1>9. CASE \E s \in Sinks : WorkerAnswer(s)
    BY <1>9, OrderSame DEF WorkerAnswer, bounds
  <1>10. CASE \E s \in Sinks : SendStop(s)
    <2> PICK s \in Sinks : SendStop(s)
      BY <1>10
    <2>1. /\ s \in Nodes /\ Room(s) /\ chan' = [chan EXCEPT ![s] = Append(@, Stop)]
          /\ UNCHANGED <<outbox, plan, emitted, got, dropped>> /\ stops' # 0
      BY <1>1, <1>2 DEF SendStop, history
    <2> QED BY <1>1, <1>2, <2>1, OrderPutOther
  <1>11. CASE UNCHANGED vars
    BY <1>11, OrderSame DEF vars, channels, history, bounds
  <1> QED BY <1>3, <1>4, <1>5, <1>6, <1>7, <1>8, <1>9, <1>10, <1>11 DEF Next

\* The deployment stays as it is.
LEMMA PlanStays == [Next]_vars => UNCHANGED plan
  BY DEF Next, vars, SrcStep, SrcPoll, SrcPull, SrcEmpty, SrcHandle, Deliver, DeliverFails, PipeStep,
         PipeInsight, PipePoll, PipeForward, PipeDrop, PipeTick, SinkStep, SinkReply, SinkPoll,
         SinkEvent, SinkTick, SinkStop, WorkerAnswer, SendStop

LEMMA OrderNext == KnownInv /\ OrderInv /\ [Next]_vars => OrderInv'
  <1> SUFFICES ASSUME KnownInv, OrderInv, [Next]_vars PROVE OrderInv'
    OBVIOUS
  <1>1. Basics
    BY DEF Basics, OrderInv
  <1>2. Basics'
    BY <1>1, BasicsNext
  <1>3. UNCHANGED plan
    BY PlanStays
  <1>4. ASSUME NEW Z \in SUBSET Nodes, LoneWay(Z)' PROVE Ordered(Z)'
    <2>1. LoneWay(Z)
      BY <1>3, <1>4 DEF LoneWay, FedOnce, Range
    <2>2. Ordered(Z)
      BY <2>1 DEF OrderInv
    <2> QED BY <1>1, <1>2, <2>1, <2>2, OrderWay
  <1> QED BY <1>2, <1>4 DEF OrderInv, Basics

\* transmit_event, send_events, and what the channels and the graph do in between:
\* in every deployment, a sink that only one path leads to gets the events in the
\* order of the source, each once, and misses none but those that a pipeline
\* dropped, as long as no offramp was stopped.
THEOREM OrderIsKept == Spec => []DeliveredInOrder
  <1>1. KnownInv /\ OrderInv => DeliveredInOrder
    <2> SUFFICES ASSUME KnownInv, OrderInv, NEW s \in Sinks, OnePath(s)
                 PROVE  /\ \A i, j \in DOMAIN got[s] : i < j => got[s][i] < got[s][j]
                        /\ stops = 0 => \A f \in Range(got[s]), e \in Events :
                                           e < f => e \in Range(got[s]) \union dropped
      BY DEF DeliveredInOrder
    <2>1. PICK Z \in SUBSET Nodes : s \in Z /\ LoneWay(Z)
      BY DEF OnePath, Nodes
    <2>2. PICK h \in [Z -> 0 .. MaxEvents], d \in [Z -> 0 .. MaxEvents] : InOrder(Z, h, d)
      BY <2>1 DEF OrderInv, Ordered
    <2>3. /\ \A i \in DOMAIN got[s] : got[s][i] <= d[s]
          /\ \A i, j \in DOMAIN got[s] : i < j => got[s][i] < got[s][j]
      BY <2>1, <2>2 DEF InOrder, GotOrder
    <2>4. ASSUME stops = 0, NEW i \in DOMAIN got[s], NEW e \in Events, e < got[s][i]
          PROVE  e \in Range(got[s]) \union dropped
      <3>1. MaxEvents \in Nat /\ d[s] \in Nat
        BY <2>1, FlowAssumption
      <3>2. got[s][i] \in Nat /\ e \in Nat
        <4>1. got[s] \in Seq(Events)
          BY DEF KnownInv, WorkersKnow
        <4>2. got[s][i] \in Events
          BY <4>1
        <4> QED BY <3>1, <4>2, MessageKinds
      <3>3. e <= d[s]
        BY <2>3, <2>4, <3>1, <3>2
      <3> QED BY <2>1, <2>2, <2>4, <3>3 DEF InOrder, GotFull
    <2>5. ASSUME stops = 0, NEW f \in Range(got[s]), NEW e \in Events, e < f
          PROVE  e \in Range(got[s]) \union dropped
      <3>1. PICK i \in DOMAIN got[s] : f = got[s][i]
        BY DEF Range
      <3> QED BY <2>4, <2>5, <3>1
    <2> QED BY <2>3, <2>5
  <1>2. Init => KnownInv /\ OrderInv
    BY KnownInit, OrderInit
  <1>3. KnownInv /\ OrderInv /\ [Next]_vars => KnownInv' /\ OrderInv'
    BY KnownNext, OrderNext
  <1> QED BY <1>1, <1>2, <1>3, PTL DEF Spec

-----------------------------------------------------------------------------
(***************************************************************************)
(* The counterflow channel.  Let a pipeline have sinks of its own.  What   *)
(* will still be a verdict in its counterflow channel is there already, or *)
(* waits as an event in the channel of a sink, or is in the pipeline's     *)
(* hand.  No step makes the sum of the three larger but the one that takes *)
(* an event, and before that one the pipeline saw its counterflow channel  *)
(* empty: the sum was what the channels of the sinks can hold.             *)
(***************************************************************************)

\* The places of channel q with a message of S, and their number.
Places(q, S) == {k \in DOMAIN q : q[k] \in S}
Count(q, S) == Cardinality(Places(q, S))

\* The places in the channels of p's destinations with an event.
InChans(p) ==
    {x \in Dests(p) \X (1 .. QSize) : x[2] \in DOMAIN chan[x[1]] /\ chan[x[1]][x[2]] \in Events}

ToSinks == Nodes \X Events

\* What is or will be a verdict in the counterflow channel of p, and what may be.
Load(p) == Count(cf[p], Verdicts) + Count(outbox[p], ToSinks) + Cardinality(InChans(p))
Allowed(p) == Len(plan.outs[p]) * QSize + IF p \in low THEN 0 ELSE Len(plan.outs[p])

LoadKept == \A p \in Pipes : OwnSinks(p) => Load(p) <= Allowed(p)

\* The inductive invariant.
CounterflowInv == KnownInv /\ BreakerInv /\ Basics /\ LoadKept

\* A function between two sets that maps different elements to different ones.
LEMMA NotMore ==
    ASSUME NEW S, NEW T, IsFiniteSet(T), NEW f \in [S -> T],
           \A x, y \in S : f[x] = f[y] => x = y
    PROVE  IsFiniteSet(S) /\ Cardinality(S) <= Cardinality(T)
  <1>1. f \in Injection(S, T)
    BY DEF Injection, IsInjective
  <1> QED BY <1>1, FS_Injection

LEMMA CountFacts ==
    ASSUME NEW S, NEW q \in Seq(S), NEW T
    PROVE  /\ IsFiniteSet(Places(q, T)) /\ Count(q, T) \in Nat /\ Count(q, T) <= Len(q)
           /\ q = <<>> => Count(q, T) = 0
  <1>1. PICK n \in Nat : n = Len(q) /\ DOMAIN q = 1 .. n
    OBVIOUS
  <1>2. IsFiniteSet(1 .. n) /\ Cardinality(1 .. n) = n
    BY FS_Interval
  <1>3. Places(q, T) \in SUBSET (1 .. n)
    BY <1>1 DEF Places
  <1>4. IsFiniteSet(Places(q, T)) /\ Cardinality(Places(q, T)) <= n
    BY <1>2, <1>3, FS_Subset
  <1>5. q = <<>> => Places(q, T) = {}
    BY DEF Places
  <1> QED BY <1>1, <1>4, <1>5, FS_CardinalityType, FS_EmptySet DEF Count

\* Taking messages from the front.
LEMMA CountRest ==
    ASSUME NEW S, NEW q \in Seq(S), NEW r \in Seq(S), NEW c \in Nat, Rest(q, r, c), NEW T
    PROVE  /\ Count(r, T) <= Count(q, T)
           /\ c >= 1 /\ q[1] \in T /\ q # <<>> => Count(r, T) + 1 <= Count(q, T)
  <1> DEFINE R == Places(r, T)
             Q == Places(q, T)
             f == [k \in R |-> k + c]
  <1>1. PICK n \in Nat : n = Len(q) /\ DOMAIN q = 1 .. n
    OBVIOUS
  <1>2. \A k \in R : k \in Nat /\ k >= 1 /\ k + c \in Q
    BY <1>1 DEF Places, Rest
  <1>3. \A x, y \in R : f[x] = f[y] => x = y
    BY <1>2
  <1>4. IsFiniteSet(Q) /\ Cardinality(Q) \in Nat /\ Cardinality(R) \in Nat
    BY CountFacts DEF Count
  <1>5. f \in [R -> Q]
    BY <1>2
  <1> HIDE DEF Q, R, f
  <1>6. Cardinality(R) <= Cardinality(Q)
    BY <1>3, <1>4, <1>5, NotMore
  <1>7. ASSUME c >= 1, q[1] \in T, q # <<>> PROVE Cardinality(R) + 1 <= Cardinality(Q)
    <2>1. 1 \in Q
      BY <1>1, <1>7 DEF Q, Places
    <2>2. IsFiniteSet(Q \ {1}) /\ Cardinality(Q \ {1}) = Cardinality(Q) - 1
      BY <1>4, <2>1, FS_RemoveElement
    <2>3. f \in [R -> Q \ {1}]
      BY <1>2, <1>7 DEF f
    <2>4. Cardinality(R) <= Cardinality(Q \ {1})
      BY <1>3, <2>2, <2>3, NotMore
    <2> QED BY <1>4, <2>2, <2>4
  <1> QED BY <1>6, <1>7 DEF Count, Q, R

\* Appending messages of which only the one at j, if any, is of T.
LEMMA CountJoin ==
    ASSUME NEW S, NEW q \in Seq(S), NEW is \in Seq(S), NEW T
    PROVE  /\ (\A k \in DOMAIN is : is[k] \notin T) => Count(q \o is, T) <= Count(q, T)
           /\ \A j \in Nat : (\A k \in DOMAIN is : is[k] \in T => k = j)
                                => Count(q \o is, T) <= Count(q, T) + 1
  <1>1. PICK n \in Nat, m \in Nat : /\ n = Len(q) /\ DOMAIN q = 1 .. n
                                    /\ m = Len(is) /\ DOMAIN is = 1 .. m
    OBVIOUS
  <1>2. PICK u \in Seq(S) : u = q \o is
    <2>1. q \o is \in Seq(S)
      OBVIOUS
    <2> QED BY <2>1
  <1>3. /\ DOMAIN u = 1 .. n + m
        /\ \A i \in 1 .. n : u[i] = q[i]
        /\ \A i \in 1 .. n + m : i > n => u[i] = is[i - n] /\ i - n \in 1 .. m
    BY <1>1, <1>2
  <1>4. IsFiniteSet(Places(q, T)) /\ Count(q, T) \in Nat /\ Count(u, T) \in Nat
    BY CountFacts
  <1>5. ASSUME NEW j \in Nat, \A k \in DOMAIN is : is[k] \in T => k = j
        PROVE  Count(u, T) <= Count(q, T) + 1
    <2>1. Places(u, T) \subseteq Places(q, T) \union {n + j}
      <3> SUFFICES ASSUME NEW i \in 1 .. n + m, u[i] \in T PROVE i \in Places(q, T) \/ i = n + j
        BY <1>3 DEF Places
      <3>1. CASE i <= n
        BY <1>1, <1>3, <3>1 DEF Places
      <3>2. CASE i > n
        <4>1. i - n \in DOMAIN is /\ is[i - n] \in T
          BY <1>1, <1>3, <3>2
        <4>2. i - n = j
          BY <1>5, <4>1
        <4> QED BY <4>2
      <3> QED BY <3>1, <3>2
    <2>2. /\ IsFiniteSet(Places(q, T) \union {n + j})
          /\ \/ Cardinality(Places(q, T) \union {n + j}) = Cardinality(Places(q, T))
             \/ Cardinality(Places(q, T) \union {n + j}) = Cardinality(Places(q, T)) + 1
      BY <1>4, FS_AddElement
    <2>3. Cardinality(Places(u, T)) <= Cardinality(Places(q, T) \union {n + j})
      BY <2>1, <2>2, FS_Subset
    <2> QED BY <1>4, <2>2, <2>3 DEF Count
  <1>6. ASSUME \A k \in DOMAIN is : is[k] \notin T PROVE Count(u, T) <= Count(q, T)
    <2>1. Places(u, T) \subseteq Places(q, T)
      <3> SUFFICES ASSUME NEW i \in 1 .. n + m, u[i] \in T PROVE i \in Places(q, T)
        BY <1>3 DEF Places
      <3>1. ASSUME i > n PROVE FALSE
        <4>1. i - n \in DOMAIN is /\ u[i] = is[i - n]
          BY <1>1, <1>3, <3>1
        <4> QED BY <1>6, <4>1
      <3> QED BY <1>1, <1>3, <3>1 DEF Places
    <2> QED BY <1>4, <2>1, FS_Subset DEF Count
  <1> QED BY <1>2, <1>5, <1>6
-----------------------------------------------------------------------------
(* The channels of the sinks                                               *)

\* Pairs of a member of a sequence and a number up to N.
LEMMA PairsFacts ==
    ASSUME NEW S, NEW q \in Seq(S), NEW N \in Nat, NEW C \in SUBSET (Range(q) \X (1 .. N))
    PROVE  /\ IsFiniteSet(C) /\ Cardinality(C) \in Nat
           /\ Len(q) \in Nat /\ Len(q) * N \in Nat /\ Cardinality(C) <= Len(q) * N
  <1>1. PICK n \in Nat : n = Len(q) /\ DOMAIN q = 1 .. n
    OBVIOUS
  <1> DEFINE T == (1 .. n) \X (1 .. N)
             at(x) == CHOOSE i \in 1 .. n : q[i] = x[1]
             f == [x \in C |-> <<at(x), x[2]>>]
  <1>2. \A x \in C : /\ x = <<x[1], x[2]>> /\ x[2] \in 1 .. N
                     /\ at(x) \in 1 .. n /\ q[at(x)] = x[1]
    BY <1>1 DEF Range
  <1>3. f \in [C -> T]
    BY <1>2
  <1>4. \A x, y \in C : f[x] = f[y] => x = y
    <2> SUFFICES ASSUME NEW x \in C, NEW y \in C, f[x] = f[y] PROVE x = y
      OBVIOUS
    <2>1. at(x) = at(y) /\ x[2] = y[2]
      <3>1. f[x] = <<at(x), x[2]>> /\ f[y] = <<at(y), y[2]>>
        OBVIOUS
      <3>2. PICK a, b, c, d : a = at(x) /\ b = at(y) /\ c = x[2] /\ d = y[2]
        OBVIOUS
      <3>3. <<a, c>> = <<b, d>>
        <4> HIDE DEF f, at
        <4> QED BY <3>1, <3>2, Zenon
      <3>4. a = b /\ c = d
        BY <3>3
      <3> HIDE DEF f, at
      <3> QED BY <3>2, <3>4, Zenon
    <2>2. x[1] = y[1]
      BY <1>2, <2>1
    <2>3. x = <<x[1], x[2]>> /\ y = <<y[1], y[2]>>
      BY <1>2
    <2> QED BY <2>1, <2>2, <2>3
  <1>5. IsFiniteSet(T) /\ Cardinality(T) = n * N
    <2>1. IsFiniteSet(1 .. n) /\ Cardinality(1 .. n) = n
      BY FS_Interval
    <2>2. IsFiniteSet(1 .. N) /\ Cardinality(1 .. N) = N
      BY FS_Interval
    <2>3. PICK A, B : A = 1 .. n /\ B = 1 .. N
      OBVIOUS
    <2>4. IsFiniteSet(A \X B) /\ Cardinality(A \X B) = Cardinality(A) * Cardinality(B)
      BY <2>1, <2>2, <2>3, FS_Product
    <2> QED BY <2>1, <2>2, <2>3, <2>4
  <1> HIDE DEF T, f, at
  <1>6. IsFiniteSet(C) /\ Cardinality(C) <= n * N
    BY <1>3, <1>4, <1>5, NotMore
  <1>7. Cardinality(C) \in Nat /\ n * N \in Nat
    BY <1>6, FS_CardinalityType
  <1> QED BY <1>1, <1>6, <1>7

LEMMA InChansFacts ==
    ASSUME FlowTypes, NEW p \in Pipes
    PROVE  /\ IsFiniteSet(InChans(p)) /\ Cardinality(InChans(p)) \in Nat
           /\ Len(plan.outs[p]) \in Nat /\ Len(plan.outs[p]) * QSize \in Nat
           /\ Cardinality(InChans(p)) <= Len(plan.outs[p]) * QSize
           /\ UNCHANGED plan => IsFiniteSet(InChans(p)') /\ Cardinality(InChans(p)') \in Nat
  <1>1. plan.outs[p] \in Seq(Nodes) /\ QSize \in Nat
    <2>1. p \in Senders
      BY DEF Senders
    <2> QED BY <2>1, PlanFacts DEF FlowTypes
  <1>2. InChans(p) \in SUBSET (Range(plan.outs[p]) \X (1 .. QSize))
    BY DEF InChans, Dests
  <1>3. UNCHANGED plan => InChans(p)' \in SUBSET (Range(plan.outs[p]) \X (1 .. QSize))
    BY DEF InChans, Dests, Range
  <1> QED BY <1>1, <1>2, <1>3, PairsFacts

\* The same places, or fewer.
LEMMA InChansSubset ==
    ASSUME FlowTypes, NEW p \in Pipes, InChans(p)' \subseteq InChans(p)
    PROVE  Cardinality(InChans(p)') <= Cardinality(InChans(p))
  BY InChansFacts, FS_Subset

LEMMA InChansPut ==
    ASSUME FlowTypes, NEW p \in Pipes, UNCHANGED plan, NEW x \in Nodes, NEW m \in Msgs, Room(x),
           chan' = [chan EXCEPT ![x] = Append(@, m)]
    PROVE  /\ Cardinality(InChans(p)') <= Cardinality(InChans(p)) + 1
           /\ m \notin Events \/ x \notin Dests(p)
                 => Cardinality(InChans(p)') <= Cardinality(InChans(p))
  <1> DEFINE C == InChans(p)
             new == <<x, Len(chan[x]) + 1>>
  <1>1. /\ \A y \in Nodes : y # x => chan'[y] = chan[y]
        /\ Len(chan[x]) \in Nat /\ DOMAIN chan[x] = 1 .. Len(chan[x])
        /\ DOMAIN chan'[x] = 1 .. Len(chan[x]) + 1
        /\ \A i \in 1 .. Len(chan[x]) : chan'[x][i] = chan[x][i]
        /\ chan'[x][Len(chan[x]) + 1] = m
    BY ChanPut
  <1>2. Dests(p)' = Dests(p) /\ Dests(p) \subseteq Nodes
    <2>1. plan.outs[p] \in Seq(Nodes)
      BY PlanFacts DEF FlowTypes, Senders
    <2> QED BY <2>1, SameDests DEF Dests, Range
  <1>3. ASSUME NEW z \in C' PROVE z \in C \/ (z = new /\ m \in Events /\ x \in Dests(p))
    <2>1. PICK d \in Dests(p), k \in 1 .. QSize :
             z = <<d, k>> /\ k \in DOMAIN chan'[d] /\ chan'[d][k] \in Events
      BY <1>2, <1>3 DEF InChans
    <2>2. CASE d # x
      BY <1>1, <1>2, <2>1, <2>2 DEF InChans
    <2>3. CASE d = x /\ k \in 1 .. Len(chan[x])
      BY <1>1, <2>1, <2>3 DEF InChans
    <2>4. CASE d = x /\ k = Len(chan[x]) + 1
      BY <1>1, <2>1, <2>4
    <2>5. d = x => k \in 1 .. Len(chan[x]) \/ k = Len(chan[x]) + 1
      BY <1>1, <2>1
    <2> QED BY <2>2, <2>3, <2>4, <2>5
  <1>4. IsFiniteSet(C) /\ Cardinality(C) \in Nat
    BY InChansFacts
  <1> HIDE DEF C, new
  <1>5. m \notin Events \/ x \notin Dests(p) => Cardinality(C') <= Cardinality(C)
    <2> SUFFICES ASSUME m \notin Events \/ x \notin Dests(p) PROVE C' \subseteq C
      BY InChansSubset DEF C
    <2> QED BY <1>3
  <1>6. Cardinality(C') <= Cardinality(C) + 1
    <2>1. C' \subseteq C \union {new}
      BY <1>3
    <2>2. /\ IsFiniteSet(C \union {new})
          /\ Cardinality(C \union {new}) = Cardinality(C) \/ Cardinality(C \union {new}) = Cardinality(C) + 1
      BY <1>4, FS_AddElement
    <2>3. IsFiniteSet(C') /\ Cardinality(C') <= Cardinality(C \union {new})
      BY <2>1, <2>2, FS_Subset
    <2>4. Cardinality(C') \in Nat
      BY <2>3, FS_CardinalityType
    <2> QED BY <1>4, <2>2, <2>3, <2>4
  <1> QED BY <1>5, <1>6 DEF C

LEMMA InChansTake ==
    ASSUME FlowTypes, NEW p \in Pipes, UNCHANGED plan, NEW x \in Nodes, chan[x] # <<>>,
           chan' = [chan EXCEPT ![x] = Tail(@)]
    PROVE  /\ Cardinality(InChans(p)') <= Cardinality(InChans(p))
           /\ Head(chan[x]) \in Events /\ x \in Dests(p)
                 => Cardinality(InChans(p)') + 1 <= Cardinality(InChans(p))
  <1> DEFINE C == InChans(p)
             f == [z \in C' |-> IF z[1] = x THEN <<x, z[2] + 1>> ELSE z]
  <1>1. /\ \A y \in Nodes : y # x => chan'[y] = chan[y]
        /\ Head(chan[x]) = chan[x][1] /\ 1 \in DOMAIN chan[x]
        /\ \A i \in DOMAIN chan'[x] : /\ i \in Nat /\ i >= 1 /\ i + 1 \in DOMAIN chan[x]
                                      /\ chan'[x][i] = chan[x][i + 1]
    BY ChanTake
  <1>2. Dests(p)' = Dests(p) /\ Dests(p) \subseteq Nodes
    <2>1. plan.outs[p] \in Seq(Nodes)
      BY PlanFacts DEF FlowTypes, Senders
    <2> QED BY <2>1, SameDests DEF Dests, Range
  <1>3. DOMAIN chan[x] \subseteq 1 .. QSize
    <2>1. chan[x] \in Seq(Msgs) /\ Len(chan[x]) <= QSize /\ QSize \in Nat
      BY FlowAssumption DEF FlowTypes
    <2> QED BY <2>1
  <1>4. ASSUME NEW z \in C'
        PROVE  /\ z = <<z[1], z[2]>> /\ z[2] \in Nat
               /\ f[z] \in C /\ f[z] # <<x, 1>> /\ f[z][1] = z[1]
               /\ f[z][2] = IF z[1] = x THEN z[2] + 1 ELSE z[2]
    <2>1. PICK d \in Dests(p), k \in 1 .. QSize :
             z = <<d, k>> /\ k \in DOMAIN chan'[d] /\ chan'[d][k] \in Events
      BY <1>2, <1>4 DEF InChans
    <2>2. CASE d # x
      <3>1. f[z] = z
        BY <1>4, <2>1, <2>2
      <3>2. z \in C
        BY <1>1, <1>2, <2>1, <2>2 DEF InChans
      <3> QED BY <2>1, <2>2, <3>1, <3>2
    <2>3. CASE d = x
      <3>1. f[z] = <<x, k + 1>>
        BY <1>4, <2>1, <2>3
      <3>2. k + 1 \in DOMAIN chan[x] /\ chan[x][k + 1] \in Events /\ k >= 1 /\ k \in Nat
        BY <1>1, <2>1, <2>3
      <3>3. <<x, k + 1>> \in C
        BY <1>3, <2>1, <2>3, <3>2 DEF InChans
      <3>4. z[1] = x /\ z[2] = k /\ z = <<z[1], z[2]>>
        BY <2>1, <2>3
      <3>5. f[z][1] = x /\ f[z][2] = k + 1 /\ k + 1 # 1
        BY <3>1, <3>2
      <3>6. f[z] # <<x, 1>>
        BY <3>5
      <3> HIDE DEF f, C
      <3> QED BY <3>1, <3>2, <3>3, <3>4, <3>5, <3>6
    <2> QED BY <2>2, <2>3
  <1>5. \A y, z \in C' : f[y] = f[z] => y = z
    <2> SUFFICES ASSUME NEW y \in C', NEW z \in C', f[y] = f[z] PROVE y = z
      OBVIOUS
    <2> HIDE DEF f, C
    <2>1. y[1] = z[1] /\ y[2] \in Nat /\ z[2] \in Nat
      BY <1>4
    <2>2. y[2] = z[2]
      BY <1>4, <2>1
    <2>3. y = <<y[1], y[2]>> /\ z = <<z[1], z[2]>>
      BY <1>4
    <2> QED BY <2>1, <2>2, <2>3
  <1>6. IsFiniteSet(C) /\ Cardinality(C) \in Nat
    BY InChansFacts
  <1>7. f \in [C' -> C]
    <2>1. \A z \in C' : f[z] \in C
      BY <1>4
    <2> QED BY <2>1
  <1>8. f \in [C' -> C \ {<<x, 1>>}]
    <2>1. \A z \in C' : f[z] \in C \ {<<x, 1>>}
      BY <1>4
    <2> QED BY <2>1
  <1> HIDE DEF C, f
  <1>9. IsFiniteSet(C') /\ Cardinality(C') <= Cardinality(C)
    BY <1>5, <1>6, <1>7, NotMore
  <1>10. Cardinality(C') \in Nat
    BY <1>9, FS_CardinalityType
  <1>11. ASSUME Head(chan[x]) \in Events, x \in Dests(p) PROVE Cardinality(C') + 1 <= Cardinality(C)
    <2>1. <<x, 1>> \in C
      BY <1>1, <1>3, <1>11 DEF InChans, C
    <2>2. IsFiniteSet(C \ {<<x, 1>>}) /\ Cardinality(C \ {<<x, 1>>}) = Cardinality(C) - 1
      BY <1>6, <2>1, FS_RemoveElement
    <2>3. Cardinality(C') <= Cardinality(C \ {<<x, 1>>})
      BY <1>5, <1>8, <2>2, NotMore
    <2> QED BY <1>6, <1>10, <2>2, <2>3
  <1> QED BY <1>9, <1>11 DEF C
\* A channel is closed.
LEMMA InChansClear ==
    ASSUME FlowTypes, NEW p \in Pipes, UNCHANGED plan, NEW x \in Nodes,
           chan' = [chan EXCEPT ![x] = <<>>]
    PROVE  Cardinality(InChans(p)') <= Cardinality(InChans(p))
  <1>1. chan'[x] = <<>> /\ \A y \in Nodes : y # x => chan'[y] = chan[y]
    BY DEF FlowTypes
  <1>2. Dests(p)' = Dests(p) /\ Dests(p) \subseteq Nodes
    <2>1. plan.outs[p] \in Seq(Nodes)
      BY PlanFacts DEF FlowTypes, Senders
    <2> QED BY <2>1, SameDests DEF Dests, Range
  <1>3. ASSUME NEW z \in InChans(p)' PROVE z \in InChans(p)
    <2>1. PICK d \in Dests(p), k \in 1 .. QSize :
             z = <<d, k>> /\ k \in DOMAIN chan'[d] /\ chan'[d][k] \in Events
      BY <1>2, <1>3 DEF InChans
    <2>2. d # x
      BY <1>1, <2>1
    <2> QED BY <1>1, <1>2, <2>1, <2>2 DEF InChans
  <1> QED BY <1>3, InChansSubset

-----------------------------------------------------------------------------
(* One step                                                                *)

Fits(p) == OwnSinks(p) => Load(p) <= Allowed(p)

LEMMA LoadNumbers ==
    ASSUME KnownInv, FlowTypes, NEW p \in Pipes
    PROVE  /\ Count(cf[p], Verdicts) \in Nat /\ Count(outbox[p], ToSinks) \in Nat
           /\ Cardinality(InChans(p)) \in Nat
           /\ Len(plan.outs[p]) \in Nat /\ Len(plan.outs[p]) * QSize \in Nat
           /\ Cardinality(InChans(p)) <= Len(plan.outs[p]) * QSize
           /\ UNCHANGED plan => Cardinality(InChans(p)') \in Nat
  <1>1. cf[p] \in Seq(Known) /\ outbox[p] \in Seq(Nodes \X Msgs)
    BY DEF KnownInv, KnownChannels, FlowTypes, Senders
  <1> QED BY <1>1, CountFacts, InChansFacts

\* What is counted for p changes by at most a, b and c.
Moves(p, a, b, c) ==
    /\ a \in Int /\ b \in Int /\ c \in Int /\ a + b + c <= 0
    /\ Count(cf'[p], Verdicts) <= Count(cf[p], Verdicts) + a
    /\ Count(outbox'[p], ToSinks) <= Count(outbox[p], ToSinks) + b
    /\ Cardinality(InChans(p)') <= Cardinality(InChans(p)) + c

\* What moves on is counted once, before and after.
LEMMA LoadStep ==
    ASSUME KnownInv, KnownInv', FlowTypes, FlowTypes', UNCHANGED plan,
           NEW p \in Pipes, Fits(p), p \in low' => p \in low,
           NEW a, NEW b, NEW c, Moves(p, a, b, c)
    PROVE  Fits(p)'
  <1>0. /\ a \in Int /\ b \in Int /\ c \in Int /\ a + b + c <= 0
        /\ Count(cf'[p], Verdicts) <= Count(cf[p], Verdicts) + a
        /\ Count(outbox'[p], ToSinks) <= Count(outbox[p], ToSinks) + b
        /\ Cardinality(InChans(p)') <= Cardinality(InChans(p)) + c
    BY DEF Moves
  <1>1. OwnSinks(p)' = OwnSinks(p)
    BY DEF OwnSinks, SinkPipes, Range
  <1> SUFFICES ASSUME OwnSinks(p) PROVE Load(p)' <= Allowed(p)'
    BY <1>1 DEF Fits
  <1>2. PICK n \in Nat, m \in Nat : n = Len(plan.outs[p]) /\ m = Len(plan.outs[p]) * QSize
    BY LoadNumbers
  <1>3. /\ Allowed(p) = m + IF p \in low THEN 0 ELSE n
        /\ Allowed(p)' = m + IF p \in low' THEN 0 ELSE n
    BY <1>2 DEF Allowed
  <1>4. PICK v \in Nat, h \in Nat, d \in Nat :
           /\ v = Count(cf[p], Verdicts) /\ h = Count(outbox[p], ToSinks)
           /\ d = Cardinality(InChans(p)) /\ Load(p) = v + h + d
    BY LoadNumbers DEF Load
  <1>5. /\ Count(cf[p], Verdicts)' = Count(cf'[p], Verdicts)
        /\ Count(outbox[p], ToSinks)' = Count(outbox'[p], ToSinks)
        /\ Cardinality(InChans(p))' = Cardinality(InChans(p)')
    BY DEF Count, Places, ToSinks, Nodes, Events, Verdicts
  <1>6. /\ Count(cf[p], Verdicts)' \in Nat /\ Count(outbox[p], ToSinks)' \in Nat
        /\ Cardinality(InChans(p))' \in Nat
    <2>1. cf'[p] \in Seq(Known') /\ outbox'[p] \in Seq(Nodes \X Msgs)
      BY DEF KnownInv, KnownChannels, FlowTypes, Senders
    <2> QED BY <1>5, <2>1, CountFacts, LoadNumbers
  <1>7. PICK w \in Nat, k \in Nat, e \in Nat :
           /\ w = Count(cf[p], Verdicts)' /\ k = Count(outbox[p], ToSinks)'
           /\ e = Cardinality(InChans(p))' /\ Load(p)' = w + k + e
    BY <1>6 DEF Load
  <1>8. w <= v + a /\ k <= h + b /\ e <= d + c
    BY <1>0, <1>4, <1>5, <1>7
  <1>9. v + h + d <= Allowed(p)
    BY <1>4 DEF Fits
  <1>10. Allowed(p) <= Allowed(p)' /\ Allowed(p) \in Nat /\ Allowed(p)' \in Nat
    BY <1>2, <1>3
  <1> QED BY <1>0, <1>4, <1>7, <1>8, <1>9, <1>10

\* What a pipeline with sinks of its own is linked to.
LEMMA OwnFacts ==
    ASSUME FlowTypes, NEW p \in Pipes, OwnSinks(p)
    PROVE  /\ Dests(p) \subseteq Sinks
           /\ \A q \in Pipes : q \notin Dests(p) /\ p \notin Inputs(q)
           /\ \A t \in Senders : \A d \in Dests(t) : d \in Dests(p) => t = p
           /\ \A s \in Sinks : p \in SinkPipes(s) => s \in Dests(p) /\ plan.kind[s] # "async"
  <1>1. Pipes \intersect Sinks = {} /\ Src \notin Pipes /\ p \in Senders
    BY FlowAssumption DEF Senders
  <1>2. Dests(p) \subseteq Sinks
    BY DEF OwnSinks, Dests
  <1>3. \A q \in Pipes : q \notin Dests(p) /\ p \notin Inputs(q)
    BY <1>1, <1>2 DEF Dests, Inputs
  <1>4. ASSUME NEW t \in Senders, NEW d \in Dests(t), d \in Dests(p) PROVE t = p
    <2>1. CASE t \in Pipes
      <3>1. t \in SinkPipes(d)
        BY <1>4, <2>1 DEF SinkPipes, Dests
      <3> QED BY <1>4, <3>1 DEF OwnSinks, Dests
    <2>2. CASE t = Src
      <3>1. Dests(Src) \subseteq Pipes
        BY FlowAssumption DEF Dests, Range, FlowTypes
      <3> QED BY <1>1, <1>2, <1>4, <2>2, <3>1
    <2> QED BY <2>1, <2>2 DEF Senders
  <1>5. \A s \in Sinks : p \in SinkPipes(s) => s \in Dests(p) /\ plan.kind[s] # "async"
    BY DEF SinkPipes, Dests, OwnSinks
  <1> QED BY <1>2, <1>3, <1>4, <1>5

\* Nothing that is counted moves.
LEMMA LoadSame ==
    ASSUME KnownInv, KnownInv', FlowTypes, FlowTypes', UNCHANGED plan,
           NEW p \in Pipes, Fits(p), p \in low' => p \in low,
           cf'[p] = cf[p], outbox'[p] = outbox[p],
           OwnSinks(p) => Cardinality(InChans(p)') <= Cardinality(InChans(p))
    PROVE  Fits(p)'
  <1>1. OwnSinks(p)' = OwnSinks(p)
    BY DEF OwnSinks, SinkPipes, Range
  <1>2. CASE ~OwnSinks(p)
    BY <1>1, <1>2 DEF Fits
  <1>3. CASE OwnSinks(p)
    <2>1. /\ Count(cf'[p], Verdicts) <= Count(cf[p], Verdicts) + 0
          /\ Count(outbox'[p], ToSinks) <= Count(outbox[p], ToSinks) + 0
          /\ Cardinality(InChans(p)') <= Cardinality(InChans(p)) + 0
      <3>1. /\ Count(cf[p], Verdicts) \in Nat /\ Count(outbox[p], ToSinks) \in Nat
            /\ Cardinality(InChans(p)) \in Nat
        BY LoadNumbers
      <3>2. Cardinality(InChans(p)') <= Cardinality(InChans(p))
        BY <1>3
      <3> QED BY <3>1, <3>2
    <2>2. Moves(p, 0, 0, 0)
      BY <2>1 DEF Moves
    <2> QED BY <2>2, LoadStep
  <1> QED BY <1>2, <1>3

\* Given by every step lemma: the state before and after.
Before(p) == KnownInv /\ BreakerInv /\ Basics /\ Fits(p)

LEMMA LoadDeliver ==
    ASSUME NEW p \in Pipes, Before(p), KnownInv', Basics', NEW t \in Senders, Deliver(t)
    PROVE  Fits(p)'
  <1> USE DEF Before, Basics
  <1>1. PICK to \in Nodes, m \in Msgs : outbox[t][1] = <<to, m>> /\ Head(outbox[t]) = <<to, m>>
    BY DeliverFacts DEF Deliver
  <1>2. PICK r \in Seq(Nodes \X Msgs), c \in Nat :
           r = FromNextDue(Tail(outbox[t])) /\ Rest(outbox[t], r, c) /\ c >= 1
    BY DeliverFacts DEF Deliver
  <1>3. chan' = [chan EXCEPT ![to] = Append(@, m)] /\ Room(to)
    <2>1. Head(outbox[t])[1] = to /\ Head(outbox[t])[2] = m
      BY <1>1
    <2> QED BY <2>1, Zenon DEF Deliver
  <1>4. /\ outbox'[t] = r
        /\ \A u \in Senders : u # t => outbox'[u] = outbox[u]
    BY <1>2 DEF Deliver, FlowTypes
  <1>5. UNCHANGED <<plan, low, cf>> /\ outbox[t] # <<>> /\ p \in Senders
    BY DEF Deliver, Senders
  <1>6. to \in Dests(t)
    <2>1. 1 \in DOMAIN outbox[t] /\ outbox[t][1][1] = to
      BY <1>1, <1>5, DeliverFacts
    <2> QED BY <2>1 DEF FlowTypes
  <1>7. CASE t # p
    <2>1. OwnSinks(p) => Cardinality(InChans(p)') <= Cardinality(InChans(p))
      <3> SUFFICES ASSUME OwnSinks(p) PROVE to \notin Dests(p)
        BY <1>3, <1>5, InChansPut
      <3> QED BY <1>6, <1>7, OwnFacts
    <2> QED BY <1>4, <1>5, <1>7, <2>1, LoadSame
  <1>8. CASE t = p
    <2>1. outbox[p] \in Seq(Nodes \X Msgs)
      BY <1>5 DEF FlowTypes
    <2>2. /\ Count(r, ToSinks) <= Count(outbox[p], ToSinks)
          /\ m \in Events => Count(r, ToSinks) + 1 <= Count(outbox[p], ToSinks)
      <3>1. m \in Events => outbox[p][1] \in ToSinks
        <4>1. m \in Events => <<to, m>> \in ToSinks
          BY DEF ToSinks
        <4>2. outbox[p][1] = <<to, m>>
          BY <1>1, <1>8, Zenon
        <4> QED BY <4>1, <4>2, Zenon
      <3> QED BY <1>2, <1>5, <1>8, <2>1, <3>1, CountRest
    <2>3. /\ Cardinality(InChans(p)') <= Cardinality(InChans(p)) + 1
          /\ m \notin Events => Cardinality(InChans(p)') <= Cardinality(InChans(p))
      BY <1>3, <1>5, InChansPut
    <2>4. /\ Count(cf[p], Verdicts) \in Nat /\ Count(outbox[p], ToSinks) \in Nat
          /\ Cardinality(InChans(p)) \in Nat /\ Cardinality(InChans(p)') \in Nat
      BY <1>5, LoadNumbers
    <2>5. Count(r, ToSinks) \in Nat
      BY <1>2, CountFacts
    <2>6. Count(cf'[p], Verdicts) <= Count(cf[p], Verdicts) + 0
      BY <1>5, <2>4
    <2>7. CASE m \in Events
      <3>1. /\ Count(outbox'[p], ToSinks) <= Count(outbox[p], ToSinks) + (-1)
            /\ 0 + (-1) + 1 <= 0
        BY <1>4, <1>8, <2>2, <2>4, <2>5, <2>7
      <3>2. Moves(p, 0, -1, 1)
        BY <2>3, <2>6, <3>1 DEF Moves
      <3> QED BY <1>5, <3>2, LoadStep
    <2>8. CASE m \notin Events
      <3>1. /\ Count(outbox'[p], ToSinks) <= Count(outbox[p], ToSinks) + 0
            /\ Cardinality(InChans(p)') <= Cardinality(InChans(p)) + 0
        BY <1>4, <1>8, <2>2, <2>3, <2>4, <2>5, <2>8
      <3>2. Moves(p, 0, 0, 0)
        BY <2>6, <3>1 DEF Moves
      <3> QED BY <1>5, <3>2, LoadStep
    <2> QED BY <2>7, <2>8
  <1> QED BY <1>7, <1>8

LEMMA LoadDeliverFails ==
    ASSUME NEW p \in Pipes, Before(p), KnownInv', Basics', NEW q \in Pipes, DeliverFails(q)
    PROVE  Fits(p)'
  <1> USE DEF Before, Basics
  <1>1. /\ UNCHANGED <<plan, low, cf, chan>> /\ p \in Senders /\ q \in Senders
        /\ outbox' = [outbox EXCEPT ![q] = <<>>]
    BY DEF DeliverFails, Senders
  <1>2. InChans(p)' = InChans(p)
    BY <1>1 DEF InChans, Dests, Range
  <1>3. /\ Count(cf[p], Verdicts) \in Nat /\ Count(outbox[p], ToSinks) \in Nat
        /\ Cardinality(InChans(p)) \in Nat
    BY LoadNumbers
  <1>4. outbox'[p] = outbox[p] \/ outbox'[p] = <<>>
    BY <1>1 DEF FlowTypes
  <1>5. Count(outbox'[p], ToSinks) <= Count(outbox[p], ToSinks) + 0
    <2>1. <<>> \in Seq(Nodes)
      OBVIOUS
    <2>2. Count(<<>>, ToSinks) = 0
      BY <2>1, CountFacts
    <2> QED BY <1>3, <1>4, <2>2
  <1>6. /\ Count(cf'[p], Verdicts) <= Count(cf[p], Verdicts) + 0
        /\ Cardinality(InChans(p)') <= Cardinality(InChans(p)) + 0
    BY <1>1, <1>2, <1>3
  <1>7. Moves(p, 0, 0, 0)
    BY <1>5, <1>6 DEF Moves
  <1> QED BY <1>1, <1>7, LoadStep

LEMMA LoadPipeInsight ==
    ASSUME NEW p \in Pipes, Before(p), KnownInv', Basics', NEW q \in Pipes, PipeInsight(q)
    PROVE  Fits(p)'
  <1> USE DEF Before, Basics
  <1>1. UNCHANGED <<plan, low, chan, outbox>> /\ cf[q] # <<>>
    BY DEF PipeInsight
  <1>2. InChans(p)' = InChans(p)
    BY <1>1 DEF InChans, Dests, Range
  <1>3. /\ Count(cf[p], Verdicts) \in Nat /\ Count(outbox[p], ToSinks) \in Nat
        /\ Cardinality(InChans(p)) \in Nat
    BY LoadNumbers
  <1>4. CASE ~OwnSinks(p)
    <2>1. ~OwnSinks(p)'
      BY <1>1, <1>4 DEF OwnSinks, SinkPipes, Range
    <2> QED BY <2>1 DEF Fits
  <1>5. CASE OwnSinks(p)
    <2>1. p \notin Inputs(q)
      BY <1>5, OwnFacts
    <2>2. cf' = [ForwardInsight(q, Head(cf[q])) EXCEPT ![q] = Tail(@)]
      BY DEF PipeInsight
    <2>3. ForwardInsight(q, Head(cf[q]))[p] = cf[p]
      BY <2>1 DEF ForwardInsight, CfAppend
    <2>4. DOMAIN ForwardInsight(q, Head(cf[q])) = Pipes
      BY DEF ForwardInsight, CfAppend
    <2>5. cf'[p] = IF p = q THEN Tail(cf[p]) ELSE cf[p]
      BY <2>2, <2>3, <2>4
    <2>6. Count(cf'[p], Verdicts) <= Count(cf[p], Verdicts)
      <3>1. CASE p # q
        BY <1>3, <2>5, <3>1
      <3>2. CASE p = q
        <4>1. cf[p] \in Seq(Known) /\ cf[p] # <<>>
          BY <1>1, <3>2 DEF KnownInv, KnownChannels
        <4>2. Tail(cf[p]) \in Seq(Known) /\ Rest(cf[p], Tail(cf[p]), 1)
          BY <4>1, TailRest
        <4> QED BY <2>5, <3>2, <4>1, <4>2, CountRest
      <3> QED BY <3>1, <3>2
    <2>7. /\ Count(cf'[p], Verdicts) <= Count(cf[p], Verdicts) + 0
          /\ Count(outbox'[p], ToSinks) <= Count(outbox[p], ToSinks) + 0
          /\ Cardinality(InChans(p)') <= Cardinality(InChans(p)) + 0
      BY <1>1, <1>2, <1>3, <2>6
    <2>8. Moves(p, 0, 0, 0)
      BY <2>7 DEF Moves
    <2> QED BY <1>1, <2>8, LoadStep
  <1> QED BY <1>4, <1>5

\* The pipeline saw no counterflow and has nothing in its hand.
LEMMA LoadPipePoll ==
    ASSUME NEW p \in Pipes, Before(p), KnownInv', Basics', NEW q \in Pipes, PipePoll(q)
    PROVE  Fits(p)'
  <1> USE DEF Before, Basics
  <1>1. UNCHANGED <<plan, cf, chan, outbox>> /\ low' = low \union {q}
    BY DEF PipePoll, channels
  <1>2. InChans(p)' = InChans(p)
    BY <1>1 DEF InChans, Dests, Range
  <1>3. /\ Count(cf[p], Verdicts) \in Nat /\ Count(outbox[p], ToSinks) \in Nat
        /\ Cardinality(InChans(p)) \in Nat
        /\ Len(plan.outs[p]) \in Nat /\ Len(plan.outs[p]) * QSize \in Nat
        /\ Cardinality(InChans(p)) <= Len(plan.outs[p]) * QSize
    BY LoadNumbers
  <1>4. CASE p # q
    BY <1>1, <1>2, <1>3, <1>4, LoadSame
  <1>5. CASE p = q
    <2>1. cf[p] = <<>> /\ outbox[p] = <<>>
      BY <1>5 DEF PipePoll
    <2>2. Count(<<>>, Verdicts) = 0 /\ Count(<<>>, ToSinks) = 0
      <3>1. <<>> \in Seq(Nodes)
        OBVIOUS
      <3> QED BY <3>1, CountFacts
    <2>3. Load(p)' = Cardinality(InChans(p))
      <3>1. Load(p)' = Count(cf'[p], Verdicts) + Count(outbox'[p], ToSinks) + Cardinality(InChans(p)')
        BY DEF Load, Count, Places, ToSinks, Nodes, Events, Verdicts
      <3>2. Count(cf'[p], Verdicts) = 0 /\ Count(outbox'[p], ToSinks) = 0
        BY <1>1, <2>1, <2>2, Zenon
      <3>3. PICK k \in Nat : k = Cardinality(InChans(p)) /\ k = Cardinality(InChans(p)')
        BY <1>2, <1>3
      <3> QED BY <3>1, <3>2, <3>3
    <2>4. Allowed(p)' = Len(plan.outs[p]) * QSize
      <3>1. PICK n \in Nat, m \in Nat : n = Len(plan.outs[p]) /\ m = Len(plan.outs[p]) * QSize
        BY <1>3
      <3>2. Allowed(p)' = m + IF p \in low' THEN 0 ELSE n
        BY <1>1, <3>1 DEF Allowed
      <3> QED BY <1>1, <1>5, <3>1, <3>2
    <2> QED BY <1>3, <2>3, <2>4 DEF Fits
  <1> QED BY <1>4, <1>5

\* Taking a message that is in no sink's channel, or is no event.
LEMMA LoadPipeForward ==
    ASSUME NEW p \in Pipes, Before(p), KnownInv', Basics', NEW q \in Pipes, PipeForward(q)
    PROVE  Fits(p)'
  <1> USE DEF Before, Basics
  <1>1. /\ UNCHANGED <<plan, cf>> /\ low' = low \ {q} /\ q \in low
        /\ chan' = [chan EXCEPT ![q] = Tail(@)]
        /\ outbox' = [outbox EXCEPT ![q] = IF Head(chan[q]) = Tick THEN TickToSinks(q)
                                           ELSE ToAll(q, Head(chan[q]))]
    BY DEF PipeForward
  <1>2. q \in Nodes /\ q # Src /\ q \in Senders /\ p \in Senders
    BY FlowAssumption DEF Nodes, Senders
  <1>3. chan[q] # <<>> /\ outbox[q] = <<>>
    BY <1>1, <1>2 DEF Ready
  <1>4. Cardinality(InChans(p)') <= Cardinality(InChans(p))
    BY <1>1, <1>2, <1>3, InChansTake
  <1>5. CASE p # q
    <2>1. outbox'[p] = outbox[p]
      BY <1>1, <1>5 DEF FlowTypes
    <2> QED BY <1>1, <1>4, <2>1, LoadSame
  <1>6. CASE p = q
    <2>1. PICK n \in Nat, m \in Nat : n = Len(plan.outs[p]) /\ m = Len(plan.outs[p]) * QSize
      BY LoadNumbers
    <2>2. Allowed(p) = m /\ Allowed(p)' = m + n
      <3>1. /\ Allowed(p) = m + IF p \in low THEN 0 ELSE n
            /\ Allowed(p)' = m + IF p \in low' THEN 0 ELSE n
        BY <1>1, <2>1 DEF Allowed
      <3> QED BY <1>1, <1>6, <3>1
    <2>3. PICK o : /\ o = IF Head(chan[p]) = Tick THEN TickToSinks(p) ELSE ToAll(p, Head(chan[p]))
                   /\ outbox'[p] = o
      BY <1>1, <1>2, <1>6 DEF FlowTypes
    <2>4. Head(chan[p]) \in Msgs /\ plan \in Plans /\ MaxEvents \in Nat
      BY <1>2, <1>3, <1>6, FlowAssumption DEF FlowTypes
    <2>5. Count(o, ToSinks) \in Nat /\ Count(o, ToSinks) <= n
      <3>1. CASE Head(chan[p]) = Tick
        <4>1. /\ o \in Seq(Nodes \X Msgs)
              /\ \A k \in DOMAIN o : o[k][2] = Tick
          BY <2>3, <2>4, <3>1, TickFacts
        <4>2. Places(o, ToSinks) = {}
          <5>1. Tick \notin Events
            BY <2>4, MessageKinds
          <5>2. \A x \in ToSinks : x[2] \in Events
            BY DEF ToSinks
          <5> QED BY <4>1, <5>1, <5>2 DEF Places
        <4> QED BY <4>2, FS_EmptySet DEF Count
      <3>2. CASE Head(chan[p]) # Tick
        <4>1. o \in Seq(Nodes \X Msgs) /\ DOMAIN o = DOMAIN plan.outs[p]
          BY <1>2, <2>3, <2>4, <3>2, ToAllFacts
        <4>2. plan.outs[p] \in Seq(Nodes)
          BY <1>2, <2>4, PlanFacts
        <4>3. Len(o) = n
          BY <2>1, <4>1, <4>2
        <4> QED BY <4>1, <4>3, CountFacts
      <3> QED BY <3>1, <3>2
    <2>6. Count(outbox[p], ToSinks) = 0
      <3>1. <<>> \in Seq(Nodes)
        OBVIOUS
      <3>2. Count(<<>>, ToSinks) = 0
        BY <3>1, CountFacts
      <3> QED BY <1>3, <1>6, <3>2
    <2>7. OwnSinks(p)' = OwnSinks(p)
      BY <1>1 DEF OwnSinks, SinkPipes, Range
    <2> SUFFICES ASSUME OwnSinks(p) PROVE Load(p)' <= Allowed(p)'
      BY <2>7 DEF Fits
    <2>8. Load(p)' = Count(cf'[p], Verdicts) + Count(outbox'[p], ToSinks) + Cardinality(InChans(p)')
      BY DEF Load, Count, Places, ToSinks, Nodes, Events, Verdicts
    <2>9. PICK v \in Nat, k \in Nat, d \in Nat, e \in Nat :
             /\ v = Count(cf[p], Verdicts) /\ k = Count(o, ToSinks)
             /\ d = Cardinality(InChans(p)) /\ e = Cardinality(InChans(p)')
      BY <1>1, <2>5, LoadNumbers
    <2>10. Load(p) = v + 0 + d
      BY <2>6, <2>9 DEF Load
    <2>11. v + 0 + d <= m
      BY <2>2, <2>10 DEF Fits
    <2>12. Load(p)' = v + k + e
      BY <1>1, <2>3, <2>8, <2>9
    <2>13. e <= d /\ k <= n
      BY <1>4, <2>5, <2>9
    <2> QED BY <2>2, <2>11, <2>12, <2>13
  <1> QED BY <1>5, <1>6

LEMMA LoadPipeDrop ==
    ASSUME NEW p \in Pipes, Before(p), KnownInv', Basics', NEW q \in Pipes, PipeDrop(q)
    PROVE  Fits(p)'
  <1> USE DEF Before, Basics
  <1>1. /\ UNCHANGED <<plan, cf, outbox>> /\ low' = low \ {q} /\ q \in low
        /\ chan' = [chan EXCEPT ![q] = Tail(@)]
    BY DEF PipeDrop
  <1>2. q \in Nodes /\ q # Src
    BY FlowAssumption DEF Nodes
  <1>3. chan[q] # <<>>
    BY <1>1, <1>2 DEF Ready
  <1>4. Cardinality(InChans(p)') <= Cardinality(InChans(p))
    BY <1>1, <1>2, <1>3, InChansTake
  <1> QED BY <1>1, <1>4, LoadSame

\* A tick, or the last message of an offramp.
LEMMA LoadPut ==
    ASSUME NEW p \in Pipes, Before(p), KnownInv', Basics', NEW x \in Nodes, NEW m \in {Tick, Stop},
           Room(x), chan' = [chan EXCEPT ![x] = Append(@, m)], UNCHANGED <<plan, cf, outbox, low>>
    PROVE  Fits(p)'
  <1> USE DEF Before, Basics
  <1>1. m \in Msgs /\ m \notin Events
    <2>1. MaxEvents \in Nat
      BY FlowAssumption
    <2> QED BY <2>1, MessageKinds
  <1>2. Cardinality(InChans(p)') <= Cardinality(InChans(p))
    BY <1>1, InChansPut
  <1> QED BY <1>2, LoadSame

\* Only workers use the reply channel, and their sinks are not meant.
LEMMA LoadSinkReply ==
    ASSUME NEW p \in Pipes, Before(p), KnownInv', Basics', NEW s \in Sinks, SinkReply(s)
    PROVE  Fits(p)'
  <1> USE DEF Before, Basics
  <1>1. /\ UNCHANGED <<plan, chan, outbox, low>> /\ replies[s] # <<>>
        /\ cf' = CfAppend(SinkPipes(s), <<Head(replies[s])>>)
    BY DEF SinkReply
  <1>2. InChans(p)' = InChans(p)
    BY <1>1 DEF InChans, Dests, Range
  <1>3. OwnSinks(p)' = OwnSinks(p)
    BY <1>1 DEF OwnSinks, SinkPipes, Range
  <1>4. CASE ~OwnSinks(p)
    BY <1>3, <1>4 DEF Fits
  <1>5. CASE OwnSinks(p)
    <2>1. plan.kind[s] = "async"
      BY <1>1 DEF BreakerInv, RepliesUsed
    <2>2. p \notin SinkPipes(s)
      BY <1>5, <2>1, OwnFacts
    <2>3. cf'[p] = cf[p]
      BY <1>1, <2>2 DEF CfAppend
    <2>4. Cardinality(InChans(p)') <= Cardinality(InChans(p))
      BY <1>2, LoadNumbers
    <2> QED BY <1>1, <2>3, <2>4, LoadSame
  <1> QED BY <1>4, <1>5

\* A sink takes a message and answers with at most one verdict, and with none if it
\* was no event.
LEMMA LoadSinkTakes ==
    ASSUME NEW p \in Pipes, Before(p), KnownInv', Basics', NEW s \in Sinks, s \in low,
           chan' = [chan EXCEPT ![s] = Tail(@)], low' = low \ {s}, UNCHANGED <<plan, outbox>>,
           NEW S, cf \in [Pipes -> Seq(S)], NEW is \in Seq(S), cf' = CfAppend(SinkPipes(s), is),
           \/ \A k \in DOMAIN is : is[k] \notin Verdicts
           \/ /\ Head(chan[s]) \in Events
              /\ \A k \in DOMAIN is : is[k] \in Verdicts => k = 1
    PROVE  Fits(p)'
  <1> USE DEF Before, Basics
  <1>1. OwnSinks(p)' = OwnSinks(p)
    BY DEF OwnSinks, SinkPipes, Range
  <1>2. CASE ~OwnSinks(p)
    BY <1>1, <1>2 DEF Fits
  <1>3. CASE OwnSinks(p)
    <2>1. s \in Nodes /\ s # Src
      BY FlowAssumption DEF Nodes
    <2>2. chan[s] # <<>>
      BY <2>1 DEF Ready
    <2>3. /\ Cardinality(InChans(p)') <= Cardinality(InChans(p))
          /\ Head(chan[s]) \in Events /\ s \in Dests(p)
                => Cardinality(InChans(p)') + 1 <= Cardinality(InChans(p))
      BY <2>1, <2>2, InChansTake
    <2>4. /\ Count(cf[p], Verdicts) \in Nat /\ Count(outbox[p], ToSinks) \in Nat
          /\ Cardinality(InChans(p)) \in Nat /\ Cardinality(InChans(p)') \in Nat
      BY LoadNumbers
    <2>5. cf[p] \in Seq(S) /\ Count(outbox'[p], ToSinks) <= Count(outbox[p], ToSinks) + 0
      BY <2>4
    <2>6. CASE p \notin SinkPipes(s)
      <3>1. cf'[p] = cf[p]
        BY <2>6 DEF CfAppend
      <3> QED BY <2>3, <3>1, LoadSame
    <2>7. CASE p \in SinkPipes(s)
      <3>1. cf'[p] = cf[p] \o is
        BY <2>7 DEF CfAppend
      <3>2. s \in Dests(p)
        BY <1>3, <2>7, OwnFacts
      <3>3. CASE \A k \in DOMAIN is : is[k] \notin Verdicts
        <4>1. Count(cf'[p], Verdicts) <= Count(cf[p], Verdicts)
          BY <2>5, <3>1, <3>3, CountJoin
        <4>2. Count(cf'[p], Verdicts) \in Nat
          BY <2>5, <3>1, SeqJoin, CountFacts
        <4>3. /\ Count(cf'[p], Verdicts) <= Count(cf[p], Verdicts) + 0
              /\ Cardinality(InChans(p)') <= Cardinality(InChans(p)) + 0
          BY <2>3, <2>4, <4>1, <4>2
        <4>4. Moves(p, 0, 0, 0)
          BY <2>5, <4>3 DEF Moves
        <4> QED BY <4>4, LoadStep
      <3>4. CASE /\ Head(chan[s]) \in Events
                 /\ \A k \in DOMAIN is : is[k] \in Verdicts => k = 1
        <4>1. Count(cf'[p], Verdicts) <= Count(cf[p], Verdicts) + 1
          BY <2>5, <3>1, <3>4, CountJoin
        <4>2. Cardinality(InChans(p)') <= Cardinality(InChans(p)) + (-1) /\ 1 + 0 + (-1) <= 0
          BY <2>3, <2>4, <3>2, <3>4
        <4>3. Moves(p, 1, 0, -1)
          BY <2>5, <4>1, <4>2 DEF Moves
        <4> QED BY <4>3, LoadStep
      <3> QED BY <3>3, <3>4
    <2> QED BY <2>6, <2>7
  <1> QED BY <1>2, <1>3

LEMMA LoadSinkTick ==
    ASSUME NEW p \in Pipes, Before(p), KnownInv', Basics', NEW s \in Sinks, SinkTick(s)
    PROVE  Fits(p)'
  <1>1. /\ s \in low /\ chan' = [chan EXCEPT ![s] = Tail(@)] /\ low' = low \ {s}
        /\ UNCHANGED <<plan, outbox>>
    BY DEF SinkTick, TakeFrom
  <1>2. PICK is : /\ is = <<>> \/ \E ok \in BOOLEAN : is = <<BreakerMsg(ok)>>
                  /\ cf' = CfAppend(SinkPipes(s), is)
    BY DEF SinkTick
  <1>3. is \in Seq(Known) /\ \A k \in DOMAIN is : is[k] \notin Verdicts
    <2>1. \A ok \in BOOLEAN : BreakerMsg(ok) \in Known /\ BreakerMsg(ok) \notin Verdicts
      BY BreakerWords, InsightKinds DEF Known
    <2>2. ASSUME NEW b \in Known, b \notin Verdicts, is = <<b>>
          PROVE  is \in Seq(Known) /\ \A k \in DOMAIN is : is[k] \notin Verdicts
      BY <2>2
    <2>3. is = <<>> => is \in Seq(Known) /\ \A k \in DOMAIN is : is[k] \notin Verdicts
      OBVIOUS
    <2> QED BY <1>2, <2>1, <2>2, <2>3
  <1>4. cf \in [Pipes -> Seq(Known)]
    BY DEF Before, KnownInv, KnownChannels
  <1> QED BY <1>1, <1>2, <1>3, <1>4, LoadSinkTakes

LEMMA LoadSinkEvent ==
    ASSUME NEW p \in Pipes, Before(p), KnownInv', Basics', NEW s \in Sinks, SinkEvent(s)
    PROVE  Fits(p)'
  <1>1. /\ s \in low /\ chan' = [chan EXCEPT ![s] = Tail(@)] /\ low' = low \ {s}
        /\ UNCHANGED <<plan, outbox>> /\ Head(chan[s]) \in Events
    BY DEF SinkEvent, TakeFrom
  <1> DEFINE Late(r, e) == IF VerdictDue(s, r) THEN <<Verdict(~Failed(s, r), e)>> ELSE <<>>
  <1>2. PICK r \in Results(s), e \in Events :
           cf' = CfAppend(SinkPipes(s), OnEventReplies(s, r, e) \o Late(r, e))
    BY DEF SinkEvent
  <1>3. PICK w : w = Late(r, e)
    OBVIOUS
  <1>4. PICK S : S = Known \union Reply(e)
    OBVIOUS
  <1>5. /\ \A ok \in BOOLEAN : Verdict(ok, e) \in S
        /\ BreakerMsg(FALSE) \in S /\ BreakerMsg(FALSE) \notin Verdicts
    BY <1>4, BreakerWords, InsightKinds DEF Known, Reply
  <1>6. cf \in [Pipes -> Seq(S)]
    BY <1>4, SeqMono DEF Before, KnownInv, KnownChannels
  <1>7. PICK is : is = OnEventReplies(s, r, e) \o w
    OBVIOUS
  <1>8. \/ \E v \in S : is = <<v>>
        \/ is \in Seq(S) /\ Len(is) = 2 /\ is[2] = BreakerMsg(FALSE)
        \/ is = <<>>
    <2>1. CASE plan.kind[s] = "tcp"
      <3>1. w = <<>>
        BY <1>3, <2>1 DEF VerdictDue, Failed
      <3>2. PICK v \in S : v = Verdict(r = "ok", e)
        BY <1>5
      <3>3. OnEventReplies(s, r, e) = <<v>> \o CloseOnIo(r)
        BY <2>1, <3>2 DEF OnEventReplies
      <3>4. CASE r = "io"
        <4>1. is = (<<v>> \o <<BreakerMsg(FALSE)>>) \o <<>>
          BY <1>7, <3>1, <3>3, <3>4 DEF CloseOnIo
        <4>2. PICK b \in S : b = BreakerMsg(FALSE)
          BY <1>5
        <4>3. PICK u : u = <<v>> \o <<b>>
          OBVIOUS
        <4>4. u \in Seq(S) /\ Len(u) = 2 /\ u[2] = b
          BY <4>3
        <4>5. u \o <<>> = u
          BY <4>4
        <4> QED BY <4>1, <4>2, <4>3, <4>4, <4>5
      <3>5. CASE r # "io"
        <4>1. is = (<<v>> \o <<>>) \o <<>>
          BY <1>7, <3>1, <3>3, <3>5 DEF CloseOnIo
        <4> QED BY <4>1
      <3> QED BY <3>4, <3>5
    <2>2. CASE plan.kind[s] # "tcp"
      <3>1. r # "io"
        BY <2>2 DEF Results
      <3>2. OnEventReplies(s, r, e) = <<>> \o <<>>
        BY <2>2, <3>1 DEF OnEventReplies, CloseOnIo
      <3>3. (~Failed(s, r)) \in BOOLEAN
        BY DEF Failed
      <3>4. w = <<>> \/ \E v \in S : w = <<v>>
        BY <1>3, <1>5, <3>3
      <3>5. is = (<<>> \o <<>>) \o w
        BY <1>7, <3>2
      <3>6. CASE w = <<>>
        BY <3>5, <3>6
      <3>7. ASSUME NEW v \in S, w = <<v>> PROVE is = <<v>>
        BY <3>5, <3>7
      <3> QED BY <3>4, <3>6, <3>7
    <2> QED BY <2>1, <2>2
  <1>9. is \in Seq(S) /\ \A k \in DOMAIN is : is[k] \in Verdicts => k = 1
    <2>1. ASSUME NEW v \in S, is = <<v>>
          PROVE  is \in Seq(S) /\ \A k \in DOMAIN is : is[k] \in Verdicts => k = 1
      BY <2>1
    <2>2. CASE is \in Seq(S) /\ Len(is) = 2 /\ is[2] = BreakerMsg(FALSE)
      <3>1. DOMAIN is = {1, 2}
        BY <2>2
      <3> QED BY <1>5, <2>2, <3>1
    <2>3. CASE is = <<>>
      BY <2>3
    <2> QED BY <1>8, <2>1, <2>2, <2>3
  <1>10. cf' = CfAppend(SinkPipes(s), is)
    BY <1>2, <1>3, <1>7
  <1> QED BY <1>1, <1>6, <1>9, <1>10, LoadSinkTakes

LEMMA LoadSinkStop ==
    ASSUME NEW p \in Pipes, Before(p), KnownInv', Basics', NEW s \in Sinks, SinkStop(s)
    PROVE  Fits(p)'
  <1> USE DEF Before, Basics
  <1>1. /\ UNCHANGED <<plan, cf, outbox>> /\ low' = low \ {s}
        /\ chan' = [chan EXCEPT ![s] = <<>>] /\ s \in Nodes
    BY DEF SinkStop, Nodes
  <1>2. Cardinality(InChans(p)') <= Cardinality(InChans(p))
    BY <1>1, InChansClear
  <1> QED BY <1>1, <1>2, LoadSame

\* Looks, and what the source and the workers do.
LEMMA LoadLook ==
    ASSUME NEW p \in Pipes, Before(p), KnownInv', Basics',
           UNCHANGED <<plan, cf, chan>>, outbox'[p] = outbox[p], p \in low' => p \in low
    PROVE  Fits(p)'
  <1>1. InChans(p)' = InChans(p)
    BY DEF InChans, Dests, Range
  <1>2. Cardinality(InChans(p)') <= Cardinality(InChans(p))
    BY <1>1, LoadNumbers DEF Before, Basics
  <1> QED BY <1>2, LoadSame DEF Before, Basics

\* Every step keeps the sum in its bounds.
LEMMA LoadNext ==
    ASSUME NEW p \in Pipes, Before(p), KnownInv', Basics', [Next]_vars
    PROVE  Fits(p)'
  <1>1. p # Src /\ p \notin Sinks /\ Pipes \subseteq Nodes /\ Sinks \subseteq Nodes
    BY FlowAssumption DEF Nodes
  <1>2. CASE SrcStep
    <2>1. p \in Senders /\ outbox \in [Senders -> Seq(Nodes \X Msgs)]
      BY DEF Senders, Before, Basics, FlowTypes
    <2>2. UNCHANGED <<plan, cf, chan>> /\ outbox'[p] = outbox[p] /\ (p \in low' => p \in low)
      <3>1. CASE SrcPoll
        BY <1>1, <3>1 DEF SrcPoll, channels
      <3>2. CASE SrcPull
        BY <1>1, <2>1, <3>2 DEF SrcPull
      <3>3. CASE SrcEmpty
        BY <3>3 DEF SrcEmpty, channels
      <3>4. CASE SrcHandle
        BY <3>4 DEF SrcHandle
      <3> QED BY <1>2, <3>1, <3>2, <3>3, <3>4 DEF SrcStep
    <2> QED BY <2>2, LoadLook
  <1>3. CASE \E t \in Senders : Deliver(t)
    BY <1>3, LoadDeliver
  <1>4. CASE \E q \in Pipes : DeliverFails(q)
    BY <1>4, LoadDeliverFails
  <1>5. CASE \E q \in Pipes : PipeStep(q)
    BY <1>5, LoadPipeInsight, LoadPipePoll, LoadPipeForward, LoadPipeDrop DEF PipeStep
  <1>6. CASE \E q \in Pipes : PipeTick(q)
    BY <1>1, <1>6, LoadPut DEF PipeTick
  <1>7. CASE \E s \in Sinks : SinkStep(s)
    <2> PICK s \in Sinks : SinkStep(s)
      BY <1>7
    <2>1. CASE SinkPoll(s)
      BY <1>1, <2>1, LoadLook DEF SinkPoll, channels
    <2> QED BY <2>1, LoadSinkReply, LoadSinkEvent, LoadSinkTick, LoadSinkStop DEF SinkStep
  <1>8. CASE \E s \in Sinks : WorkerAnswer(s)
    BY <1>8, LoadLook DEF WorkerAnswer
  <1>9. CASE \E s \in Sinks : SendStop(s)
    BY <1>1, <1>9, LoadPut DEF SendStop
  <1>10. CASE UNCHANGED vars
    BY <1>10, LoadLook DEF vars, channels
  <1> QED BY <1>2, <1>3, <1>4, <1>5, <1>6, <1>7, <1>8, <1>9, <1>10 DEF Next

LEMMA LoadInit == Init => LoadKept
  <1> SUFFICES ASSUME Init, NEW p \in Pipes PROVE Load(p) <= Allowed(p)
    BY DEF LoadKept
  <1>1. KnownInv /\ FlowTypes
    BY KnownInit, OrderInit DEF OrderInv
  <1>2. cf[p] = <<>> /\ outbox[p] = <<>> /\ low = {}
    BY DEF Init, Senders
  <1>3. Count(<<>>, Verdicts) = 0 /\ Count(<<>>, ToSinks) = 0
    <2>1. <<>> \in Seq(Nodes)
      OBVIOUS
    <2> QED BY <2>1, CountFacts
  <1>4. PICK n \in Nat, m \in Nat, d \in Nat :
           /\ n = Len(plan.outs[p]) /\ m = Len(plan.outs[p]) * QSize
           /\ d = Cardinality(InChans(p)) /\ d <= m
    BY <1>1, LoadNumbers
  <1>5. Load(p) = 0 + 0 + d
    BY <1>2, <1>3, <1>4 DEF Load
  <1>6. Allowed(p) = m + n
    BY <1>2, <1>4 DEF Allowed
  <1> QED BY <1>4, <1>5, <1>6

LEMMA CounterflowNext == CounterflowInv /\ [Next]_vars => CounterflowInv'
  <1> SUFFICES ASSUME CounterflowInv, [Next]_vars PROVE CounterflowInv'
    OBVIOUS
  <1>1. KnownInv' /\ BreakerInv' /\ Basics'
    BY KnownNext, BreakerNext, BasicsNext DEF CounterflowInv
  <1>2. ASSUME NEW p \in Pipes PROVE Fits(p)'
    <2>1. Before(p)
      BY DEF CounterflowInv, LoadKept, Before, Fits
    <2> QED BY <1>1, <2>1, LoadNext
  <1>3. LoadKept'
    BY <1>2 DEF LoadKept, Fits
  <1> QED BY <1>1, <1>3 DEF CounterflowInv

\* The bound of the counterflow channel.
LEMMA CounterflowBound == CounterflowInv => ContraflowBounded
  <1> SUFFICES ASSUME CounterflowInv, NEW p \in Pipes, OwnSinks(p)
               PROVE  Cardinality({k \in DOMAIN cf[p] : cf[p][k] \in Verdicts})
                         <= Len(plan.outs[p]) * (QSize + 1)
    BY DEF ContraflowBounded
  <1>1. KnownInv /\ FlowTypes /\ Load(p) <= Allowed(p)
    BY DEF CounterflowInv, Basics, LoadKept
  <1>2. QSize \in Nat
    BY FlowAssumption
  <1>3. PICK n \in Nat, m \in Nat, v \in Nat, h \in Nat, d \in Nat :
           /\ n = Len(plan.outs[p]) /\ m = Len(plan.outs[p]) * QSize
           /\ v = Count(cf[p], Verdicts) /\ h = Count(outbox[p], ToSinks)
           /\ d = Cardinality(InChans(p)) /\ Load(p) = v + h + d
    BY <1>1, LoadNumbers DEF Load
  <1>4. Allowed(p) = m + IF p \in low THEN 0 ELSE n
    BY <1>3 DEF Allowed
  <1>5. v <= m + n
    <2>1. PICK b \in Nat : b = (IF p \in low THEN 0 ELSE n) /\ b <= n
      BY <1>3
    <2>2. v + h + d <= m + b
      BY <1>1, <1>3, <1>4, <2>1, Zenon
    <2> QED BY <2>1, <2>2
  <1>6. n * (QSize + 1) = n * QSize + n
    BY <1>2
  <1> QED BY <1>3, <1>5, <1>6 DEF Count, Places


-----------------------------------------------------------------------------

\* The channels: those for events never hold more than their capacity, and every
\* variable has its type.
THEOREM CapacityKept == Spec => []TypeOK
  <1>1. KnownInv /\ BreakerInv /\ OrderInv => TypeOK
    <2> SUFFICES ASSUME KnownInv, BreakerInv, OrderInv PROVE TypeOK
      OBVIOUS
    <2>1. /\ \A t \in Pipes \union Sinks : chan[t] \in Seq(Msgs) /\ Len(chan[t]) <= QSize
          /\ \A t \in Senders : outbox[t] \in Seq((Pipes \union Sinks) \X Msgs)
      BY DEF OrderInv, FlowTypes, Nodes
    <2>2. Known \subseteq Insights /\ said \subseteq Verdicts /\ heard \subseteq Verdicts
      BY DEF Known, KnownInv, KnownChannels, Insights
    <2>3. /\ \A p \in Pipes : cf[p] \in Seq(Insights)
          /\ onramp \in Seq(Insights)
          /\ \A s \in Sinks : replies[s] \in Seq(Insights)
      BY <2>2, SeqMono DEF KnownInv, KnownChannels
    <2>4. /\ \A s \in Sinks : pending[s] \subseteq Events
          /\ \A s \in Sinks : got[s] \in Seq(Events)
      BY DEF KnownInv, WorkersKnow
    <2>5. triggered \in BOOLEAN
      BY DEF OrderInv, FlowTypes
    <2>6. /\ low \subseteq Tasks /\ plan \in Plans /\ stream \subseteq Sinks /\ up \subseteq Sinks
          /\ emitted \in 0 .. MaxEvents /\ dropped \subseteq Events
      BY DEF OrderInv, FlowTypes, Ready
    <2>7. lastcb \in [Sinks -> {"open", "close"}]
      BY DEF BreakerInv
    <2> QED BY <2>1, <2>2, <2>3, <2>4, <2>5, <2>6, <2>7 DEF TypeOK
  <1>2. Init => KnownInv /\ BreakerInv /\ OrderInv
    BY KnownInit, BreakerInit, OrderInit
  <1>3. KnownInv /\ BreakerInv /\ OrderInv /\ [Next]_vars => KnownInv' /\ BreakerInv' /\ OrderInv'
    BY KnownNext, BreakerNext, OrderNext
  <1> QED BY <1>1, <1>2, <1>3, PTL DEF Spec

\* start_pipeline: no channel outgrows its bound.  Those for events keep their
\* capacity; the counterflow channel of a pipeline with sinks of its own, which
\* nothing in the code bounds, never holds more verdicts than the channels of the
\* sinks hold events and the pipeline sends at once, however the tasks take turns.
THEOREM CounterflowIsBounded == Spec => []ChannelsBounded
  <1>1. Init => CounterflowInv
    BY KnownInit, BreakerInit, OrderInit, LoadInit DEF CounterflowInv, OrderInv, Basics
  <1> QED BY <1>1, CounterflowNext, CounterflowBound, CapacityKept, PTL DEF Spec, ChannelsBounded

=============================================================================
