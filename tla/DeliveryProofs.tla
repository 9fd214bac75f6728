--------------------------- MODULE DeliveryProofs ---------------------------
(***************************************************************************)
(* Proofs about the kafka source and the sinks that answer on their own    *)
(* (modules KafkaSource, Sinks and Delivery), for any number of            *)
(* partitions, messages, events and faults and any config.concurrency.     *)
(***************************************************************************)
EXTENDS Delivery, Facts

(* The inductive invariants of the source.                                 *)

Offset == [id : Nat, p : Partitions, o : Nat]

\* Offsets of messages that are in the log.
Logged(ms) == ms \subseteq Offset /\ \A x \in ms : x.o < LogSize[x.p]

SourceTypes ==
    /\ pos \in [Partitions -> Nat] /\ committed \in [Partitions -> Nat]
    /\ \A p \in Partitions : pos[p] <= LogSize[p] /\ committed[p] <= LogSize[p]
    /\ messages \subseteq Offset /\ emitted \subseteq Offset
    /\ \A x \in messages \cup emitted : x.o < LogSize[x.p]
    /\ nextId \in 0 .. MaxId /\ fails \in Nat /\ errors \in Nat /\ restarts \in Nat
    /\ \A x \in messages : x.id <= nextId
    /\ \A y \in emitted : y.id < nextId

\* What is known of message o of partition p when the events up to id are
\* acknowledged: it was before, it is with them, or it became no event.
KnownBy(p, o, id) ==
    <<p, o>> \in covered \cup empty \/ \E y \in emitted : y.id <= id /\ y.p = p /\ y.o = o

\* An offset that is remembered stands for all the ones before it, and so does
\* the position of the consumer.  Without transactions nothing is committed.
SourceInv ==
    /\ tx =>
        /\ \A x \in messages : \A o \in 0 .. x.o : KnownBy(x.p, o, x.id)
        /\ \A p \in Partitions : \A o \in 0 .. pos[p] - 1 : KnownBy(p, o, nextId)
    /\ ~tx => committed = [p \in Partitions |-> 0]
    /\ CommittedIsCovered

-----------------------------------------------------------------------------
(* The inductive invariants of the sink.                                   *)

RestStages == {"none", "end"} \cup Holding
ElasticStages == {"none", "end", "job", "told", "done"}
KafkaStages == {"none", "end", "delivery", "fatal"}

\* Stages of an event that has not been answered.
Unanswered == {"none", "send", "encode", "http", "answered", "rejected", "broken", "job",
               "delivery", "fatal"}

Verdicts == {<<>>, <<"ack">>, <<"fail">>}
Letters == [what : {"request", "response", "rejection", "failure"}, id : SinkIds]
Replies == [id : SinkIds, cb : {"ack", "fail"}]

SinkTypes ==
    /\ <<kind, limit>> \in Kinds /\ tx \in BOOLEAN /\ codec \in BOOLEAN
    /\ verdicts \in [SinkIds -> Verdicts]
    /\ slots \in Nat /\ slots <= limit
    /\ mail \in Seq(Letters)
    /\ Len(mail) <= limit /\ waiting \in SinkIds \cup {Nobody}
    /\ queue \in Seq(SinkIds) /\ Len(queue) <= limit
    /\ fatal \in 0 .. ErrorRoom
    /\ replies \in Seq(Replies)
    /\ inbox \in Seq(SinkIds)

\* Each sink has stages of its own.
Stages ==
    CASE kind = "rest" -> RestStages [] kind = "elastic" -> ElasticStages [] kind = "kafka" -> KafkaStages
StagesInv == stage \in [SinkIds -> Stages]

\* Each event gets to the sink once.
FreshInv ==
    /\ \A i \in DOMAIN inbox : inbox[i] < nextId /\ stage[inbox[i]] = "none"
    /\ \A i, j \in DOMAIN inbox : inbox[i] = inbox[j] => i = j
    /\ \A e \in SinkIds : e >= nextId => stage[e] = "none"

\* An event whose task is under way has no verdict, and the rest sink has an
\* Ack for what the server accepted only.
AnsweredInv ==
    /\ \A e \in SinkIds : stage[e] \in Unanswered => verdicts[e] = <<>>
    /\ ~tx /\ kind # "elastic" => \A e \in SinkIds : verdicts[e] = <<>>
    /\ kind = "rest" => \A e \in SinkIds :
        stage[e] = "answered" \/ verdicts[e] = <<"ack">> => e \in taken

\* A message in the channel to the codec task is the only one about its event,
\* which has no verdict; so has the event that waits for a place in it.  Only
\* rest has a codec task.
MailInv ==
    /\ \A i \in DOMAIN mail :
        /\ verdicts[mail[i].id] = <<>>
        /\ stage[mail[i].id] \in IF mail[i].what = "request" THEN {"encode"} ELSE {"free", "end"}
        /\ mail[i].what = "response" => mail[i].id \in taken
    /\ \A i, j \in DOMAIN mail : mail[i].id = mail[j].id => i = j
    /\ waiting # Nobody =>
        /\ stage[waiting] = "end" /\ verdicts[waiting] = <<>>
        /\ \A i \in DOMAIN mail : mail[i].id # waiting
    /\ kind # "rest" => mail = <<>> /\ waiting = Nobody

\* The slots of rest are held by tasks; a job of elastic is in its queue.
SlotsInv ==
    /\ kind = "rest" => slots = Cardinality({e \in SinkIds : stage[e] \in Holding})
    /\ kind = "elastic" => \A e \in SinkIds : stage[e] = "job" => \E i \in DOMAIN queue : queue[i] = e

SinkInv == SinkTypes /\ StagesInv /\ FreshInv /\ AnsweredInv /\ MailInv /\ SlotsInv

-----------------------------------------------------------------------------
(* The inductive invariant of the commits: as long as nothing fails, what  *)
(* was read and not committed became no event, or is remembered under an   *)
(* event whose Ack is still to come.                                       *)

Smooth == tx /\ fails = 0 /\ errors = 0

CommitsInv ==
    Smooth =>
        /\ \A p \in Partitions : committed[p] <= pos[p]
        /\ \A p \in Partitions : \A o \in committed[p] .. pos[p] - 1 :
            <<p, o>> \in empty \/ \E x \in messages \cap emitted : x.p = p /\ x.o = o
        /\ \A x \in messages \cap emitted : verdicts[x.id] = <<"ack">> =>
            \E i \in DOMAIN replies : replies[i].id = x.id /\ replies[i].cb = "ack"
        /\ \A x \in messages : committed[x.p] <= x.o /\ x.o < pos[x.p]
        /\ \A x, y \in messages : x.p = y.p /\ x.id < y.id => x.o < y.o

-----------------------------------------------------------------------------
(* What the actions of the source do.                                      *)

\* The offset of a partition in the topic map is one past the greatest one that
\* is remembered for it up to id.
LEMMA TopicMapFacts ==
  ASSUME NEW ms, Logged(ms), NEW id \in Int, NEW tm, tm = TopicMap(ms, id)
  PROVE  /\ DOMAIN tm \subseteq Partitions
         /\ \A x \in ms : x.id <= id => x.p \in DOMAIN tm /\ x.o + 1 <= tm[x.p]
         /\ \A p \in DOMAIN tm : \E x \in ms : x.id <= id /\ x.p = p /\ tm[p] = x.o + 1
<1> DEFINE split == {x \in ms : x.id <= id}
           Os(p) == {x.o : x \in {y \in split : y.p = p}}
<1>1. tm = [p \in {x.p : x \in split} |-> Max(Os(p)) + 1]
  BY DEF TopicMap
<1>2. \A x \in ms : x \in Offset /\ x.p \in Partitions /\ x.o \in Nat /\ x.o < LogSize[x.p]
  BY DEF Offset, Logged
<1>3. ASSUME NEW p \in {x.p : x \in split}
      PROVE  Max(Os(p)) \in Os(p) /\ \A o \in Os(p) : o <= Max(Os(p))
  <2>1. p \in Partitions
    BY <1>2
  <2>2. LogSize[p] \in Nat
    BY <2>1, KafkaAssumption DEF KafkaAssumption
  <2>3. Os(p) \subseteq 0 .. LogSize[p] /\ Os(p) # {}
    BY <1>2, <2>2
  <2> HIDE DEF Os
  <2> QED BY <2>2, <2>3, GreatestOfNaturals
<1>4. DOMAIN tm = {x.p : x \in split}
  BY <1>1
<1>5. \A p \in DOMAIN tm : tm[p] = Max(Os(p)) + 1
  BY <1>1
<1>6. \A x \in split : x.p \in DOMAIN tm /\ x.o \in Os(x.p)
  BY <1>4
<1>7. \A p \in DOMAIN tm : \E x \in split : x.p = p /\ x.o = Max(Os(p))
  BY <1>3, <1>4
<1>8. \A p : Os(p) \subseteq Nat
  BY <1>2
<1> HIDE DEF Os
<1>9. \A x \in split : x.o + 1 <= tm[x.p]
  <2> SUFFICES ASSUME NEW x \in split PROVE x.o + 1 <= tm[x.p]
    OBVIOUS
  <2>1. x.o <= Max(Os(x.p)) /\ x.o \in Nat /\ Max(Os(x.p)) \in Nat
    BY <1>2, <1>3, <1>4, <1>6, <1>8
  <2> QED BY <1>5, <1>6, <2>1
<1> QED BY <1>2, <1>4, <1>5, <1>6, <1>7, <1>9

LEMMA OverrideFacts ==
  ASSUME NEW f \in [Partitions -> Nat], NEW g,
         \A p \in DOMAIN g : p \in Partitions => g[p] \in Nat
  PROVE  /\ Override(f, g) \in [Partitions -> Nat]
         /\ \A p \in Partitions : Override(f, g)[p] = IF p \in DOMAIN g THEN g[p] ELSE f[p]
BY DEF Override

\* A Fail forgets, and takes the consumer nowhere but behind a message that was
\* remembered.
LEMMA FailFacts ==
  ASSUME NEW ms, Logged(ms), NEW id \in Int,
         NEW at \in [Partitions -> Nat], FailAt(id, ms, at), fails \in Nat, errors \in Nat
  PROVE  /\ messages' \subseteq ms /\ fails' = fails + 1 /\ errors' \in Nat
         /\ pos' \in [Partitions -> Nat]
         /\ \A p \in Partitions :
              pos'[p] = at[p] \/ \E x \in ms : x.p = p /\ pos'[p] = x.o + 1
<1>1. messages' \subseteq ms /\ fails' = fails + 1 /\ errors' \in Nat
  <2>1. fails' = fails + 1
    BY DEF FailAt
  <2>2. messages' = ms \/ messages' = {x \in ms : x.id > id}
    BY DEF FailAt
  <2>3. errors' = errors \/ errors' = errors + 1
    BY DEF FailAt
  <2> QED BY <2>1, <2>2, <2>3
<1>2. PICK tm : tm = TopicMap(ms, id)
  OBVIOUS
<1>3. \A p \in DOMAIN tm : p \in Partitions /\ \E x \in ms : x.p = p /\ tm[p] = x.o + 1
  BY <1>2, TopicMapFacts
<1>4. \A p \in DOMAIN tm : tm[p] \in Nat
  BY <1>3 DEF Offset, Logged
<1>5. CASE pos' = at
  BY <1>1, <1>5
<1>6. CASE pos' = Override(at, tm)
  <2>1. /\ pos' \in [Partitions -> Nat]
        /\ \A p \in Partitions : pos'[p] = IF p \in DOMAIN tm THEN tm[p] ELSE at[p]
    BY <1>4, <1>6, OverrideFacts
  <2> QED BY <1>1, <1>3, <2>1
<1>7. ASSUME NEW done \in SUBSET DOMAIN tm, pos' = Override(at, [p \in done |-> tm[p]])
      PROVE  /\ pos' \in [Partitions -> Nat]
             /\ \A p \in Partitions :
                  pos'[p] = at[p] \/ \E x \in ms : x.p = p /\ pos'[p] = x.o + 1
  <2>1. PICK g : g = [p \in done |-> tm[p]]
    OBVIOUS
  <2>2. DOMAIN g = done /\ \A p \in done : g[p] = tm[p]
    BY <2>1
  <2>3. pos' = Override(at, g)
    BY <1>7, <2>1
  <2>4. /\ pos' \in [Partitions -> Nat]
        /\ \A p \in Partitions : pos'[p] = IF p \in DOMAIN g THEN g[p] ELSE at[p]
    BY <1>4, <2>2, <2>3, OverrideFacts
  <2> QED BY <1>3, <2>2, <2>4
<1> QED BY <1>1, <1>2, <1>5, <1>6, <1>7 DEF FailAt

\* What is pulled: a message, remembered under its first event.
LEMMA PullFacts ==
  ASSUME SourceTypes, NEW p \in Partitions, NEW k \in 0 .. 2, NEW sendFails \in BOOLEAN,
         Pull(p, k, sendFails)
  PROVE  \E m \in Offset, ms \in SUBSET Offset, at \in [Partitions -> Nat] :
           /\ m = [id |-> nextId, p |-> p, o |-> pos[p]]
           /\ m.id = nextId /\ m.p = p /\ m.o = pos[p] /\ pos[p] < LogSize[p]
           /\ ms = {x \in messages : x.id # nextId} \cup {m}
           /\ at = [pos EXCEPT ![p] = @ + 1]
           /\ at[p] = pos[p] + 1 /\ \A q \in Partitions : q # p => at[q] = pos[q]
           /\ nextId' = nextId + k /\ nextId' \in 0 .. MaxId
           /\ emitted' \subseteq Offset /\ emitted \subseteq emitted' /\ (k > 0 => m \in emitted')
           /\ \A y \in emitted' : y \in emitted \/
                (y.p = p /\ y.o = pos[p] /\ nextId <= y.id /\ y.id < nextId + k)
           /\ empty \subseteq empty' /\ (k = 0 => <<p, pos[p]>> \in empty')
           /\ \/ k > 0 /\ FailAt(nextId, ms, at)
              \/ messages' = ms /\ pos' = at /\ UNCHANGED <<fails, errors>>
           /\ UNCHANGED <<retry, committed, covered, restarts>>
<1> DEFINE m == [id |-> nextId, p |-> p, o |-> pos[p]]
           ms == {x \in messages : x.id # nextId} \cup {m}
           at == [pos EXCEPT ![p] = @ + 1]
           new == {[m EXCEPT !.id = nextId + i] : i \in 0 .. k - 1}
<1>1. m \in Offset /\ m.id = nextId /\ m.p = p /\ m.o = pos[p]
  BY DEF Offset, SourceTypes
<1>2. ms \in SUBSET Offset /\ at \in [Partitions -> Nat] /\ at[p] = pos[p] + 1
      /\ \A q \in Partitions : q # p => at[q] = pos[q]
  BY <1>1 DEF SourceTypes
<1>3. /\ nextId' = nextId + k /\ nextId' \in 0 .. MaxId /\ pos[p] < LogSize[p]
      /\ UNCHANGED <<retry, committed, covered, restarts>>
  BY KafkaAssumption DEF Pull, SourceTypes, KafkaAssumption
<1>4. \A y \in new : y \in Offset /\ y.p = p /\ y.o = pos[p] /\ nextId <= y.id /\ y.id < nextId + k
  BY DEF Offset, SourceTypes
<1>5. k > 0 => m \in new
  <2>1. k > 0 => 0 \in 0 .. k - 1
    OBVIOUS
  <2>2. m = [m EXCEPT !.id = nextId + 0]
    BY DEF SourceTypes
  <2> QED BY <2>1, <2>2
<1>6. emitted' = emitted \cup new
  BY DEF Pull
<1>7. empty \subseteq empty' /\ (k = 0 => <<p, pos[p]>> \in empty')
  <2>1. empty' = IF k = 0 THEN empty \cup {Message(m)} ELSE empty
    BY DEF Pull
  <2>2. Message(m) = <<p, pos[p]>>
    BY <1>1 DEF Message
  <2> QED BY <2>1, <2>2
<1>8. \/ k > 0 /\ FailAt(nextId, ms, at)
      \/ messages' = ms /\ pos' = at /\ UNCHANGED <<fails, errors>>
  BY DEF Pull
<1>9. /\ emitted' \subseteq Offset /\ emitted \subseteq emitted' /\ (k > 0 => m \in emitted')
      /\ \A y \in emitted' : y \in emitted \/
           (y.p = p /\ y.o = pos[p] /\ nextId <= y.id /\ y.id < nextId + k)
  <2> HIDE DEF m, new
  <2> QED BY <1>4, <1>5, <1>6 DEF SourceTypes
<1>10. m = [id |-> nextId, p |-> p, o |-> pos[p]] /\ at = [pos EXCEPT ![p] = @ + 1]
       /\ ms = {x \in messages : x.id # nextId} \cup {m}
  OBVIOUS
<1> HIDE DEF m, ms, at, new
<1> QED BY <1>1, <1>2, <1>3, <1>7, <1>8, <1>9, <1>10

-----------------------------------------------------------------------------
(* CommittedIsCovered is invariant.                                        *)

\* What is known stays known.
LEMMA KnownGrows ==
  ASSUME SourceTypes, covered \subseteq covered', empty \subseteq empty', emitted \subseteq emitted',
         NEW p, NEW o, NEW i \in Int, NEW j \in Int, i <= j, KnownBy(p, o, i)
  PROVE  KnownBy(p, o, j)'
<1>1. \A y \in emitted : y.id \in Int
  BY DEF SourceTypes, Offset
<1> QED BY <1>1 DEF KnownBy

LEMMA KnownNext ==
  ASSUME SourceTypes, covered \subseteq covered', empty \subseteq empty', emitted \subseteq emitted',
         nextId' \in Int, nextId <= nextId', NEW p, NEW o, KnownBy(p, o, nextId)
  PROVE  KnownBy(p, o, nextId)'
<1>1. PICK n \in Int : n = nextId' /\ nextId <= n
  OBVIOUS
<1>2. nextId \in Int
  BY DEF SourceTypes
<1>3. KnownBy(p, o, n)'
  BY <1>1, <1>2, KnownGrows
<1> QED BY <1>1, <1>3 DEF KnownBy

\* A step that leaves nothing remembered but ms, and the consumer at the
\* position at or behind a message of ms.
LEMMA SeekKeeps ==
  ASSUME NEW ms, Logged(ms), NEW at \in [Partitions -> Nat], nextId' \in Nat, \A x \in ms : x.id <= nextId',
         \A x \in ms : \A o \in 0 .. x.o : KnownBy(x.p, o, x.id)',
         \A p \in Partitions : at[p] <= LogSize[p],
         (\A p \in Partitions : \A o \in 0 .. at[p] - 1 : KnownBy(p, o, nextId))',
         messages' \subseteq ms, emitted' \subseteq Offset, pos' \in [Partitions -> Nat],
         \A p \in Partitions : pos'[p] = at[p] \/ \E x \in ms : x.p = p /\ pos'[p] = x.o + 1
  PROVE  /\ messages' \subseteq Offset
         /\ \A x \in messages' : x.o < LogSize[x.p] /\ x.id <= nextId'
         /\ \A p \in Partitions : pos'[p] <= LogSize[p]
         /\ (\A x \in messages : \A o \in 0 .. x.o : KnownBy(x.p, o, x.id))'
         /\ (\A p \in Partitions : \A o \in 0 .. pos[p] - 1 : KnownBy(p, o, nextId))'
<1>1. messages' \subseteq Offset /\ \A x \in messages' : x.o < LogSize[x.p] /\ x.id <= nextId'
  BY DEF Logged
<1>2. \A p \in Partitions : LogSize[p] \in Nat
  BY KafkaAssumption DEF KafkaAssumption
<1>3. \A x \in ms : x.id \in Nat /\ x.o \in Nat /\ x.p \in Partitions /\ x.o < LogSize[x.p]
  BY DEF Logged, Offset
<1>4. \A p \in Partitions : pos'[p] <= LogSize[p]
  <2> SUFFICES ASSUME NEW p \in Partitions PROVE pos'[p] <= LogSize[p]
    OBVIOUS
  <2>1. CASE pos'[p] = at[p]
    BY <2>1
  <2>2. ASSUME NEW x \in ms, x.p = p, pos'[p] = x.o + 1 PROVE pos'[p] <= LogSize[p]
    BY <1>2, <1>3, <2>2
  <2> QED BY <2>1, <2>2
<1>5. (\A x \in messages : \A o \in 0 .. x.o : KnownBy(x.p, o, x.id))'
  BY ZenonT(60) DEF KnownBy
<1>6. ASSUME NEW p \in Partitions, NEW o \in 0 .. pos'[p] - 1
      PROVE  <<p, o>> \in covered' \cup empty'
             \/ \E y \in emitted' : y.id <= nextId' /\ y.p = p /\ y.o = o
  <2>1. CASE pos'[p] = at[p]
    BY <2>1 DEF KnownBy
  <2>2. ASSUME NEW x \in ms, x.p = p, pos'[p] = x.o + 1
        PROVE  <<p, o>> \in covered' \cup empty'
               \/ \E y \in emitted' : y.id <= nextId' /\ y.p = p /\ y.o = o
    <3>1. o \in 0 .. x.o /\ x.id <= nextId' /\ x.id \in Nat
      BY <1>3, <2>2
    <3>2. <<p, o>> \in covered' \cup empty'
          \/ \E y \in emitted' : y.id <= x.id /\ y.p = p /\ y.o = o
      BY <2>2, <3>1 DEF KnownBy
    <3>3. \A y \in emitted' : y.id \in Nat
      BY DEF Offset
    <3> QED BY <3>1, <3>2, <3>3
  <2> QED BY <2>1, <2>2
<1>7. (\A p \in Partitions : \A o \in 0 .. pos[p] - 1 : KnownBy(p, o, nextId))'
  BY Zenon, <1>6 DEF KnownBy
<1> QED BY <1>1, <1>4, <1>5, <1>7

LEMMA PullKeeps ==
  ASSUME SourceTypes, SourceInv, tx, tx' = tx,
         NEW p \in Partitions, NEW k \in 0 .. 2, NEW sendFails \in BOOLEAN, Pull(p, k, sendFails)
  PROVE  SourceTypes' /\ SourceInv'
<1>1. PICK m \in Offset, ms \in SUBSET Offset, at \in [Partitions -> Nat] :
           /\ m = [id |-> nextId, p |-> p, o |-> pos[p]]
           /\ m.id = nextId /\ m.p = p /\ m.o = pos[p] /\ pos[p] < LogSize[p]
           /\ ms = {x \in messages : x.id # nextId} \cup {m}
           /\ at = [pos EXCEPT ![p] = @ + 1]
           /\ at[p] = pos[p] + 1 /\ \A q \in Partitions : q # p => at[q] = pos[q]
           /\ nextId' = nextId + k /\ nextId' \in 0 .. MaxId
           /\ emitted' \subseteq Offset /\ emitted \subseteq emitted' /\ (k > 0 => m \in emitted')
           /\ \A y \in emitted' : y \in emitted \/
                (y.p = p /\ y.o = pos[p] /\ nextId <= y.id /\ y.id < nextId + k)
           /\ empty \subseteq empty' /\ (k = 0 => <<p, pos[p]>> \in empty')
           /\ \/ k > 0 /\ FailAt(nextId, ms, at)
              \/ messages' = ms /\ pos' = at /\ UNCHANGED <<fails, errors>>
           /\ UNCHANGED <<retry, committed, covered, restarts>>
  BY PullFacts, SMTT(40)
<1>2. LogSize \in [Partitions -> Nat] /\ MaxId \in Nat /\ nextId \in Nat /\ nextId' \in Nat
  BY KafkaAssumption, <1>1 DEF KafkaAssumption, SourceTypes
<1>3. Logged(ms) /\ \A x \in ms : x.id <= nextId /\ x.id <= nextId'
  BY <1>1, <1>2 DEF Logged, SourceTypes, Offset
<1>4. /\ messages' \subseteq ms /\ fails' \in Nat /\ errors' \in Nat
      /\ pos' \in [Partitions -> Nat]
      /\ \A q \in Partitions : pos'[q] = at[q] \/ \E x \in ms : x.p = q /\ pos'[q] = x.o + 1
  <2>1. fails \in Nat /\ errors \in Nat /\ nextId \in Int
    BY DEF SourceTypes
  <2>2. CASE FailAt(nextId, ms, at)
    <3>1. fails' = fails + 1 /\ messages' \subseteq ms /\ errors' \in Nat
          /\ pos' \in [Partitions -> Nat]
          /\ \A q \in Partitions : pos'[q] = at[q] \/ \E x \in ms : x.p = q /\ pos'[q] = x.o + 1
      BY <1>3, <2>1, <2>2, FailFacts
    <3> QED BY <2>1, <3>1
  <2>3. CASE messages' = ms /\ pos' = at /\ UNCHANGED <<fails, errors>>
    BY <2>1, <2>3
  <2> QED BY <1>1, <2>2, <2>3
<1>5. covered \subseteq covered' /\ empty \subseteq empty' /\ emitted \subseteq emitted'
  BY <1>1
\* the message itself, as an event or as none
<1>6. \A i \in Nat : nextId <= i => KnownBy(p, m.o, i)'
  <2>1. CASE k = 0
    <3>1. <<p, m.o>> \in empty'
      BY <1>1, <2>1
    <3> QED BY <3>1 DEF KnownBy
  <2>2. CASE k > 0
    <3>1. m \in emitted' /\ m.id = nextId /\ m.p = p
      BY <1>1, <2>2
    <3> QED BY <3>1 DEF KnownBy
  <2> QED BY <2>1, <2>2
<1>7. \A x \in ms : \A o \in 0 .. x.o : KnownBy(x.p, o, x.id)'
  <2> SUFFICES ASSUME NEW x \in ms, NEW o \in 0 .. x.o PROVE KnownBy(x.p, o, x.id)'
    OBVIOUS
  <2>1. CASE x \in messages
    <3>1. KnownBy(x.p, o, x.id) /\ x.id \in Int
      BY <2>1 DEF SourceInv, SourceTypes, Offset
    <3> QED BY <1>5, <3>1, KnownGrows
  <2>2. CASE x = m
    <3>1. CASE o = m.o
      BY <1>1, <1>2, <1>6, <2>2, <3>1
    <3>2. CASE o # m.o
      <4>1. o \in 0 .. pos[p] - 1
        BY <1>1, <2>2, <3>2 DEF SourceTypes
      <4>2. KnownBy(p, o, nextId)
        BY <4>1 DEF SourceInv
      <4> QED BY <1>1, <1>2, <1>5, <2>2, <4>2, KnownGrows
    <3> QED BY <3>1, <3>2
  <2> QED BY <1>1, <2>1, <2>2
<1>8. \A q \in Partitions : at[q] <= LogSize[q]
  <2> SUFFICES ASSUME NEW q \in Partitions PROVE at[q] <= LogSize[q]
    OBVIOUS
  <2>1. pos[q] <= LogSize[q] /\ pos[q] \in Nat /\ LogSize[q] \in Nat
    BY <1>2 DEF SourceTypes
  <2>2. CASE q = p
    BY <1>1, <2>1, <2>2
  <2>3. CASE q # p
    BY <1>1, <2>1, <2>3
  <2> QED BY <2>2, <2>3
<1>9. (\A q \in Partitions : \A o \in 0 .. at[q] - 1 : KnownBy(q, o, nextId))'
  <2> SUFFICES ASSUME NEW q \in Partitions, NEW o \in 0 .. at[q] - 1 PROVE KnownBy(q, o, nextId)'
    OBVIOUS
  <2>1. PICK n \in Nat : n = nextId' /\ nextId <= n
    BY <1>1, <1>2
  <2>2. KnownBy(q, o, n)'
    <3>1. CASE q = p /\ o = m.o
      BY <1>6, <2>1, <3>1
    <3>2. CASE q # p \/ o # m.o
      <4>1. o \in 0 .. pos[q] - 1
        BY <1>1, <3>2 DEF SourceTypes
      <4>2. KnownBy(q, o, nextId)
        BY <4>1 DEF SourceInv
      <4> QED BY <1>2, <1>5, <2>1, <4>2, KnownGrows
    <3> QED BY <3>1, <3>2
  <2> QED BY <2>1, <2>2 DEF KnownBy
<1>10. /\ messages' \subseteq Offset
       /\ \A x \in messages' : x.o < LogSize[x.p] /\ x.id <= nextId'
       /\ \A q \in Partitions : pos'[q] <= LogSize[q]
       /\ (\A x \in messages : \A o \in 0 .. x.o : KnownBy(x.p, o, x.id))'
       /\ (\A q \in Partitions : \A o \in 0 .. pos[q] - 1 : KnownBy(q, o, nextId))'
  <2>1. emitted' \subseteq Offset /\ nextId' \in Nat /\ \A x \in ms : x.id <= nextId'
    BY <1>1, <1>2, <1>3
  <2> QED BY ZenonT(60), <2>1, <1>3, <1>4, <1>7, <1>8, <1>9, SeekKeeps
<1>11. \A y \in emitted' : y.o < LogSize[y.p] /\ y.id < nextId'
  BY <1>1, <1>2 DEF SourceTypes, Offset
<1>12. SourceTypes'
  BY <1>1, <1>4, <1>10, <1>11 DEF SourceTypes
<1>13. CommittedIsCovered'
  BY <1>1, <1>5 DEF SourceInv, CommittedIsCovered
<1> QED BY <1>10, <1>12, <1>13 DEF SourceInv

LEMMA FailKeeps ==
  ASSUME SourceTypes, SourceInv, tx, tx' = tx, NEW id \in Nat, SourceFail(id)
  PROVE  SourceTypes' /\ SourceInv'
<1>1. /\ FailAt(id, messages, pos)
      /\ UNCHANGED <<committed, nextId, emitted, covered, empty, restarts>>
  BY DEF SourceFail
<1>2. /\ Logged(messages) /\ pos \in [Partitions -> Nat] /\ nextId' \in Nat
      /\ \A x \in messages : x.id <= nextId'
      /\ \A p \in Partitions : pos[p] <= LogSize[p]
      /\ emitted' \subseteq Offset /\ fails \in Nat /\ errors \in Nat
  BY <1>1, KafkaAssumption DEF SourceTypes, Logged, KafkaAssumption
<1>3. /\ messages' \subseteq messages /\ fails' \in Nat /\ errors' \in Nat
      /\ pos' \in [Partitions -> Nat]
      /\ \A p \in Partitions : pos'[p] = pos[p] \/ \E x \in messages : x.p = p /\ pos'[p] = x.o + 1
  <2>1. /\ fails' = fails + 1 /\ messages' \subseteq messages /\ errors' \in Nat
        /\ pos' \in [Partitions -> Nat]
        /\ \A p \in Partitions : pos'[p] = pos[p] \/ \E x \in messages : x.p = p /\ pos'[p] = x.o + 1
    BY <1>1, <1>2, FailFacts
  <2> QED BY <1>2, <2>1
<1>4. covered \subseteq covered' /\ empty \subseteq empty' /\ emitted \subseteq emitted'
  BY <1>1
<1>5. PICK at \in [Partitions -> Nat] : at = pos
  BY <1>2
<1>6. PICK ms : ms = messages
  OBVIOUS
<1>7. \A x \in ms : \A o \in 0 .. x.o : KnownBy(x.p, o, x.id)'
  <2> SUFFICES ASSUME NEW x \in ms, NEW o \in 0 .. x.o PROVE KnownBy(x.p, o, x.id)'
    OBVIOUS
  <2>1. KnownBy(x.p, o, x.id) /\ x.id \in Int
    BY <1>6 DEF SourceInv, SourceTypes, Offset
  <2> QED BY <1>4, <2>1, KnownGrows
<1>8. (\A p \in Partitions : \A o \in 0 .. at[p] - 1 : KnownBy(p, o, nextId))'
  <2> SUFFICES ASSUME NEW p \in Partitions, NEW o \in 0 .. at[p] - 1 PROVE KnownBy(p, o, nextId)'
    OBVIOUS
  <2>1. KnownBy(p, o, nextId) /\ nextId \in Int
    BY <1>5 DEF SourceInv, SourceTypes
  <2> QED BY <1>1, <1>4, <2>1, KnownNext
<1>9. /\ messages' \subseteq Offset
      /\ \A x \in messages' : x.o < LogSize[x.p] /\ x.id <= nextId'
      /\ \A p \in Partitions : pos'[p] <= LogSize[p]
      /\ (\A x \in messages : \A o \in 0 .. x.o : KnownBy(x.p, o, x.id))'
      /\ (\A p \in Partitions : \A o \in 0 .. pos[p] - 1 : KnownBy(p, o, nextId))'
  <2>1. /\ Logged(ms) /\ (\A x \in ms : x.id <= nextId')
        /\ (\A p \in Partitions : at[p] <= LogSize[p]) /\ messages' \subseteq ms
        /\ \A p \in Partitions : pos'[p] = at[p] \/ \E x \in ms : x.p = p /\ pos'[p] = x.o + 1
    BY <1>2, <1>3, <1>5, <1>6
  <2>2. emitted' \subseteq Offset /\ nextId' \in Nat /\ pos' \in [Partitions -> Nat]
    BY <1>2, <1>3
  <2> QED BY ZenonT(60), <2>1, <2>2, <1>7, <1>8, SeekKeeps
<1>10. SourceTypes'
  BY <1>1, <1>3, <1>9 DEF SourceTypes
<1>11. CommittedIsCovered'
  BY <1>1 DEF SourceInv, CommittedIsCovered
<1> QED BY <1>9, <1>10, <1>11 DEF SourceInv

\* What the Ack commits is known by the id of the Ack, so it is covered now.
LEMMA AckKeeps ==
  ASSUME SourceTypes, SourceInv, tx, tx' = tx, NEW id \in Nat, SourceAck(id)
  PROVE  SourceTypes' /\ SourceInv'
<1>1. /\ messages' \subseteq messages /\ errors' \in Nat
      /\ UNCHANGED <<pos, nextId, emitted, empty, fails, restarts>>
      /\ covered' = covered \cup {Message(x) : x \in {y \in emitted : y.id <= id}}
  BY DEF SourceAck, SourceTypes
<1>2. covered \subseteq covered' /\ empty \subseteq empty' /\ emitted \subseteq emitted'
  BY <1>1
<1>3. \A p, o : KnownBy(p, o, id) => <<p, o>> \in covered' \cup empty'
  BY <1>1 DEF KnownBy, Message
<1>4. PICK tm : tm = TopicMap(messages, id)
  OBVIOUS
<1>5. Logged(messages)
  BY DEF SourceTypes, Logged
<1>6. \A p \in DOMAIN tm : p \in Partitions /\ \E x \in messages : x.id <= id /\ x.p = p /\ tm[p] = x.o + 1
  BY <1>4, <1>5, TopicMapFacts
<1>7. \A x \in messages : /\ x.id \in Nat /\ x.o \in Nat /\ x.p \in Partitions
                          /\ x.o < LogSize[x.p] /\ LogSize[x.p] \in Nat
  BY <1>5, KafkaAssumption DEF Logged, Offset, KafkaAssumption
<1>8. \A p \in DOMAIN tm : /\ tm[p] \in Nat /\ tm[p] <= LogSize[p]
                           /\ \A o \in 0 .. tm[p] - 1 : <<p, o>> \in covered' \cup empty'
  <2> SUFFICES ASSUME NEW p \in DOMAIN tm
               PROVE  /\ tm[p] \in Nat /\ tm[p] <= LogSize[p]
                      /\ \A o \in 0 .. tm[p] - 1 : <<p, o>> \in covered' \cup empty'
    OBVIOUS
  <2>1. PICK x \in messages : x.id <= id /\ x.p = p /\ tm[p] = x.o + 1
    BY <1>6
  <2>2. tm[p] \in Nat /\ tm[p] <= LogSize[p]
    BY <1>7, <2>1
  <2>3. ASSUME NEW o \in 0 .. tm[p] - 1 PROVE <<p, o>> \in covered' \cup empty'
    <3>1. o \in 0 .. x.o
      BY <1>7, <2>1
    <3>2. KnownBy(p, o, x.id)
      BY <2>1, <3>1 DEF SourceInv
    <3>3. \A y \in emitted : y.id \in Nat
      BY DEF SourceTypes, Offset
    <3>4. KnownBy(p, o, id)
      BY <1>7, <2>1, <3>2, <3>3 DEF KnownBy
    <3> QED BY <1>3, <3>4
  <2> QED BY <2>2, <2>3
<1>9. /\ committed' \in [Partitions -> Nat]
      /\ \A p \in Partitions : /\ committed'[p] <= LogSize[p]
                               /\ \A o \in 0 .. committed'[p] - 1 : <<p, o>> \in covered' \cup empty'
  <2>1. CASE committed' = committed
    BY <1>2, <2>1 DEF SourceTypes, SourceInv, CommittedIsCovered
  <2>2. CASE committed' = Override(committed, tm)
    <3>1. /\ committed' \in [Partitions -> Nat]
          /\ \A p \in Partitions : committed'[p] = IF p \in DOMAIN tm THEN tm[p] ELSE committed[p]
      BY <1>8, <2>2, OverrideFacts DEF SourceTypes
    <3>2. \A p \in Partitions : committed[p] <= LogSize[p]
            /\ \A o \in 0 .. committed[p] - 1 : <<p, o>> \in covered' \cup empty'
      BY <1>2 DEF SourceTypes, SourceInv, CommittedIsCovered
    <3> QED BY <1>8, <3>1, <3>2
  <2> QED BY <1>4, <2>1, <2>2 DEF SourceAck
<1>10. SourceTypes'
  BY <1>1, <1>9 DEF SourceTypes
<1>11. (\A x \in messages : \A o \in 0 .. x.o : KnownBy(x.p, o, x.id))'
  <2>1. \A x \in messages' : \A o \in 0 .. x.o : KnownBy(x.p, o, x.id)
    BY <1>1 DEF SourceInv
  <2> QED BY <1>1, <1>2, <2>1 DEF KnownBy
<1>12. (\A p \in Partitions : \A o \in 0 .. pos[p] - 1 : KnownBy(p, o, nextId))'
  <2> SUFFICES ASSUME NEW p \in Partitions, NEW o \in 0 .. pos'[p] - 1 PROVE KnownBy(p, o, nextId)'
    OBVIOUS
  <2>1. KnownBy(p, o, nextId) /\ nextId \in Int
    BY <1>1 DEF SourceInv, SourceTypes
  <2> QED BY <1>1, <1>2, <2>1, KnownNext
<1>13. CommittedIsCovered'
  BY <1>9 DEF CommittedIsCovered
<1> QED BY <1>10, <1>11, <1>12, <1>13 DEF SourceInv

LEMMA SkipKeeps ==
  ASSUME SourceTypes, SourceInv, tx, tx' = tx, NEW p \in Partitions, PullUnreadable(p)
  PROVE  SourceTypes' /\ SourceInv'
<1>1. /\ pos[p] < LogSize[p] /\ pos' = [pos EXCEPT ![p] = @ + 1]
      /\ empty' = empty \cup {<<p, pos[p]>>}
      /\ UNCHANGED <<committed, messages, nextId, emitted, covered, fails, errors, restarts>>
  BY DEF PullUnreadable, sourceBounds
<1>2. LogSize \in [Partitions -> Nat] /\ pos \in [Partitions -> Nat]
  BY KafkaAssumption DEF KafkaAssumption, SourceTypes
<1>3. pos' \in [Partitions -> Nat] /\ \A q \in Partitions : pos'[q] <= LogSize[q]
  BY <1>1, <1>2 DEF SourceTypes
<1>4. SourceTypes'
  BY <1>1, <1>3 DEF SourceTypes
<1>5. (\A x \in messages : \A o \in 0 .. x.o : KnownBy(x.p, o, x.id))'
  <2>1. \A x \in messages : \A o \in 0 .. x.o : KnownBy(x.p, o, x.id)
    BY DEF SourceInv
  <2> QED BY <1>1, <2>1 DEF KnownBy
<1>6. (\A q \in Partitions : \A o \in 0 .. pos[q] - 1 : KnownBy(q, o, nextId))'
  <2> SUFFICES ASSUME NEW q \in Partitions, NEW o \in 0 .. pos'[q] - 1 PROVE KnownBy(q, o, nextId)'
    OBVIOUS
  <2>1. CASE q = p /\ o = pos[p]
    <3>1. <<q, o>> \in empty'
      BY <1>1, <2>1
    <3> QED BY <3>1 DEF KnownBy
  <2>2. CASE q # p \/ o # pos[p]
    <3>1. o \in 0 .. pos[q] - 1
      BY <1>1, <1>2, <2>2
    <3>2. KnownBy(q, o, nextId) /\ nextId \in Int
      BY <3>1 DEF SourceInv, SourceTypes
    <3>3. nextId' \in Int /\ nextId <= nextId' /\ covered \subseteq covered'
          /\ empty \subseteq empty' /\ emitted \subseteq emitted'
      BY <1>1, <3>2
    <3> QED BY <3>2, <3>3, KnownNext
  <2> QED BY <2>1, <2>2
<1>7. CommittedIsCovered'
  BY <1>1 DEF SourceInv, CommittedIsCovered
<1> QED BY <1>4, <1>5, <1>6, <1>7 DEF SourceInv

LEMMA AutoCommitKeeps ==
  ASSUME SourceTypes, SourceInv, ~tx, tx' = tx, NEW p \in Partitions, NEW k \in 0 .. 2,
         PullAutoCommit(p, k)
  PROVE  SourceTypes' /\ SourceInv'
<1>1. /\ pos[p] < LogSize[p] /\ pos' = [pos EXCEPT ![p] = @ + 1]
      /\ nextId + k <= MaxId /\ nextId' = nextId + k
      /\ UNCHANGED <<committed, messages, emitted, covered, empty, fails, errors, restarts>>
  BY DEF PullAutoCommit, sourceBounds
<1>2. LogSize \in [Partitions -> Nat] /\ MaxId \in Nat /\ pos \in [Partitions -> Nat]
  BY KafkaAssumption DEF KafkaAssumption, SourceTypes
<1>3. pos' \in [Partitions -> Nat] /\ \A q \in Partitions : pos'[q] <= LogSize[q]
  BY <1>1, <1>2 DEF SourceTypes
<1>4. /\ nextId' \in 0 .. MaxId
      /\ (\A x \in messages : x.id <= nextId') /\ (\A y \in emitted : y.id < nextId')
  BY <1>1, <1>2 DEF SourceTypes, Offset
<1>5. SourceTypes'
  BY <1>1, <1>3, <1>4 DEF SourceTypes
<1> QED BY <1>1, <1>5 DEF SourceInv, CommittedIsCovered

LEMMA RestartKeeps ==
  ASSUME SourceTypes, SourceInv, tx' = tx, SourceRestart
  PROVE  SourceTypes' /\ SourceInv'
<1>1. /\ pos' = committed /\ messages' = {} /\ nextId' = 0 /\ emitted' = {}
      /\ restarts' = restarts + 1 /\ UNCHANGED <<committed, covered, empty, fails, errors>>
  BY DEF SourceRestart
<1>2. SourceTypes'
  BY <1>1, KafkaAssumption DEF SourceTypes, KafkaAssumption
<1>3. (\A q \in Partitions : \A o \in 0 .. pos[q] - 1 : KnownBy(q, o, nextId))'
  <2> SUFFICES ASSUME NEW q \in Partitions, NEW o \in 0 .. pos'[q] - 1 PROVE KnownBy(q, o, nextId)'
    OBVIOUS
  <2>1. <<q, o>> \in covered' \cup empty'
    BY <1>1 DEF SourceInv, CommittedIsCovered
  <2> QED BY <2>1 DEF KnownBy
<1> QED BY <1>1, <1>2, <1>3 DEF SourceInv, CommittedIsCovered

LEMMA SourceKeeps ==
  ASSUME SourceTypes, SourceInv, SinkTypes, [Next]_deliveryVars
  PROVE  SourceTypes' /\ SourceInv'
<1>1. ASSUME UNCHANGED <<source, sourceBounds, tx>>
      PROVE  SourceTypes' /\ SourceInv'
  <2>1. UNCHANGED <<pos, committed, messages, nextId, emitted, covered, empty, fails, errors, restarts>>
    BY <1>1 DEF source, sourceBounds
  <2>2. SourceTypes'
    BY <2>1 DEF SourceTypes
  <2>3. (\A x \in messages : \A o \in 0 .. x.o : KnownBy(x.p, o, x.id))'
        <=> \A x \in messages : \A o \in 0 .. x.o : KnownBy(x.p, o, x.id)
    BY <2>1 DEF KnownBy
  <2>4. (\A p \in Partitions : \A o \in 0 .. pos[p] - 1 : KnownBy(p, o, nextId))'
        <=> \A p \in Partitions : \A o \in 0 .. pos[p] - 1 : KnownBy(p, o, nextId)
    BY <2>1 DEF KnownBy
  <2> QED BY <1>1, <2>1, <2>2, <2>3, <2>4 DEF SourceInv, CommittedIsCovered
<1>2. ASSUME NEW p \in Partitions, NEW k \in 0 .. 2, NEW sendFails \in BOOLEAN, Read(p, k, sendFails)
      PROVE  SourceTypes' /\ SourceInv'
  <2>1. tx' = tx
    BY <1>2 DEF Read, sinkVars
  <2> QED BY <1>2, <2>1, PullKeeps, AutoCommitKeeps DEF Read
<1>3. ASSUME NEW p \in Partitions, Skip(p) PROVE SourceTypes' /\ SourceInv'
  BY <1>3, SkipKeeps DEF Skip, sinkVars
<1>4. CASE Take
  <2>1. tx' = tx
    BY <1>4 DEF Take, SinkOnEvent, RestOnEvent, ElasticOnEvent, KafkaOnEvent
  <2> QED BY <1>1, <1>4, <2>1 DEF Take
<1>5. CASE Return
  <2>1. tx' = tx
    BY <1>5 DEF Return
  <2>2. Head(replies).id \in Nat
    <3>1. Head(replies) \in Replies
      BY <1>5, TailFacts DEF Return, SinkTypes
    <3> QED BY <3>1, DeliveryAssumption, KafkaAssumption DEF Replies, KafkaAssumption, DeliveryAssumption
  <2> QED BY <1>1, <1>5, <2>1, <2>2, AckKeeps, FailKeeps DEF Return
<1>6. CASE Work
  <2>1. tx' = tx
    BY <1>6 DEF Work, SinkWork, RestOverload, Codec, RestTask, TaskSend, RestHttp, RestFree, ElasticJob,
                ElasticDone, KafkaDelivery, KafkaFatal, KafkaOnSignal
  <2> QED BY <1>1, <1>6, <2>1 DEF Work
<1>7. CASE TokenFails
  BY <1>1, <1>7 DEF TokenFails, CodecDies
<1>8. CASE Restart
  BY <1>8, RestartKeeps DEF Restart, SinkRestart
<1>9. CASE UNCHANGED deliveryVars
  BY <1>1, <1>9 DEF deliveryVars, sinkVars
<1> QED BY <1>2, <1>3, <1>4, <1>5, <1>6, <1>7, <1>8, <1>9 DEF Next

-----------------------------------------------------------------------------
(* SinkInv is invariant: what the steps of one event have in common.       *)

Kept == UNCHANGED <<kind, limit, tx>>

\* Nothing happens to the other events, and what happens to e is allowed.
Moves(e) ==
    /\ stage' \in [SinkIds -> Stages] /\ \A d \in SinkIds \ {e} : stage'[d] = stage[d]
Tells(e) ==
    /\ verdicts' \in [SinkIds -> Verdicts] /\ \A d \in SinkIds \ {e} : verdicts'[d] = verdicts[d]
    /\ replies' \in Seq(Replies)

LEMMA IdFacts == SinkIds \subseteq Nat /\ Nobody \notin SinkIds /\ MaxId \in Nat /\ IsFiniteSet(SinkIds)
<1>1. MaxId \in Nat /\ SinkIds = 0 .. MaxId - 1
  BY KafkaAssumption, DeliveryAssumption DEF KafkaAssumption, DeliveryAssumption
<1>2. IsFiniteSet(SinkIds)
  BY <1>1, FS_Interval
<1> QED BY <1>1, <1>2 DEF Nobody

LEMMA KindFacts ==
  ASSUME SinkTypes
  PROVE  kind \in {"rest", "elastic", "kafka"} /\ limit \in Nat /\ limit >= 1
BY SinksAssumption DEF SinkTypes, SinksAssumption

LEMMA MoveFacts ==
  ASSUME StagesInv, NEW e \in SinkIds, NEW s \in Stages, Move(e, s)
  PROVE  Moves(e) /\ stage'[e] = s
BY DEF StagesInv, Move, Moves

\* The first verdict on e.
LEMMA InsightFacts ==
  ASSUME SinkTypes, NEW e \in SinkIds, NEW cb \in {"ack", "fail"}, verdicts[e] = <<>>, Insight(e, cb)
  PROVE  Tells(e) /\ verdicts'[e] = <<cb>> /\ replies' = Append(replies, [id |-> e, cb |-> cb])
<1>1. Append(verdicts[e], cb) = <<cb>>
  BY Append(<<>>, cb) = <<cb>>
<1>2. <<cb>> \in Verdicts
  BY DEF Verdicts
<1>3. verdicts' = [verdicts EXCEPT ![e] = <<cb>>]
  BY <1>1 DEF Insight
<1>4. /\ verdicts' \in [SinkIds -> Verdicts] /\ verdicts'[e] = <<cb>>
      /\ \A d \in SinkIds \ {e} : verdicts'[d] = verdicts[d]
  BY <1>2, <1>3 DEF SinkTypes
<1>5. [id |-> e, cb |-> cb] \in Replies
  BY DEF Replies
<1>6. replies' \in Seq(Replies) /\ replies' = Append(replies, [id |-> e, cb |-> cb])
  BY <1>5, AppendFacts DEF Insight, SinkTypes
<1> QED BY <1>4, <1>6 DEF Tells

LEMMA AnswerFacts ==
  ASSUME SinkTypes, NEW e \in SinkIds, NEW cb \in {"ack", "fail"}, verdicts[e] = <<>>, Answer(e, cb)
  PROVE  /\ Tells(e) /\ (verdicts'[e] = <<>> \/ verdicts'[e] = <<cb>>)
         /\ (~tx => verdicts' = verdicts)
         /\ (tx => replies' = Append(replies, [id |-> e, cb |-> cb]))
         /\ (~tx => replies' = replies)
<1>1. CASE tx
  BY <1>1, InsightFacts DEF Answer
<1>2. CASE ~tx
  BY <1>2 DEF Answer, NoInsight, Tells, SinkTypes
<1> QED BY <1>1, <1>2 DEF SinkTypes

LEMMA SilenceFacts ==
  ASSUME SinkTypes, NEW e, UNCHANGED <<replies, verdicts>>
  PROVE  Tells(e)
BY DEF Tells, SinkTypes

LEMMA StagesKept ==
  ASSUME NEW e \in SinkIds, Moves(e), Kept
  PROVE  StagesInv'
BY DEF Moves, Kept, StagesInv, Stages

LEMMA AnsweredKept ==
  ASSUME SinkInv, Kept, NEW e \in SinkIds, Moves(e), Tells(e), taken \subseteq taken',
         stage'[e] \in Unanswered => verdicts'[e] = <<>>,
         ~tx /\ kind # "elastic" => verdicts'[e] = verdicts[e],
         kind = "rest" => (stage'[e] = "answered" \/ verdicts'[e] = <<"ack">> => e \in taken')
  PROVE  AnsweredInv'
<1>1. (\A d \in SinkIds : stage[d] \in Unanswered => verdicts[d] = <<>>)'
  <2> SUFFICES ASSUME NEW d \in SinkIds, stage'[d] \in Unanswered PROVE verdicts'[d] = <<>>
    BY DEF Unanswered
  <2>1. CASE d = e
    BY <2>1
  <2>2. CASE d # e
    BY <2>2 DEF Moves, Tells, SinkInv, AnsweredInv
  <2> QED BY <2>1, <2>2
<1>2. ~tx /\ kind # "elastic" => \A d \in SinkIds : verdicts'[d] = <<>>
  BY DEF Tells, SinkInv, AnsweredInv
<1>3. kind = "rest" => \A d \in SinkIds :
        stage'[d] = "answered" \/ verdicts'[d] = <<"ack">> => d \in taken'
  BY DEF Moves, Tells, SinkInv, AnsweredInv
<1> QED BY <1>1, <1>2, <1>3 DEF AnsweredInv, Kept

\* A step of an event that has nothing to do with the codec task.
LEMMA MailKept ==
  ASSUME SinkInv, Kept, NEW e \in SinkIds, Moves(e), Tells(e), taken \subseteq taken',
         stage[e] \notin {"encode", "free", "end"}, UNCHANGED <<mail, waiting>>
  PROVE  MailInv'
<1>1. \A i \in DOMAIN mail : mail[i].id # e /\ mail[i].id \in SinkIds
  <2>1. \A i \in DOMAIN mail : mail[i] \in Letters
    BY DEF SinkInv, SinkTypes
  <2>2. \A i \in DOMAIN mail : stage[mail[i].id] \in {"encode", "free", "end"}
    BY DEF SinkInv, MailInv
  <2> QED BY <2>1, <2>2 DEF Letters
<1>2. waiting # Nobody => waiting # e /\ waiting \in SinkIds
  BY DEF SinkInv, SinkTypes, MailInv
<1>3. \A i \in DOMAIN mail :
        stage'[mail[i].id] = stage[mail[i].id] /\ verdicts'[mail[i].id] = verdicts[mail[i].id]
  BY <1>1 DEF Moves, Tells
<1>4. waiting # Nobody => stage'[waiting] = stage[waiting] /\ verdicts'[waiting] = verdicts[waiting]
  BY <1>2 DEF Moves, Tells
<1> QED BY <1>3, <1>4 DEF SinkInv, MailInv, Kept

LEMMA FreshKept ==
  ASSUME SinkInv, NEW e \in SinkIds, Moves(e), stage[e] # "none", UNCHANGED <<inbox, nextId>>
  PROVE  FreshInv'
<1>1. \A i \in DOMAIN inbox : inbox[i] # e /\ inbox[i] \in SinkIds
  BY DEF SinkInv, SinkTypes, FreshInv
<1> QED BY <1>1 DEF Moves, SinkInv, FreshInv

\* The sets of tasks and jobs.
LEMMA HoldingFacts ==
  ASSUME SinkInv, NEW e \in SinkIds, Moves(e)
  PROVE  LET C == Cardinality({d \in SinkIds : stage[d] \in Holding})
             D == Cardinality({d \in SinkIds : stage'[d] \in Holding})
         IN  /\ C \in Nat /\ D \in Nat
             /\ (stage[e] \in Holding /\ stage'[e] \in Holding) => D = C
             /\ (stage[e] \notin Holding /\ stage'[e] \notin Holding) => D = C
             /\ (stage[e] \notin Holding /\ stage'[e] \in Holding) => D = C + 1
             /\ (stage[e] \in Holding /\ stage'[e] \notin Holding) => D = C - 1
<1> DEFINE H == {d \in SinkIds : stage[d] \in Holding}
           G == {d \in SinkIds : stage'[d] \in Holding}
<1>1. IsFiniteSet(H) /\ IsFiniteSet(G)
  BY IdFacts, FS_Subset
<1>2. \A d \in SinkIds : d # e => (d \in H <=> d \in G)
  BY DEF Moves
<1>3. (stage[e] \in Holding /\ stage'[e] \in Holding) => G = H
  BY <1>2
<1>4. (stage[e] \notin Holding /\ stage'[e] \notin Holding) => G = H
  BY <1>2
<1>5. (stage[e] \notin Holding /\ stage'[e] \in Holding) => (G = H \cup {e} /\ e \notin H)
  BY <1>2
<1>6. (stage[e] \in Holding /\ stage'[e] \notin Holding) => (G = H \ {e} /\ e \in H)
  BY <1>2
<1>7. Cardinality(H \cup {e}) = IF e \in H THEN Cardinality(H) ELSE Cardinality(H) + 1
  <2> HIDE DEF H, G
  <2> QED BY <1>1, FS_AddElement
<1>8. Cardinality(H \ {e}) = IF e \in H THEN Cardinality(H) - 1 ELSE Cardinality(H)
  <2> HIDE DEF H, G
  <2> QED BY <1>1, FS_RemoveElement
<1>9. Cardinality(H) \in Nat /\ Cardinality(G) \in Nat
  <2> HIDE DEF H, G
  <2> QED BY <1>1, FS_CardinalityType
<1>10. /\ (stage[e] \in Holding /\ stage'[e] \in Holding) => Cardinality(G) = Cardinality(H)
       /\ (stage[e] \notin Holding /\ stage'[e] \notin Holding) => Cardinality(G) = Cardinality(H)
       /\ (stage[e] \notin Holding /\ stage'[e] \in Holding) => Cardinality(G) = Cardinality(H) + 1
       /\ (stage[e] \in Holding /\ stage'[e] \notin Holding) => Cardinality(G) = Cardinality(H) - 1
  <2> HIDE DEF H, G
  <2> QED BY <1>3, <1>4, <1>5, <1>6, <1>7, <1>8
<1> QED BY Zenon, <1>9, <1>10

-----------------------------------------------------------------------------
(* The events on their way to the sink.                                    *)

\* The sink takes the oldest one, which is new to it.
LEMMA TakeFacts ==
  ASSUME SinkInv, NEW e, inbox # <<>>, e = Head(inbox), inbox' = Tail(inbox), nextId' = nextId,
         nextId \in Nat
  PROVE  /\ e \in SinkIds /\ stage[e] = "none" /\ verdicts[e] = <<>> /\ inbox' \in Seq(SinkIds)
         /\ Moves(e) => FreshInv'
<1>1. /\ 1 \in DOMAIN inbox /\ e = inbox[1] /\ e \in SinkIds /\ inbox' \in Seq(SinkIds)
      /\ \A i \in DOMAIN inbox' : i + 1 \in DOMAIN inbox /\ i + 1 # 1 /\ inbox'[i] = inbox[i + 1]
  BY TailFacts DEF SinkInv, SinkTypes
<1>2. stage[e] = "none" /\ e < nextId
  BY <1>1 DEF SinkInv, FreshInv
<1>3. verdicts[e] = <<>>
  BY <1>1, <1>2 DEF SinkInv, AnsweredInv, Unanswered
<1>4. ASSUME Moves(e) PROVE FreshInv'
  <2>1. \A i \in DOMAIN inbox' : inbox'[i] # e /\ inbox'[i] \in SinkIds
    BY <1>1 DEF SinkInv, FreshInv
  <2>2. \A i \in DOMAIN inbox' : stage'[inbox'[i]] = stage[inbox'[i]]
    BY <1>4, <2>1 DEF Moves
  <2>3. \A i \in DOMAIN inbox' : inbox'[i] < nextId' /\ stage'[inbox'[i]] = "none"
    BY <1>1, <2>2 DEF SinkInv, FreshInv
  <2>4. \A i, j \in DOMAIN inbox' : inbox'[i] = inbox'[j] => i = j
    <3> SUFFICES ASSUME NEW i \in DOMAIN inbox', NEW j \in DOMAIN inbox', inbox'[i] = inbox'[j]
                 PROVE  i = j
      OBVIOUS
    <3>1. i + 1 = j + 1
      BY <1>1 DEF SinkInv, FreshInv
    <3>2. i \in Nat /\ j \in Nat
      BY <1>1
    <3> QED BY <3>1, <3>2
  <2>5. \A d \in SinkIds : d >= nextId' => stage'[d] = "none"
    <3>1. ~(e >= nextId)
      BY <1>1, <1>2, IdFacts
    <3> QED BY <1>4, <3>1 DEF Moves, SinkInv, FreshInv
  <2> QED BY <2>3, <2>4, <2>5 DEF FreshInv
<1> QED BY <1>1, <1>2, <1>3, <1>4

\* Behind the events under way come n events with the next ids.
LEMMA ReadKeepsFresh ==
  ASSUME SinkInv, NEW k \in 0 .. 2, NEW n \in 0 .. k, nextId \in Nat, nextId + k <= MaxId,
         nextId' = nextId + k, stage' = stage, NEW m \in Nat,
         DOMAIN inbox' = 1 .. m + n, DOMAIN inbox = 1 .. m,
         \A i \in DOMAIN inbox : inbox'[i] = inbox[i],
         \A i \in DOMAIN inbox' : i \in DOMAIN inbox \/ (i - m \in 1 .. n /\ inbox'[i] = nextId + (i - m) - 1)
  PROVE  FreshInv'
<1>1. SinkIds \subseteq Nat /\ SinkIds = 0 .. MaxId - 1 /\ MaxId \in Nat
  BY IdFacts, DeliveryAssumption DEF DeliveryAssumption
<1>2. \A d \in SinkIds : d >= nextId => stage'[d] = "none"
  BY DEF SinkInv, FreshInv
<1>3. \A d \in SinkIds : d >= nextId' => stage'[d] = "none"
  BY <1>1, <1>2
<1>4. \A i \in DOMAIN inbox : inbox[i] \in SinkIds /\ inbox[i] < nextId /\ stage[inbox[i]] = "none"
  BY DEF SinkInv, SinkTypes, FreshInv
<1>5. \A i, j \in DOMAIN inbox : inbox[i] = inbox[j] => i = j
  BY DEF SinkInv, FreshInv
<1>6. \A i \in DOMAIN inbox' :
        \/ i \in DOMAIN inbox /\ inbox'[i] = inbox[i] /\ inbox'[i] < nextId /\ inbox'[i] \in SinkIds
        \/ i \notin DOMAIN inbox /\ inbox'[i] = nextId + (i - m) - 1
           /\ inbox'[i] >= nextId /\ inbox'[i] < nextId' /\ inbox'[i] \in SinkIds
  BY <1>1, <1>4
<1>7. \A i \in DOMAIN inbox' : inbox'[i] < nextId' /\ stage'[inbox'[i]] = "none"
  BY <1>1, <1>2, <1>4, <1>6
<1>8. \A i, j \in DOMAIN inbox' : inbox'[i] = inbox'[j] => i = j
  <2> SUFFICES ASSUME NEW i \in DOMAIN inbox', NEW j \in DOMAIN inbox', inbox'[i] = inbox'[j]
               PROVE  i = j
    OBVIOUS
  <2>1. i \in Int /\ j \in Int
    OBVIOUS
  <2>2. CASE i \in DOMAIN inbox /\ j \in DOMAIN inbox
    BY <1>5, <2>2
  <2>3. CASE i \notin DOMAIN inbox /\ j \notin DOMAIN inbox
    <3>1. nextId + (i - m) - 1 = nextId + (j - m) - 1
      BY <1>6, <2>3, Zenon
    <3> QED BY <2>1, <3>1
  <2> QED BY <1>1, <1>6, <2>1, <2>2, <2>3
<1> QED BY <1>3, <1>7, <1>8 DEF FreshInv

-----------------------------------------------------------------------------
(* The channel to the codec task.                                          *)

LEMMA LetterFacts ==
  ASSUME SinkInv
  PROVE  /\ \A i \in DOMAIN mail : /\ mail[i] \in Letters /\ mail[i].id \in SinkIds
                                   /\ stage[mail[i].id] \in {"encode", "free", "end"}
                                   /\ verdicts[mail[i].id] = <<>>
         /\ waiting = Nobody \/ (waiting \in SinkIds /\ waiting # Nobody)
         /\ mail # <<>> \/ waiting # Nobody => kind = "rest"
<1>1. \A i \in DOMAIN mail : mail[i] \in Letters
  BY DEF SinkInv, SinkTypes
<1>2. \A i \in DOMAIN mail : stage[mail[i].id] \in {"encode", "free", "end"} /\ verdicts[mail[i].id] = <<>>
  BY DEF SinkInv, MailInv
<1>3. waiting = Nobody \/ (waiting \in SinkIds /\ waiting # Nobody)
  BY DEF SinkInv, SinkTypes
<1>4. mail # <<>> \/ waiting # Nobody => kind = "rest"
  BY DEF SinkInv, MailInv
<1>5. \A i \in DOMAIN mail : mail[i].id \in SinkIds
  BY <1>1 DEF Letters
<1> QED BY <1>1, <1>2, <1>3, <1>4, <1>5

\* An overload is to be reported.
LEMMA WaitKept ==
  ASSUME SinkInv, Kept, kind = "rest", NEW e \in SinkIds, Moves(e), stage[e] = "none", stage'[e] = "end",
         verdicts[e] = <<>>, UNCHANGED <<verdicts, mail, taken>>, waiting' = e
  PROVE  MailInv'
<1>1. \A i \in DOMAIN mail : mail[i].id # e /\ mail[i].id \in SinkIds
  BY LetterFacts
<1>2. \A i \in DOMAIN mail : stage'[mail[i].id] = stage[mail[i].id]
  BY <1>1 DEF Moves
<1> QED BY <1>1, <1>2 DEF SinkInv, MailInv, Kept

\* A letter about an event that had none.
LEMMA PostKept ==
  ASSUME SinkInv, Kept, kind = "rest", NEW e \in SinkIds, NEW what, Moves(e),
         what \in {"request", "response", "rejection", "failure"},
         stage'[e] \in IF what = "request" THEN {"encode"} ELSE {"free", "end"},
         what = "response" => e \in taken,
         verdicts[e] = <<>>, \A i \in DOMAIN mail : mail[i].id # e,
         Post(what, e), UNCHANGED <<verdicts, taken>>,
         waiting' = Nobody \/ (waiting' = waiting /\ waiting # e), Len(mail) < limit
  PROVE  MailInv' /\ mail' \in Seq(Letters) /\ Len(mail') <= limit
<1>1. PICK x : x = [what |-> what, id |-> e]
  OBVIOUS
<1>2. x \in Letters /\ x.what = what /\ x.id = e
  BY <1>1 DEF Letters
<1>3. mail \in Seq(Letters) /\ limit \in Nat
  BY KindFacts DEF SinkInv, SinkTypes
<1>4. mail' = Append(mail, x)
  BY <1>1 DEF Post
<1>5. /\ mail' \in Seq(Letters) /\ Len(mail) \in Nat
      /\ Len(mail') = Len(mail) + 1 /\ DOMAIN mail' = DOMAIN mail \union {Len(mail) + 1}
      /\ \A i \in DOMAIN mail : i # Len(mail) + 1
      /\ \A i \in DOMAIN mail : mail'[i] = mail[i]
      /\ mail'[Len(mail) + 1] = x
  BY <1>2, <1>3, <1>4, AppendFacts
<1>6. \A i \in DOMAIN mail' : (i \in DOMAIN mail /\ mail'[i] = mail[i] /\ mail'[i].id # e)
                              \/ (i = Len(mail) + 1 /\ mail'[i] = x /\ mail'[i].id = e)
  BY <1>2, <1>5
<1>7. \A i \in DOMAIN mail : stage'[mail[i].id] = stage[mail[i].id]
  BY LetterFacts DEF Moves
<1>8. ASSUME NEW i \in DOMAIN mail'
      PROVE  /\ verdicts'[mail'[i].id] = <<>>
             /\ stage'[mail'[i].id] \in IF mail'[i].what = "request" THEN {"encode"} ELSE {"free", "end"}
             /\ mail'[i].what = "response" => mail'[i].id \in taken'
  <2>1. CASE i \in DOMAIN mail /\ mail'[i] = mail[i]
    BY <1>7, <2>1 DEF SinkInv, MailInv
  <2>2. CASE mail'[i] = x
    BY <1>2, <2>2
  <2> QED BY <1>6, <2>1, <2>2
<1>9. \A i, j \in DOMAIN mail' : mail'[i].id = mail'[j].id => i = j
  BY <1>6 DEF SinkInv, MailInv
<1>10. waiting' # Nobody => /\ stage'[waiting'] = "end" /\ verdicts'[waiting'] = <<>>
                            /\ \A i \in DOMAIN mail' : mail'[i].id # waiting'
  <2> SUFFICES ASSUME waiting' # Nobody, waiting' = waiting, waiting # e
               PROVE  /\ stage'[waiting] = "end" /\ verdicts'[waiting] = <<>>
                      /\ \A i \in DOMAIN mail' : mail'[i].id # waiting
    OBVIOUS
  <2>1. waiting \in SinkIds /\ stage'[waiting] = stage[waiting]
    BY LetterFacts DEF Moves
  <2> QED BY <1>6, <2>1 DEF SinkInv, MailInv
<1>11. Len(mail') <= limit
  BY <1>3, <1>5
<1> QED BY <1>5, <1>8, <1>9, <1>10, <1>11 DEF MailInv, Kept

\* The codec task has taken the oldest letter.
LEMMA TakenKept ==
  ASSUME SinkInv, Kept, mail # <<>>, NEW e, e = Head(mail).id, mail' = Tail(mail),
         Moves(e), Tells(e), UNCHANGED <<waiting, taken>>
  PROVE  MailInv' /\ mail' \in Seq(Letters) /\ Len(mail') <= limit
<1>1. mail \in Seq(Letters) /\ Len(mail) <= limit /\ limit \in Nat
  BY KindFacts DEF SinkInv, SinkTypes
<1>2. /\ Len(mail) \in Nat /\ 1 \in DOMAIN mail /\ e = mail[1].id
      /\ mail' \in Seq(Letters) /\ Len(mail') = Len(mail) - 1
      /\ \A i \in DOMAIN mail' : i + 1 \in DOMAIN mail /\ i + 1 # 1 /\ mail'[i] = mail[i + 1]
  BY <1>1, TailFacts
<1>3. \A i \in DOMAIN mail' : mail'[i].id # e /\ mail'[i].id \in SinkIds
  BY <1>2, LetterFacts DEF SinkInv, MailInv
<1>4. \A i \in DOMAIN mail' :
        stage'[mail'[i].id] = stage[mail'[i].id] /\ verdicts'[mail'[i].id] = verdicts[mail'[i].id]
  BY <1>3 DEF Moves, Tells
<1>5. \A i \in DOMAIN mail' :
        /\ verdicts'[mail'[i].id] = <<>>
        /\ stage'[mail'[i].id] \in IF mail'[i].what = "request" THEN {"encode"} ELSE {"free", "end"}
        /\ mail'[i].what = "response" => mail'[i].id \in taken'
  BY <1>2, <1>4 DEF SinkInv, MailInv
<1>6. \A i, j \in DOMAIN mail' : mail'[i].id = mail'[j].id => i = j
  <2> SUFFICES ASSUME NEW i \in DOMAIN mail', NEW j \in DOMAIN mail', mail'[i].id = mail'[j].id
               PROVE  i = j
    OBVIOUS
  <2>1. i + 1 = j + 1
    BY <1>2 DEF SinkInv, MailInv
  <2>2. i \in Int /\ j \in Int
    BY <1>2
  <2> QED BY <2>1, <2>2
<1>7. waiting # Nobody => /\ stage'[waiting] = "end" /\ verdicts'[waiting] = <<>>
                          /\ \A i \in DOMAIN mail' : mail'[i].id # waiting
  <2> SUFFICES ASSUME waiting # Nobody
               PROVE  /\ stage'[waiting] = "end" /\ verdicts'[waiting] = <<>>
                      /\ \A i \in DOMAIN mail' : mail'[i].id # waiting
    OBVIOUS
  <2>1. waiting \in SinkIds /\ waiting # e
    BY <1>2, LetterFacts DEF SinkInv, MailInv
  <2> QED BY <1>2, <2>1 DEF Moves, Tells, SinkInv, MailInv
<1>8. kind = "rest"
  BY LetterFacts
<1> QED BY <1>1, <1>2, <1>5, <1>6, <1>7, <1>8 DEF MailInv, Kept

-----------------------------------------------------------------------------
(* The sink takes an event.                                                *)

Rested == slots' \in Nat /\ slots' <= limit /\ mail' \in Seq(Letters) /\ Len(mail') <= limit
          /\ waiting' \in SinkIds \cup {Nobody} /\ codec' \in BOOLEAN
Queued == queue' \in Seq(SinkIds) /\ Len(queue') <= limit /\ fatal' \in 0 .. ErrorRoom

LEMMA TypesKept ==
  ASSUME SinkTypes, Kept, NEW e, Tells(e), Rested, Queued, inbox' \in Seq(SinkIds)
  PROVE  SinkTypes'
BY DEF SinkTypes, Kept, Tells, Rested, Queued

LEMMA SameFacts ==
  ASSUME SinkTypes
  PROVE  (UNCHANGED rest => Rested) /\ (UNCHANGED <<queue, fatal>> => Queued)
BY DEF SinkTypes, rest, Rested, Queued

LEMMA RestTakes ==
  ASSUME SinkInv, NEW e \in SinkIds, stage[e] = "none", verdicts[e] = <<>>, NEW refused \in BOOLEAN,
         RestOnEvent(e, refused), inbox' \in Seq(SinkIds), Moves(e) => FreshInv'
  PROVE  SinkInv'
<1>1. kind = "rest" /\ waiting = Nobody /\ Kept /\ UNCHANGED <<queue, fatal, taken>>
  BY DEF RestOnEvent, Kept
<1>2. SinkTypes /\ StagesInv /\ Queued
  BY <1>1, SameFacts DEF SinkInv
<1>3. limit \in Nat /\ slots \in Nat /\ slots <= limit
  BY <1>2, KindFacts DEF SinkTypes
<1>4. slots = Cardinality({d \in SinkIds : stage[d] \in Holding})
  BY <1>1 DEF SinkInv, SlotsInv
<1>5. "end" \in Stages /\ "send" \in Stages
  BY <1>1 DEF Stages, RestStages, Holding
<1>6. CASE Answer(e, "fail") /\ Move(e, "end") /\ UNCHANGED rest
  <2>1. /\ Moves(e) /\ stage'[e] = "end"
    BY <1>2, <1>5, <1>6, MoveFacts
  <2>2. /\ Tells(e) /\ (verdicts'[e] = <<>> \/ verdicts'[e] = <<"fail">>) /\ (~tx => verdicts' = verdicts)
    BY <1>2, <1>6, AnswerFacts
  <2>3. SinkTypes'
    BY <1>1, <1>2, <1>6, <2>2, SameFacts, TypesKept
  <2>4. "end" \notin Unanswered /\ "end" \notin Holding /\ "none" \notin Holding /\ <<"fail">> # <<"ack">>
        /\ <<>> # <<"ack">>
    BY DEF Unanswered, Holding
  <2>5. StagesInv' /\ FreshInv'
    BY <1>1, <2>1, StagesKept
  <2>6. AnsweredInv'
    BY <1>1, <2>1, <2>2, <2>4, AnsweredKept
  <2>7. MailInv'
    BY <1>1, <1>6, <2>1, <2>2, MailKept DEF rest
  <2>8. Cardinality({d \in SinkIds : stage'[d] \in Holding}) = slots
    BY <1>4, <2>1, <2>4, HoldingFacts
  <2>9. SlotsInv'
    BY <1>1, <1>6, <2>8 DEF SlotsInv, Kept, rest
  <2> QED BY <2>3, <2>5, <2>6, <2>7, <2>9 DEF SinkInv
<1>7. CASE /\ FreeSlot /\ slots' = slots + 1 /\ Move(e, "send")
           /\ NoInsight /\ UNCHANGED <<mail, waiting, codec>>
  <2>1. /\ Moves(e) /\ stage'[e] = "send"
    BY <1>2, <1>5, <1>7, MoveFacts
  <2>2. Tells(e) /\ verdicts' = verdicts
    BY <1>2, <1>7, SilenceFacts DEF NoInsight
  <2>3. SinkTypes'
    <3>1. Rested
      BY <1>2, <1>3, <1>7 DEF Rested, SinkTypes, FreeSlot
    <3> QED BY <1>1, <1>2, <2>2, <3>1, TypesKept
  <2>4. "send" \in Holding /\ "none" \notin Holding /\ <<>> # <<"ack">>
    BY DEF Holding
  <2>5. StagesInv' /\ FreshInv'
    BY <1>1, <2>1, StagesKept
  <2>6. AnsweredInv'
    BY <1>1, <2>1, <2>2, <2>4, AnsweredKept
  <2>7. MailInv'
    BY <1>1, <1>7, <2>1, <2>2, MailKept
  <2>8. Cardinality({d \in SinkIds : stage'[d] \in Holding}) = slots + 1
    BY <1>4, <2>1, <2>4, HoldingFacts
  <2>9. SlotsInv'
    BY <1>1, <1>7, <2>8 DEF SlotsInv, Kept
  <2> QED BY <2>3, <2>5, <2>6, <2>7, <2>9 DEF SinkInv
<1>8. CASE /\ waiting' = e /\ Move(e, "end") /\ NoInsight /\ UNCHANGED <<slots, mail, codec>>
  <2>1. /\ Moves(e) /\ stage'[e] = "end"
    BY <1>2, <1>5, <1>8, MoveFacts
  <2>2. Tells(e) /\ verdicts' = verdicts
    BY <1>2, <1>8, SilenceFacts DEF NoInsight
  <2>3. SinkTypes'
    <3>1. Rested
      BY <1>2, <1>8 DEF Rested, SinkTypes
    <3> QED BY <1>1, <1>2, <2>2, <3>1, TypesKept
  <2>4. "end" \notin Holding /\ "none" \notin Holding /\ <<>> # <<"ack">>
    BY DEF Holding
  <2>5. StagesInv' /\ FreshInv'
    BY <1>1, <2>1, StagesKept
  <2>6. AnsweredInv'
    BY <1>1, <2>1, <2>2, <2>4, AnsweredKept
  <2>7. MailInv'
    BY <1>1, <1>8, <2>1, <2>2, WaitKept
  <2>8. Cardinality({d \in SinkIds : stage'[d] \in Holding}) = slots
    BY <1>4, <2>1, <2>4, HoldingFacts
  <2>9. SlotsInv'
    BY <1>1, <1>8, <2>8 DEF SlotsInv, Kept
  <2> QED BY <2>3, <2>5, <2>6, <2>7, <2>9 DEF SinkInv
<1> QED BY <1>6, <1>7, <1>8 DEF RestOnEvent, OnEventFails

\* What is left in the queue of elastic.
LEMMA DequeueFacts ==
  ASSUME SinkInv, kind = "elastic", NEW q, q = Dequeue(queue)
  PROVE  /\ q \in Seq(SinkIds) /\ Len(q) <= limit
         /\ \A d \in SinkIds : stage[d] = "job" => \E i \in DOMAIN q : q[i] = d
         /\ ~Overloaded(queue) => Len(q) < limit
<1>1. queue \in Seq(SinkIds) /\ Len(queue) <= limit /\ limit \in Nat /\ limit >= 1 /\ Len(queue) \in Nat
  BY KindFacts DEF SinkInv, SinkTypes
<1>2. \A d \in SinkIds : stage[d] = "job" => \E i \in DOMAIN queue : queue[i] = d
  BY DEF SinkInv, SlotsInv
<1>3. CASE q = queue
  <2>1. ~Overloaded(queue) => queue = <<>> \/ Len(queue) < limit
    BY <1>1, <1>3 DEF Overloaded
  <2>2. queue = <<>> => Len(queue) = 0
    OBVIOUS
  <2> QED BY <1>1, <1>2, <1>3, <2>1, <2>2
<1>4. CASE queue # <<>> /\ stage[Head(queue)] = "done" /\ q = Tail(queue)
  <2>1. /\ q \in Seq(SinkIds) /\ Len(q) = Len(queue) - 1 /\ Head(queue) = queue[1]
        /\ \A i \in DOMAIN queue : i = 1 \/ (i - 1 \in DOMAIN q /\ q[i - 1] = queue[i])
    BY <1>1, <1>4, TailFacts
  <2>2. \A d \in SinkIds : stage[d] = "job" => \E i \in DOMAIN q : q[i] = d
    <3> SUFFICES ASSUME NEW d \in SinkIds, stage[d] = "job" PROVE \E i \in DOMAIN q : q[i] = d
      OBVIOUS
    <3>1. PICK i \in DOMAIN queue : queue[i] = d
      BY <1>2
    <3>2. i # 1
      BY <1>4, <2>1, <3>1
    <3> QED BY <2>1, <3>1, <3>2
  <2> QED BY <1>1, <2>1, <2>2
<1> QED BY <1>3, <1>4 DEF Dequeue

\* A step of elastic or kafka on an event without slots and letters.
LEMMA OtherKept ==
  ASSUME SinkInv, kind \in {"elastic", "kafka"}, Kept, NEW e \in SinkIds, Moves(e), Tells(e), Queued,
         inbox' \in Seq(SinkIds), UNCHANGED rest, taken \subseteq taken', FreshInv',
         stage[e] \notin {"encode", "free", "end"},
         stage'[e] \in Unanswered => verdicts'[e] = <<>>,
         ~tx /\ kind # "elastic" => verdicts'[e] = verdicts[e],
         kind = "elastic" => \A d \in SinkIds : stage'[d] = "job" => \E i \in DOMAIN queue' : queue'[i] = d
  PROVE  SinkInv'
<1>1. SinkTypes' /\ StagesInv'
  BY SameFacts, TypesKept, StagesKept DEF SinkInv
<1>2. AnsweredInv'
  BY AnsweredKept
<1>3. MailInv'
  BY MailKept DEF rest
<1>4. SlotsInv'
  BY DEF SlotsInv, Kept
<1> QED BY <1>1, <1>2, <1>3, <1>4 DEF SinkInv

LEMMA ElasticTakes ==
  ASSUME SinkInv, NEW e \in SinkIds, stage[e] = "none", verdicts[e] = <<>>,
         NEW isEmpty \in BOOLEAN, NEW invalid \in BOOLEAN,
         ElasticOnEvent(e, isEmpty, invalid), inbox' \in Seq(SinkIds), Moves(e) => FreshInv'
  PROVE  SinkInv'
<1>1. kind = "elastic" /\ Kept /\ UNCHANGED <<rest, fatal, taken>>
  BY DEF ElasticOnEvent, Kept
<1>2. SinkTypes /\ StagesInv
  BY DEF SinkInv
<1>3. "end" \in Stages /\ "job" \in Stages /\ "end" \notin Unanswered /\ "end" # "job"
  BY <1>1 DEF Stages, ElasticStages, Unanswered
<1>4. PICK q : q = Dequeue(queue)
  OBVIOUS
<1>5. /\ q \in Seq(SinkIds) /\ Len(q) <= limit
      /\ \A d \in SinkIds : stage[d] = "job" => \E i \in DOMAIN q : q[i] = d
      /\ ~Overloaded(queue) => Len(q) < limit
  BY <1>1, <1>4, DequeueFacts
<1>6. fatal \in 0 .. ErrorRoom /\ limit \in Nat
  BY <1>2, KindFacts DEF SinkTypes
<1>7. CASE /\ Answer(e, "ack") \/ Insight(e, "fail") 
           /\ Move(e, "end") /\ (queue' = queue \/ queue' = q)
  <2>1. /\ Moves(e) /\ stage'[e] = "end"
    BY <1>2, <1>3, <1>7, MoveFacts
  <2>2. Tells(e)
    BY <1>2, <1>7, AnswerFacts, InsightFacts
  <2>3. /\ Queued
        /\ \A d \in SinkIds : stage[d] = "job" => \E i \in DOMAIN queue' : queue'[i] = d
    BY <1>1, <1>2, <1>5, <1>6, <1>7 DEF Queued, SinkTypes, SinkInv, SlotsInv
  <2>4. \A d \in SinkIds : stage'[d] = "job" => stage[d] = "job"
    BY <2>1, <1>3 DEF Moves
  <2> QED BY <1>1, <1>3, <2>1, <2>2, <2>3, <2>4, OtherKept
<1>8. CASE /\ ~Overloaded(queue) /\ queue' = Append(q, e) /\ NoInsight /\ Move(e, "job")
  <2>1. /\ Moves(e) /\ stage'[e] = "job"
    BY <1>2, <1>3, <1>8, MoveFacts
  <2>2. Tells(e) /\ verdicts' = verdicts
    BY <1>2, <1>8, SilenceFacts DEF NoInsight
  <2>3. /\ queue' \in Seq(SinkIds) /\ Len(q) \in Nat /\ Len(queue') = Len(q) + 1
        /\ DOMAIN queue' = DOMAIN q \union {Len(q) + 1}
        /\ \A i \in DOMAIN q : queue'[i] = q[i]
        /\ queue'[Len(q) + 1] = e
    BY <1>5, <1>8, AppendFacts
  <2>4. Queued
    BY <1>1, <1>5, <1>6, <1>8, <2>3 DEF Queued
  <2>5. ASSUME NEW d \in SinkIds, stage'[d] = "job" PROVE \E i \in DOMAIN queue' : queue'[i] = d
    <3>1. CASE d = e
      BY <2>3, <3>1
    <3>2. CASE d # e
      <4>1. PICK i \in DOMAIN q : q[i] = d
        BY <1>5, <2>1, <2>5, <3>2 DEF Moves
      <4> QED BY <2>3, <4>1
    <3> QED BY <3>1, <3>2
  <2> QED BY <1>1, <2>1, <2>2, <2>4, <2>5, OtherKept
<1> QED BY <1>4, <1>7, <1>8 DEF ElasticOnEvent

LEMMA KafkaTakes ==
  ASSUME SinkInv, NEW e \in SinkIds, stage[e] = "none", verdicts[e] = <<>>, NEW bad \in BOOLEAN,
         KafkaOnEvent(e, bad), inbox' \in Seq(SinkIds), Moves(e) => FreshInv'
  PROVE  SinkInv'
<1>1. kind = "kafka" /\ Kept /\ UNCHANGED <<rest, queue, taken>>
  BY DEF KafkaOnEvent, Kept
<1>2. SinkTypes /\ StagesInv
  BY DEF SinkInv
<1>3. "end" \in Stages /\ "delivery" \in Stages /\ "end" \notin Unanswered
  BY <1>1 DEF Stages, KafkaStages, Unanswered
<1>4. Queued
  <2>1. fatal' \in 0 .. ErrorRoom
    BY <1>2, SinksAssumption DEF KafkaOnEvent, SinkTypes, SinksAssumption
  <2> QED BY <1>1, <1>2, <2>1 DEF Queued, SinkTypes
<1>5. CASE OnEventFails(e)
  <2>1. /\ Moves(e) /\ stage'[e] = "end"
    BY <1>2, <1>3, <1>5, MoveFacts DEF OnEventFails
  <2>2. Tells(e) /\ (~tx => verdicts' = verdicts)
    BY <1>2, <1>5, AnswerFacts DEF OnEventFails
  <2> QED BY <1>1, <1>3, <1>4, <2>1, <2>2, OtherKept
<1>6. CASE NoInsight /\ Move(e, "delivery")
  <2>1. /\ Moves(e) /\ stage'[e] = "delivery"
    BY <1>2, <1>3, <1>6, MoveFacts
  <2>2. Tells(e) /\ verdicts' = verdicts
    BY <1>2, <1>6, SilenceFacts DEF NoInsight
  <2> QED BY <1>1, <1>4, <2>1, <2>2, OtherKept
<1> QED BY <1>5, <1>6 DEF KafkaOnEvent

LEMMA TakeKeeps ==
  ASSUME SinkInv, nextId \in Nat, Take
  PROVE  SinkInv'
<1>1. PICK e : e = Head(inbox)
  OBVIOUS
<1>2. inbox # <<>> /\ inbox' = Tail(inbox) /\ nextId' = nextId /\ SinkOnEvent(e)
  BY <1>1 DEF Take, source
<1>3. /\ e \in SinkIds /\ stage[e] = "none" /\ verdicts[e] = <<>> /\ inbox' \in Seq(SinkIds)
      /\ Moves(e) => FreshInv'
  BY <1>1, <1>2, TakeFacts
<1> QED BY <1>2, <1>3, RestTakes, ElasticTakes, KafkaTakes DEF SinkOnEvent

-----------------------------------------------------------------------------
(* The tasks of the sink.                                                  *)

\* A step of the rest sink on an event it has taken.
LEMMA RestKept ==
  ASSUME SinkInv, kind = "rest", Kept, NEW e \in SinkIds, stage[e] # "none", Moves(e), Tells(e), Rested,
         UNCHANGED <<queue, fatal, inbox, nextId>>, taken \subseteq taken', MailInv',
         stage'[e] \in Unanswered => verdicts'[e] = <<>>,
         ~tx => verdicts'[e] = verdicts[e],
         stage'[e] = "answered" \/ verdicts'[e] = <<"ack">> => e \in taken',
         slots' = Cardinality({d \in SinkIds : stage'[d] \in Holding})
  PROVE  SinkInv'
<1>1. SinkTypes' /\ StagesInv'
  <2>1. Queued /\ inbox' \in Seq(SinkIds)
    BY SameFacts DEF SinkInv, SinkTypes
  <2> QED BY <2>1, TypesKept, StagesKept DEF SinkInv
<1>2. AnsweredInv'
  BY AnsweredKept
<1>3. FreshInv'
  BY FreshKept
<1>4. SlotsInv'
  BY DEF SlotsInv, Kept
<1> QED BY <1>1, <1>2, <1>3, <1>4 DEF SinkInv

LEMMA StillFacts ==
  ASSUME StagesInv, NEW e, stage' = stage
  PROVE  Moves(e)
BY DEF StagesInv, Moves

LEMMA SlotFacts ==
  ASSUME SinkInv, kind = "rest"
  PROVE  /\ slots \in Nat /\ slots <= limit /\ limit \in Nat
         /\ slots = Cardinality({d \in SinkIds : stage[d] \in Holding})
         /\ SinkTypes /\ StagesInv /\ RestStages = Stages
BY KindFacts DEF SinkInv, SinkTypes, SlotsInv, Stages

LEMMA OverloadKeeps ==
  ASSUME SinkInv, RestOverload, UNCHANGED <<inbox, nextId>>
  PROVE  SinkInv'
<1>1. PICK e : e = waiting
  OBVIOUS
<1>2. /\ e \in SinkIds /\ e # Nobody /\ kind = "rest" /\ Kept /\ waiting' = Nobody
      /\ UNCHANGED <<stage, slots, codec, queue, fatal, taken>>
  BY <1>1, LetterFacts DEF RestOverload, Kept
<1>3. stage[e] = "end" /\ verdicts[e] = <<>> /\ \A i \in DOMAIN mail : mail[i].id # e
  BY <1>1, <1>2 DEF SinkInv, MailInv
<1>4. /\ slots \in Nat /\ slots <= limit /\ limit \in Nat
      /\ slots = Cardinality({d \in SinkIds : stage[d] \in Holding})
      /\ SinkTypes /\ StagesInv
  BY <1>2, SlotFacts
<1>5. Moves(e) /\ stage'[e] = "end" /\ "end" \notin Unanswered
  BY <1>2, <1>3, <1>4, StillFacts DEF Unanswered
<1>6. slots' = Cardinality({d \in SinkIds : stage'[d] \in Holding})
  BY <1>2, <1>4
<1>7. CASE codec /\ RoomInMail /\ Post("failure", e) /\ NoInsight
  <2>1. Tells(e) /\ verdicts' = verdicts
    BY <1>4, <1>7, SilenceFacts DEF NoInsight
  <2>2. MailInv' /\ mail' \in Seq(Letters) /\ Len(mail') <= limit
    BY <1>2, <1>3, <1>5, <1>7, <2>1, PostKept DEF RoomInMail
  <2>3. Rested
    BY <1>2, <1>4, <2>2 DEF Rested, SinkTypes
  <2>4. <<>> # <<"ack">>
    OBVIOUS
  <2> QED BY <1>2, <1>3, <1>5, <1>6, <2>1, <2>2, <2>3, <2>4, RestKept
<1>8. CASE Answer(e, "fail") /\ UNCHANGED mail
  <2>1. /\ Tells(e) /\ (verdicts'[e] = <<>> \/ verdicts'[e] = <<"fail">>) /\ (~tx => verdicts' = verdicts)
    BY <1>2, <1>3, <1>4, <1>8, AnswerFacts
  <2>2. Rested
    BY <1>2, <1>4, <1>8 DEF Rested, SinkTypes
  <2>3. <<>> # <<"ack">> /\ <<"fail">> # <<"ack">>
    OBVIOUS
  <2>4. MailInv'
    <3>1. \A i \in DOMAIN mail : verdicts'[mail[i].id] = verdicts[mail[i].id]
      BY <1>3, <2>1, LetterFacts DEF Tells
    <3> QED BY <1>2, <1>8, <3>1 DEF SinkInv, MailInv, Kept
  <2> QED BY <1>2, <1>3, <1>5, <1>6, <2>1, <2>2, <2>3, <2>4, RestKept
<1> QED BY <1>1, <1>7, <1>8 DEF RestOverload

LEMMA SendKeeps ==
  ASSUME SinkInv, NEW e \in SinkIds, NEW from, NEW what, NEW to, TaskSend(e, from, what, to),
         <<from, what, to>> \in {<<"send", "request", "encode">>, <<"answered", "response", "free">>,
                                 <<"rejected", "rejection", "free">>, <<"broken", "failure", "free">>},
         UNCHANGED <<inbox, nextId>>
  PROVE  SinkInv'
<1>1. /\ Kept /\ UNCHANGED <<slots, waiting, codec, queue, fatal, replies, verdicts, taken>>
      /\ stage[e] = from
  BY DEF TaskSend, Kept
<1>2. /\ from \in {"send", "answered", "rejected", "broken"} /\ to \in {"encode", "free"}
      /\ what \in {"request", "response", "rejection", "failure"}
      /\ to \in IF what = "request" THEN {"encode"} ELSE {"free", "end"}
      /\ what = "response" => from = "answered"
  OBVIOUS
<1>3. kind = "rest"
  <2>1. stage[e] \in Stages
    BY DEF SinkInv, StagesInv
  <2>2. kind \in {"rest", "elastic", "kafka"}
    BY KindFacts DEF SinkInv
  <2> QED BY <1>1, <1>2, <2>1, <2>2 DEF Stages, ElasticStages, KafkaStages
<1>4. /\ slots \in Nat /\ slots <= limit /\ limit \in Nat
      /\ slots = Cardinality({d \in SinkIds : stage[d] \in Holding})
      /\ SinkTypes /\ StagesInv /\ RestStages = Stages
  BY <1>3, SlotFacts
<1>5. /\ from \in Holding /\ to \in Holding /\ "lost" \in Holding
      /\ to \in Stages /\ "lost" \in Stages /\ from \in Unanswered /\ from # "none"
      /\ to # "answered" /\ "lost" # "answered"
      /\ from \notin {"encode", "free", "end"}
  BY <1>2, <1>4 DEF Holding, RestStages, Unanswered
<1>6. Tells(e) /\ verdicts[e] = <<>> /\ verdicts'[e] = <<>> /\ <<>> # <<"ack">>
  BY <1>1, <1>4, <1>5, SilenceFacts DEF SinkInv, AnsweredInv
<1>7. \A i \in DOMAIN mail : mail[i].id # e
  BY <1>1, <1>5, LetterFacts
<1>8. waiting # e
  <2>1. waiting = e => waiting # Nobody
    BY IdFacts
  <2> QED BY <2>1, <1>1, <1>5 DEF SinkInv, MailInv
<1>9. what = "response" => e \in taken
  BY <1>1, <1>2, <1>3 DEF SinkInv, AnsweredInv
<1>10. CASE codec /\ RoomInMail /\ Post(what, e) /\ Move(e, to)
  <2>1. Moves(e) /\ stage'[e] = to
    BY <1>4, <1>5, <1>10, MoveFacts
  <2>2. MailInv' /\ mail' \in Seq(Letters) /\ Len(mail') <= limit
    BY <1>1, <1>2, <1>3, <1>6, <1>7, <1>8, <1>9, <1>10, <2>1, PostKept DEF RoomInMail
  <2>3. Rested
    BY <1>1, <1>4, <2>2 DEF Rested, SinkTypes
  <2>4. slots' = Cardinality({d \in SinkIds : stage'[d] \in Holding})
    BY <1>1, <1>4, <1>5, <2>1, HoldingFacts
  <2> QED BY <1>1, <1>3, <1>5, <1>6, <2>1, <2>2, <2>3, <2>4, RestKept
<1>11. CASE UNCHANGED mail /\ Move(e, "lost")
  <2>1. Moves(e) /\ stage'[e] = "lost"
    BY <1>4, <1>5, <1>11, MoveFacts
  <2>2. MailInv'
    BY <1>1, <1>5, <1>6, <1>11, <2>1, MailKept
  <2>3. Rested
    BY <1>1, <1>4, <1>11 DEF Rested, SinkTypes
  <2>4. slots' = Cardinality({d \in SinkIds : stage'[d] \in Holding})
    BY <1>1, <1>4, <1>5, <2>1, HoldingFacts
  <2> QED BY <1>1, <1>3, <1>5, <1>6, <2>1, <2>2, <2>3, <2>4, RestKept
<1> QED BY <1>10, <1>11 DEF TaskSend

LEMMA HttpKeeps ==
  ASSUME SinkInv, NEW e \in SinkIds, RestHttp(e), UNCHANGED <<inbox, nextId>>
  PROVE  SinkInv'
<1>1. /\ kind = "rest" /\ Kept /\ UNCHANGED <<rest, queue, fatal, replies, verdicts>>
      /\ stage[e] = "http"
  BY DEF RestHttp, Kept
<1>2. PICK s \in {"answered", "rejected", "broken"} :
        Move(e, s) /\ (s = "answered" => e \in taken') /\ taken \subseteq taken'
  BY DEF RestHttp, Move
<1>3. /\ slots \in Nat /\ slots <= limit /\ limit \in Nat
      /\ slots = Cardinality({d \in SinkIds : stage[d] \in Holding})
      /\ SinkTypes /\ StagesInv /\ RestStages = Stages
  BY <1>1, SlotFacts
<1>4. /\ s \in Holding /\ "http" \in Holding /\ s \in Stages /\ "http" \in Unanswered
      /\ <<>> # <<"ack">>
  BY <1>3 DEF Holding, RestStages, Unanswered
<1>5. Moves(e) /\ stage'[e] = s
  BY <1>2, <1>3, <1>4, MoveFacts
<1>6. Tells(e) /\ verdicts[e] = <<>> /\ verdicts'[e] = <<>>
  BY <1>1, <1>3, <1>4, SilenceFacts DEF SinkInv, AnsweredInv
<1>7. MailInv'
  BY <1>1, <1>2, <1>5, <1>6, MailKept DEF rest
<1>8. Rested /\ slots' = slots
  BY <1>1, <1>3, SameFacts DEF rest
<1>9. slots' = Cardinality({d \in SinkIds : stage'[d] \in Holding})
  BY <1>1, <1>3, <1>4, <1>5, <1>8, HoldingFacts
<1> QED BY <1>1, <1>2, <1>4, <1>5, <1>6, <1>7, <1>8, <1>9, RestKept

LEMMA FreeKeeps ==
  ASSUME SinkInv, NEW e \in SinkIds, RestFree(e), UNCHANGED <<inbox, nextId>>
  PROVE  SinkInv'
<1>1. /\ Kept /\ UNCHANGED <<mail, waiting, codec, queue, fatal, replies, verdicts, taken>>
      /\ stage[e] = "free" /\ Move(e, "end") /\ slots' = slots - 1
  BY DEF RestFree, Kept
<1>2. kind = "rest"
  <2>1. stage[e] \in Stages
    BY DEF SinkInv, StagesInv
  <2>2. kind \in {"rest", "elastic", "kafka"}
    BY KindFacts DEF SinkInv
  <2> QED BY <1>1, <2>1, <2>2 DEF Stages, ElasticStages, KafkaStages
<1>3. /\ slots \in Nat /\ slots <= limit /\ limit \in Nat
      /\ slots = Cardinality({d \in SinkIds : stage[d] \in Holding})
      /\ SinkTypes /\ StagesInv /\ RestStages = Stages
  BY <1>2, SlotFacts
<1>4. "free" \in Holding /\ "end" \notin Holding /\ "end" \in Stages /\ "end" \notin Unanswered
  BY <1>3 DEF Holding, RestStages, Unanswered
<1>5. Moves(e) /\ stage'[e] = "end"
  BY <1>1, <1>3, <1>4, MoveFacts
<1>6. Tells(e)
  BY <1>1, <1>3, SilenceFacts
<1>7. MailInv'
  <2>1. \A i \in DOMAIN mail : stage'[mail[i].id] \in IF mail[i].what = "request" THEN {"encode"} ELSE {"free", "end"}
    <3> SUFFICES ASSUME NEW i \in DOMAIN mail
                 PROVE  stage'[mail[i].id] \in IF mail[i].what = "request" THEN {"encode"} ELSE {"free", "end"}
      OBVIOUS
    <3>1. /\ mail[i].id \in SinkIds
          /\ stage[mail[i].id] \in IF mail[i].what = "request" THEN {"encode"} ELSE {"free", "end"}
      BY LetterFacts DEF SinkInv, MailInv
    <3>2. CASE mail[i].id = e
      BY <1>1, <1>5, <3>1, <3>2
    <3>3. CASE mail[i].id # e
      BY <1>5, <3>1, <3>3 DEF Moves
    <3> QED BY <3>2, <3>3
  <2>2. waiting # Nobody => stage'[waiting] = "end"
    <3> SUFFICES ASSUME waiting # Nobody PROVE stage'[waiting] = "end"
      OBVIOUS
    <3>1. waiting \in SinkIds /\ stage[waiting] = "end"
      BY LetterFacts DEF SinkInv, MailInv
    <3> QED BY <1>1, <1>5, <3>1 DEF Moves
  <2> QED BY <1>1, <2>1, <2>2 DEF SinkInv, MailInv, Kept
<1>8. slots' = Cardinality({d \in SinkIds : stage'[d] \in Holding}) /\ slots' \in Nat /\ slots' <= limit
  <2>1. /\ Cardinality({d \in SinkIds : stage'[d] \in Holding}) = slots - 1
        /\ Cardinality({d \in SinkIds : stage'[d] \in Holding}) \in Nat
    BY <1>1, <1>3, <1>4, <1>5, HoldingFacts
  <2> QED BY <1>1, <1>3, <2>1
<1>9. Rested
  BY <1>1, <1>3, <1>8 DEF Rested, SinkTypes
<1>10. verdicts'[e] = <<"ack">> => e \in taken'
  BY <1>1, <1>2 DEF SinkInv, AnsweredInv
<1> QED BY <1>1, <1>2, <1>4, <1>5, <1>6, <1>7, <1>8, <1>9, <1>10, RestKept

LEMMA CodecKeeps ==
  ASSUME SinkInv, Codec, UNCHANGED <<inbox, nextId>>
  PROVE  SinkInv'
<1>1. PICK e : e = Head(mail).id
  OBVIOUS
<1>2. PICK what : what = Head(mail).what
  OBVIOUS
<1>3. /\ Kept /\ UNCHANGED <<slots, waiting, codec, queue, fatal, taken>>
      /\ mail # <<>> /\ mail' = Tail(mail)
  BY DEF Codec, Kept
<1>4. /\ kind = "rest" /\ 1 \in DOMAIN mail /\ Head(mail) = mail[1]
  BY <1>3, LetterFacts, TailFacts DEF SinkInv, SinkTypes
<1>5. /\ e \in SinkIds /\ verdicts[e] = <<>> /\ what \in {"request", "response", "rejection", "failure"}
      /\ stage[e] \in IF what = "request" THEN {"encode"} ELSE {"free", "end"}
      /\ what = "response" => e \in taken
  <2>1. e = mail[1].id /\ what = mail[1].what
    BY <1>1, <1>2, <1>4
  <2>2. mail[1] \in Letters
    BY <1>4, LetterFacts
  <2>3. e \in SinkIds /\ what \in {"request", "response", "rejection", "failure"}
    BY <2>1, <2>2 DEF Letters
  <2> QED BY <1>4, <2>1, <2>3 DEF SinkInv, MailInv
<1>6. /\ slots \in Nat /\ slots <= limit /\ limit \in Nat
      /\ slots = Cardinality({d \in SinkIds : stage[d] \in Holding})
      /\ SinkTypes /\ StagesInv /\ RestStages = Stages
  BY <1>4, SlotFacts
<1>7. /\ "encode" \in Holding /\ "http" \in Holding /\ "free" \in Holding /\ "http" \in Stages
      /\ "free" \in Stages /\ "free" \notin Unanswered /\ "end" \notin Unanswered
      /\ <<>> # <<"ack">> /\ <<"fail">> # <<"ack">>
  BY <1>6 DEF Holding, RestStages, Unanswered
<1>8. ASSUME Moves(e), Tells(e) PROVE MailInv' /\ Rested
  <2>1. MailInv' /\ mail' \in Seq(Letters) /\ Len(mail') <= limit
    BY <1>1, <1>3, <1>8, TakenKept
  <2> QED BY <1>3, <1>6, <2>1 DEF Rested, SinkTypes
<1>9. CASE what = "request" /\ Move(e, "http") /\ NoInsight
  <2>1. Moves(e) /\ stage'[e] = "http" /\ stage[e] = "encode"
    BY <1>5, <1>6, <1>7, <1>9, MoveFacts
  <2>2. Tells(e) /\ verdicts' = verdicts
    BY <1>6, <1>9, SilenceFacts DEF NoInsight
  <2>3. slots' = Cardinality({d \in SinkIds : stage'[d] \in Holding})
    BY <1>3, <1>5, <1>6, <1>7, <2>1, HoldingFacts
  <2> QED BY <1>3, <1>4, <1>5, <1>7, <1>8, <2>1, <2>2, <2>3, RestKept
<1>10. CASE what = "request" /\ Move(e, "free") /\ Answer(e, "fail")
  <2>1. Moves(e) /\ stage'[e] = "free" /\ stage[e] = "encode"
    BY <1>5, <1>6, <1>7, <1>10, MoveFacts
  <2>2. /\ Tells(e) /\ (verdicts'[e] = <<>> \/ verdicts'[e] = <<"fail">>) /\ (~tx => verdicts' = verdicts)
    BY <1>5, <1>6, <1>10, AnswerFacts
  <2>3. slots' = Cardinality({d \in SinkIds : stage'[d] \in Holding})
    BY <1>3, <1>5, <1>6, <1>7, <2>1, HoldingFacts
  <2> QED BY <1>3, <1>4, <1>5, <1>7, <1>8, <2>1, <2>2, <2>3, RestKept
<1>11. ASSUME what # "request", NEW cb \in CodecVerdicts(what), Answer(e, cb), UNCHANGED stage
       PROVE  SinkInv'
  <2>1. Moves(e) /\ stage'[e] = stage[e] /\ stage[e] \in {"free", "end"}
    BY <1>5, <1>6, <1>11, StillFacts
  <2>2. cb \in {"ack", "fail"} /\ (cb = "ack" => what = "response")
    BY <1>11 DEF CodecVerdicts
  <2>3. /\ Tells(e) /\ (verdicts'[e] = <<>> \/ verdicts'[e] = <<cb>>) /\ (~tx => verdicts' = verdicts)
    BY <1>5, <1>6, <1>11, <2>2, AnswerFacts
  <2>4. verdicts'[e] = <<"ack">> => e \in taken'
    BY <1>3, <1>5, <1>7, <2>2, <2>3
  <2>5. slots' = Cardinality({d \in SinkIds : stage'[d] \in Holding})
    BY <1>3, <1>6, <1>11
  <2> QED BY <1>3, <1>4, <1>5, <1>7, <1>8, <2>1, <2>3, <2>4, <2>5, RestKept
<1> QED BY <1>1, <1>2, <1>9, <1>10, <1>11 DEF Codec

\* The tasks that wait for an encoded request are lost, and keep their slots.
LEMMA CodecDiesKeeps ==
  ASSUME SinkInv, kind = "rest", CodecDies, UNCHANGED <<inbox, nextId>>
  PROVE  SinkInv'
<1>1. /\ Kept /\ UNCHANGED <<slots, waiting, queue, fatal, replies, verdicts, taken>>
      /\ codec' = FALSE /\ mail' = <<>>
      /\ stage' = [e \in SinkIds |-> IF stage[e] = "encode" THEN "lost" ELSE stage[e]]
  BY DEF CodecDies, Kept
<1>2. \A e \in SinkIds : stage'[e] = IF stage[e] = "encode" THEN "lost" ELSE stage[e]
  BY <1>1
<1>3. SinkTypes'
  <2>1. mail' \in Seq(Letters) /\ Len(mail') = 0 /\ limit \in Nat /\ SinkTypes
    BY <1>1, KindFacts DEF SinkInv
  <2>2. Queued /\ inbox' \in Seq(SinkIds) /\ slots' \in Nat /\ slots' <= limit
        /\ waiting' \in SinkIds \cup {Nobody}
    BY <1>1, <2>1 DEF SinkTypes, Queued
  <2>4. Rested
    <3>1. codec' \in BOOLEAN
      BY <1>1
    <3>2. Len(mail') <= limit
      BY <2>1
    <3> QED BY Zenon, <2>1, <2>2, <3>1, <3>2 DEF Rested
  <2>3. \A e : Tells(e)
    BY <1>1, <2>1, SilenceFacts
  <2> QED BY <1>1, <2>1, <2>2, <2>3, <2>4, TypesKept
<1>4. StagesInv'
  <2>1. \A e \in SinkIds : stage[e] \in Stages
    BY DEF SinkInv, StagesInv
  <2>2. "lost" \in Stages
    BY DEF Stages, RestStages, Holding
  <2>3. Stages' = Stages
    BY <1>1 DEF Stages, Kept
  <2> QED BY <1>1, <2>1, <2>2, <2>3 DEF StagesInv
<1>5. FreshInv'
  <2>1. \A i \in DOMAIN inbox : inbox[i] \in SinkIds /\ stage[inbox[i]] = "none"
    BY DEF SinkInv, SinkTypes, FreshInv
  <2> QED BY <1>2, <2>1 DEF SinkInv, FreshInv
<1>6. AnsweredInv'
  <2>1. \A e \in SinkIds : stage'[e] \in Unanswered => stage[e] \in Unanswered
    BY <1>2 DEF Unanswered
  <2>2. \A e \in SinkIds : stage'[e] = "answered" => stage[e] = "answered"
    BY <1>2
  <2>3. (\A e \in SinkIds : stage[e] \in Unanswered => verdicts[e] = <<>>)'
    BY <1>1, <2>1 DEF SinkInv, AnsweredInv, Unanswered
  <2> QED BY <1>1, <2>2, <2>3 DEF SinkInv, AnsweredInv, Kept
<1>7. MailInv'
  <2>1. waiting # Nobody => stage'[waiting] = "end"
    BY <1>2, LetterFacts DEF SinkInv, MailInv
  <2>2. DOMAIN mail' = {}
    BY <1>1
  <2> QED BY <1>1, <2>1, <2>2 DEF SinkInv, MailInv, Kept
<1>8. SlotsInv'
  <2>1. \A e \in SinkIds : stage'[e] \in Holding <=> stage[e] \in Holding
    BY <1>2 DEF Holding
  <2>2. {e \in SinkIds : stage'[e] \in Holding} = {e \in SinkIds : stage[e] \in Holding}
    BY <2>1
  <2> QED BY <1>1, <2>2 DEF SinkInv, SlotsInv, Kept
<1> QED BY <1>3, <1>4, <1>5, <1>6, <1>7, <1>8 DEF SinkInv

LEMMA OtherTasksKeep ==
  ASSUME SinkInv, NEW e \in SinkIds, UNCHANGED <<inbox, nextId>>,
         ElasticJob(e) \/ ElasticDone(e) \/ KafkaDelivery(e) \/ KafkaFatal(e)
  PROVE  SinkInv'
<1>1. SinkTypes /\ StagesInv /\ inbox' \in Seq(SinkIds) /\ stage[e] \in Stages
      /\ kind \in {"rest", "elastic", "kafka"}
  BY KindFacts DEF SinkInv, SinkTypes, StagesInv
<1>2. CASE ElasticJob(e) \/ ElasticDone(e)
  <2>1. /\ kind = "elastic" /\ Kept /\ UNCHANGED <<rest, queue, fatal>> /\ taken \subseteq taken'
        /\ stage[e] \in {"job", "told"}
    BY <1>2 DEF ElasticJob, ElasticDone, Kept
  <2>2. "told" \in Stages /\ "done" \in Stages /\ "told" \notin Unanswered /\ "done" \notin Unanswered
    BY <2>1 DEF Stages, ElasticStages, Unanswered
  <2>3. Moves(e) /\ stage'[e] \in {"told", "done"}
    BY <1>1, <1>2, <2>2, MoveFacts DEF ElasticJob, ElasticDone
  <2>4. Tells(e)
    <3>1. CASE ElasticJob(e)
      <4>1. verdicts[e] = <<>>
        BY <3>1 DEF ElasticJob, SinkInv, AnsweredInv, Unanswered
      <4> QED BY <1>1, <3>1, <4>1, AnswerFacts DEF ElasticJob
    <3>2. CASE ElasticDone(e)
      BY <1>1, <3>2, SilenceFacts DEF ElasticDone
    <3> QED BY <1>2, <3>1, <3>2
  <2>5. \A d \in SinkIds : stage'[d] = "job" => \E i \in DOMAIN queue' : queue'[i] = d
    <3>1. \A d \in SinkIds : stage'[d] = "job" => stage[d] = "job"
      BY <2>3 DEF Moves
    <3> QED BY <2>1, <3>1 DEF SinkInv, SlotsInv
  <2>6. FreshInv' /\ Queued
    BY <1>1, <2>1, <2>3, FreshKept, SameFacts
  <2> QED BY <1>1, <2>1, <2>2, <2>3, <2>4, <2>5, <2>6, OtherKept
<1>3. CASE KafkaDelivery(e) \/ KafkaFatal(e)
  <2>1. /\ Kept /\ UNCHANGED <<rest, queue>> /\ taken \subseteq taken'
        /\ stage[e] \in {"delivery", "fatal"}
    BY <1>3 DEF KafkaDelivery, KafkaFatal, Kept
  <2>2. kind = "kafka"
    BY <1>1, <2>1 DEF Stages, RestStages, ElasticStages, Holding
  <2>3. "end" \in Stages /\ "fatal" \in Stages /\ "end" \notin Unanswered
    BY <2>2 DEF Stages, KafkaStages, Unanswered
  <2>4. Moves(e) /\ stage'[e] \in {"end", "fatal"}
    BY <1>1, <1>3, <2>3, MoveFacts DEF KafkaDelivery, KafkaFatal
  <2>5. verdicts[e] = <<>>
    BY <2>1 DEF SinkInv, AnsweredInv, Unanswered
  <2>6. Tells(e) /\ (~tx => verdicts' = verdicts) /\ (stage'[e] # "end" => verdicts' = verdicts)
    <3>1. CASE Answer(e, "ack") /\ Move(e, "end")
      BY <1>1, <2>3, <2>5, <3>1, AnswerFacts, MoveFacts
    <3>2. CASE Answer(e, "fail") /\ Move(e, "end")
      BY <1>1, <2>3, <2>5, <3>2, AnswerFacts, MoveFacts
    <3>3. CASE NoInsight
      BY <1>1, <3>3, SilenceFacts DEF NoInsight
    <3> QED BY <1>3, <3>1, <3>2, <3>3 DEF KafkaDelivery, KafkaFatal
  <2>7. Queued
    <3>1. fatal' \in 0 .. ErrorRoom
      BY <1>1, <1>3, SinksAssumption DEF KafkaDelivery, KafkaFatal, SinkTypes, SinksAssumption
    <3> QED BY <1>1, <2>1, <3>1 DEF Queued, SinkTypes
  <2>8. FreshInv'
    BY <2>1, <2>4, FreshKept
  <2>9. stage'[e] \in Unanswered => verdicts'[e] = <<>>
    BY <2>3, <2>4, <2>5, <2>6
  <2> QED BY <1>1, <2>1, <2>2, <2>4, <2>6, <2>7, <2>8, <2>9, OtherKept
<1> QED BY <1>2, <1>3

-----------------------------------------------------------------------------
(* All steps together.                                                     *)

\* A sink that has just started.
LEMMA NoneHeld ==
  ASSUME NEW st, st = [e \in SinkIds |-> "none"]
  PROVE  Cardinality({e \in SinkIds : st[e] \in Holding}) = 0
<1>1. {e \in SinkIds : st[e] \in Holding} = {}
  BY DEF Holding
<1> QED BY <1>1, FS_EmptySet

LEMMA SinkStarts ==
  ASSUME DeliveryInit
  PROVE  SinkInv
<1>1. PICK k \in Kinds : kind = k[1] /\ limit = k[2]
  BY DEF DeliveryInit, SinkInit
<1>2. <<kind, limit>> \in Kinds /\ kind \in {"rest", "elastic", "kafka"} /\ limit \in Nat
  BY <1>1, SinksAssumption DEF SinksAssumption
<1>3. SinkTypes
  BY <1>2, SinksAssumption DEF DeliveryInit, SinkInit, SinkTypes, NoVerdict, Verdicts, SinksAssumption
<1>4. StagesInv
  <2>1. "none" \in Stages
    BY <1>2 DEF Stages, RestStages, ElasticStages, KafkaStages
  <2> QED BY <2>1 DEF StagesInv, DeliveryInit, SinkInit, NoStage
<1>5. FreshInv
  BY DEF FreshInv, DeliveryInit, SinkInit, NoStage
<1>6. AnsweredInv
  BY DEF AnsweredInv, DeliveryInit, SinkInit, NoStage, NoVerdict
<1>7. MailInv
  BY DEF MailInv, DeliveryInit, SinkInit
<1>8. SlotsInv
  <2>1. stage = [e \in SinkIds |-> "none"] /\ slots = 0
    BY DEF DeliveryInit, SinkInit, NoStage
  <2>2. Cardinality({e \in SinkIds : stage[e] \in Holding}) = 0
    BY <2>1, NoneHeld
  <2> QED BY <2>1, <2>2 DEF SlotsInv
<1> QED BY <1>3, <1>4, <1>5, <1>6, <1>7, <1>8 DEF SinkInv

LEMMA SinkStartsAgain ==
  ASSUME SinkInv, Restart
  PROVE  SinkInv'
<1>1. /\ Kept /\ inbox' = <<>> /\ stage' = [e \in SinkIds |-> "none"]
      /\ verdicts' = [e \in SinkIds |-> <<>>] /\ replies' = <<>> /\ slots' = 0 /\ mail' = <<>>
      /\ waiting' = Nobody /\ codec' = TRUE /\ queue' = <<>> /\ fatal' = 0
  BY DEF Restart, SinkRestart, Kept, NoStage, NoVerdict
<1>2. kind \in {"rest", "elastic", "kafka"} /\ limit \in Nat /\ SinkTypes
  BY KindFacts DEF SinkInv
<1>3. SinkTypes'
  <2>1. Rested
    BY <1>1, <1>2 DEF Rested
  <2>2. Queued
    BY <1>1, <1>2, SinksAssumption DEF Queued, SinksAssumption
  <2>3. <<>> \in Verdicts
    BY DEF Verdicts
  <2>4. inbox' \in Seq(SinkIds) /\ replies' \in Seq(Replies) /\ verdicts' \in [SinkIds -> Verdicts]
    BY <1>1, <2>3
  <2> QED BY <1>1, <1>2, <2>1, <2>2, <2>4 DEF SinkTypes, Rested, Queued, Kept
<1>4. StagesInv'
  <2>1. "none" \in Stages /\ Stages' = Stages
    BY <1>1, <1>2 DEF Stages, RestStages, ElasticStages, KafkaStages, Kept
  <2> QED BY <1>1, <2>1 DEF StagesInv
<1>5. FreshInv'
  BY <1>1 DEF FreshInv
<1>6. AnsweredInv'
  <2>1. \A e \in SinkIds : verdicts'[e] = <<>> /\ stage'[e] # "answered" /\ <<>> # <<"ack">>
    BY <1>1
  <2> QED BY <2>1 DEF AnsweredInv
<1>7. MailInv'
  BY <1>1 DEF MailInv
<1>8. SlotsInv'
  <2>1. Cardinality({e \in SinkIds : stage'[e] \in Holding}) = 0
    BY <1>1, NoneHeld
  <2>2. \A e \in SinkIds : stage'[e] # "job"
    BY <1>1
  <2> QED BY <1>1, <2>1, <2>2 DEF SlotsInv
<1> QED BY <1>3, <1>4, <1>5, <1>6, <1>7, <1>8 DEF SinkInv

\* A step that leaves the sink alone.
LEMMA SinkIdle ==
  ASSUME SinkInv, UNCHANGED <<kind, limit, tx, stage, rest, queue, verdicts, taken>>,
         fatal' \in 0 .. ErrorRoom, replies' \in Seq(Replies), inbox' \in Seq(SinkIds), FreshInv'
  PROVE  SinkInv'
<1>1. UNCHANGED <<slots, mail, waiting, codec>>
  BY DEF rest
<1>2. SinkTypes'
  BY <1>1 DEF SinkInv, SinkTypes
<1>3. StagesInv'
  BY DEF SinkInv, StagesInv, Stages
<1>4. AnsweredInv'
  BY DEF SinkInv, AnsweredInv
<1>5. MailInv'
  BY <1>1 DEF SinkInv, MailInv
<1>6. SlotsInv'
  BY <1>1 DEF SinkInv, SlotsInv
<1> QED BY <1>2, <1>3, <1>4, <1>5, <1>6 DEF SinkInv

\* A tick drains the fatal errors of kafka.
LEMMA SignalKeeps ==
  ASSUME SinkInv, KafkaOnSignal, UNCHANGED <<inbox, nextId>>
  PROVE  SinkInv'
<1>1. /\ UNCHANGED <<kind, limit, tx, stage, rest, queue, verdicts, taken, replies>>
      /\ fatal > 0 /\ (fatal' = 0 \/ fatal' = fatal - 1)
  BY DEF KafkaOnSignal
<1>2. fatal' \in 0 .. ErrorRoom /\ replies \in Seq(Replies) /\ inbox \in Seq(SinkIds)
  BY <1>1, SinksAssumption DEF SinkInv, SinkTypes, SinksAssumption
<1>3. FreshInv'
  BY <1>1 DEF SinkInv, FreshInv
<1> QED BY <1>1, <1>2, <1>3, SinkIdle

LEMMA SinkKeeps ==
  ASSUME SinkInv, SourceTypes, [Next]_deliveryVars
  PROVE  SinkInv'
<1>1. /\ nextId \in Nat /\ replies \in Seq(Replies) /\ inbox \in Seq(SinkIds) /\ FreshInv
      /\ fatal \in 0 .. ErrorRoom
  BY KafkaAssumption DEF SourceTypes, KafkaAssumption, SinkInv, SinkTypes
<1>2. ASSUME UNCHANGED <<sinkVars, inbox, nextId>> PROVE SinkInv'
  <2>1. UNCHANGED <<kind, limit, tx, stage, rest, queue, fatal, verdicts, taken, replies>>
    BY <1>2 DEF sinkVars
  <2>2. FreshInv'
    BY <1>1, <1>2, <2>1 DEF FreshInv
  <2> QED BY <1>1, <1>2, <2>1, <2>2, SinkIdle
<1>3. ASSUME NEW p \in Partitions, NEW k \in 0 .. 2, NEW sendFails \in BOOLEAN, Read(p, k, sendFails)
      PROVE  SinkInv'
  <2>1. UNCHANGED <<kind, limit, tx, stage, rest, queue, fatal, verdicts, taken, replies>>
    BY <1>3 DEF Read, sinkVars
  <2>2. nextId' = nextId + k /\ nextId + k <= MaxId
    BY <1>3 DEF Read, Pull, PullAutoCommit
  <2>3. PICK n \in 0 .. k : inbox' = inbox \o [i \in 1 .. n |-> nextId + i - 1]
    BY <1>3 DEF Read
  <2>4. SinkIds = 0 .. MaxId - 1 /\ MaxId \in Nat
    BY KafkaAssumption, DeliveryAssumption DEF KafkaAssumption, DeliveryAssumption
  <2>5. PICK t : t = [i \in 1 .. n |-> nextId + i - 1]
    OBVIOUS
  <2>6. t \in Seq(SinkIds) /\ Len(t) = n /\ DOMAIN t = 1 .. n /\ \A i \in 1 .. n : t[i] = nextId + i - 1
    BY <1>1, <2>2, <2>4, <2>5
  <2>7. inbox' = inbox \o t /\ stage' = stage
    BY <2>1, <2>3, <2>5
  <2>8. /\ inbox' \in Seq(SinkIds) /\ Len(inbox) \in Nat /\ DOMAIN inbox = 1 .. Len(inbox)
        /\ DOMAIN inbox' = 1 .. Len(inbox) + Len(t)
        /\ \A i \in DOMAIN inbox : inbox'[i] = inbox[i]
        /\ \A i \in DOMAIN inbox' : i \in DOMAIN inbox
              \/ (i - Len(inbox) \in DOMAIN t /\ inbox'[i] = t[i - Len(inbox)])
    <3>1. inbox \in Seq(SinkIds) /\ t \in Seq(SinkIds) /\ inbox' = inbox \o t
      BY <1>1, <2>6, <2>7
    <3>2. PICK u : u = inbox'
      OBVIOUS
    <3>3. u = inbox \o t
      BY <3>1, <3>2
    <3>4. /\ u \in Seq(SinkIds) /\ Len(inbox) \in Nat /\ DOMAIN inbox = 1 .. Len(inbox)
          /\ DOMAIN u = 1 .. Len(inbox) + Len(t)
          /\ \A i \in DOMAIN inbox : u[i] = inbox[i]
          /\ \A i \in DOMAIN u : i \in DOMAIN inbox
                \/ (i - Len(inbox) \in DOMAIN t /\ u[i] = t[i - Len(inbox)])
      BY <3>1, <3>3, ConcatFacts
    <3> QED BY <3>2, <3>4
  <2>9. PICK m \in Nat : m = Len(inbox)
    BY <2>8, Zenon
  <2>10. /\ DOMAIN inbox' = 1 .. m + n /\ DOMAIN inbox = 1 .. m
         /\ \A i \in DOMAIN inbox : inbox'[i] = inbox[i]
         /\ \A i \in DOMAIN inbox' : i \in DOMAIN inbox \/ (i - m \in 1 .. n /\ inbox'[i] = nextId + (i - m) - 1)
    BY <2>6, <2>8, <2>9, Zenon
  <2>11. FreshInv'
    BY <1>1, <2>2, <2>7, <2>10, ReadKeepsFresh, Zenon
  <2> QED BY <1>1, <2>1, <2>8, <2>11, SinkIdle
<1>4. ASSUME NEW p \in Partitions, Skip(p) PROVE SinkInv'
  BY <1>2, <1>4 DEF Skip, PullUnreadable
<1>5. CASE Take
  BY <1>1, <1>5, TakeKeeps
<1>6. CASE Return
  <2>1. UNCHANGED <<kind, limit, tx, stage, rest, queue, fatal, verdicts, taken, inbox, nextId>>
    BY <1>6 DEF Return, SourceAck, SourceFail, source
  <2>2. replies' \in Seq(Replies)
    BY <1>1, <1>6, TailFacts DEF Return
  <2>3. FreshInv'
    BY <1>1, <2>1 DEF FreshInv
  <2> QED BY <1>1, <2>1, <2>2, <2>3, SinkIdle
<1>7. CASE Work
  <2>1. UNCHANGED <<inbox, nextId>>
    BY <1>7 DEF Work, source
  <2>2. ASSUME NEW e \in SinkIds, RestTask(e) PROVE SinkInv'
    BY <2>1, <2>2, SendKeeps DEF RestTask
  <2>3. ASSUME KafkaOnSignal PROVE SinkInv'
    BY <1>1, <2>1, <2>3, SignalKeeps
  <2> QED BY <1>7, <2>1, <2>2, <2>3, OverloadKeeps, CodecKeeps, HttpKeeps, FreeKeeps, OtherTasksKeep
          DEF Work, SinkWork
<1>8. CASE TokenFails
  BY <1>8, CodecDiesKeeps DEF TokenFails, source
<1>9. CASE Restart
  BY <1>9, SinkStartsAgain
<1>10. CASE UNCHANGED deliveryVars
  BY <1>2, <1>10 DEF deliveryVars, source
<1> QED BY <1>3, <1>4, <1>5, <1>6, <1>7, <1>8, <1>9, <1>10 DEF Next

LEMMA SourceStarts ==
  ASSUME DeliveryInit
  PROVE  SourceTypes /\ SourceInv
BY KafkaAssumption
   DEF DeliveryInit, SourceInit, SourceTypes, SourceInv, CommittedIsCovered, KafkaAssumption

DeliveryInv == SourceTypes /\ SourceInv /\ SinkInv

LEMMA DeliveryInductive == Spec => []DeliveryInv
<1>1. DeliveryInit => DeliveryInv
  BY SourceStarts, SinkStarts DEF DeliveryInv
<1>2. DeliveryInv /\ [Next]_deliveryVars => DeliveryInv'
  BY SourceKeeps, SinkKeeps DEF DeliveryInv, SinkInv
<1> QED BY <1>1, <1>2, PTL DEF Spec

\* For any partitions, messages and faults: the offsets the broker has cover
\* only messages that were acknowledged, by the Ack of a later event at the
\* latest, or became no event.
THEOREM RestartSkipsNothing == Spec => []CommittedIsCovered
<1>1. DeliveryInv => CommittedIsCovered
  BY DEF DeliveryInv, SourceInv
<1> QED BY <1>1, DeliveryInductive, PTL

\* No more jobs than places in the queue.
LEMMA JobsFacts ==
  ASSUME SinkInv, kind = "elastic"
  PROVE  Cardinality({e \in SinkIds : stage[e] = "job"}) <= limit
<1>1. queue \in Seq(SinkIds) /\ Len(queue) <= limit /\ limit \in Nat /\ Len(queue) \in Nat
  BY KindFacts DEF SinkInv, SinkTypes
<1>2. \A d \in SinkIds : stage[d] = "job" => \E i \in DOMAIN queue : queue[i] = d
  BY DEF SinkInv, SlotsInv
<1>3. PICK J : J = {e \in SinkIds : stage[e] = "job"}
  OBVIOUS
<1>4. J \subseteq Range(queue)
  BY <1>2, <1>3 DEF Range
<1>5. IsFiniteSet(Range(queue)) /\ Cardinality(Range(queue)) <= Len(queue)
  BY <1>1, RangeFacts
<1>6. Cardinality(J) <= Cardinality(Range(queue)) /\ Cardinality(J) \in Nat /\ Cardinality(Range(queue)) \in Nat
  BY <1>4, <1>5, FS_Subset, FS_CardinalityType
<1> QED BY <1>1, <1>3, <1>5, <1>6

\* For any number of events and any config.concurrency: each event is answered
\* once at most, rest acknowledges only what the server accepted, each slot is
\* held by a task and there are not more of them, or of jobs, than configured.
THEOREM SinksKeepTheirPromises == Spec => []SinkRight
<1>1. DeliveryInv => SinkRight
  <2> SUFFICES ASSUME DeliveryInv PROVE SinkRight
    OBVIOUS
  <2>1. SourceTypes /\ SinkInv /\ SinkTypes
    BY DEF DeliveryInv, SinkInv
  <2>2. LogSize \in [Partitions -> Nat] /\ MaxId \in Nat
    BY KafkaAssumption DEF KafkaAssumption
  <2>3. SourceTypeOK
    BY <2>1, <2>2 DEF SourceTypes, SourceTypeOK, Offset
  <2>4. SinkTypeOK
    BY <2>1, KindFacts DEF SinkTypes, SinkTypeOK
  <2>5. AtMostOneVerdict
    <3>1. \A v \in Verdicts : Len(v) <= 1
      BY DEF Verdicts
    <3>2. ~(tx \/ kind = "elastic") => \A e \in SinkIds : Len(verdicts[e]) <= 0
      BY <2>1 DEF SinkInv, AnsweredInv
    <3> QED BY <2>1, <3>1, <3>2 DEF SinkTypes, AtMostOneVerdict
  <2>6. RestAcksAccepted
    BY <2>1 DEF SinkInv, AnsweredInv, RestAcksAccepted
  <2>7. ConcurrencyKept
    BY <2>1, JobsFacts DEF SinkInv, SlotsInv, ConcurrencyKept
  <2> QED BY <2>3, <2>4, <2>5, <2>6, <2>7 DEF SinkRight, TypeOK
<1> QED BY <1>1, DeliveryInductive, PTL

-----------------------------------------------------------------------------
(* CommitsCatchUp is invariant.                                            *)

\* What a step of the sink does to the reply channel: an Ack goes with an entry.
Spoken ==
    /\ \A i \in DOMAIN replies : i \in DOMAIN replies' /\ replies'[i] = replies[i]
    /\ \A e \in SinkIds : verdicts'[e] = <<"ack">> =>
         verdicts[e] = <<"ack">> \/ \E i \in DOMAIN replies' : replies'[i].id = e /\ replies'[i].cb = "ack"

LEMMA SpokenFacts ==
  ASSUME SinkTypes, NEW e \in SinkIds, NEW cb \in {"ack", "fail"},
         Answer(e, cb) \/ Insight(e, cb) \/ NoInsight
  PROVE  Spoken
<1>1. CASE NoInsight
  BY <1>1 DEF NoInsight, Spoken
<1>2. CASE Insight(e, cb)
  <2>1. PICK r : r = [id |-> e, cb |-> cb]
    OBVIOUS
  <2>2. r \in Replies /\ r.id = e /\ r.cb = cb
    BY <2>1 DEF Replies
  <2>3. replies' = Append(replies, r)
    BY <1>2, <2>1 DEF Insight
  <2>4. /\ DOMAIN replies' = DOMAIN replies \union {Len(replies) + 1}
        /\ \A i \in DOMAIN replies : replies'[i] = replies[i]
        /\ replies'[Len(replies) + 1] = r
    BY <2>2, <2>3, AppendFacts DEF SinkTypes
  <2>5. verdicts' = [verdicts EXCEPT ![e] = Append(@, cb)] /\ verdicts \in [SinkIds -> Verdicts]
    BY <1>2 DEF Insight, SinkTypes
  <2>6. \A v \in Verdicts : Append(v, cb) = <<"ack">> => cb = "ack"
    <3>1. Append(<<>>, cb) = <<"ack">> => cb = "ack"
      OBVIOUS
    <3>2. \A a \in {"ack", "fail"} : Append(<<a>>, cb) # <<"ack">>
      <4> SUFFICES ASSUME NEW a \in {"ack", "fail"} PROVE Append(<<a>>, cb) # <<"ack">>
        OBVIOUS
      <4>1. Len(Append(<<a>>, cb)) = 2 /\ Len(<<"ack">>) = 1
        OBVIOUS
      <4> QED BY <4>1
    <3> QED BY <3>1, <3>2 DEF Verdicts
  <2>7. \A d \in SinkIds : verdicts'[d] = IF d = e THEN Append(verdicts[d], cb) ELSE verdicts[d]
    BY <2>5
  <2>8. verdicts'[e] = <<"ack">> => cb = "ack"
    BY <2>5, <2>6, <2>7
  <2> QED BY <2>2, <2>4, <2>7, <2>8 DEF Spoken
<1> QED BY <1>1, <1>2 DEF Answer

LEMMA SinkSpeaks ==
  ASSUME SinkInv, SourceTypes, Take \/ Work \/ TokenFails
  PROVE  Spoken
<1>1. SinkTypes /\ nextId \in Nat
  BY KafkaAssumption DEF SinkInv, SourceTypes, KafkaAssumption
<1>2. NoInsight => Spoken
  BY DEF NoInsight, Spoken
<1>3. CASE Take
  <2>1. PICK e : e = Head(inbox)
    OBVIOUS
  <2>2. e \in SinkIds
    BY <1>1, <1>3, <2>1, TailFacts DEF Take, SinkTypes
  <2>3. NoInsight \/ \E cb \in {"ack", "fail"} : Answer(e, cb) \/ Insight(e, cb)
    BY <1>3, <2>1 DEF Take, SinkOnEvent, RestOnEvent, ElasticOnEvent, KafkaOnEvent, OnEventFails
  <2> QED BY <1>1, <1>2, <2>2, <2>3, SpokenFacts
<1>4. CASE Work
  <2>1. CASE RestOverload
    <3>1. waiting \in SinkIds
      BY <2>1, LetterFacts DEF RestOverload
    <3>2. NoInsight \/ Answer(waiting, "fail")
      BY <2>1 DEF RestOverload
    <3> QED BY <1>1, <1>2, <3>1, <3>2, SpokenFacts
  <2>2. CASE Codec
    <3>1. PICK e : e = Head(mail).id
      OBVIOUS
    <3>2. e \in SinkIds
      <4>1. Head(mail) \in Letters
        BY <2>2, TailFacts, <1>1 DEF Codec, SinkTypes
      <4> QED BY <3>1, <4>1 DEF Letters
    <3>3. NoInsight \/ \E cb \in {"ack", "fail"} : Answer(e, cb)
      BY <2>2, <3>1 DEF Codec, CodecVerdicts
    <3> QED BY <1>1, <1>2, <3>2, <3>3, SpokenFacts
  <2>3. ASSUME NEW e \in SinkIds, \/ RestTask(e) \/ RestHttp(e) \/ RestFree(e) \/ ElasticJob(e)
                                  \/ ElasticDone(e) \/ KafkaDelivery(e) \/ KafkaFatal(e)
        PROVE  Spoken
    <3>1. NoInsight \/ \E cb \in {"ack", "fail"} : Answer(e, cb)
      BY <2>3 DEF RestTask, TaskSend, RestHttp, RestFree, ElasticJob, ElasticDone, KafkaDelivery, KafkaFatal,
                  NoInsight
    <3> QED BY <1>1, <1>2, <3>1, SpokenFacts
  <2>4. CASE KafkaOnSignal
    BY <1>2, <2>4 DEF KafkaOnSignal, NoInsight
  <2> QED BY <1>4, <2>1, <2>2, <2>3, <2>4 DEF Work, SinkWork
<1>5. CASE TokenFails
  BY <1>2, <1>5 DEF TokenFails, CodecDies, NoInsight
<1> QED BY <1>3, <1>4, <1>5

\* Events that were sent have ids of the sink.
LEMMA SentFacts ==
  ASSUME SourceTypes
  PROVE  /\ \A x \in emitted : x.id \in SinkIds /\ x.id < nextId
         /\ \A x \in messages \cup emitted : x.id \in Nat /\ x.o \in Nat /\ x.p \in Partitions
         /\ pos \in [Partitions -> Nat] /\ committed \in [Partitions -> Nat] /\ nextId \in Nat
<1>1. SinkIds = 0 .. MaxId - 1 /\ MaxId \in Nat
  BY KafkaAssumption, DeliveryAssumption DEF KafkaAssumption, DeliveryAssumption
<1>2. \A x \in messages \cup emitted : x.id \in Nat /\ x.o \in Nat /\ x.p \in Partitions
  BY DEF SourceTypes, Offset
<1> QED BY <1>1, <1>2 DEF SourceTypes

LEMMA SinkCommits ==
  ASSUME SourceTypes, SinkInv, CommitsInv, Take \/ Work \/ TokenFails
  PROVE  CommitsInv'
<1>1. UNCHANGED <<pos, committed, messages, emitted, empty, nextId, fails, errors>>
  BY DEF Take, Work, TokenFails, source, sourceBounds
<1>2. UNCHANGED tx
  BY DEF Take, SinkOnEvent, RestOnEvent, ElasticOnEvent, KafkaOnEvent,
         Work, SinkWork, RestOverload, Codec, RestTask, TaskSend, RestHttp, RestFree, ElasticJob,
         ElasticDone, KafkaDelivery, KafkaFatal, KafkaOnSignal, TokenFails, CodecDies
<1>3. Spoken
  BY SinkSpeaks
<1>4. ASSUME Smooth,  NEW x \in messages \cap emitted, verdicts'[x.id] = <<"ack">>
      PROVE  \E i \in DOMAIN replies' : replies'[i].id = x.id /\ replies'[i].cb = "ack"
  <2>1. x.id \in SinkIds
    BY SentFacts
  <2>2. CASE verdicts[x.id] = <<"ack">>
    <3>1. PICK i \in DOMAIN replies : replies[i].id = x.id /\ replies[i].cb = "ack"
      BY <1>4, <2>2 DEF CommitsInv
    <3> QED BY <1>3, <3>1 DEF Spoken
  <2> QED BY <1>3, <1>4, <2>1, <2>2 DEF Spoken
<1> QED BY <1>1, <1>2, <1>4 DEF CommitsInv, Smooth

LEMMA PullCommits ==
  ASSUME SourceTypes, SinkInv, CommitsInv, UNCHANGED <<verdicts, replies>>, tx' = tx,
         NEW p \in Partitions, NEW k \in 0 .. 2, NEW sendFails \in BOOLEAN, Pull(p, k, sendFails)
  PROVE  CommitsInv'
<1>1. PICK m \in Offset, ms \in SUBSET Offset, at \in [Partitions -> Nat] :
           /\ m = [id |-> nextId, p |-> p, o |-> pos[p]]
           /\ m.id = nextId /\ m.p = p /\ m.o = pos[p] /\ pos[p] < LogSize[p]
           /\ ms = {x \in messages : x.id # nextId} \cup {m}
           /\ at = [pos EXCEPT ![p] = @ + 1]
           /\ at[p] = pos[p] + 1 /\ \A q \in Partitions : q # p => at[q] = pos[q]
           /\ nextId' = nextId + k /\ nextId' \in 0 .. MaxId
           /\ emitted' \subseteq Offset /\ emitted \subseteq emitted' /\ (k > 0 => m \in emitted')
           /\ \A y \in emitted' : y \in emitted \/
                (y.p = p /\ y.o = pos[p] /\ nextId <= y.id /\ y.id < nextId + k)
           /\ empty \subseteq empty' /\ (k = 0 => <<p, pos[p]>> \in empty')
           /\ \/ k > 0 /\ FailAt(nextId, ms, at)
              \/ messages' = ms /\ pos' = at /\ UNCHANGED <<fails, errors>>
           /\ UNCHANGED <<retry, committed, covered, restarts>>
  BY PullFacts, SMTT(40)
<1> SUFFICES ASSUME Smooth' PROVE CommitsInv'
  BY DEF CommitsInv
<1>2. Smooth /\ messages' = ms /\ pos' = at
  <2>1. fails \in Nat /\ fails' = 0 /\ errors' = 0 /\ tx
    BY DEF Smooth, SourceTypes
  <2>2. ~FailAt(nextId, ms, at)
    BY <2>1 DEF FailAt
  <2> QED BY <1>1, <2>1, <2>2 DEF Smooth
<1>3. /\ \A x \in emitted : x.id \in SinkIds /\ x.id < nextId
      /\ \A x \in messages \cup emitted : x.id \in Nat /\ x.o \in Nat /\ x.p \in Partitions
      /\ pos \in [Partitions -> Nat] /\ committed \in [Partitions -> Nat] /\ nextId \in Nat
      /\ \A x \in messages : x.id <= nextId
  BY SentFacts DEF SourceTypes
<1>4. \A q \in Partitions : committed[q] <= pos[q]
  BY <1>2 DEF CommitsInv
<1>5. \A q \in Partitions : committed'[q] <= pos'[q]
  <2> SUFFICES ASSUME NEW q \in Partitions PROVE committed[q] <= at[q]
    BY <1>1, <1>2
  <2>1. committed[q] <= pos[q] /\ committed[q] \in Nat /\ pos[q] \in Nat
    BY <1>3, <1>4
  <2>2. at[q] = pos[q] \/ at[q] = pos[q] + 1
    BY <1>1
  <2> QED BY <2>1, <2>2
<1>6. \A x \in messages \cap emitted : x \in messages' \cap emitted'
  <2> SUFFICES ASSUME NEW x \in messages \cap emitted PROVE x \in ms /\ x \in emitted'
    BY <1>2
  <2>1. x.id # nextId
    BY <1>3
  <2> QED BY <1>1, <2>1
<1>7. ASSUME NEW q \in Partitions, NEW o \in committed'[q] .. pos'[q] - 1
      PROVE  <<q, o>> \in empty' \/ \E x \in messages' \cap emitted' : x.p = q /\ x.o = o
  <2>1. CASE q = p /\ o = pos[p]
    <3>1. CASE k = 0
      BY <1>1, <2>1, <3>1
    <3>2. CASE k # 0
      <4>1. m \in emitted' /\ m \in messages'
        BY <1>1, <1>2, <3>2
      <4> QED BY <1>1, <2>1, <4>1
    <3> QED BY <3>1, <3>2
  <2>2. CASE q # p \/ o # pos[p]
    <3>1. o \in committed[q] .. pos[q] - 1
      BY <1>1, <1>2, <1>3, <2>2
    <3>2. <<q, o>> \in empty \/ \E x \in messages \cap emitted : x.p = q /\ x.o = o
      BY <1>2, <3>1 DEF CommitsInv
    <3> QED BY <1>1, <1>6, <3>2
  <2> QED BY <2>1, <2>2
<1>8. ASSUME NEW x \in messages' \cap emitted', verdicts'[x.id] = <<"ack">>
      PROVE  \E i \in DOMAIN replies' : replies'[i].id = x.id /\ replies'[i].cb = "ack"
  <2>1. CASE x \in messages /\ x \in emitted
    BY <1>2, <1>8, <2>1 DEF CommitsInv
  <2>2. CASE x \in messages /\ x.id # nextId /\ x \notin emitted
    BY <1>1, <1>3, <2>2
  <2>3. CASE x = m
    <3>1. m \notin emitted /\ m.id = nextId
      BY <1>1, <1>3
    <3>2. nextId < nextId + k
      BY <1>1, <2>3, <3>1
    <3>3. nextId \in SinkIds /\ nextId >= nextId
      <4>1. SinkIds = 0 .. MaxId - 1 /\ MaxId \in Nat
        BY KafkaAssumption, DeliveryAssumption DEF KafkaAssumption, DeliveryAssumption
      <4> QED BY <1>1, <1>3, <3>2, <4>1
    <3>4. verdicts[nextId] = <<>>
      BY <3>3 DEF SinkInv, FreshInv, AnsweredInv, Unanswered
    <3>5. verdicts'[x.id] = <<>>
      BY <2>3, <3>1, <3>4
    <3>6. <<>> # <<"ack">>
      OBVIOUS
    <3> QED BY <1>8, <3>5, <3>6
  <2> QED BY <1>1, <1>2, <2>1, <2>2, <2>3
<1>9. ASSUME NEW x \in messages'
      PROVE  committed'[x.p] <= x.o /\ x.o < pos'[x.p]
  <2>1. CASE x \in messages
    <3>1. /\ committed[x.p] <= x.o /\ x.o < pos[x.p] /\ x.o \in Nat /\ x.p \in Partitions
          /\ pos[x.p] \in Nat
      BY <1>2, <1>3, <2>1 DEF CommitsInv
    <3>2. at[x.p] = pos[x.p] \/ at[x.p] = pos[x.p] + 1
      BY <1>1, <3>1
    <3> QED BY <1>1, <1>2, <3>1, <3>2
  <2>2. CASE x = m
    <3>1. pos[p] < at[p] /\ committed[p] <= pos[p]
      BY <1>1, <1>3, <1>4
    <3> QED BY <1>1, <1>2, <2>2, <3>1
  <2> QED BY <1>1, <1>2, <2>1, <2>2
<1>10. ASSUME NEW x \in messages', NEW y \in messages', x.p = y.p, x.id < y.id
       PROVE  x.o < y.o
  <2>1. x \in messages \/ x = m
    BY <1>1, <1>2
  <2>2. y \in messages \/ y = m
    BY <1>1, <1>2
  <2>3. CASE x \in messages /\ y \in messages
    BY <1>2, <1>10, <2>3 DEF CommitsInv
  <2>4. CASE x \in messages /\ y = m
    BY <1>1, <1>2, <1>10, <2>4 DEF CommitsInv
  <2>5. CASE x = m
    <3>1. ~(x.id < y.id)
      BY <1>1, <1>3, <2>2, <2>5
    <3> QED BY <1>10, <3>1
  <2> QED BY <2>1, <2>2, <2>3, <2>4, <2>5
<1> QED BY <1>5, <1>7, <1>8, <1>9, <1>10 DEF CommitsInv

LEMMA SkipCommits ==
  ASSUME SourceTypes, CommitsInv, UNCHANGED <<verdicts, replies>>, tx' = tx,
         NEW p \in Partitions, PullUnreadable(p)
  PROVE  CommitsInv'
<1>1. /\ pos' = [pos EXCEPT ![p] = @ + 1] /\ empty' = empty \cup {<<p, pos[p]>>}
      /\ UNCHANGED <<committed, messages, nextId, emitted, fails, errors>>
  BY DEF PullUnreadable, sourceBounds
<1> SUFFICES ASSUME Smooth PROVE CommitsInv'
  BY <1>1 DEF CommitsInv, Smooth
<1>2. /\ \A x \in messages \cup emitted : x.id \in Nat /\ x.o \in Nat /\ x.p \in Partitions
      /\ pos \in [Partitions -> Nat] /\ committed \in [Partitions -> Nat]
  BY SentFacts
<1>3. \A q \in Partitions : pos'[q] = IF q = p THEN pos[q] + 1 ELSE pos[q]
  BY <1>1, <1>2
<1>4. \A q \in Partitions : committed'[q] <= pos'[q]
  <2> SUFFICES ASSUME NEW q \in Partitions PROVE committed[q] <= pos'[q]
    BY <1>1
  <2>1. committed[q] <= pos[q] /\ committed[q] \in Nat /\ pos[q] \in Nat
    BY <1>2 DEF CommitsInv
  <2> QED BY <1>3, <2>1
<1>5. ASSUME NEW q \in Partitions, NEW o \in committed'[q] .. pos'[q] - 1
      PROVE  <<q, o>> \in empty' \/ \E x \in messages' \cap emitted' : x.p = q /\ x.o = o
  <2>1. CASE q = p /\ o = pos[p]
    BY <1>1, <2>1
  <2>2. CASE q # p \/ o # pos[p]
    <3>1. o \in committed[q] .. pos[q] - 1
      BY <1>1, <1>2, <1>3, <2>2
    <3> QED BY <1>1, <3>1 DEF CommitsInv
  <2> QED BY <2>1, <2>2
<1>6. \A x \in messages' : committed'[x.p] <= x.o /\ x.o < pos'[x.p]
  <2> SUFFICES ASSUME NEW x \in messages PROVE committed[x.p] <= x.o /\ x.o < pos'[x.p]
    BY <1>1
  <2>1. /\ committed[x.p] <= x.o /\ x.o < pos[x.p] /\ x.o \in Nat /\ x.p \in Partitions
        /\ pos[x.p] \in Nat
    BY <1>2 DEF CommitsInv
  <2> QED BY <1>3, <2>1
<1> QED BY <1>1, <1>4, <1>5, <1>6 DEF CommitsInv

\* What an Ack takes from the messages that are remembered, it commits.
LEMMA AckCommits ==
  ASSUME SourceTypes, CommitsInv, NEW id \in Nat, SourceAck(id), UNCHANGED <<verdicts, tx>>,
         replies \in Seq(Replies), replies # <<>>, Head(replies).id = id, replies' = Tail(replies)
  PROVE  CommitsInv'
<1>1. /\ messages' = {x \in messages : x.id > id}
      /\ UNCHANGED <<pos, nextId, emitted, empty, fails>>
  BY DEF SourceAck
<1>2. PICK tm : tm = TopicMap(messages, id)
  OBVIOUS
<1> SUFFICES ASSUME Smooth' PROVE CommitsInv'
  BY DEF CommitsInv
<1>3. Smooth /\ committed' = Override(committed, tm)
  <2>1. errors \in Nat /\ errors' = 0 /\ fails' = 0 /\ tx
    BY DEF Smooth, SourceTypes
  <2>2. CASE committed' = Override(committed, TopicMap(messages, id)) /\ UNCHANGED errors
    BY <1>1, <1>2, <2>1, <2>2 DEF Smooth
  <2>3. CASE errors' = errors + 1
    BY <2>1, <2>3
  <2> QED BY <2>2, <2>3 DEF SourceAck
<1>4. /\ \A x \in messages \cup emitted : x.id \in Nat /\ x.o \in Nat /\ x.p \in Partitions
      /\ pos \in [Partitions -> Nat] /\ committed \in [Partitions -> Nat]
  BY SentFacts
<1>5. Logged(messages)
  BY DEF SourceTypes, Logged
<1>6. /\ \A x \in messages : x.id <= id => x.p \in DOMAIN tm /\ x.o + 1 <= tm[x.p]
      /\ \A p \in DOMAIN tm : p \in Partitions /\ \E x \in messages : x.id <= id /\ x.p = p /\ tm[p] = x.o + 1
  BY <1>2, <1>5, TopicMapFacts
<1>7. \A p \in DOMAIN tm : tm[p] \in Nat
  BY SMTT(60), <1>4, <1>6
<1>8. /\ committed' \in [Partitions -> Nat]
      /\ \A p \in Partitions : committed'[p] = IF p \in DOMAIN tm THEN tm[p] ELSE committed[p]
  BY <1>3, <1>4, <1>7, OverrideFacts
\* offsets committed go up, and no further than the consumer
<1>9. ASSUME NEW p \in Partitions PROVE committed[p] <= committed'[p] /\ committed'[p] <= pos[p]
  <2>1. CASE p \notin DOMAIN tm
    BY <1>3, <1>4, <1>8, <2>1 DEF CommitsInv
  <2>2. CASE p \in DOMAIN tm
    <3>1. PICK x \in messages : x.id <= id /\ x.p = p /\ tm[p] = x.o + 1
      BY <1>6, <2>2
    <3>2. committed[p] <= x.o /\ x.o < pos[p] /\ x.o \in Nat /\ pos[p] \in Nat /\ committed[p] \in Nat
      BY <1>3, <1>4, <3>1 DEF CommitsInv
    <3> QED BY <1>8, <2>2, <3>1, <3>2
  <2> QED BY <2>1, <2>2
<1>10. ASSUME NEW p \in Partitions, NEW o \in committed'[p] .. pos'[p] - 1
       PROVE  <<p, o>> \in empty' \/ \E x \in messages' \cap emitted' : x.p = p /\ x.o = o
  <2>1. o \in committed[p] .. pos[p] - 1 /\ o \in Nat /\ committed'[p] <= o
    BY <1>1, <1>4, <1>8, <1>9
  <2>2. CASE <<p, o>> \in empty
    BY <1>1, <2>2
  <2>3. ASSUME NEW x \in messages \cap emitted, x.p = p, x.o = o
        PROVE  x \in messages' \cap emitted'
    <3>1. ~(x.id <= id)
      <4> SUFFICES ASSUME x.id <= id PROVE FALSE
        OBVIOUS
      <4>1. p \in DOMAIN tm /\ o + 1 <= tm[p]
        BY <1>6, <2>3
      <4>2. committed'[p] = tm[p] /\ tm[p] \in Nat
        BY <1>7, <1>8, <4>1
      <4> QED BY <2>1, <4>1, <4>2
    <3>2. x.id > id
      BY <1>4, <3>1
    <3> QED BY <1>1, <3>2
  <2> QED BY <1>3, <2>1, <2>2, <2>3 DEF CommitsInv
<1>11. ASSUME NEW x \in messages' \cap emitted', verdicts'[x.id] = <<"ack">>
       PROVE  \E i \in DOMAIN replies' : replies'[i].id = x.id /\ replies'[i].cb = "ack"
  <2>1. x \in messages /\ x \in emitted /\ x.id > id /\ x.id \in Nat
    BY <1>1, <1>4
  <2>2. PICK i \in DOMAIN replies : replies[i].id = x.id /\ replies[i].cb = "ack"
    BY <1>3, <1>11, <2>1 DEF CommitsInv
  <2>3. /\ Head(replies) = replies[1]
        /\ i = 1 \/ (i - 1 \in DOMAIN replies' /\ replies'[i - 1] = replies[i])
    BY TailFacts
  <2>4. i # 1
    BY <2>1, <2>2, <2>3
  <2> QED BY <2>2, <2>3, <2>4
<1>12. ASSUME NEW x \in messages'
       PROVE  committed'[x.p] <= x.o /\ x.o < pos'[x.p]
  <2>1. x \in messages /\ x.id > id /\ x.id \in Nat /\ x.o \in Nat /\ x.p \in Partitions
    BY <1>1, <1>4
  <2>2. committed[x.p] <= x.o /\ x.o < pos[x.p]
    BY <1>3, <2>1 DEF CommitsInv
  <2>3. CASE x.p \in DOMAIN tm
    <3>1. PICK y \in messages : y.id <= id /\ y.p = x.p /\ tm[x.p] = y.o + 1
      BY <1>6, <2>3
    <3>2. y.id < x.id /\ y.o \in Nat
      BY <1>4, <2>1, <3>1
    <3>3. y.o < x.o
      BY <1>3, <2>1, <3>1, <3>2 DEF CommitsInv
    <3> QED BY <1>1, <1>8, <2>1, <2>2, <2>3, <3>1, <3>2, <3>3
  <2>4. CASE x.p \notin DOMAIN tm
    BY <1>1, <1>8, <2>1, <2>2, <2>4
  <2> QED BY <2>3, <2>4
<1>13. \A x, y \in messages' : x.p = y.p /\ x.id < y.id => x.o < y.o
  BY <1>1, <1>3 DEF CommitsInv
<1>14. \A p \in Partitions : committed'[p] <= pos'[p]
  BY <1>1, <1>9
<1> QED BY <1>10, <1>11, <1>12, <1>13, <1>14 DEF CommitsInv

LEMMA CommitsKeep ==
  ASSUME DeliveryInv, CommitsInv, [Next]_deliveryVars
  PROVE  CommitsInv'
<1>1. SourceTypes /\ SinkInv /\ SinkTypes
  BY DEF DeliveryInv, SinkInv
<1>2. ASSUME ~tx, tx' = tx PROVE CommitsInv'
  BY <1>2 DEF CommitsInv, Smooth
<1>3. ASSUME UNCHANGED <<source, sourceBounds, tx, verdicts, replies>> PROVE CommitsInv'
  BY <1>3 DEF CommitsInv, Smooth, source, sourceBounds
<1>4. ASSUME NEW p \in Partitions, NEW k \in 0 .. 2, NEW sendFails \in BOOLEAN, Read(p, k, sendFails)
      PROVE  CommitsInv'
  <2>1. tx' = tx /\ UNCHANGED <<verdicts, replies>>
    BY <1>4 DEF Read, sinkVars
  <2>2. CASE tx /\ Pull(p, k, sendFails)
    BY <1>1, <2>1, <2>2, PullCommits
  <2>3. CASE ~tx
    BY <1>2, <2>1, <2>3
  <2> QED BY <1>4, <2>2, <2>3 DEF Read
<1>5. ASSUME NEW p \in Partitions, Skip(p) PROVE CommitsInv'
  BY <1>1, <1>5, SkipCommits DEF Skip, sinkVars
<1>6. CASE Take \/ Work \/ TokenFails
  BY <1>1, <1>6, SinkCommits
<1>7. CASE Return
  <2>1. /\ tx' = tx /\ verdicts' = verdicts /\ replies # <<>> /\ replies' = Tail(replies)
        /\ replies \in Seq(Replies)
    BY <1>1, <1>7 DEF Return, SinkTypes
  <2>2. PICK id : id = Head(replies).id
    OBVIOUS
  <2>3. id \in Nat
    <3>1. Head(replies) \in Replies
      BY <2>1, TailFacts
    <3> QED BY <2>2, <3>1, IdFacts DEF Replies
  <2>4. CASE SourceAck(id)
    BY <1>1, <2>1, <2>2, <2>3, <2>4, AckCommits
  <2>5. CASE SourceFail(id)
    <3>1. fails \in Nat /\ fails' = fails + 1
      BY <1>1, <2>5 DEF SourceFail, FailAt, SourceTypes
    <3>2. ~Smooth'
      BY <3>1 DEF Smooth
    <3> QED BY <3>2 DEF CommitsInv
  <2>6. CASE ~tx
    BY <1>2, <2>1, <2>6
  <2> QED BY <1>7, <2>2, <2>4, <2>5, <2>6 DEF Return
<1>8. CASE Restart
  <2>1. /\ pos' = committed /\ committed' = committed /\ messages' = {} /\ emitted' = {}
    BY <1>8 DEF Restart, SourceRestart
  <2>2. committed \in [Partitions -> Nat]
    BY <1>1 DEF SourceTypes
  <2>3. \A p \in Partitions : committed'[p] <= pos'[p] /\ committed'[p] .. pos'[p] - 1 = {}
    BY <2>1, <2>2
  <2> QED BY <2>1, <2>3 DEF CommitsInv
<1>9. CASE UNCHANGED deliveryVars
  BY <1>3, <1>9 DEF deliveryVars, sinkVars
<1> QED BY <1>4, <1>5, <1>6, <1>7, <1>8, <1>9 DEF Next

\* For any partitions and messages: an Ack commits all it stands for.  When
\* nothing failed and every event has its Ack, nothing that became an event is
\* left behind.
THEOREM AcksAreCommitted == Spec => []CommitsCatchUp
<1>1. DeliveryInit => CommitsInv
  <2> SUFFICES ASSUME DeliveryInit PROVE CommitsInv
    OBVIOUS
  <2>1. /\ pos = [p \in Partitions |-> 0] /\ committed = [p \in Partitions |-> 0]
        /\ messages = {}
    BY DEF DeliveryInit, SourceInit
  <2> QED BY <2>1 DEF CommitsInv
<1>2. DeliveryInv /\ CommitsInv /\ [Next]_deliveryVars => CommitsInv'
  BY CommitsKeep
<1>3. DeliveryInv /\ CommitsInv => CommitsCatchUp
  <2> SUFFICES ASSUME CommitsInv, tx, fails = 0, errors = 0, replies = <<>>,
                      \A x \in emitted : verdicts[x.id] = <<"ack">>,
                      NEW p \in Partitions, NEW o \in committed[p] .. pos[p] - 1
               PROVE  <<p, o>> \in empty
    BY DEF CommitsCatchUp
  <2>1. <<p, o>> \in empty \/ \E x \in messages \cap emitted : x.p = p /\ x.o = o
    BY DEF CommitsInv, Smooth
  <2>2. \A x \in messages \cap emitted : \E i \in DOMAIN replies : TRUE
    BY DEF CommitsInv, Smooth
  <2>3. DOMAIN replies = {}
    OBVIOUS
  <2> QED BY <2>1, <2>2, <2>3
<1> QED BY <1>1, <1>2, <1>3, DeliveryInductive, PTL DEF Spec

=============================================================================
