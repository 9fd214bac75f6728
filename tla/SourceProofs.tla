---------------------------- MODULE SourceProofs ----------------------------
(***************************************************************************)
(* Proofs about linked sources (module Linked), for any clients, any       *)
(* capacity of the channels and any number of messages and answers; and    *)
(* about the crononome source (module Crononome), for any entries, any     *)
(* schedules, any length of a second and any time.                         *)
(***************************************************************************)
EXTENDS Linked, Crononome, Facts

-----------------------------------------------------------------------------
(* The inductive invariant: types, whose an event and its answers are, the *)
(* requests of rest, the streams of ws.                                    *)

Message == [what : {"data", "start", "end"}, from : Clients]
Response == [ids : SUBSET Nat, values : 1 .. 2 \union {"batch", "marked", "unmarked"}]
Reply == [status : Nat] \union [status : Nat, id : Nat] \union [id : Nat]

LinkedTypes ==
    /\ server \in [proto : {"rest", "ws"}, linked : BOOLEAN]
    /\ peer \in [Clients -> {"away", "waiting", "served", "open", "gone"}]
    /\ listener \in Seq(Message) /\ Len(listener) <= QSIZE
    /\ room \in [Clients -> Seq(Reply)] /\ \A c \in Clients : Len(room[c]) <= QSIZE
    /\ got \in [Clients -> Seq(Reply)]
    /\ back \in Seq(Response)
    /\ eventId \in Nat /\ DOMAIN owner = 0 .. eventId - 1 /\ DOMAIN asked \subseteq 0 .. eventId
    /\ \A e \in DOMAIN owner : owner[e] \in Clients
    /\ \A e \in DOMAIN asked : asked[e] \in Clients
    /\ flight \subseteq DOMAIN owner /\ senders \subseteq prepared
    /\ \A i \in DOMAIN back : back[i].ids \subseteq DOMAIN owner /\ back[i].ids # {}
    /\ sending # Idle =>
        DOMAIN sending = {"left", "to", "id"} /\ sending.to \in Clients /\ sending.id \in Nat

\* A reply is an answer to a message of the client, or no answer at all.
Owned(c, r) == "id" \in DOMAIN r => r.id \in EventsOf(c)

\* An event that has an entry belongs to the client of the entry, and so do the
\* answers on their way to a client.  The entry of an id that no event has yet
\* is the only one that may be another's.
OwnersInv ==
    /\ \A e \in DOMAIN asked : e \in DOMAIN owner => asked[e] = owner[e]
    /\ Rest /\ ~server.linked => DOMAIN asked = {}
    /\ sending # Idle => sending.id \in EventsOf(sending.to)
    /\ \A c \in Clients : \A i \in DOMAIN room[c] : Owned(c, room[c][i])
    /\ \A c \in Clients : \A i \in DOMAIN got[c] : Owned(c, got[c][i])

InChannel(c) == \E i \in DOMAIN listener : listener[i].from = c

\* The first event of a request is known as its own until it is answered.
UnderWay(c) ==
    LET first == Min(EventsOf(c))
    IN  /\ EventsOf(c) # {} /\ first \in DOMAIN asked
        /\ \/ first \in flight \union lapsed
           \/ \E i \in DOMAIN back : Max(back[i].ids) = first

\* A request is one message, and none of its events exist before that is pulled.
RequestsInv ==
    Rest =>
        /\ writing = {} /\ sending = Idle
        /\ \A i \in DOMAIN listener :
            listener[i].what = "data" /\ EventsOf(listener[i].from) = {}
        /\ \A i, j \in DOMAIN listener : listener[i].from = listener[j].from => i = j
        /\ \A c \in Clients :
            /\ Len(got[c]) = IF peer[c] = "served" THEN 1 ELSE 0
            /\ peer[c] = "away" => ~InChannel(c) /\ EventsOf(c) = {}
            /\ peer[c] = "waiting" => server.linked /\ (InChannel(c) \/ UnderWay(c))

Ready(c) == c \in prepared /\ (server.linked => c \in senders)
Starts(i, c) == listener[i].from = c /\ listener[i].what = "start"

\* A stream starts before anything else of it is pulled, and ends last.
StreamsInv ==
    Ws =>
        /\ \A c \in Clients : peer[c] = "away" => ~InChannel(c)
        /\ \A c \in Clients : peer[c] = "open" =>
            Ready(c) \/ \E j \in DOMAIN listener : Starts(j, c)
        /\ \A i \in DOMAIN listener : listener[i].what # "start" =>
            \/ Ready(listener[i].from)
            \/ \E j \in DOMAIN listener : j < i /\ Starts(j, listener[i].from)
        /\ \A i \in DOMAIN listener : listener[i].what = "end" =>
            /\ peer[listener[i].from] = "gone"
            /\ \A j \in DOMAIN listener : j > i => listener[j].from # listener[i].from

LinkedInv == LinkedTypes /\ OwnersInv /\ RequestsInv /\ StreamsInv

-----------------------------------------------------------------------------
(* What the actions do to the channels, the owners and the events.         *)

LEMMA OfferFacts ==
  ASSUME LinkedTypes, NEW c \in Clients, NEW what \in {"data", "start", "end"}, Offer(what, c)
  PROVE  /\ listener' \in Seq(Message) /\ Len(listener') <= QSIZE
         /\ DOMAIN listener' = DOMAIN listener \union {Len(listener) + 1}
         /\ \A i \in DOMAIN listener : i \in Nat /\ i < Len(listener) + 1
         /\ Len(listener) + 1 \in Nat
         /\ \A i \in DOMAIN listener : listener'[i] = listener[i]
         /\ listener'[Len(listener) + 1] = [what |-> what, from |-> c]
<1>1. [what |-> what, from |-> c] \in Message
  BY DEF Message
<1>2. QSIZE \in Nat /\ Len(listener) < QSIZE
  BY LinkedAssumption DEF LinkedAssumption, Offer
<1> QED BY <1>1, <1>2, AppendFacts DEF Offer, LinkedTypes

LEMMA PullFacts ==
  ASSUME LinkedTypes, listener # <<>>, listener' = Tail(listener)
  PROVE  /\ listener' \in Seq(Message) /\ Len(listener') <= QSIZE
         /\ 1 \in DOMAIN listener /\ Head(listener) = listener[1] /\ Head(listener) \in Message
         /\ \A i \in DOMAIN listener' :
              i \in Nat /\ i + 1 \in DOMAIN listener /\ i + 1 > 1 /\ listener'[i] = listener[i + 1]
         /\ \A i \in DOMAIN listener : i \in Nat /\ (i = 1 \/
              (i > 1 /\ i - 1 \in DOMAIN listener' /\ listener'[i - 1] = listener[i]))
<1>1. QSIZE \in Nat /\ listener \in Seq(Message)
  BY LinkedAssumption DEF LinkedAssumption, LinkedTypes
<1>2. /\ Len(listener) \in Nat /\ Len(listener') = Len(listener) - 1
      /\ listener' \in Seq(Message)
  BY <1>1, TailFacts
<1>3. /\ DOMAIN listener = 1 .. Len(listener) /\ DOMAIN listener' = 1 .. Len(listener')
  BY <1>1, <1>2
<1>4. Len(listener') <= QSIZE
  BY <1>1, <1>2 DEF LinkedTypes
<1> QED BY <1>1, <1>2, <1>3, <1>4, TailFacts

LEMMA SameOwners ==
  ASSUME UNCHANGED owner
  PROVE  /\ \A c : EventsOf(c)' = EventsOf(c)
         /\ \A c, r : Owned(c, r) => Owned(c, r)'
BY DEF EventsOf, Owned

\* The events of a pull belong to the client, and nobody else gets an event.
LEMMA RouteFacts ==
  ASSUME LinkedTypes, NEW c \in Clients, NEW n \in 0 .. 2, RouteResult(c, n)
  PROVE  /\ eventId' = eventId + n /\ eventId' \in Nat
         /\ DOMAIN owner \subseteq DOMAIN owner' /\ DOMAIN owner' = 0 .. eventId' - 1
         /\ \A e \in DOMAIN owner' : owner'[e] = IF e < eventId THEN owner[e] ELSE c
         /\ \A e \in DOMAIN owner' : owner'[e] \in Clients
         /\ EventsOf(c)' = EventsOf(c) \union (eventId .. eventId + n - 1)
         /\ \A d : d # c => EventsOf(d)' = EventsOf(d)
         /\ \A d : EventsOf(d) \subseteq EventsOf(d)'
         /\ \A d, r : Owned(d, r) => Owned(d, r)'
         /\ flight' = flight \union (eventId .. eventId + n - 1)
         /\ flight' \subseteq DOMAIN owner'
<1> DEFINE ids == eventId .. eventId + n - 1
<1>1. eventId' = eventId + n /\ eventId \in Nat /\ eventId' \in Nat
  BY DEF RouteResult, LinkedTypes
<1>2. DOMAIN owner = 0 .. eventId - 1 /\ \A e \in ids : e \notin DOMAIN owner
  BY <1>1 DEF LinkedTypes
<1>3. owner' = [e \in DOMAIN owner \union ids |-> IF e \in ids THEN c ELSE owner[e]]
  BY DEF RouteResult
<1>4. DOMAIN owner' = DOMAIN owner \union ids
  BY <1>3
<1>5. DOMAIN owner' = 0 .. eventId' - 1
  BY <1>1, <1>2, <1>4
<1>6. \A e \in DOMAIN owner' : owner'[e] = IF e < eventId THEN owner[e] ELSE c
  BY <1>1, <1>2, <1>3
<1>7. \A e \in DOMAIN owner' : owner'[e] \in Clients
  BY <1>3, <1>4 DEF LinkedTypes
<1>8. EventsOf(c)' = EventsOf(c) \union ids
  BY <1>2, <1>3, <1>4 DEF EventsOf
<1>9. \A d : d # c => EventsOf(d)' = EventsOf(d)
  BY <1>2, <1>3, <1>4 DEF EventsOf
<1>10. /\ \A d : EventsOf(d) \subseteq EventsOf(d)'
       /\ \A d, r : Owned(d, r) => Owned(d, r)'
  BY <1>8, <1>9 DEF Owned
<1>11. flight' = flight \union ids /\ flight' \subseteq DOMAIN owner'
  BY <1>4 DEF RouteResult, LinkedTypes
<1> QED BY <1>1, <1>4, <1>5, <1>6, <1>7, <1>8, <1>9, <1>10, <1>11

\* Which clients have entries after a pull.
LEMMA AskFacts ==
  ASSUME LinkedTypes, NEW c \in Clients, asked' = Ask(c) \/ asked' = Forget(eventId)
  PROVE  /\ DOMAIN asked' \subseteq DOMAIN asked \union {eventId}
         /\ \A e \in DOMAIN asked' : e # eventId => asked'[e] = asked[e]
         /\ \A e \in DOMAIN asked : e # eventId => e \in DOMAIN asked'
         /\ asked' = Ask(c) /\ ~(Rest /\ ~server.linked)
              => eventId \in DOMAIN asked' /\ asked'[eventId] = c
         /\ asked' = Forget(eventId) => eventId \notin DOMAIN asked'
         /\ asked' = Ask(c) /\ Rest /\ ~server.linked => asked' = asked
<1>1. CASE asked' = AskedBy(c)
  <2>1. DOMAIN asked' = DOMAIN asked \union {eventId}
    BY <1>1 DEF AskedBy
  <2>2. \A e \in DOMAIN asked' : asked'[e] = IF e = eventId THEN c ELSE asked[e]
    BY <1>1 DEF AskedBy
  <2>3. asked' # Forget(eventId)
    <3>1. DOMAIN Forget(eventId) = DOMAIN asked \ {eventId}
      BY DEF Forget, Restrict
    <3> QED BY <2>1, <3>1
  <2> QED BY <2>1, <2>2, <2>3 DEF Ask
<1>2. CASE asked' = Forget(eventId)
  <2>1. DOMAIN asked' = DOMAIN asked \ {eventId}
    BY <1>2 DEF Forget, Restrict
  <2>2. \A e \in DOMAIN asked' : asked'[e] = asked[e]
    BY <1>2, <2>1 DEF Forget, Restrict
  <2>3. DOMAIN AskedBy(c) = DOMAIN asked \union {eventId}
    BY DEF AskedBy
  <2> QED BY <2>1, <2>2, <2>3 DEF Ask
<1>3. CASE asked' = asked /\ Rest /\ ~server.linked
  BY <1>3 DEF Forget, Restrict
<1> QED BY <1>1, <1>2, <1>3 DEF Ask

\* What a pull does: the three kinds of message, and what OnEmptyEvent leaves.
LEMMA PullCases ==
  ASSUME LinkedTypes, PullEvent
  PROVE  /\ listener # <<>> /\ listener' = Tail(listener) /\ back = <<>>
         /\ UNCHANGED <<server, sent, sending, room, writing, back, replies, lapsed>>
         /\ Head(listener).from \in Clients /\ listener[1] = Head(listener)
         /\ \/ /\ Head(listener).what = "data" /\ UNCHANGED <<senders, prepared>>
               /\ \E n \in 0 .. 2 : PullData(Head(listener).from, n)
            \/ Head(listener).what = "start" /\ PullStart(Head(listener).from)
            \/ Head(listener).what = "end" /\ PullEnd(Head(listener).from)
<1>1. listener # <<>> /\ listener' = Tail(listener) /\ back = <<>>
  BY DEF PullEvent
<1>2. Head(listener) \in Message /\ listener[1] = Head(listener)
  BY <1>1, PullFacts
<1>3. \A c : Results(c) \subseteq 0 .. 2
  BY DEF Results
<1>4. lapsed' = lapsed
  BY DEF PullEvent, PullData, PullStart, PullEnd
<1> QED BY <1>1, <1>2, <1>3, <1>4 DEF PullEvent, Message, PullData

LEMMA AskOrForget ==
  ASSUME NEW c, NEW n, PullData(c, n)
  PROVE  /\ asked' = Ask(c) \/ asked' = Forget(eventId)
         /\ asked' = Ask(c) \/ (Rest /\ server.linked /\ n = 0)
BY DEF PullData, OnEmptyEvent

\* The event a response answers is one that was sent.
LEMMA AnsweredFacts ==
  ASSUME LinkedTypes, back # <<>>
  PROVE  Answered(Head(back)) \in Head(back).ids /\ Answered(Head(back)) \in DOMAIN owner
<1>1. Head(back) = back[1] /\ 1 \in DOMAIN back
  BY TailFacts DEF LinkedTypes
<1>2. Head(back).ids \subseteq 0 .. eventId - 1 /\ Head(back).ids # {}
  BY <1>1 DEF LinkedTypes
<1>3. eventId - 1 \in Nat
  BY <1>2 DEF LinkedTypes
<1>4. Max(Head(back).ids) \in Head(back).ids
  BY <1>2, <1>3, GreatestOfNaturals
<1> QED BY <1>2, <1>4 DEF Answered, LinkedTypes

-----------------------------------------------------------------------------
(* Type correctness.                                                       *)

\* One more reply for a client, in a channel or received.
LEMMA GrowFacts ==
  ASSUME NEW f \in [Clients -> Seq(Reply)], NEW c \in Clients, NEW r \in Reply,
         NEW g, g = [f EXCEPT ![c] = Append(@, r)]
  PROVE  /\ g \in [Clients -> Seq(Reply)] /\ Len(f[c]) \in Nat /\ Len(g[c]) = Len(f[c]) + 1
         /\ \A d \in Clients : d # c => g[d] = f[d]
         /\ \A i \in DOMAIN g[c] : g[c][i] = r \/ (i \in DOMAIN f[c] /\ g[c][i] = f[c][i])
<1>1. f[c] \in Seq(Reply)
  OBVIOUS
<1>2. PICK s : s = Append(f[c], r)
  OBVIOUS
<1>3. /\ s \in Seq(Reply) /\ Len(f[c]) \in Nat /\ Len(s) = Len(f[c]) + 1
      /\ \A i \in DOMAIN s : s[i] = r \/ (i \in DOMAIN f[c] /\ s[i] = f[c][i])
  BY <1>1, <1>2, AppendFacts
<1>4. g = [f EXCEPT ![c] = s]
  BY <1>2
<1> QED BY <1>3, <1>4

LEMMA TypesOfPull ==
  ASSUME LinkedTypes, PullEvent
  PROVE  LinkedTypes'
<1>0. PICK c : c = Head(listener).from
  OBVIOUS
<1>1. /\ UNCHANGED <<server, sent, sending, room, writing, back, replies>>
      /\ c \in Clients /\ listener # <<>> /\ listener' = Tail(listener)
  BY <1>0, PullCases
<1>2. listener' \in Seq(Message) /\ Len(listener') <= QSIZE
  BY <1>1, PullFacts
<1>3. ASSUME NEW n \in 0 .. 2, PullData(c, n), UNCHANGED <<senders, prepared>>
      PROVE  LinkedTypes'
  <2>1. RouteResult(c, n)
    BY <1>3 DEF PullData
  <2>2. /\ eventId' \in Nat /\ DOMAIN owner' = 0 .. eventId' - 1
        /\ \A e \in DOMAIN owner' : owner'[e] \in Clients
        /\ flight' \subseteq DOMAIN owner' /\ DOMAIN owner \subseteq DOMAIN owner'
        /\ eventId' = eventId + n
    BY <1>1, <2>1, RouteFacts
  <2>3. DOMAIN asked' \subseteq 0 .. eventId' /\ \A e \in DOMAIN asked' : asked'[e] \in Clients
    <3>1. asked' = Ask(c) \/ asked' = Forget(eventId)
      BY <1>3, AskOrForget
    <3>2. DOMAIN asked' \subseteq DOMAIN asked \union {eventId}
      BY <1>1, <3>1, AskFacts
    <3>3. eventId \in DOMAIN asked' => asked'[eventId] \in Clients
      <4>1. CASE asked' = Forget(eventId)
        BY <1>1, <4>1, AskFacts
      <4>2. CASE asked' = Ask(c) /\ ~(Rest /\ ~server.linked)
        BY <1>1, <4>2, AskFacts
      <4>3. CASE asked' = Ask(c) /\ Rest /\ ~server.linked
        BY <1>1, <4>3, AskFacts DEF LinkedTypes
      <4> QED BY <3>1, <4>1, <4>2, <4>3
    <3>4. \A e \in DOMAIN asked' : e # eventId => asked'[e] = asked[e]
      BY <1>1, <3>1, AskFacts
    <3>5. /\ eventId \in Nat /\ DOMAIN asked \subseteq 0 .. eventId
          /\ \A e \in DOMAIN asked : asked[e] \in Clients
      BY DEF LinkedTypes
    <3>6. DOMAIN asked' \subseteq 0 .. eventId'
      BY <2>2, <3>2, <3>5
    <3> QED BY <3>2, <3>3, <3>4, <3>5, <3>6
  <2>4. peer' \in [Clients -> {"away", "waiting", "served", "open", "gone"}]
    <3>1. \/ peer' = peer \/ peer' = [peer EXCEPT ![c] = "served"]
          \/ peer' = [d \in Clients |-> IF peer[d] = "waiting" THEN "gone" ELSE peer[d]]
      BY <1>3 DEF PullData, OnEmptyEvent
    <3> QED BY <1>1, <3>1 DEF LinkedTypes
  <2>5. got' \in [Clients -> Seq(Reply)]
    <3>1. PICK r \in Reply : r = [status |-> 400]
      <4>1. [status |-> 400] \in [status : Nat]
        OBVIOUS
      <4> QED BY <4>1, Zenon DEF Reply
    <3>2. got' = got \/ got' = [got EXCEPT ![c] = Append(@, r)]
      BY <1>3, <3>1 DEF PullData, OnEmptyEvent
    <3>3. got \in [Clients -> Seq(Reply)] /\ c \in Clients
      BY <1>1 DEF LinkedTypes
    <3>4. got' = [got EXCEPT ![c] = Append(@, r)] => got' \in [Clients -> Seq(Reply)]
      BY <3>3, GrowFacts
    <3> QED BY <3>2, <3>3, <3>4
  <2> QED BY <1>1, <1>2, <1>3, <2>2, <2>3, <2>4, <2>5 DEF LinkedTypes, Idle
<1>4. CASE PullStart(c) \/ PullEnd(c)
  <2>1. UNCHANGED <<asked, got, peer, ended, eventId, flight, lapsed, owner>>
    BY <1>4 DEF PullStart, PullEnd
  <2>2. senders' \subseteq prepared'
    BY <1>4 DEF PullStart, PullEnd, LinkedTypes
  <2> QED BY <1>1, <1>2, <2>1, <2>2 DEF LinkedTypes, Idle
<1> QED BY <1>0, <1>3, <1>4, PullCases

LEMMA TypesOfReply ==
  ASSUME LinkedTypes, ReplyEvent
  PROVE  LinkedTypes'
<1>0. PICK id : id = Answered(Head(back))
  OBVIOUS
<1>1. /\ back # <<>> /\ back' = Tail(back)
      /\ UNCHANGED <<server, sent, listener, eventId, senders, prepared, ended, room, writing,
                     flight, replies, owner, lapsed>>
      /\ \/ Rest /\ ReplyRest(Head(back), id)
         \/ Ws /\ ReplyWs(Head(back), id)
         \/ ReplyNobody(id)
  BY <1>0 DEF ReplyEvent
<1>2. id \in DOMAIN owner /\ id \in Nat
  <2>1. id \in DOMAIN owner
    BY <1>0, <1>1, AnsweredFacts
  <2> QED BY <2>1 DEF LinkedTypes
<1>3. /\ back' \in Seq(Response)
      /\ \A i \in DOMAIN back' : back'[i].ids \subseteq DOMAIN owner' /\ back'[i].ids # {}
  BY <1>1, TailFacts DEF LinkedTypes
<1>4. CASE ReplyRest(Head(back), id)
  <2>0. PICK c : c = asked[id]
    OBVIOUS
  <2>1. c \in Clients /\ id \in DOMAIN asked /\ asked' = Forget(id) /\ sending' = sending
    BY <1>4, <2>0 DEF ReplyRest, LinkedTypes
  <2>2. DOMAIN asked' = DOMAIN asked \ {id} /\ \A e \in DOMAIN asked' : asked'[e] = asked[e]
    BY <2>1 DEF Forget, Restrict
  <2>3. peer' \in [Clients -> {"away", "waiting", "served", "open", "gone"}]
    <3>1. peer' = peer \/ peer' = [peer EXCEPT ![c] = "served"]
      BY <1>4, <2>0 DEF ReplyRest
    <3> QED BY <2>1, <3>1 DEF LinkedTypes
  <2>4. got' \in [Clients -> Seq(Reply)]
    <3>1. PICK x \in Nat : x = IF Head(back).values = "marked" THEN 200 ELSE 500
      OBVIOUS
    <3>2. PICK r \in Reply : r = [status |-> x, id |-> id]
      BY <1>2 DEF Reply
    <3>3. got' = got \/ got' = [got EXCEPT ![c] = Append(@, r)]
      BY <1>4, <2>0, <3>1, <3>2 DEF ReplyRest
    <3>4. got \in [Clients -> Seq(Reply)] /\ c \in Clients
      BY <2>1 DEF LinkedTypes
    <3>5. got' = [got EXCEPT ![c] = Append(@, r)] => got' \in [Clients -> Seq(Reply)]
      BY <3>4, GrowFacts
    <3> QED BY <3>3, <3>4, <3>5
  <2> QED BY <1>1, <1>3, <2>1, <2>2, <2>3, <2>4 DEF LinkedTypes, Idle
<1>5. CASE ReplyWs(Head(back), id)
  <2>1. /\ DOMAIN sending' = {"left", "to", "id"}
        /\ sending'.to \in Clients /\ sending'.id \in Nat /\ UNCHANGED <<asked, got, peer>>
    BY <1>2, <1>5 DEF ReplyWs, LinkedTypes
  <2> QED BY <1>1, <1>3, <2>1 DEF LinkedTypes, Idle
<1>6. CASE ReplyNobody(id)
  BY <1>1, <1>3, <1>6 DEF ReplyNobody, LinkedTypes, Idle
<1> QED BY <1>1, <1>4, <1>5, <1>6

LEMMA TypesOfSend ==
  ASSUME LinkedTypes, SendReply
  PROVE  LinkedTypes'
<1>1. /\ sending # Idle /\ sending.to \in Clients /\ sending.id \in Nat
      /\ UNCHANGED <<server, peer, sent, listener, eventId, asked, senders, prepared, ended,
                     writing, flight, back, replies, got, owner, lapsed>>
  BY DEF SendReply, LinkedTypes
<1>2. sending' # Idle =>
        /\ DOMAIN sending' = {"left", "to", "id"}
        /\ sending'.to = sending.to /\ sending'.id = sending.id
  <2>1. DOMAIN sending = {"left", "to", "id"}
    BY <1>1 DEF LinkedTypes
  <2>2. sending' = Idle \/ sending' = [sending EXCEPT !.left = @ - 1]
    BY DEF SendReply
  <2> QED BY <2>1, <2>2
<1>3. room' \in [Clients -> Seq(Reply)] /\ \A c \in Clients : Len(room'[c]) <= QSIZE
  <2>1. CASE UNCHANGED room
    BY <2>1 DEF LinkedTypes
  <2>2. CASE ~UNCHANGED room
    <3>1. PICK c \in Clients : c = sending.to
      BY <1>1
    <3>2. PICK r \in Reply : r = [id |-> sending.id]
      BY <1>1 DEF Reply
    <3>3. Len(room[c]) < QSIZE /\ room' = [room EXCEPT ![c] = Append(@, r)]
      BY <2>2, <3>1, <3>2 DEF SendReply
    <3>4. /\ room' \in [Clients -> Seq(Reply)] /\ Len(room'[c]) = Len(room[c]) + 1
          /\ Len(room[c]) \in Nat /\ \A d \in Clients : d # c => room'[d] = room[d]
      BY <3>3, GrowFacts DEF LinkedTypes
    <3>5. QSIZE \in Nat
      BY LinkedAssumption DEF LinkedAssumption
    <3> QED BY <3>3, <3>4, <3>5 DEF LinkedTypes
  <2> QED BY <2>1, <2>2
<1> QED BY <1>1, <1>2, <1>3 DEF LinkedTypes, Idle

LEMMA TypesOfAnswer ==
  ASSUME LinkedTypes, Answers
  PROVE  LinkedTypes'
<1>1. PICK ids \in SUBSET flight, again \in BOOLEAN, values \in Values :
        Cardinality(ids) \in 1 .. 2 /\ PipelineAnswers(ids, values, again)
  BY DEF Answers
<1>2. ids # {}
  BY <1>1, FS_EmptySet
<1>3. /\ back' = Append(back, [ids |-> ids, values |-> values])
      /\ flight' \subseteq flight /\ UNCHANGED AtClients
  BY <1>1 DEF PipelineAnswers
<1>4. PICK r \in Response : r = [ids |-> ids, values |-> values]
  <2>1. ids \in SUBSET Nat
    BY DEF LinkedTypes
  <2>2. values \in 1 .. 2 \union {"batch", "marked", "unmarked"}
    BY DEF Values
  <2> QED BY <2>1, <2>2 DEF Response
<1>5. back' = Append(back, r) /\ r.ids = ids
  BY <1>3, <1>4
<1>6. back' \in Seq(Response) /\ \A i \in DOMAIN back' :
        back'[i] = r \/ (i \in DOMAIN back /\ back'[i] = back[i])
  BY <1>5, AppendFacts DEF LinkedTypes
<1>7. \A i \in DOMAIN back' : back'[i].ids \subseteq DOMAIN owner /\ back'[i].ids # {}
  BY <1>2, <1>5, <1>6 DEF LinkedTypes
<1> QED BY <1>3, <1>6, <1>7 DEF LinkedTypes, AtClients, Idle

\* The tasks of the server: they leave the source alone.
LEMMA TypesOfClients ==
  ASSUME LinkedTypes, NEW c \in Clients,
         \/ HandleRequest(c) \/ HangUp(c) \/ Accept(c) \/ ReadMessage(c) \/ ReadClose(c)
         \/ BreakOff(c) \/ WriteResponse(c)
  PROVE  LinkedTypes' /\ UNCHANGED AtSource
<1>1. UNCHANGED AtSource
  BY DEF HandleRequest, HangUp, Accept, ReadMessage, ReadClose, BreakOff, WriteResponse
<1>2. peer' \in [Clients -> {"away", "waiting", "served", "open", "gone"}]
  BY DEF HandleRequest, HangUp, Accept, ReadMessage, ReadClose, BreakOff, WriteResponse,
         LinkedTypes
<1>3. listener' \in Seq(Message) /\ Len(listener') <= QSIZE
  <2>1. UNCHANGED listener \/ \E what \in {"data", "start", "end"} : Offer(what, c)
    BY DEF HandleRequest, HangUp, Accept, ReadMessage, ReadClose, BreakOff, WriteResponse
  <2> QED BY ZenonT(60), <2>1, OfferFacts DEF LinkedTypes
<1>4. room' \in [Clients -> Seq(Reply)] /\ \A d \in Clients : Len(room'[d]) <= QSIZE
  <2>1. CASE UNCHANGED room
    BY <2>1 DEF LinkedTypes
  <2>2. CASE WriteResponse(c)
    <3>1. PICK s : s = Tail(room[c])
      OBVIOUS
    <3>2. /\ room[c] # <<>> /\ room[c] \in Seq(Reply) /\ room \in [Clients -> Seq(Reply)]
          /\ QSIZE \in Nat /\ \A d \in Clients : Len(room[d]) <= QSIZE
      BY <2>2, LinkedAssumption DEF LinkedTypes, WriteResponse, LinkedAssumption
    <3>3. s \in Seq(Reply) /\ Len(s) <= QSIZE
      BY <3>1, <3>2, TailFacts
    <3>4. <<>> \in Seq(Reply) /\ Len(<<>>) <= QSIZE
      BY <3>2
    <3>5. room' = [room EXCEPT ![c] = s] \/ room' = [room EXCEPT ![c] = <<>>]
      BY <2>2, <3>1 DEF WriteResponse
    <3> QED BY <3>2, <3>3, <3>4, <3>5
  <2> QED BY <2>1, <2>2 DEF HandleRequest, HangUp, Accept, ReadMessage, ReadClose, BreakOff
<1>5. got' \in [Clients -> Seq(Reply)]
  <2>1. CASE UNCHANGED got
    BY <2>1 DEF LinkedTypes
  <2>2. CASE WriteResponse(c) /\ ~UNCHANGED got
    <3>1. PICK r : r = Head(room[c])
      OBVIOUS
    <3>2. r \in Reply
      BY <2>2, <3>1, TailFacts DEF WriteResponse, LinkedTypes
    <3>3. got' = [got EXCEPT ![c] = Append(@, r)]
      BY <2>2, <3>1 DEF WriteResponse
    <3> QED BY <3>2, <3>3, GrowFacts DEF LinkedTypes
  <2>3. CASE HandleRequest(c)
    <3>1. PICK r : r = [status |-> 202]
      OBVIOUS
    <3>2. r \in Reply
      <4>1. [status |-> 202] \in [status : Nat]
        OBVIOUS
      <4> QED BY <3>1, <4>1, Zenon DEF Reply
    <3>3. <<r>> \in Seq(Reply)
      BY <3>2
    <3>4. got' = got \/ got' = [got EXCEPT ![c] = <<r>>]
      BY <2>3, <3>1 DEF HandleRequest
    <3> QED BY <3>3, <3>4 DEF LinkedTypes
  <2> QED BY <2>1, <2>2, <2>3 DEF HangUp, Accept, ReadMessage, ReadClose, BreakOff
<1> QED BY <1>1, <1>2, <1>3, <1>4, <1>5 DEF LinkedTypes, AtSource, Idle

LEMMA TypesStep ==
  ASSUME LinkedTypes, LinkedNext
  PROVE  LinkedTypes'
<1>1. ASSUME NEW e \in flight, PipelineDrops(e) PROVE LinkedTypes'
  BY <1>1 DEF PipelineDrops, AtClients, LinkedTypes, Idle
<1> QED BY <1>1, TypesOfClients, TypesOfPull, TypesOfReply, TypesOfSend, TypesOfAnswer
        DEF LinkedNext

-----------------------------------------------------------------------------
(* Whose the answers are.                                                  *)

LEMMA OwnersOfPull ==
  ASSUME LinkedTypes, OwnersInv, PullEvent
  PROVE  OwnersInv'
<1>0. PICK c : c = Head(listener).from
  OBVIOUS
<1>1. UNCHANGED <<server, sent, sending, room, writing, back, replies>> /\ c \in Clients
  BY <1>0, PullCases
<1>2. ASSUME NEW n \in 0 .. 2, PullData(c, n)
      PROVE  OwnersInv'
  <2>1. RouteResult(c, n)
    BY <1>2 DEF PullData
  <2>2. /\ eventId' = eventId + n /\ eventId \in Nat
        /\ DOMAIN owner \subseteq DOMAIN owner' /\ DOMAIN owner' = 0 .. eventId' - 1
        /\ \A e \in DOMAIN owner' : owner'[e] = IF e < eventId THEN owner[e] ELSE c
        /\ \A d, r : Owned(d, r) => Owned(d, r)'
        /\ \A d : EventsOf(d) \subseteq EventsOf(d)'
    BY <1>1, <2>1, RouteFacts DEF LinkedTypes
  <2>3. /\ DOMAIN owner = 0 .. eventId - 1 /\ DOMAIN asked \subseteq 0 .. eventId
    BY DEF LinkedTypes
  <2>4. asked' = Ask(c) \/ (asked' = Forget(eventId) /\ Rest /\ server.linked /\ n = 0)
    BY <1>2, AskOrForget
  <2>5. /\ DOMAIN asked' \subseteq DOMAIN asked \union {eventId}
        /\ \A e \in DOMAIN asked' : e # eventId => asked'[e] = asked[e]
    BY <1>1, <2>4, AskFacts
  <2>6. eventId \in DOMAIN asked' => asked'[eventId] = c
    <3>1. Rest /\ ~server.linked => DOMAIN asked = {}
      BY DEF OwnersInv
    <3> QED BY <1>1, <2>4, <3>1, AskFacts
  <2>7. \A e \in DOMAIN asked' : e \in DOMAIN owner' => asked'[e] = owner'[e]
    <3> SUFFICES ASSUME NEW e \in DOMAIN asked', e \in DOMAIN owner'
                 PROVE  asked'[e] = owner'[e]
      OBVIOUS
    <3>1. CASE e = eventId
      BY <2>2, <2>6, <3>1
    <3>2. CASE e # eventId
      <4>1. e \in DOMAIN asked /\ asked'[e] = asked[e] /\ e < eventId /\ e \in DOMAIN owner
        BY <2>2, <2>3, <2>5, <3>2
      <4> QED BY <2>2, <4>1 DEF OwnersInv
    <3> QED BY <3>1, <3>2
  <2>8. (Rest /\ ~server.linked => DOMAIN asked = {})'
    <3>1. Rest' = Rest /\ server' = server
      BY <1>1 DEF Rest
    <3> QED BY <1>1, <2>4, <3>1, AskFacts DEF OwnersInv
  <2>9. (\A d \in Clients : \A i \in DOMAIN got[d] : Owned(d, got[d][i]))'
    <3>1. PICK r : r = [status |-> 400]
      OBVIOUS
    <3>2. r \in Reply /\ \A d : Owned(d, r)'
      <4>1. [status |-> 400] \in [status : Nat]
        OBVIOUS
      <4>2. DOMAIN r = {"status"}
        BY <3>1
      <4> QED BY <3>1, <4>1, <4>2, Zenon DEF Reply, Owned
    <3>3. \A d \in Clients : \A i \in DOMAIN got[d] : \A x : x = got[d][i] => Owned(d, x)'
      BY <2>2 DEF OwnersInv
    <3>4. got' = got \/ got' = [got EXCEPT ![c] = Append(@, r)]
      BY <1>2, <3>1 DEF PullData, OnEmptyEvent
    <3>5. CASE got' = got
      BY <3>3, <3>5 DEF Owned
    <3>6. CASE got' = [got EXCEPT ![c] = Append(@, r)]
      <4>1. /\ \A d \in Clients : d # c => got'[d] = got[d]
            /\ \A i \in DOMAIN got'[c] : got'[c][i] = r \/
                                         (i \in DOMAIN got[c] /\ got'[c][i] = got[c][i])
        BY <1>1, <3>2, <3>6, GrowFacts DEF LinkedTypes
      <4> QED BY <1>1, <3>2, <3>3, <4>1 DEF Owned
    <3> QED BY <3>4, <3>5, <3>6
  <2>10. (\A d \in Clients : \A i \in DOMAIN room[d] : Owned(d, room[d][i]))'
    BY <1>1, <2>2 DEF OwnersInv, Owned
  <2>11. (sending # Idle => sending.id \in EventsOf(sending.to))'
    BY <1>1, <2>2 DEF OwnersInv, Idle
  <2> QED BY <2>7, <2>8, <2>9, <2>10, <2>11 DEF OwnersInv
<1>3. CASE PullStart(c) \/ PullEnd(c)
  BY <1>1, <1>3, SameOwners DEF PullStart, PullEnd, OwnersInv, Rest, Idle
<1> QED BY <1>0, <1>2, <1>3, PullCases

\* A client that receives one more reply of its own has only its own.
LEMMA OwnGrows ==
  ASSUME NEW f \in [Clients -> Seq(Reply)], NEW c \in Clients, NEW r \in Reply, Owned(c, r),
         \A d \in Clients : \A i \in DOMAIN f[d] : Owned(d, f[d][i]),
         NEW g, g = [f EXCEPT ![c] = Append(@, r)]
  PROVE  \A d \in Clients : \A i \in DOMAIN g[d] : Owned(d, g[d][i])
<1>1. /\ \A d \in Clients : d # c => g[d] = f[d]
      /\ \A i \in DOMAIN g[c] : g[c][i] = r \/ (i \in DOMAIN f[c] /\ g[c][i] = f[c][i])
  BY GrowFacts
<1> QED BY <1>1

LEMMA OwnersOfReply ==
  ASSUME LinkedTypes, OwnersInv, ReplyEvent
  PROVE  OwnersInv'
<1>0. PICK id : id = Answered(Head(back))
  OBVIOUS
<1>1. /\ UNCHANGED <<server, room, owner>> /\ back # <<>>
      /\ \/ Rest /\ ReplyRest(Head(back), id)
         \/ Ws /\ ReplyWs(Head(back), id)
         \/ ReplyNobody(id)
  BY <1>0 DEF ReplyEvent
<1>2. id \in DOMAIN owner /\ id \in Nat
  <2>1. id \in DOMAIN owner
    BY <1>0, <1>1, AnsweredFacts
  <2> QED BY <2>1 DEF LinkedTypes
<1>3. /\ \A c : EventsOf(c)' = EventsOf(c)
      /\ \A c, r : Owned(c, r) => Owned(c, r)'
  BY <1>1, SameOwners
<1>4. (\A d \in Clients : \A i \in DOMAIN room[d] : Owned(d, room[d][i]))'
  BY <1>1, <1>3 DEF OwnersInv, Owned
<1>5. CASE ReplyRest(Head(back), id)
  <2>1. PICK c : c = asked[id]
    OBVIOUS
  <2>2. c \in Clients /\ id \in DOMAIN asked /\ asked' = Forget(id) /\ sending' = sending
    BY <1>5, <2>1 DEF ReplyRest, LinkedTypes
  <2>3. DOMAIN asked' = DOMAIN asked \ {id} /\ \A e \in DOMAIN asked' : asked'[e] = asked[e]
    BY <2>2 DEF Forget, Restrict
  <2>4. id \in EventsOf(c)
    BY <1>2, <2>1, <2>2 DEF OwnersInv, EventsOf
  <2>5. \A d \in Clients : \A i \in DOMAIN got'[d] : Owned(d, got'[d][i])
    <3>1. PICK x \in Nat : x = IF Head(back).values = "marked" THEN 200 ELSE 500
      OBVIOUS
    <3>2. PICK r \in Reply : r = [status |-> x, id |-> id]
      BY <1>2 DEF Reply
    <3>3. got' = got \/ got' = [got EXCEPT ![c] = Append(@, r)]
      BY <1>5, <2>1, <3>1, <3>2 DEF ReplyRest
    <3>4. Owned(c, r)
      BY <2>4, <3>2 DEF Owned
    <3>5. /\ got \in [Clients -> Seq(Reply)]
          /\ \A d \in Clients : \A i \in DOMAIN got[d] : Owned(d, got[d][i])
      BY DEF LinkedTypes, OwnersInv
    <3> QED BY <2>2, <3>3, <3>4, <3>5, OwnGrows
  <2>6. (\A d \in Clients : \A i \in DOMAIN got[d] : Owned(d, got[d][i]))'
    BY <1>3, <2>5 DEF Owned
  <2>7. (sending # Idle => sending.id \in EventsOf(sending.to))'
    BY <1>3, <2>2 DEF OwnersInv, Idle
  <2>8. /\ \A e \in DOMAIN asked' : e \in DOMAIN owner' => asked'[e] = owner'[e]
        /\ (Rest /\ ~server.linked => DOMAIN asked = {})'
    BY <1>1, <2>3 DEF OwnersInv, Rest
  <2> QED BY <1>4, <2>6, <2>7, <2>8 DEF OwnersInv
<1>6. CASE ReplyWs(Head(back), id)
  <2>1. UNCHANGED <<asked, got>>
    BY <1>6 DEF ReplyWs
  <2>2. sending'.id \in EventsOf(sending'.to)
    <3>1. sending'.id = id /\ sending'.to = asked[id] /\ id \in DOMAIN asked
      BY <1>6 DEF ReplyWs
    <3> QED BY <1>2, <3>1 DEF OwnersInv, EventsOf
  <2> QED BY <1>1, <1>3, <1>4, <2>1, <2>2 DEF OwnersInv, Owned, Rest
<1>7. CASE ReplyNobody(id)
  BY <1>1, <1>3, <1>4, <1>7 DEF ReplyNobody, OwnersInv, Owned, Rest, Idle
<1> QED BY <1>1, <1>5, <1>6, <1>7

LEMMA OwnersOfSend ==
  ASSUME LinkedTypes, OwnersInv, SendReply
  PROVE  OwnersInv'
<1>1. /\ sending # Idle /\ sending.to \in Clients /\ sending.id \in Nat
      /\ DOMAIN sending = {"left", "to", "id"} /\ sending.id \in EventsOf(sending.to)
      /\ UNCHANGED <<server, asked, got, owner>>
  BY DEF SendReply, LinkedTypes, OwnersInv
<1>2. /\ \A c : EventsOf(c)' = EventsOf(c)
      /\ \A c, r : Owned(c, r) <=> Owned(c, r)'
  BY <1>1 DEF EventsOf, Owned
<1>3. sending' # Idle => sending'.to = sending.to /\ sending'.id = sending.id
  <2>1. sending' = Idle \/ sending' = [sending EXCEPT !.left = @ - 1]
    BY DEF SendReply
  <2> QED BY <1>1, <2>1
<1>4. \A d \in Clients : \A i \in DOMAIN room'[d] : Owned(d, room'[d][i])
  <2>1. CASE UNCHANGED room
    BY <2>1 DEF OwnersInv
  <2>2. CASE ~UNCHANGED room
    <3>1. PICK c \in Clients : c = sending.to
      BY <1>1
    <3>2. PICK r \in Reply : r = [id |-> sending.id]
      BY <1>1 DEF Reply
    <3>3. room' = [room EXCEPT ![c] = Append(@, r)]
      BY <2>2, <3>1, <3>2 DEF SendReply
    <3>4. Owned(c, r)
      BY <1>1, <3>1, <3>2 DEF Owned
    <3>5. /\ room \in [Clients -> Seq(Reply)]
          /\ \A d \in Clients : \A i \in DOMAIN room[d] : Owned(d, room[d][i])
      BY DEF LinkedTypes, OwnersInv
    <3> QED BY <3>3, <3>4, <3>5, OwnGrows
  <2> QED BY <2>1, <2>2
<1>5. (\A d \in Clients : \A i \in DOMAIN room[d] : Owned(d, room[d][i]))'
  BY <1>2, <1>4 DEF Owned
<1> QED BY <1>1, <1>2, <1>3, <1>5 DEF OwnersInv, Owned, Rest, Idle

LEMMA OwnersOfClients ==
  ASSUME LinkedTypes, OwnersInv, NEW c \in Clients,
         \/ HandleRequest(c) \/ HangUp(c) \/ Accept(c) \/ ReadMessage(c) \/ ReadClose(c)
         \/ BreakOff(c) \/ WriteResponse(c)
  PROVE  OwnersInv'
<1>1. UNCHANGED AtSource
  BY TypesOfClients
<1>2. /\ \A d : EventsOf(d)' = EventsOf(d)
      /\ \A d, r : Owned(d, r) <=> Owned(d, r)'
  BY <1>1 DEF EventsOf, Owned, AtSource
<1>3. /\ got \in [Clients -> Seq(Reply)] /\ room \in [Clients -> Seq(Reply)]
      /\ \A d \in Clients : \A i \in DOMAIN got[d] : Owned(d, got[d][i])
      /\ \A d \in Clients : \A i \in DOMAIN room[d] : Owned(d, room[d][i])
  BY DEF LinkedTypes, OwnersInv
<1>4. \A d \in Clients : \A i \in DOMAIN got'[d] : Owned(d, got'[d][i])
  <2>1. CASE UNCHANGED got
    BY <1>3, <2>1
  <2>2. CASE WriteResponse(c) /\ ~UNCHANGED got
    <3>1. PICK r : r = Head(room[c])
      OBVIOUS
    <3>2. r \in Reply /\ Owned(c, r)
      <4>1. room[c] \in Seq(Reply) /\ room[c] # <<>>
        BY <1>3, <2>2 DEF WriteResponse
      <4>2. r = room[c][1] /\ 1 \in DOMAIN room[c] /\ r \in Reply
        BY <3>1, <4>1, TailFacts
      <4> QED BY <1>3, <4>2
    <3>3. got' = [got EXCEPT ![c] = Append(@, r)]
      BY <2>2, <3>1 DEF WriteResponse
    <3> QED BY <1>3, <3>2, <3>3, OwnGrows
  <2>3. CASE HandleRequest(c)
    <3>1. PICK r : r = [status |-> 202]
      OBVIOUS
    <3>2. Owned(c, r)
      <4>1. DOMAIN r = {"status"}
        BY <3>1
      <4> QED BY <4>1 DEF Owned
    <3>3. DOMAIN <<r>> = {1} /\ <<r>>[1] = r
      OBVIOUS
    <3>4. got' = got \/ got' = [got EXCEPT ![c] = <<r>>]
      BY <2>3, <3>1 DEF HandleRequest
    <3> QED BY <1>3, <3>2, <3>3, <3>4
  <2> QED BY <2>1, <2>2, <2>3 DEF HangUp, Accept, ReadMessage, ReadClose, BreakOff
<1>5. \A d \in Clients : \A i \in DOMAIN room'[d] : Owned(d, room'[d][i])
  <2>1. CASE UNCHANGED room
    BY <1>3, <2>1
  <2>2. CASE WriteResponse(c)
    <3>1. PICK s : s = Tail(room[c])
      OBVIOUS
    <3>2. \A i \in DOMAIN s : Owned(c, s[i])
      <4>1. room[c] \in Seq(Reply) /\ room[c] # <<>>
        BY <1>3, <2>2 DEF WriteResponse
      <4>2. \A i \in DOMAIN s : i + 1 \in DOMAIN room[c] /\ s[i] = room[c][i + 1]
        BY <3>1, <4>1, TailFacts
      <4> QED BY <1>3, <4>2
    <3>3. DOMAIN <<>> = {}
      OBVIOUS
    <3>4. \/ room' = room \/ room' = [room EXCEPT ![c] = s]
          \/ room' = [room EXCEPT ![c] = <<>>]
      BY <2>2, <3>1 DEF WriteResponse
    <3> QED BY <1>3, <3>2, <3>3, <3>4
  <2> QED BY <2>1, <2>2 DEF HandleRequest, HangUp, Accept, ReadMessage, ReadClose, BreakOff
<1>6. /\ (\A d \in Clients : \A i \in DOMAIN room[d] : Owned(d, room[d][i]))'
      /\ (\A d \in Clients : \A i \in DOMAIN got[d] : Owned(d, got[d][i]))'
  BY <1>2, <1>4, <1>5 DEF Owned
<1> QED BY <1>1, <1>2, <1>6 DEF OwnersInv, AtSource, Rest, Idle

LEMMA OwnersStep ==
  ASSUME LinkedTypes, OwnersInv, LinkedNext
  PROVE  OwnersInv'
<1>1. CASE (\E e \in flight : PipelineDrops(e)) \/ Answers
  <2>1. UNCHANGED AtClients
    BY <1>1 DEF PipelineDrops, Answers, PipelineAnswers
  <2> QED BY <2>1, SameOwners DEF OwnersInv, AtClients, Owned, EventsOf, Rest, Idle
<1> QED BY <1>1, OwnersOfClients, OwnersOfPull, OwnersOfReply, OwnersOfSend DEF LinkedNext

-----------------------------------------------------------------------------
(* The requests of rest.                                                   *)

LEMMA FirstEvent ==
  ASSUME LinkedTypes, NEW c, EventsOf(c) # {}
  PROVE  Min(EventsOf(c)) \in EventsOf(c) /\ Min(EventsOf(c)) \in DOMAIN owner
<1>1. EventsOf(c) \subseteq Nat /\ EventsOf(c) \subseteq DOMAIN owner
  BY DEF EventsOf, LinkedTypes
<1> QED BY <1>1, LeastOfNaturals

LEMMA RequestsOfClients ==
  ASSUME LinkedTypes, RequestsInv, NEW c \in Clients,
         \/ HandleRequest(c) \/ HangUp(c) \/ Accept(c) \/ ReadMessage(c) \/ ReadClose(c)
         \/ BreakOff(c) \/ WriteResponse(c)
  PROVE  RequestsInv'
<1>1. UNCHANGED AtSource
  BY TypesOfClients
<1>2. /\ \A d : EventsOf(d)' = EventsOf(d)
      /\ \A d : UnderWay(d) => UnderWay(d)'
      /\ Rest' = Rest /\ (Rest => ~Ws)
  BY <1>1 DEF EventsOf, UnderWay, Rest, Ws, AtSource
<1>3. SUFFICES ASSUME Rest PROVE RequestsInv'
  <2>1. ~Rest' => RequestsInv'
    BY DEF RequestsInv
  <2> QED BY <1>2, <2>1
<1>4. /\ writing = {} /\ sending = Idle
      /\ \A i \in DOMAIN listener :
           listener[i].what = "data" /\ EventsOf(listener[i].from) = {}
      /\ \A i, j \in DOMAIN listener : listener[i].from = listener[j].from => i = j
      /\ \A d \in Clients :
           /\ Len(got[d]) = IF peer[d] = "served" THEN 1 ELSE 0
           /\ peer[d] = "away" => ~InChannel(d) /\ EventsOf(d) = {}
           /\ peer[d] = "waiting" => server.linked /\ (InChannel(d) \/ UnderWay(d))
      /\ peer \in [Clients -> {"away", "waiting", "served", "open", "gone"}]
      /\ server' = server /\ sending' = sending
  BY <1>1, <1>3 DEF RequestsInv, LinkedTypes, AtSource
<1>5. CASE HandleRequest(c)
  <2> DEFINE n == Len(listener) + 1
  <2>1. /\ peer[c] = "away" /\ Offer("data", c) /\ UNCHANGED <<room, writing>>
        /\ peer' = [peer EXCEPT ![c] = IF server.linked THEN "waiting" ELSE "served"]
    BY <1>5 DEF HandleRequest
  <2>2. /\ DOMAIN listener' = DOMAIN listener \union {n}
        /\ \A i \in DOMAIN listener : listener'[i] = listener[i]
        /\ listener'[n] = [what |-> "data", from |-> c]
    BY <2>1, OfferFacts
  <2> HIDE DEF n
  <2>3. listener'[n].what = "data" /\ listener'[n].from = c
    BY <2>2
  <2>4. ~InChannel(c) /\ EventsOf(c) = {}
    BY <1>4, <2>1
  <2>5. (\A i \in DOMAIN listener :
           listener[i].what = "data" /\ EventsOf(listener[i].from) = {})'
    <3>1. \A i \in DOMAIN listener' :
            listener'[i].what = "data" /\ EventsOf(listener'[i].from) = {}
      BY <1>4, <2>2, <2>3, <2>4
    <3> QED BY <1>1, <3>1 DEF EventsOf, AtSource
  <2>6. \A i, j \in DOMAIN listener' : listener'[i].from = listener'[j].from => i = j
    BY <1>4, <2>2, <2>3, <2>4 DEF InChannel
  <2>7. InChannel(c)' /\ \A d : d # c => InChannel(d)' = InChannel(d)
    BY <2>2, <2>3 DEF InChannel
  <2>8. \A d \in Clients : Len(got'[d]) = IF peer'[d] = "served" THEN 1 ELSE 0
    <3>1. PICK r : r = <<[status |-> 202]>>
      OBVIOUS
    <3>2. Len(r) = 1
      BY <3>1
    <3>3. got' = IF server.linked THEN got ELSE [got EXCEPT ![c] = r]
      BY <1>5, <3>1 DEF HandleRequest
    <3>4. got \in [Clients -> Seq(Reply)]
      BY DEF LinkedTypes
    <3> QED BY <1>4, <2>1, <3>2, <3>3, <3>4
  <2>9. \A d \in Clients : peer'[d] = "away" => ~InChannel(d)' /\ EventsOf(d)' = {}
    BY <1>2, <1>4, <2>1, <2>7
  <2>10. \A d \in Clients :
           peer'[d] = "waiting" => server'.linked /\ (InChannel(d)' \/ UnderWay(d)')
    BY <1>2, <1>4, <2>1, <2>7
  <2> QED BY <1>4, <2>1, <2>5, <2>6, <2>8, <2>9, <2>10 DEF RequestsInv, Idle
<1>6. CASE HangUp(c)
  <2>1. /\ peer' = [peer EXCEPT ![c] = "gone"] /\ peer[c] = "waiting"
        /\ UNCHANGED <<listener, writing, got>>
    BY <1>6 DEF HangUp
  <2>2. \A d : InChannel(d)' = InChannel(d)
    BY <2>1 DEF InChannel
  <2> QED BY <1>2, <1>4, <2>1, <2>2 DEF RequestsInv, Idle
<1> QED BY <1>2, <1>3, <1>4, <1>5, <1>6
        DEF Accept, ReadMessage, ReadClose, BreakOff, WriteResponse

LEMMA RequestsOfPull ==
  ASSUME LinkedTypes, RequestsInv, PullEvent
  PROVE  RequestsInv'
<1>0. PICK c : c = Head(listener).from
  OBVIOUS
<1>1. /\ UNCHANGED <<server, sent, sending, room, writing, back, replies, lapsed>>
      /\ c \in Clients /\ listener # <<>> /\ listener' = Tail(listener)
  BY <1>0, PullCases
<1>2. Rest' = Rest
  BY <1>1 DEF Rest
<1>3. SUFFICES ASSUME Rest PROVE RequestsInv'
  <2>1. ~Rest' => RequestsInv'
    BY DEF RequestsInv
  <2> QED BY <1>2, <2>1
<1>4. /\ writing = {} /\ sending = Idle
      /\ \A i \in DOMAIN listener :
           listener[i].what = "data" /\ EventsOf(listener[i].from) = {}
      /\ \A i, j \in DOMAIN listener : listener[i].from = listener[j].from => i = j
      /\ \A d \in Clients :
           /\ Len(got[d]) = IF peer[d] = "served" THEN 1 ELSE 0
           /\ peer[d] = "away" => ~InChannel(d) /\ EventsOf(d) = {}
           /\ peer[d] = "waiting" => server.linked /\ (InChannel(d) \/ UnderWay(d))
      /\ peer \in [Clients -> {"away", "waiting", "served", "open", "gone"}]
  BY <1>3 DEF RequestsInv, LinkedTypes
<1>5. /\ 1 \in DOMAIN listener /\ listener[1].from = c
      /\ \A i \in DOMAIN listener' :
           i \in Nat /\ i + 1 \in DOMAIN listener /\ i + 1 > 1 /\ listener'[i] = listener[i + 1]
      /\ \A i \in DOMAIN listener : i \in Nat /\ (i = 1 \/
           (i > 1 /\ i - 1 \in DOMAIN listener' /\ listener'[i - 1] = listener[i]))
  BY <1>0, <1>1, PullFacts
<1>6. PICK n \in 0 .. 2 : PullData(c, n)
  <2>1. listener[1] = Head(listener) /\ listener[1].what = "data"
    BY <1>4, <1>5, PullCases
  <2> QED BY <1>0, <2>1, PullCases
<1>7. /\ EventsOf(c)' = EventsOf(c) \union (eventId .. eventId + n - 1)
      /\ \A d : d # c => EventsOf(d)' = EventsOf(d)
      /\ flight' = flight \union (eventId .. eventId + n - 1)
  BY <1>1, <1>6, RouteFacts DEF PullData
<1>8. EventsOf(c) = {} /\ InChannel(c) /\ peer[c] # "away"
  BY <1>1, <1>4, <1>5 DEF InChannel
<1>9. \A i \in DOMAIN listener' : listener'[i].from # c
  BY <1>4, <1>5
<1>10. ~InChannel(c)' /\ \A d : d # c => InChannel(d)' = InChannel(d)
  BY <1>5, <1>9 DEF InChannel
<1>11. (\A i \in DOMAIN listener :
         listener[i].what = "data" /\ EventsOf(listener[i].from) = {})'
  <2>1. \A i \in DOMAIN listener' :
          /\ listener'[i].what = "data"
          /\ \A d : d = listener'[i].from => EventsOf(d)' = {}
    <3> SUFFICES ASSUME NEW i \in DOMAIN listener'
                 PROVE  /\ listener'[i].what = "data"
                        /\ \A d : d = listener'[i].from => EventsOf(d)' = {}
      OBVIOUS
    <3>1. i + 1 \in DOMAIN listener /\ listener'[i] = listener[i + 1]
      BY <1>5
    <3>2. listener'[i].what = "data" /\ EventsOf(listener'[i].from) = {}
      BY <1>4, <3>1
    <3> QED BY <1>7, <1>9, <3>2
  <2> QED BY <2>1 DEF EventsOf
<1>12. \A i, j \in DOMAIN listener' : listener'[i].from = listener'[j].from => i = j
  <2> SUFFICES ASSUME NEW i \in DOMAIN listener', NEW j \in DOMAIN listener',
                      listener'[i].from = listener'[j].from
               PROVE  i = j
    OBVIOUS
  <2>1. i + 1 = j + 1 /\ i \in Nat /\ j \in Nat
    BY <1>4, <1>5
  <2> QED BY <2>1
<1>13. \/ UNCHANGED <<got, peer>>
         /\ (peer[c] = "waiting" => n # 0)
       \/ /\ peer[c] = "waiting" /\ peer' = [peer EXCEPT ![c] = "served"]
          /\ got' = [got EXCEPT ![c] = Append(@, [status |-> 400])]
       \/ /\ UNCHANGED got
          /\ peer' = [d \in Clients |-> IF peer[d] = "waiting" THEN "gone" ELSE peer[d]]
  <2>1. peer[c] = "waiting" => server.linked
    BY <1>1, <1>4
  <2> QED BY <1>3, <1>6, <2>1 DEF PullData, OnEmptyEvent
<1>14. \A d \in Clients : Len(got'[d]) = IF peer'[d] = "served" THEN 1 ELSE 0
  <2>1. PICK r \in Reply : r = [status |-> 400]
    <3>1. [status |-> 400] \in [status : Nat]
      OBVIOUS
    <3> QED BY <3>1, Zenon DEF Reply
  <2>2. got' = [got EXCEPT ![c] = Append(@, [status |-> 400])] =>
          got' = [got EXCEPT ![c] = Append(@, r)]
    BY <2>1
  <2>3. ASSUME got' = [got EXCEPT ![c] = Append(@, r)]
        PROVE  /\ Len(got'[c]) = Len(got[c]) + 1
               /\ \A d \in Clients : d # c => got'[d] = got[d]
    BY <1>1, <2>3, GrowFacts DEF LinkedTypes
  <2> QED BY <1>1, <1>4, <1>13, <2>2, <2>3
<1>15. \A d \in Clients : peer'[d] = "away" => peer[d] = "away"
  BY <1>1, <1>4, <1>13
<1>16. \A d \in Clients : peer'[d] = "away" => ~InChannel(d)' /\ EventsOf(d)' = {}
  BY <1>4, <1>7, <1>8, <1>10, <1>15
<1>17. ASSUME NEW d \in Clients, peer'[d] = "waiting"
       PROVE  server'.linked /\ (InChannel(d)' \/ UnderWay(d)')
  <2>1. peer[d] = "waiting" /\ server.linked /\ (d = c => n # 0)
    BY <1>1, <1>4, <1>13, <1>17
  <2>2. asked' = Ask(c) \/ asked' = Forget(eventId)
    BY <1>6, AskOrForget
  <2>3. CASE d = c
    <3>1. asked' = Ask(c)
      BY <1>6, <2>1, <2>3, AskOrForget
    <3>2. eventId \in DOMAIN asked'
      BY <1>1, <2>1, <3>1, AskFacts
    <3>3. eventId \in EventsOf(c)' /\ EventsOf(c)' \subseteq Nat
          /\ \A e \in EventsOf(c)' : eventId <= e
      BY <1>7, <1>8, <2>1, <2>3 DEF LinkedTypes
    <3>4. PICK S : S = EventsOf(c)'
      OBVIOUS
    <3>5. Min(S) = eventId
      <4>1. Min(S) \in S /\ Min(S) <= eventId
        BY <3>3, <3>4, LeastOfNaturals
      <4> QED BY <3>3, <3>4, <4>1 DEF LinkedTypes
    <3>6. eventId \in flight'
      BY <1>7, <2>1, <2>3 DEF LinkedTypes
    <3>7. (EventsOf(c) # {})' /\ Min(EventsOf(c))' = eventId
      BY <3>3, <3>4, <3>5
    <3>8. UnderWay(c)'
      BY <3>2, <3>6, <3>7 DEF UnderWay
    <3> QED BY <1>1, <2>1, <2>3, <3>8
  <2>4. CASE d # c /\ InChannel(d)
    BY <1>1, <1>10, <2>1, <2>4
  <2>5. CASE d # c /\ UnderWay(d)
    <3>1. PICK f : f = Min(EventsOf(d))
      OBVIOUS
    <3>2. /\ EventsOf(d) # {} /\ f \in DOMAIN asked
          /\ f \in flight \union lapsed \/ \E i \in DOMAIN back : Max(back[i].ids) = f
      BY <2>5, <3>1 DEF UnderWay
    <3>3. f \in DOMAIN owner /\ f # eventId
      <4>1. f \in DOMAIN owner
        BY <3>1, <3>2, FirstEvent
      <4> QED BY <4>1 DEF LinkedTypes
    <3>4. f \in DOMAIN asked'
      BY <1>1, <2>2, <3>2, <3>3, AskFacts
    <3>5. EventsOf(d)' = EventsOf(d) /\ Min(EventsOf(d))' = f
      BY <1>7, <2>5, <3>1
    <3>6. UnderWay(d)'
      BY <1>1, <1>7, <3>2, <3>4, <3>5 DEF UnderWay
    <3> QED BY <1>1, <2>1, <3>6
  <2> QED BY <1>4, <2>1, <2>3, <2>4, <2>5
<1> QED BY <1>1, <1>4, <1>11, <1>12, <1>14, <1>16, <1>17 DEF RequestsInv, Idle

LEMMA RequestsOfReply ==
  ASSUME LinkedTypes, OwnersInv, RequestsInv, ReplyEvent
  PROVE  RequestsInv'
<1>0. PICK id : id = Answered(Head(back))
  OBVIOUS
<1>1. /\ back # <<>> /\ back' = Tail(back)
      /\ UNCHANGED <<server, listener, writing, flight, owner, lapsed>>
      /\ \/ Rest /\ ReplyRest(Head(back), id)
         \/ Ws /\ ReplyWs(Head(back), id)
         \/ ReplyNobody(id)
  BY <1>0 DEF ReplyEvent
<1>2. Rest' = Rest /\ (Rest => ~Ws)
  BY <1>1 DEF Rest, Ws
<1>3. SUFFICES ASSUME Rest PROVE RequestsInv'
  <2>1. ~Rest' => RequestsInv'
    BY DEF RequestsInv
  <2> QED BY <1>2, <2>1
<1>4. /\ writing = {} /\ sending = Idle
      /\ \A d \in Clients :
           /\ Len(got[d]) = IF peer[d] = "served" THEN 1 ELSE 0
           /\ peer[d] = "away" => ~InChannel(d) /\ EventsOf(d) = {}
           /\ peer[d] = "waiting" => server.linked /\ (InChannel(d) \/ UnderWay(d))
      /\ peer \in [Clients -> {"away", "waiting", "served", "open", "gone"}]
  BY <1>3 DEF RequestsInv, LinkedTypes
<1>5. /\ \A d : InChannel(d)' = InChannel(d)
      /\ \A d : EventsOf(d)' = EventsOf(d)
      /\ (\A i \in DOMAIN listener :
            listener[i].what = "data" /\ EventsOf(listener[i].from) = {})'
      /\ (\A i, j \in DOMAIN listener : listener[i].from = listener[j].from => i = j)'
  BY <1>1, <1>3 DEF RequestsInv, InChannel, EventsOf
<1>6. ASSUME NEW d \in Clients, NEW f, f = Min(EventsOf(d)), UnderWay(d), f # id, f \in DOMAIN asked'
      PROVE  UnderWay(d)'
  <2>1. \A i \in DOMAIN back : Max(back[i].ids) = f =>
          i - 1 \in DOMAIN back' /\ back'[i - 1] = back[i]
    <3>1. back \in Seq(Response)
      BY DEF LinkedTypes
    <3>2. Max(back[1].ids) = id
      BY <1>0, <1>1, <3>1, TailFacts DEF Answered
    <3> QED BY <1>1, <1>6, <3>1, <3>2, TailFacts
  <2>2. EventsOf(d)' = EventsOf(d) /\ Min(EventsOf(d))' = f
    BY <1>5, <1>6
  <2>3. /\ EventsOf(d) # {}
        /\ f \in flight \union lapsed \/ \E i \in DOMAIN back' : Max(back'[i].ids) = f
    BY <1>6, <2>1 DEF UnderWay
  <2> QED BY <1>1, <1>6, <2>2, <2>3 DEF UnderWay
<1>7. CASE ReplyRest(Head(back), id)
  <2>1. PICK c : c = asked[id]
    OBVIOUS
  <2>2. c \in Clients /\ id \in DOMAIN asked /\ asked' = Forget(id) /\ sending' = sending
    BY <1>7, <2>1 DEF ReplyRest, LinkedTypes
  <2>3. DOMAIN asked' = DOMAIN asked \ {id}
    BY <2>2 DEF Forget, Restrict
  <2>4. \/ UNCHANGED <<got, peer>> /\ peer[c] # "waiting"
        \/ /\ peer[c] = "waiting" /\ peer' = [peer EXCEPT ![c] = "served"]
           /\ Len(got'[c]) = Len(got[c]) + 1 /\ \A d \in Clients : d # c => got'[d] = got[d]
    <3>1. PICK x \in Nat : x = IF Head(back).values = "marked" THEN 200 ELSE 500
      OBVIOUS
    <3>2. id \in Nat
      <4>1. id \in DOMAIN owner
        BY <1>0, <1>1, AnsweredFacts
      <4> QED BY <4>1 DEF LinkedTypes
    <3>3. PICK r \in Reply : r = [status |-> x, id |-> id]
      BY <3>2 DEF Reply
    <3>4. \/ UNCHANGED <<got, peer>> /\ peer[c] # "waiting"
          \/ /\ peer[c] = "waiting" /\ peer' = [peer EXCEPT ![c] = "served"]
             /\ got' = [got EXCEPT ![c] = Append(@, r)]
      <4>1. IF peer[c] = "waiting"
            THEN /\ got' = [got EXCEPT ![c] = Append(@, [status |-> x, id |-> id])]
                 /\ peer' = [peer EXCEPT ![c] = "served"]
            ELSE UNCHANGED <<got, peer>>
        BY <1>7, <2>1, <3>1 DEF ReplyRest
      <4> QED BY <3>3, <4>1
    <3>5. ASSUME got' = [got EXCEPT ![c] = Append(@, r)]
          PROVE  /\ Len(got'[c]) = Len(got[c]) + 1
                 /\ \A d \in Clients : d # c => got'[d] = got[d]
      BY <2>2, <3>5, GrowFacts DEF LinkedTypes
    <3> QED BY <3>4, <3>5
  <2>5. ASSUME NEW d \in Clients
        PROVE  /\ Len(got'[d]) = IF peer'[d] = "served" THEN 1 ELSE 0
               /\ peer'[d] = "away" => peer[d] = "away"
               /\ peer'[d] = "waiting" => peer[d] = "waiting" /\ d # c
    BY <1>4, <2>2, <2>4
  <2>6. ASSUME NEW d \in Clients, peer'[d] = "waiting", UnderWay(d)
        PROVE  UnderWay(d)'
    <3>1. PICK f : f = Min(EventsOf(d))
      OBVIOUS
    <3>2. f \in DOMAIN asked /\ EventsOf(d) # {}
      BY <2>6, <3>1 DEF UnderWay
    <3>3. f \in EventsOf(d)
      BY <3>1, <3>2, FirstEvent
    <3>4. asked[f] = d
      BY <3>2, <3>3 DEF OwnersInv, EventsOf
    <3>5. f # id
      BY <2>1, <2>5, <2>6, <3>4
    <3> QED BY <1>6, <2>3, <2>6, <3>1, <3>2, <3>5
  <2>7. \A d \in Clients :
          peer'[d] = "waiting" => server'.linked /\ (InChannel(d)' \/ UnderWay(d)')
    BY <1>1, <1>4, <1>5, <2>5, <2>6
  <2> QED BY <1>1, <1>4, <1>5, <2>2, <2>5, <2>7 DEF RequestsInv, Idle
<1>8. CASE ReplyNobody(id)
  <2>1. id \notin DOMAIN asked /\ UNCHANGED <<asked, got, peer, sending>>
    BY <1>2, <1>3, <1>8 DEF ReplyNobody
  <2>2. \A d \in Clients : UnderWay(d) => UnderWay(d)'
    <3> SUFFICES ASSUME NEW d \in Clients, UnderWay(d) PROVE UnderWay(d)'
      OBVIOUS
    <3>1. PICK f : f = Min(EventsOf(d))
      OBVIOUS
    <3>2. f \in DOMAIN asked
      BY <3>1 DEF UnderWay
    <3> QED BY <1>6, <2>1, <3>1, <3>2
  <2> QED BY <1>1, <1>4, <1>5, <2>1, <2>2 DEF RequestsInv, Idle
<1> QED BY <1>1, <1>2, <1>3, <1>7, <1>8

LEMMA RequestsOfPipeline ==
  ASSUME LinkedTypes, RequestsInv, (\E e \in flight : PipelineDrops(e)) \/ Answers
  PROVE  RequestsInv'
<1>1. UNCHANGED AtClients
  BY DEF PipelineDrops, Answers, PipelineAnswers
<1>2. Rest' = Rest
  BY <1>1 DEF Rest, AtClients
<1>3. SUFFICES ASSUME Rest PROVE RequestsInv'
  <2>1. ~Rest' => RequestsInv'
    BY DEF RequestsInv
  <2> QED BY <1>2, <2>1
<1>4. ASSUME NEW d \in Clients, UnderWay(d)
      PROVE  UnderWay(d)'
  <2>1. PICK f : f = Min(EventsOf(d))
    OBVIOUS
  <2>2. /\ EventsOf(d) # {} /\ f \in DOMAIN asked
        /\ f \in flight \union lapsed \/ \E i \in DOMAIN back : Max(back[i].ids) = f
    BY <1>4, <2>1 DEF UnderWay
  <2>3. EventsOf(d)' = EventsOf(d) /\ Min(EventsOf(d))' = f /\ DOMAIN asked' = DOMAIN asked
    BY <1>1, <2>1 DEF EventsOf, AtClients
  <2>4. f \in flight' \union lapsed' \/ \E i \in DOMAIN back' : Max(back'[i].ids) = f
    <3>1. ASSUME NEW e \in flight, PipelineDrops(e)
          PROVE  f \in flight' \union lapsed' \/ \E i \in DOMAIN back' : Max(back'[i].ids) = f
      <4>1. /\ flight' = flight \ {e} /\ lapsed' = lapsed \union {e} /\ back' = back
        BY <1>3, <3>1 DEF PipelineDrops, Lapse
      <4> QED BY <2>2, <4>1
    <3>2. ASSUME NEW ids \in SUBSET flight, NEW again \in BOOLEAN, NEW values \in Values,
                 PipelineAnswers(ids, values, again)
          PROVE  f \in flight' \union lapsed' \/ \E i \in DOMAIN back' : Max(back'[i].ids) = f
      <4>1. /\ flight \ ids \subseteq flight' /\ lapsed' = lapsed \union (ids \ {Max(ids)})
            /\ back' = Append(back, [ids |-> ids, values |-> values])
        BY <1>3, <3>2 DEF PipelineAnswers, Lapse
      <4>2. PICK r \in Response : r = [ids |-> ids, values |-> values]
        <5>1. ids \in SUBSET Nat
          BY DEF LinkedTypes
        <5>2. values \in 1 .. 2 \union {"batch", "marked", "unmarked"}
          BY DEF Values
        <5> QED BY <5>1, <5>2 DEF Response
      <4>3. back' = Append(back, r) /\ r.ids = ids
        BY <4>1, <4>2
      <4>4. /\ DOMAIN back \subseteq DOMAIN back' /\ \A i \in DOMAIN back : back'[i] = back[i]
            /\ \E i \in DOMAIN back' : back'[i] = r
        BY <4>3, AppendFacts DEF LinkedTypes
      <4>5. CASE f = Max(ids)
        BY <4>3, <4>4, <4>5
      <4>6. CASE f # Max(ids)
        BY <2>2, <4>1, <4>4, <4>6
      <4> QED BY <4>5, <4>6
    <3> QED BY <3>1, <3>2 DEF Answers
  <2> QED BY <2>2, <2>3, <2>4 DEF UnderWay
<1>5. \A d : InChannel(d)' = InChannel(d) /\ EventsOf(d)' = EventsOf(d)
  BY <1>1 DEF InChannel, EventsOf, AtClients
<1>6. (\A i \in DOMAIN listener :
         listener[i].what = "data" /\ EventsOf(listener[i].from) = {})'
  BY <1>1, <1>3 DEF RequestsInv, EventsOf, AtClients
<1> QED BY <1>1, <1>3, <1>4, <1>5, <1>6 DEF RequestsInv, AtClients, Idle

LEMMA RequestsStep ==
  ASSUME LinkedTypes, OwnersInv, RequestsInv, LinkedNext
  PROVE  RequestsInv'
<1>1. CASE SendReply
  <2>1. ~Rest /\ UNCHANGED server
    BY <1>1 DEF SendReply, RequestsInv
  <2> QED BY <2>1 DEF RequestsInv, Rest
<1> QED BY <1>1, RequestsOfClients, RequestsOfPull, RequestsOfReply, RequestsOfPipeline
        DEF LinkedNext

-----------------------------------------------------------------------------
(* The streams of ws.                                                      *)

LEMMA StreamsOfClients ==
  ASSUME LinkedTypes, StreamsInv, NEW c \in Clients,
         \/ HandleRequest(c) \/ HangUp(c) \/ Accept(c) \/ ReadMessage(c) \/ ReadClose(c)
         \/ BreakOff(c) \/ WriteResponse(c)
  PROVE  StreamsInv'
<1>1. UNCHANGED AtSource
  BY TypesOfClients
<1>2. Ws' = Ws /\ (Ws => ~Rest) /\ \A d : Ready(d)' = Ready(d)
  BY <1>1 DEF Ws, Rest, Ready, AtSource
<1>3. SUFFICES ASSUME Ws PROVE StreamsInv'
  <2>1. ~Ws' => StreamsInv'
    BY DEF StreamsInv
  <2> QED BY <1>2, <2>1
<1>4. /\ \A d \in Clients : peer[d] = "away" => ~InChannel(d)
      /\ \A d \in Clients : peer[d] = "open" =>
           Ready(d) \/ \E j \in DOMAIN listener : Starts(j, d)
      /\ \A i \in DOMAIN listener : listener[i].what # "start" =>
           \/ Ready(listener[i].from)
           \/ \E j \in DOMAIN listener : j < i /\ Starts(j, listener[i].from)
      /\ \A i \in DOMAIN listener : listener[i].what = "end" =>
           /\ peer[listener[i].from] = "gone"
           /\ \A j \in DOMAIN listener : j > i => listener[j].from # listener[i].from
      /\ \A i \in DOMAIN listener : listener[i].from \in Clients
      /\ peer \in [Clients -> {"away", "waiting", "served", "open", "gone"}]
  <2>1. \A i \in DOMAIN listener : listener[i] \in Message
    BY DEF LinkedTypes
  <2> QED BY <1>3, <2>1 DEF StreamsInv, LinkedTypes, Message
<1>5. ASSUME NEW what \in {"data", "start", "end"}, Offer(what, c),
             IF what = "start" THEN peer[c] = "away" ELSE peer[c] = "open",
             peer' = [peer EXCEPT ![c] = IF what = "start" THEN "open"
                                         ELSE IF what = "end" THEN "gone" ELSE peer[c]]
      PROVE  StreamsInv'
  <2>0. PICK n : n = Len(listener) + 1
    OBVIOUS
  <2>1. /\ DOMAIN listener' = DOMAIN listener \union {n}
        /\ \A i \in DOMAIN listener : i \in Nat /\ i < n
        /\ n \in Nat
        /\ \A i \in DOMAIN listener : listener'[i] = listener[i]
        /\ listener'[n] = [what |-> what, from |-> c]
    BY <1>5, <2>0, OfferFacts
  <2>2. listener'[n].what = what /\ listener'[n].from = c
    BY <2>1
  <2>3. \A d : /\ \A j \in DOMAIN listener : Starts(j, d) => Starts(j, d)' /\ j \in DOMAIN listener'
               /\ InChannel(d)' => InChannel(d) \/ d = c
    BY <2>1, <2>2 DEF Starts, InChannel
  <2>4. what = "start" => Starts(n, c)' /\ ~InChannel(c)
    BY <1>4, <1>5, <2>2 DEF Starts
  <2>5. \A d \in Clients : peer'[d] = "away" => ~InChannel(d)'
    BY <1>4, <1>5, <2>3
  <2>6. \A d \in Clients : peer'[d] = "open" =>
           Ready(d)' \/ \E j \in DOMAIN listener' : Starts(j, d)'
    <3> SUFFICES ASSUME NEW d \in Clients, peer'[d] = "open"
                 PROVE  Ready(d)' \/ \E j \in DOMAIN listener' : Starts(j, d)'
      OBVIOUS
    <3>1. CASE d = c /\ what = "start"
      BY <2>1, <2>4, <3>1
    <3>2. CASE ~(d = c /\ what = "start")
      <4>1. peer[d] = "open"
        BY <1>4, <1>5, <3>2
      <4> QED BY <1>2, <1>4, <2>3, <4>1
    <3> QED BY <3>1, <3>2
  <2>7. ASSUME NEW i \in DOMAIN listener', listener'[i].what # "start", NEW d,
               d = listener'[i].from
        PROVE  Ready(d)' \/ \E j \in DOMAIN listener' : j < i /\ Starts(j, d)'
    <3>1. CASE i = n
      <4>1. d = c /\ peer[c] = "open"
        BY <1>5, <2>2, <2>7, <3>1
      <4> QED BY <1>2, <1>4, <2>1, <2>3, <3>1, <4>1
    <3>2. CASE i \in DOMAIN listener
      BY <1>2, <1>4, <2>1, <2>3, <2>7, <3>2
    <3> QED BY <2>1, <3>1, <3>2
  <2>8. \A i \in DOMAIN listener' : listener'[i].what = "end" =>
           /\ peer'[listener'[i].from] = "gone"
           /\ \A j \in DOMAIN listener' : j > i => listener'[j].from # listener'[i].from
    <3> SUFFICES ASSUME NEW i \in DOMAIN listener', listener'[i].what = "end"
                 PROVE  /\ peer'[listener'[i].from] = "gone"
                        /\ \A j \in DOMAIN listener' : j > i =>
                             listener'[j].from # listener'[i].from
      OBVIOUS
    <3>1. CASE i = n
      BY <1>4, <1>5, <2>1, <2>2, <3>1
    <3>2. CASE i \in DOMAIN listener
      <4>1. /\ peer[listener[i].from] = "gone" /\ listener[i].from # c
            /\ listener[i].from \in Clients
        BY <1>4, <1>5, <2>1, <3>2
      <4> QED BY <1>4, <1>5, <2>1, <2>2, <3>2, <4>1
    <3> QED BY <2>1, <3>1, <3>2
  <2>9. (\A i \in DOMAIN listener : listener[i].what # "start" =>
           \/ Ready(listener[i].from)
           \/ \E j \in DOMAIN listener : j < i /\ Starts(j, listener[i].from))'
    BY <2>7 DEF Ready, Starts
  <2> QED BY <2>5, <2>6, <2>8, <2>9 DEF StreamsInv
<1>6. CASE UNCHANGED <<listener, peer>> \/ BreakOff(c)
  <2>1. /\ listener' = listener
        /\ peer' = peer \/ (peer' = [peer EXCEPT ![c] = "gone"])
    BY <1>6 DEF BreakOff
  <2>2. /\ \A d : InChannel(d)' = InChannel(d)
        /\ \A j, d : Starts(j, d)' = Starts(j, d)
        /\ \A d \in Clients : peer'[d] = "away" => peer[d] = "away"
        /\ \A d \in Clients : peer'[d] = "open" => peer[d] = "open"
        /\ \A d \in Clients : peer[d] = "gone" => peer'[d] = "gone"
    BY <1>4, <2>1 DEF InChannel, Starts
  <2>3. (\A i \in DOMAIN listener : listener[i].what # "start" =>
           \/ Ready(listener[i].from)
           \/ \E j \in DOMAIN listener : j < i /\ Starts(j, listener[i].from))'
    BY <1>1, <1>4, <2>1 DEF Ready, Starts, AtSource
  <2>4. (\A d \in Clients : peer[d] = "open" =>
           Ready(d) \/ \E j \in DOMAIN listener : Starts(j, d))'
    BY <1>2, <1>4, <2>1, <2>2
  <2> QED BY <1>4, <2>1, <2>2, <2>3, <2>4 DEF StreamsInv
<1>7. CASE Accept(c)
  BY <1>5, <1>7 DEF Accept
<1>8. CASE ReadClose(c)
  BY <1>5, <1>8 DEF ReadClose
<1>9. CASE ReadMessage(c)
  <2>1. peer' = [peer EXCEPT ![c] = peer[c]]
    BY <1>4, <1>9 DEF ReadMessage
  <2> QED BY <1>5, <1>9, <2>1 DEF ReadMessage
<1>10. CASE WriteResponse(c)
  BY <1>6, <1>10 DEF WriteResponse
<1> QED BY <1>2, <1>3, <1>6, <1>7, <1>8, <1>9, <1>10 DEF HandleRequest, HangUp

LEMMA StreamsOfPull ==
  ASSUME LinkedTypes, StreamsInv, PullEvent
  PROVE  StreamsInv'
<1>0. PICK c : c = Head(listener).from
  OBVIOUS
<1>1. /\ server' = server /\ c \in Clients /\ listener # <<>> /\ listener' = Tail(listener)
  BY <1>0, PullCases
<1>2. Ws' = Ws /\ (Ws => ~Rest)
  BY <1>1 DEF Ws, Rest
<1>3. SUFFICES ASSUME Ws PROVE StreamsInv'
  <2>1. ~Ws' => StreamsInv'
    BY DEF StreamsInv
  <2> QED BY <1>2, <2>1
<1>4. /\ \A d \in Clients : peer[d] = "away" => ~InChannel(d)
      /\ \A d \in Clients : peer[d] = "open" =>
           Ready(d) \/ \E j \in DOMAIN listener : Starts(j, d)
      /\ \A i \in DOMAIN listener : listener[i].what # "start" =>
           \/ Ready(listener[i].from)
           \/ \E j \in DOMAIN listener : j < i /\ Starts(j, listener[i].from)
      /\ \A i \in DOMAIN listener : listener[i].what = "end" =>
           /\ peer[listener[i].from] = "gone"
           /\ \A j \in DOMAIN listener : j > i => listener[j].from # listener[i].from
  BY <1>3 DEF StreamsInv
<1>5. /\ 1 \in DOMAIN listener /\ listener[1] = Head(listener) /\ listener[1].from = c
      /\ \A i \in DOMAIN listener' :
           i \in Nat /\ i + 1 \in DOMAIN listener /\ i + 1 > 1 /\ listener'[i] = listener[i + 1]
      /\ \A i \in DOMAIN listener : i \in Nat /\ (i = 1 \/
           (i > 1 /\ i - 1 \in DOMAIN listener' /\ listener'[i - 1] = listener[i]))
  BY <1>0, <1>1, PullFacts
<1>6. peer' = peer
  BY <1>2, <1>3, PullCases DEF PullData, OnEmptyEvent, PullStart, PullEnd
<1>7. \A d : InChannel(d)' => InChannel(d)
  BY <1>5 DEF InChannel
<1>8. \A d, j : j \in DOMAIN listener /\ Starts(j, d) =>
         \/ j = 1 /\ d = c /\ Head(listener).what = "start"
         \/ j > 1 /\ j - 1 \in DOMAIN listener' /\ Starts(j - 1, d)'
  BY <1>5 DEF Starts
<1>9. \A d : /\ Ready(d) => Ready(d)' \/ (d = c /\ Head(listener).what = "end")
             /\ d = c /\ Head(listener).what = "start" => Ready(d)'
  <2>1. CASE Head(listener).what = "data"
    <3>1. UNCHANGED <<senders, prepared>>
      BY <2>1, PullCases
    <3> QED BY <1>1, <2>1, <3>1 DEF Ready
  <2>2. CASE Head(listener).what = "start"
    <3>1. PullStart(c)
      BY <1>0, <2>2, PullCases
    <3> QED BY <1>1, <2>2, <3>1 DEF Ready, PullStart
  <2>3. CASE Head(listener).what = "end"
    <3>1. PullEnd(c)
      BY <1>0, <2>3, PullCases
    <3> QED BY <1>1, <2>3, <3>1 DEF Ready, PullEnd
  <2> QED BY <2>1, <2>2, <2>3, PullCases
<1>10. Head(listener).what = "end" =>
         peer[c] = "gone" /\ \A i \in DOMAIN listener' : listener'[i].from # c
  BY <1>4, <1>5
<1>11. \A d \in Clients : peer'[d] = "open" =>
         Ready(d)' \/ \E j \in DOMAIN listener' : Starts(j, d)'
  BY <1>4, <1>6, <1>8, <1>9, <1>10
<1>12. ASSUME NEW i \in DOMAIN listener', listener'[i].what # "start", NEW d,
              d = listener'[i].from
       PROVE  Ready(d)' \/ \E j \in DOMAIN listener' : j < i /\ Starts(j, d)'
  <2>1. /\ i \in Nat /\ i + 1 \in DOMAIN listener /\ listener[i + 1].from = d
        /\ listener[i + 1].what # "start"
    BY <1>5, <1>12
  <2>2. CASE Ready(d)
    BY <1>9, <1>10, <1>12, <2>2
  <2>3. CASE \E j \in DOMAIN listener : j < i + 1 /\ Starts(j, d)
    <3>1. PICK j \in DOMAIN listener : j < i + 1 /\ Starts(j, d)
      BY <2>3
    <3>2. j \in Nat
      BY <1>5
    <3>3. CASE j = 1
      BY <1>8, <1>9, <3>1, <3>3
    <3>4. CASE j # 1
      <4>1. j - 1 \in DOMAIN listener' /\ Starts(j - 1, d)' /\ j - 1 < i
        BY <1>8, <2>1, <3>1, <3>2, <3>4
      <4> QED BY <4>1
    <3> QED BY <3>3, <3>4
  <2> QED BY <1>4, <2>1, <2>2, <2>3
<1>13. (\A i \in DOMAIN listener : listener[i].what # "start" =>
          \/ Ready(listener[i].from)
          \/ \E j \in DOMAIN listener : j < i /\ Starts(j, listener[i].from))'
  BY <1>12 DEF Ready, Starts
<1>14. \A i \in DOMAIN listener' : listener'[i].what = "end" =>
         /\ peer'[listener'[i].from] = "gone"
         /\ \A j \in DOMAIN listener' : j > i => listener'[j].from # listener'[i].from
  <2> SUFFICES ASSUME NEW i \in DOMAIN listener', listener'[i].what = "end"
               PROVE  /\ peer'[listener'[i].from] = "gone"
                      /\ \A j \in DOMAIN listener' : j > i =>
                           listener'[j].from # listener'[i].from
    OBVIOUS
  <2>1. i \in Nat /\ i + 1 \in DOMAIN listener /\ listener'[i] = listener[i + 1]
    BY <1>5
  <2>2. \A j \in DOMAIN listener' : /\ j \in Nat /\ j + 1 \in DOMAIN listener
                                    /\ listener'[j] = listener[j + 1]
    BY <1>5
  <2> QED BY <1>4, <1>6, <2>1, <2>2
<1> QED BY <1>4, <1>6, <1>7, <1>11, <1>13, <1>14 DEF StreamsInv

LEMMA StreamsStep ==
  ASSUME LinkedTypes, StreamsInv, LinkedNext
  PROVE  StreamsInv'
<1>1. CASE ReplyEvent \/ SendReply \/ (\E e \in flight : PipelineDrops(e)) \/ Answers
  <2>1. /\ UNCHANGED <<server, listener, senders, prepared>>
        /\ Ws => UNCHANGED peer
    BY <1>1 DEF ReplyEvent, ReplyRest, ReplyWs, ReplyNobody, SendReply, PipelineDrops, Answers,
                PipelineAnswers, AtClients, Rest, Ws
  <2> QED BY <2>1 DEF StreamsInv, InChannel, Ready, Starts, Ws
<1> QED BY <1>1, StreamsOfClients, StreamsOfPull DEF LinkedNext

-----------------------------------------------------------------------------
LEMMA LinkedInitInv == LinkedInit => LinkedInv
<1> SUFFICES ASSUME LinkedInit PROVE LinkedInv
  OBVIOUS
<1>1. /\ \A S : <<>> \in Seq(S)
      /\ Len(<<>>) = 0 /\ DOMAIN <<>> = {} /\ QSIZE \in Nat /\ 0 .. 0 - 1 = {}
  BY LinkedAssumption DEF LinkedAssumption
<1>2. LinkedTypes
  BY <1>1 DEF LinkedInit, LinkedTypes
<1>3. \A c : EventsOf(c) = {} /\ ~InChannel(c)
  BY <1>1 DEF LinkedInit, EventsOf, InChannel
<1>4. OwnersInv
  BY <1>1 DEF LinkedInit, OwnersInv
<1>5. RequestsInv
  BY <1>1, <1>3 DEF LinkedInit, RequestsInv
<1>6. StreamsInv
  BY <1>1, <1>3 DEF LinkedInit, StreamsInv
<1> QED BY <1>2, <1>4, <1>5, <1>6 DEF LinkedInv

LEMMA LinkedInvRight == LinkedInv => RepliesRight
<1> SUFFICES ASSUME LinkedInv PROVE RepliesRight
  OBVIOUS
<1>1. LinkedTypeOK
  BY DEF LinkedInv, LinkedTypes, LinkedTypeOK
<1>2. OwnReplies
  BY DEF LinkedInv, OwnersInv, OwnReplies, Owned
<1>3. RequestsAccounted
  BY DEF LinkedInv, RequestsInv, RequestsAccounted, InChannel, UnderWay
<1>4. StreamsReady
  <2> SUFFICES ASSUME Ws, listener # <<>>, Head(listener).what = "data"
               PROVE  Ready(Head(listener).from)
    BY DEF StreamsReady, Ready
  <2>1. Head(listener) = listener[1] /\ 1 \in DOMAIN listener
        /\ \A j \in DOMAIN listener : j \in Nat /\ j >= 1
    BY TailFacts DEF LinkedInv, LinkedTypes
  <2> QED BY <2>1 DEF LinkedInv, StreamsInv
<1> QED BY <1>1, <1>2, <1>3, <1>4 DEF RepliesRight

\* In a linked rest or ws source no client gets another one's answer, although
\* the id of an event is used again (OwnReplies); a request is answered at most
\* once, and one that waits is in the channel, in the pipeline, about to be
\* answered or given up by the pipeline (RequestsAccounted); no message of a
\* stream is pulled without its preprocessors and its sender (StreamsReady).
THEOREM AnswersReachTheAsker == LinkedSpec => []RepliesRight
<1>1. LinkedInv /\ [LinkedNext]_linkedVars => LinkedInv'
  <2>1. LinkedInv /\ LinkedNext => LinkedInv'
    BY TypesStep, OwnersStep, RequestsStep, StreamsStep DEF LinkedInv
  <2>2. LinkedInv /\ UNCHANGED linkedVars => LinkedInv'
    <3> SUFFICES ASSUME LinkedInv, UNCHANGED linkedVars PROVE LinkedInv'
      OBVIOUS
    <3>1. LinkedTypes'
      BY DEF LinkedInv, linkedVars, LinkedTypes, Idle
    <3>2. OwnersInv'
      BY DEF LinkedInv, linkedVars, OwnersInv, Owned, EventsOf, Rest, Idle
    <3>3. RequestsInv'
      <4>1. /\ \A c : EventsOf(c)' = EventsOf(c) /\ InChannel(c)' = InChannel(c)
            /\ Rest' = Rest /\ Idle' = Idle
        BY DEF linkedVars, EventsOf, InChannel, Rest, Idle
      <4>2. \A c : UnderWay(c) => UnderWay(c)'
        BY <4>1 DEF linkedVars, UnderWay
      <4>3. (\A i \in DOMAIN listener : EventsOf(listener[i].from) = {})' <=>
               \A i \in DOMAIN listener : EventsOf(listener[i].from) = {}
        BY DEF linkedVars, EventsOf
      <4> QED BY <4>1, <4>2, <4>3 DEF LinkedInv, linkedVars, RequestsInv
    <3>4. StreamsInv'
      BY DEF LinkedInv, linkedVars, StreamsInv, InChannel, Ready, Starts, Ws
    <3> QED BY <3>1, <3>2, <3>3, <3>4 DEF LinkedInv
  <2> QED BY <2>1, <2>2
<1> QED BY <1>1, LinkedInitInv, LinkedInvRight, PTL DEF LinkedSpec

-----------------------------------------------------------------------------
(* The crononome source: facts about the helpers.                          *)

\* The whole seconds of a time only grow with it.
LEMMA TimestampMonotone ==
  ASSUME NEW a \in Nat, NEW b \in Nat, a <= b
  PROVE  Timestamp(a) \in Nat /\ Timestamp(a) <= Timestamp(b)
<1> USE CrononomeAssumption DEF CrononomeAssumption
<1> QED BY DEF Timestamp

-----------------------------------------------------------------------------
(* The inductive invariant.                                                *)

Item == [at : Nat, what : Entries]
Trigger == [entry : Entries, at : Nat, popped : Nat, queued : Nat]

CronTypes ==
    /\ sched \in [Entries -> SUBSET Nat] /\ time \in Nat /\ started \in Nat
    /\ cq \subseteq Item /\ triggers \subseteq Trigger

\* Items are due after the start.  An item that was triggered was back in the
\* queue at once: no trigger is ahead of the clock.
CronInv ==
    /\ CronTypes
    /\ TriggersExact
    /\ started <= Timestamp(time)
    /\ \A item \in cq : item.at > started
    /\ \A t \in triggers : t.popped <= t.queued /\ t.queued <= Timestamp(time)

\* What enqueue puts into the queue: the next time of the entry, if there is one.
LEMMA EnqueueNext ==
  ASSUME sched \in [Entries -> SUBSET Nat], NEW e \in Entries, NEW now \in Nat
  PROVE  /\ Enqueue(e, now) \subseteq Item
         /\ \A i, j \in Enqueue(e, now) : i = j
         /\ \A i \in Enqueue(e, now) :
              i.what = e /\ i.at \in sched[e] /\ i.at > Timestamp(now)
         /\ \A s \in sched[e] : s > Timestamp(now) => \E i \in Enqueue(e, now) : i.at <= s
<1> DEFINE U == Upcoming(e, now)
<1>1. U \subseteq Nat /\ \A s \in U : s \in sched[e] /\ s > Timestamp(now)
  BY DEF Upcoming
<1>2. U # {} => Min(U) \in U /\ \A y \in U : Min(U) <= y
  BY <1>1, LeastOfNaturals
<1>3. U = {} => Enqueue(e, now) = {}
  BY DEF Enqueue
<1>4. U # {} => Enqueue(e, now) = {[at |-> Min(U), what |-> e]}
  BY DEF Enqueue
<1>5. \A s \in sched[e] : s > Timestamp(now) => s \in U
  BY DEF Upcoming
<1> HIDE DEF U
<1>6. CASE U = {}
  BY <1>3, <1>5, <1>6
<1>7. CASE U # {}
  <2>1. PICK m : m = Min(U)
    OBVIOUS
  <2>2. m \in U /\ m \in Nat /\ m > Timestamp(now) /\ m \in sched[e] /\ \A y \in U : m <= y
    BY <1>1, <1>2, <1>7, <2>1
  <2>3. Enqueue(e, now) = {[at |-> m, what |-> e]}
    BY <1>4, <1>7, <2>1
  <2> QED BY <1>5, <2>2, <2>3 DEF Item
<1> QED BY <1>6, <1>7

LEMMA CronInitInv == CronInit => CronInv
<1> SUFFICES ASSUME CronInit PROVE CronInv
  OBVIOUS
<1>1. sched \in [Entries -> SUBSET Nat] /\ time \in Nat
  BY CrononomeAssumption DEF CronInit, CrononomeAssumption
<1>2. started = Timestamp(time) /\ started \in Nat /\ triggers = {}
  BY <1>1, TimestampMonotone DEF CronInit
<1>3. \A item : item \in cq <=> \E e \in Entries : item \in Enqueue(e, time)
  BY DEF CronInit
<1>4. \A item \in cq : /\ item \in Item /\ item \in Enqueue(item.what, time)
                       /\ item.at \in sched[item.what] /\ item.at > started
  BY <1>1, <1>2, <1>3, EnqueueNext
<1>5. \A i, j \in cq : i.what = j.what => i = j
  BY <1>1, <1>4, EnqueueNext DEF Item
<1>6. \A e \in Entries : \A s \in sched[e] : s > started =>
         \E item \in cq : item.what = e /\ item.at <= s
  BY <1>1, <1>2, <1>3, EnqueueNext
<1>7. TriggersExact
  BY <1>2, <1>4, <1>5, <1>6 DEF TriggersExact, CronTypeOK, TriggersOf
<1> QED BY <1>1, <1>2, <1>4, <1>7 DEF CronInv, CronTypes

LEMMA CronStep ==
  ASSUME CronInv, [CronNext]_cronVars
  PROVE  CronInv'
<1> USE DEF CronInv
<1>1. ASSUME NEW item \in cq, NEW later \in {time, time + 1}, PullCron(item, later)
      PROVE  CronInv'
  <2> DEFINE e == item.what
             new == [entry |-> e, at |-> item.at, popped |-> Timestamp(time),
                     queued |-> Timestamp(later)]
  <2>1. /\ e \in Entries /\ item.at \in Nat /\ item.at > started /\ item.at \in sched[e]
        /\ item.at <= Timestamp(time)
    BY <1>1 DEF CronTypes, Item, PullCron, Due, TriggersExact, CronTypeOK
  <2>2. later \in Nat /\ time <= later /\ time' = later
    BY <1>1 DEF CronTypes, PullCron
  <2>3. /\ Timestamp(time) \in Nat /\ Timestamp(later) \in Nat
        /\ Timestamp(time) <= Timestamp(later)
    BY <2>2, TimestampMonotone DEF CronTypes
  <2>4. /\ cq' = (cq \ {item}) \union Enqueue(e, later)
        /\ triggers' = triggers \union {new}
        /\ sched' = sched /\ started' = started
    BY <1>1 DEF PullCron
  <2>5. new \in Trigger
    BY <2>1, <2>3 DEF Trigger
  <2>6. /\ Enqueue(e, later) \subseteq Item
        /\ \A i, j \in Enqueue(e, later) : i = j
        /\ \A i \in Enqueue(e, later) :
             i.what = e /\ i.at \in sched[e] /\ i.at > Timestamp(later)
        /\ \A s \in sched[e] : s > Timestamp(later) => \E i \in Enqueue(e, later) : i.at <= s
    BY <2>1, <2>2, EnqueueNext DEF CronTypes
  <2>7. CronTypes'
    BY <2>2, <2>4, <2>5, <2>6 DEF CronTypes
  <2>8. started' <= Timestamp(time)'
    BY <2>2, <2>3, <2>4 DEF CronTypes, Timestamp
  <2>9. \A i \in cq \ {item} : i \in Item /\ i.what # e
    BY <2>1 DEF TriggersExact, CronTypeOK, CronTypes
  <2>10. \A i \in cq' : i \in Item /\ i.at > started'
    BY <2>3, <2>4, <2>6, <2>8, <2>2 DEF CronTypes, Item
  <2>11. Timestamp(time)' = Timestamp(later)
    BY <2>2 DEF Timestamp
  <2>12. \A t \in triggers' : t.popped <= t.queued /\ t.queued <= Timestamp(time)'
    BY <2>3, <2>4, <2>11 DEF CronTypes, Trigger
  <2>13. CronTypeOK'
    <3>1. \A i \in cq' : i.at \in sched'[i.what]
      BY <2>4, <2>6 DEF TriggersExact, CronTypeOK
    <3>2. \A i, j \in cq' : i.what = j.what => i = j
      BY <2>4, <2>6, <2>9 DEF TriggersExact, CronTypeOK
    <3> QED BY <3>1, <3>2 DEF CronTypeOK
  <2>14. \A t \in triggers' : t.at \in sched'[t.entry] /\ t.at > started' /\ t.popped >= t.at
    BY <2>1, <2>3, <2>4 DEF TriggersExact
  <2>15. ASSUME NEW f \in Entries
         PROVE  \A t, u \in TriggersOf(f)' : t # u => t.queued < u.at \/ u.queued < t.at
    <3>1. \A t \in TriggersOf(e) : t.queued < item.at
      BY <2>1 DEF TriggersExact
    <3>2. TriggersOf(f)' = IF f = e THEN TriggersOf(f) \union {new} ELSE TriggersOf(f)
      BY <2>4 DEF TriggersOf
    <3>3. \A t, u \in TriggersOf(f) : t # u => t.queued < u.at \/ u.queued < t.at
      BY DEF TriggersExact
    <3>4. new.at = item.at
      OBVIOUS
    <3> HIDE DEF new
    <3> QED BY <3>1, <3>2, <3>3, <3>4
  <2>16. ASSUME NEW f \in Entries, NEW i \in cq', i.what = f, NEW t \in TriggersOf(f)'
         PROVE  t.queued < i.at
    <3>1. CASE i \in Enqueue(e, later)
      BY <2>6, <2>7, <2>10, <2>11, <2>12, <3>1, <2>3 DEF TriggersOf, Item, CronTypes, Trigger
    <3>2. CASE i \in cq \ {item}
      <4>1. f # e /\ t \in TriggersOf(f)
        BY <2>4, <2>9, <2>16, <3>2 DEF TriggersOf
      <4> QED BY <2>16, <3>2, <4>1 DEF TriggersExact
    <3> QED BY <2>4, <2>16, <3>1, <3>2
  <2>17. ASSUME NEW f \in Entries, NEW s \in sched'[f], s > started'
         PROVE  \/ \E t \in TriggersOf(f)' : t.at <= s /\ s <= t.queued
                \/ \E i \in cq' : i.what = f /\ i.at <= s
    <3>1. s \in sched[f] /\ s \in Nat /\ s > started
      BY <2>4, <2>17 DEF CronTypes
    <3>2. CASE \E t \in TriggersOf(f) : t.at <= s /\ s <= t.queued
      BY <2>4, <3>2 DEF TriggersOf
    <3>3. CASE \E i \in cq : i.what = f /\ i.at <= s
      <4>1. PICK i \in cq : i.what = f /\ i.at <= s
        BY <3>3
      <4>2. CASE i # item
        BY <2>4, <4>1, <4>2
      <4>3. CASE i = item /\ s <= Timestamp(later)
        <5>1. new \in TriggersOf(f)' /\ new.at <= s /\ s <= new.queued
          BY <2>4, <4>1, <4>3 DEF TriggersOf
        <5> QED BY <5>1
      <4>4. CASE i = item /\ s > Timestamp(later)
        BY <2>4, <2>6, <3>1, <4>1, <4>4
      <4> QED BY <2>3, <3>1, <4>2, <4>3, <4>4
    <3> QED BY <3>1, <3>2, <3>3 DEF TriggersExact
  <2>18. TriggersExact'
    BY <2>13, <2>14, <2>15, <2>16, <2>17 DEF TriggersExact
  <2> QED BY <2>7, <2>8, <2>10, <2>12, <2>18
<1>2. CASE Tick
  <2>1. time' = time + 1 /\ UNCHANGED <<sched, started, cq, triggers>>
    BY <1>2 DEF Tick
  <2>2. Timestamp(time) \in Nat /\ Timestamp(time') \in Nat /\ Timestamp(time) <= Timestamp(time')
    BY <2>1, TimestampMonotone DEF CronTypes
  <2>3. TriggersExact'
    BY <2>1 DEF TriggersExact, CronTypeOK, TriggersOf
  <2>4. CronTypes'
    BY <2>1 DEF CronTypes
  <2>5. Timestamp(time)' = Timestamp(time')
    BY DEF Timestamp
  <2> QED BY <2>1, <2>2, <2>3, <2>4, <2>5 DEF CronTypes, Trigger
<1>3. CASE UNCHANGED cronVars
  BY <1>3 DEF cronVars, CronTypes, TriggersExact, CronTypeOK, TriggersOf, Timestamp
<1> QED BY <1>1, <1>2, <1>3 DEF CronNext

\* The crononome triggers an entry only at a time of its schedule after the
\* start, never early and once for each, and passes a time over only if it had
\* come by the time an earlier one was put back: for any schedules, even ones
\* that never end, and however late the source is pulled (pull_event).
THEOREM NeverEarlyNorTwice == CronSpec => []TriggersExact
<1>1. CronInv /\ [CronNext]_cronVars => CronInv'
  BY CronStep
<1>2. CronInv => TriggersExact
  BY DEF CronInv
<1> QED BY <1>1, <1>2, CronInitInv, PTL DEF CronSpec

=============================================================================
