------------------------------- MODULE Linked -------------------------------
(***************************************************************************)
(* Linked sources: a rest or a websocket source that gives the answers of  *)
(* the pipeline back to its clients (src/source/rest.rs, src/source/ws.rs) *)
(* and the part of the source manager that drives it (src/source.rs).      *)
(*                                                                         *)
(* A client of rest is a request, a client of ws a connection, which is    *)
(* also its stream: numbers of streams only grow.  Both reach the source   *)
(* over one channel.  The source remembers who asked under the id that the *)
(* next event will have; a message may become no event, or several.  What  *)
(* the pipeline does with events is open: it drops them, answers one or    *)
(* several at once, or answers twice.                                      *)
(***************************************************************************)
EXTENDS Integers, Sequences, FiniteSets, FiniteSetsExt, SequencesExt, Functions

CONSTANTS
    Clients,        \* requests, or connections
    QSIZE,          \* capacity of a bounded channel
    MaxSent,        \* bound: messages of a connection
    MaxReplies      \* bound: answers of the pipeline

ASSUME LinkedAssumption == QSIZE \in Nat \ {0} /\ MaxSent \in Nat /\ MaxReplies \in Nat

VARIABLES
    server,         \* the configuration: [proto, linked]
    peer,           \* where each client is
    sent,           \* messages each connection has sent
    listener,       \* channel from the clients to the source
    eventId,         \* id of the source manager
    asked,          \* response_txes or messages: event id -> client
    senders,        \* streams of ws: the clients that can be written to
    prepared,       \* streams that have preprocessors
    ended,          \* run() has returned with an error
    sending,        \* the reply that reply_event is sending
    room,           \* channel to the task that writes to a connection
    writing,        \* connections whose write task lives
    flight,         \* events in the pipeline
    back,           \* Response messages on their way to the source
    replies,        \* how many there were
    got,            \* what each client received
    owner,          \* history: event id -> client
    lapsed          \* history, of rest: events that the pipeline gives no
                    \* answer of their own

linkedVars == <<server, peer, sent, listener, eventId, asked, senders, prepared, ended, sending,
                room, writing, flight, back, replies, got, owner, lapsed>>

Rest == server.proto = "rest"
Ws == server.proto = "ws"

Idle == [left |-> 0]
AskedBy(c) == [e \in DOMAIN asked \union {eventId} |-> IF e = eventId THEN c ELSE asked[e]]
Forget(e) == Restrict(asked, DOMAIN asked \ {e})

Lapse(ids) == lapsed' = IF Rest THEN lapsed \union ids ELSE lapsed

LinkedInit ==
    /\ server \in [proto : {"rest", "ws"}, linked : BOOLEAN]
    /\ peer = [c \in Clients |-> "away"] /\ sent = [c \in Clients |-> 0]
    /\ listener = <<>> /\ eventId = 0 /\ asked = <<>>
    /\ senders = {} /\ prepared = {} /\ ended = FALSE /\ sending = Idle
    /\ room = [c \in Clients |-> <<>>] /\ writing = {}
    /\ flight = {} /\ back = <<>> /\ replies = 0
    /\ got = [c \in Clients |-> <<>>] /\ owner = <<>> /\ lapsed = {}

-----------------------------------------------------------------------------
(* Clients: tasks of the server.                                           *)

Offer(what, c) ==
    /\ Len(listener) < QSIZE
    /\ listener' = Append(listener, [what |-> what, from |-> c])

AtSource == <<server, eventId, asked, senders, prepared, ended, sending, flight, back, replies,
              owner, lapsed>>

\* handle_request: a linked source lets the request wait, another one says 202.
HandleRequest(c) ==
    /\ Rest /\ ~ended /\ peer[c] = "away" /\ Offer("data", c)
    /\ peer' = [peer EXCEPT ![c] = IF server.linked THEN "waiting" ELSE "served"]
    /\ got' = IF server.linked THEN got ELSE [got EXCEPT ![c] = <<[status |-> 202]>>]
    /\ UNCHANGED <<sent, room, writing, AtSource>>

\* The client gives up; its request is dropped with the end it receives on.
HangUp(c) ==
    /\ Rest /\ peer[c] = "waiting" /\ peer' = [peer EXCEPT ![c] = "gone"]
    /\ UNCHANGED <<sent, listener, room, writing, got, AtSource>>

\* handle_connection, up to its loop
Accept(c) ==
    /\ Ws /\ peer[c] = "away" /\ Offer("start", c)
    /\ peer' = [peer EXCEPT ![c] = "open"]
    /\ writing' = IF server.linked THEN writing \union {c} ELSE writing
    /\ UNCHANGED <<sent, room, got, AtSource>>

ReadMessage(c) ==
    /\ Ws /\ peer[c] = "open" /\ sent[c] < MaxSent /\ Offer("data", c)
    /\ sent' = [sent EXCEPT ![c] = @ + 1]
    /\ UNCHANGED <<peer, room, writing, got, AtSource>>

ReadClose(c) ==
    /\ Ws /\ peer[c] = "open" /\ Offer("end", c)
    /\ peer' = [peer EXCEPT ![c] = "gone"]
    /\ UNCHANGED <<sent, room, writing, got, AtSource>>

\* The connection breaks: the loop ends without a word to the source.
BreakOff(c) ==
    /\ Ws /\ peer[c] = "open" /\ peer' = [peer EXCEPT ![c] = "gone"]
    /\ UNCHANGED <<sent, listener, room, writing, got, AtSource>>

\* The write task sends a response, or ends with the connection.
WriteResponse(c) ==
    /\ c \in writing /\ room[c] # <<>>
    /\ IF peer[c] = "open"
       THEN /\ got' = [got EXCEPT ![c] = Append(@, Head(room[c]))]
            /\ room' = [room EXCEPT ![c] = Tail(@)]
            /\ UNCHANGED writing
       ELSE /\ writing' = writing \ {c} /\ room' = [room EXCEPT ![c] = <<>>]
            /\ UNCHANGED got
    /\ UNCHANGED <<peer, sent, listener, AtSource>>

-----------------------------------------------------------------------------
(* The source manager: handle_pipelines has emptied its channel before it  *)
(* pulls.                                                                  *)

Free == ~ended /\ sending = Idle

AskOnce(c) == IF eventId \in DOMAIN asked THEN asked ELSE AskedBy(c)

\* pull_event notes who asks under the id of the next event.
Ask(c) == IF Rest /\ ~server.linked THEN asked ELSE AskedBy(c)

\* make_event_data: how many results a message has.  An error, as without
\* preprocessors, is a result too.
Results(c) == IF Rest \/ c \in prepared THEN 0 .. 2 ELSE {1}

\* route_result: each result is an event with an id, on whichever port.  An event
\* of a port that is not connected is one that the pipeline drops.
RouteResult(c, n) ==
    LET ids == eventId .. eventId + n - 1
    IN  /\ eventId' = eventId + n
        /\ flight' = flight \union ids
        /\ owner' = [e \in DOMAIN owner \union ids |-> IF e \in ids THEN c ELSE owner[e]]

OnEmptyEventSilent(c) == asked' = Ask(c) /\ UNCHANGED <<got, peer, ended>>

\* on_empty_event of rest answers at once, and an answer that nobody receives
\* is an error, with which run() returns: the senders are dropped, and so are
\* all requests.  The one of ws does nothing.
OnEmptyEvent(c) ==
    IF Rest /\ server.linked
    THEN /\ asked' = Forget(eventId)
         /\ IF peer[c] = "waiting"
            THEN /\ got' = [got EXCEPT ![c] = Append(@, [status |-> 400])]
                 /\ peer' = [peer EXCEPT ![c] = "served"]
                 /\ UNCHANGED ended
            ELSE /\ ended' = TRUE /\ UNCHANGED got
                 /\ peer' = [d \in Clients |-> IF peer[d] = "waiting" THEN "gone" ELSE peer[d]]
    ELSE asked' = Ask(c) /\ UNCHANGED <<got, peer, ended>>

PullData(c, n) ==
    /\ IF n = 0 THEN OnEmptyEvent(c)
       ELSE asked' = Ask(c) /\ UNCHANGED <<got, peer, ended>>
    /\ RouteResult(c, n)
    /\ UNCHANGED <<senders, prepared, lapsed>>

PullStart(c) ==
    /\ senders' = IF server.linked THEN senders \union {c} ELSE senders
    /\ prepared' = prepared \union {c}
    /\ UNCHANGED <<asked, got, peer, ended, eventId, flight, lapsed, owner>>

PullEnd(c) ==
    /\ senders' = senders \ {c} /\ prepared' = prepared \ {c}
    /\ UNCHANGED <<asked, got, peer, ended, eventId, flight, lapsed, owner>>

PullEvent ==
    /\ Free /\ back = <<>> /\ listener # <<>> /\ listener' = Tail(listener)
    /\ LET c == Head(listener).from
       IN  \/ /\ Head(listener).what = "data"
              /\ \E n \in Results(c) : PullData(c, n)
           \/ Head(listener).what = "start" /\ PullStart(c)
           \/ Head(listener).what = "end" /\ PullEnd(c)
    /\ UNCHANGED <<server, sent, sending, room, writing, back, replies>>

AnsweredFirst(response) == Min(response.ids)

\* The event that a response answers: the greatest id it stands for.
Answered(response) == Max(response.ids)

\* reply_event of rest, 200 for a response that says how to respond.  A batch is
\* an error: the sender is dropped, and handle_request fails with it.
ReplyRest(response, id) ==
    /\ id \in DOMAIN asked /\ asked' = Forget(id)
    /\ LET c == asked[id]
           status == IF response.values = "marked" THEN 200 ELSE 500
       IN  IF peer[c] = "waiting"
           THEN /\ got' = [got EXCEPT ![c] = Append(@, [status |-> status, id |-> id])]
                /\ peer' = [peer EXCEPT ![c] = "served"]
           ELSE UNCHANGED <<got, peer>>
    /\ UNCHANGED sending

\* reply_event of ws: one message for every value, each of which may wait.
ReplyWs(response, id) ==
    /\ id \in DOMAIN asked /\ asked[id] \in senders
    /\ sending' = [left |-> response.values, to |-> asked[id], id |-> id]
    /\ UNCHANGED <<asked, got, peer>>

\* Nobody is there to be answered.
ReplyNobody(id) ==
    /\ ~(id \in DOMAIN asked /\ (Ws => asked[id] \in senders))
    /\ UNCHANGED <<asked, got, peer, sending>>

ReplyEvent ==
    /\ Free /\ back # <<>> /\ back' = Tail(back)
    /\ LET id == Answered(Head(back))
       IN  \/ Rest /\ ReplyRest(Head(back), id)
           \/ Ws /\ ReplyWs(Head(back), id)
           \/ ReplyNobody(id)
    /\ UNCHANGED <<server, sent, listener, eventId, senders, prepared, ended, room, writing,
                   flight, replies, owner, lapsed>>

\* One value goes to the write task; if that has ended, the rest is dropped.
SendReply ==
    /\ sending # Idle
    /\ IF sending.to \in writing
       THEN /\ Len(room[sending.to]) < QSIZE
            /\ room' = [room EXCEPT ![sending.to] = Append(@, [id |-> sending.id])]
            /\ sending' = IF sending.left = 1 THEN Idle ELSE [sending EXCEPT !.left = @ - 1]
       ELSE sending' = Idle /\ UNCHANGED room
    /\ UNCHANGED <<server, peer, sent, listener, eventId, asked, senders, prepared, ended,
                   writing, flight, back, replies, got, owner, lapsed>>

-----------------------------------------------------------------------------
(* The pipeline and what is linked behind it.                              *)

AtClients == <<server, peer, sent, listener, eventId, asked, senders, prepared, ended, sending,
               room, writing, got, owner>>

\* For ws this is the same as no answer.
PipelineDrops(e) ==
    /\ Rest /\ flight' = flight \ {e} /\ Lapse({e})
    /\ UNCHANGED <<back, replies, AtClients>>

\* again: the events may be answered once more.
PipelineAnswers(ids, values, again) ==
    /\ server.linked /\ replies < MaxReplies /\ replies' = replies + 1
    /\ back' = Append(back, [ids |-> ids, values |-> values])
    /\ flight' = IF again THEN flight ELSE flight \ ids
    /\ Lapse(ids \ {Max(ids)})
    /\ UNCHANGED AtClients

\* What a response holds: ws looks at the number of values, rest at whether it
\* is a batch and says how to respond.
Values == IF Ws THEN 1 .. 2 ELSE {"batch", "marked", "unmarked"}

\* For ws no event has to be given up.
Answers ==
    \E ids \in {s \in SUBSET flight : Cardinality(s) \in 1 .. 2}, again \in BOOLEAN,
       values \in Values : (Ws => again) /\ PipelineAnswers(ids, values, again)

LinkedNext ==
    \/ \E c \in Clients :
        \/ HandleRequest(c) \/ HangUp(c) \/ Accept(c) \/ ReadMessage(c) \/ ReadClose(c)
        \/ BreakOff(c) \/ WriteResponse(c)
    \/ PullEvent \/ ReplyEvent \/ SendReply
    \/ (\E e \in flight : PipelineDrops(e)) \/ Answers

LinkedSpec == LinkedInit /\ [][LinkedNext]_linkedVars

-----------------------------------------------------------------------------
(* Properties                                                              *)

EventsOf(c) == {e \in DOMAIN owner : owner[e] = c}

LinkedTypeOK ==
    /\ peer \in [Clients -> {"away", "waiting", "served", "open", "gone"}]
    /\ Len(listener) <= QSIZE /\ \A c \in Clients : Len(room[c]) <= QSIZE
    /\ DOMAIN owner = 0 .. eventId - 1 /\ DOMAIN asked \subseteq 0 .. eventId
    /\ flight \subseteq DOMAIN owner /\ senders \subseteq prepared

\* No client is given the answer to another one's message, although an id is
\* used again after a message that became no event.
OwnReplies ==
    \A c \in Clients : \A i \in DOMAIN got[c] :
        "id" \in DOMAIN got[c][i] => got[c][i].id \in EventsOf(c)

\* A request is answered at most once; while it waits, it is in the channel,
\* or its first event is, or an answer to it, unless the pipeline gave none.
RequestsAccounted ==
    Rest => \A c \in Clients :
        /\ Len(got[c]) = IF peer[c] = "served" THEN 1 ELSE 0
        /\ peer[c] = "waiting" =>
            \/ \E i \in DOMAIN listener : listener[i].from = c
            \/ /\ EventsOf(c) # {}
               /\ \/ Min(EventsOf(c)) \in flight \union lapsed
                  \/ \E i \in DOMAIN back : Max(back[i].ids) = Min(EventsOf(c))

\* A message is pulled while its stream has its preprocessors and its sender.
StreamsReady ==
    Ws /\ listener # <<>> /\ Head(listener).what = "data" =>
        LET c == Head(listener).from
        IN  c \in prepared /\ (server.linked => c \in senders)

\* What comes back from the pipeline reaches the client that asked, once, and
\* a request of rest waits only for what is still under way, or for what the
\* pipeline never answered.
RepliesRight == LinkedTypeOK /\ OwnReplies /\ RequestsAccounted /\ StreamsReady
=============================================================================
