------------------------------- MODULE Deploy -------------------------------
(***************************************************************************)
(* Deploying: World (src/system.rs) with the repositories of artefacts     *)
(* (src/repository.rs), the registries of running servants                 *)
(* (src/registry.rs), Artefact::link and unlink                            *)
(* (src/repository/artefact.rs), and the messages by which onramps,        *)
(* pipelines and offramps connect and disconnect (src/source.rs,           *)
(* src/pipeline.rs, src/offramp.rs).                                       *)
(*                                                                         *)
(* A request runs in the task of its client.  Every call to a repository,  *)
(* a registry or a manager is a message and an answer, and anything may    *)
(* happen between two of them: a request is a list of operations, done one *)
(* at a time, that grows where the code calls another function.  An error  *)
(* ends the request and undoes nothing.                                    *)
(*                                                                         *)
(* Every artefact has one instance, so it stands for both.  The metrics    *)
(* pipeline, linked offramps, linked onramps and the err port of an onramp *)
(* are left out.                                                           *)
(***************************************************************************)
EXTENDS Integers, Sequences, SequencesExt, FiniteSets

CONSTANTS
    Onramps, Pipelines, Offramps,
    Bindings,
    Links,          \* the links of a binding, [from, port, tos], in the order of the map
    Clients,
    Removable,      \* bound: what clients unpublish
    Sessions,       \* bound: how many requests each client makes and about which bindings
    MaxTasks,       \* bound: tasks started
    MaxFaults       \* bound: servants that do not start and onramps that end on their own

Ramps == Onramps \cup Offramps
Servants == Ramps \cup Pipelines
Ids == Servants \cup Bindings

ASSUME DeployAssumption ==
    /\ MaxTasks \in Nat /\ MaxFaults \in Nat
    /\ Onramps \cap Offramps = {} /\ Ramps \cap Pipelines = {} /\ Servants \cap Bindings = {}
    /\ \A x \in Sessions : \A c \in Clients : x[c].bindings \subseteq Bindings
    /\ Links \in [Bindings -> Seq([from : Servants, port : STRING, tos : Seq(Servants)])]
    /\ \A b \in Bindings : \A i \in DOMAIN Links[b] :
          /\ Links[b][i].from \in Onramps \cup Pipelines
          /\ \A j \in DOMAIN Links[b][i].tos :
                Links[b][i].tos[j] \in IF Links[b][i].from \in Onramps THEN Pipelines
                                       ELSE Pipelines \cup Offramps

VARIABLES
    published,  \* artefacts in the repositories
    bound,      \* artefacts whose RepoWrapper.instances is not empty
    reg,        \* the registries: the task of a servant, or None
    tasks,      \* the tasks that were started
    todo,       \* what a client has still to do
    answers,    \* what the client's Disconnect was answered
    session,    \* what the clients may do
    requests,   \* how many requests each client made
    contended,  \* history: what two requests had to do with at the same time
    errors,     \* history: kinds of requests that failed on the way
    ends,       \* history: onramps that ended on their own
    spawnErrors \* history: servants that did not start

vars == <<published, bound, reg, tasks, todo, answers, session, requests,
          contended, errors, ends, spawnErrors>>
repo == <<published, bound>>
counters == <<session, requests, ends, spawnErrors>>

None == 0

\* A TremorUrl: the instance and the port
Url(s, port) == <<s, port>>
Instance(u) == u[1]
TrimToInstance(u) == Url(Instance(u), "")

----------------------------------------------------------------------------
(* Requests as lists of operations                                         *)

Op(name, u) == [op |-> name, u |-> u]
Connect(u, v) == [op |-> "connect", u |-> u, v |-> v]
Cut(u, v) == [op |-> "cut", u |-> u, v |-> v]
CutOutput(u, v) == [op |-> "cutOutput", u |-> u, v |-> v]
ConnectedTo(u, t, v) == [op |-> "connectTo", u |-> u, t |-> t, v |-> v]
Send(u, t, m) == [op |-> "send", u |-> u, t |-> t, m |-> m]
Ask(u, t, v) == [op |-> "ask", u |-> u, t |-> t, v |-> v]

\* link_pipeline, link_onramp, link_offramp: the artefact must be there, the
\* servant is bound if it is not running
LinkTo(u, v) == <<Op("need", u), Op("ensure", u), Connect(u, v)>>

\* One link of a binding: both ends are made to run, then connected; an offramp
\* is told about its pipeline as well.
LinkOps(f, t) ==
    <<Op("ensure", t), Op("ensure", f)>> \o LinkTo(f, t)
       \o (IF Instance(t) \in Offramps THEN LinkTo(t, f) ELSE <<>>)

Pairs(b, from) ==
    FlattenSeq([i \in DOMAIN Links[b] |->
        IF Links[b][i].from \in from
        THEN [j \in DOMAIN Links[b][i].tos |->
                <<Url(Links[b][i].from, Links[b][i].port), Url(Links[b][i].tos[j], "in")>>]
        ELSE <<>>])

\* World::link_binding and Binding::link: pipelines before onramps
LinkBindingOps(b) ==
    FlattenSeq([i \in DOMAIN Pairs(b, Pipelines) |-> LinkOps(Pairs(b, Pipelines)[i][1], Pairs(b, Pipelines)[i][2])])
    \o FlattenSeq([i \in DOMAIN Pairs(b, Onramps) |-> LinkOps(Pairs(b, Onramps)[i][1], Pairs(b, Onramps)[i][2])])
    \o <<Op("ensureBinding", Url(b, ""))>>

\* The onramps' part of Binding::unlink: the mappings are a map by port, so only
\* the last pipeline of an onramp is in it; if there is none, the channel for the
\* answers is made for no answer, which panics (artefact.rs:421).
UnlinkOnrampOps(l) ==
    LET u == Url(l.from, l.port)
    IN  <<Op("need", u), IF l.tos = <<>> THEN Op("fail", u) ELSE Cut(u, Url(Last(l.tos), "in"))>>

\* The pipelines' part
UnlinkPipelineOps(l) ==
    LET u == Url(l.from, l.port)
    IN  FlattenSeq([j \in DOMAIN l.tos |->
            LET v == Url(l.tos[j], "in")
            IN  <<Op("need", u), CutOutput(u, v)>>
                \o (IF l.tos[j] \in Offramps THEN <<Op("need", v), Cut(v, u)>> ELSE <<>>)])

\* World::unlink_binding and Binding::unlink: onramps before pipelines, and a
\* pipeline only by the first of its ports.
UnlinkBindingOps(b) ==
    LET ls == Links[b]
        Again(i) == \E j \in 1 .. i - 1 : ls[j].from = ls[i].from
    IN  FlattenSeq([i \in DOMAIN ls |-> IF ls[i].from \in Onramps THEN UnlinkOnrampOps(ls[i]) ELSE <<>>])
        \o FlattenSeq([i \in DOMAIN ls |->
              IF ls[i].from \in Pipelines /\ ~Again(i) THEN UnlinkPipelineOps(ls[i]) ELSE <<>>])
        \o <<Op("unlistBinding", Url(b, "")), Op("unregister", Url(b, ""))>>

----------------------------------------------------------------------------

Init ==
    /\ published = Ids /\ bound = {} /\ reg = [s \in Ids |-> None]
    /\ tasks = <<>>
    /\ todo = [c \in Clients |-> <<>>] /\ answers = [c \in Clients |-> <<>>]
    /\ session \in Sessions /\ requests = [c \in Clients |-> 0] /\ contended = {} /\ errors = {} /\ ends = 0 /\ spawnErrors = 0

Idle(c) == todo[c] = <<>>
Doing(c, name) == ~Idle(c) /\ Head(todo[c]).op = name
Now(c) == Head(todo[c])

\* What a list of operations has to do with, and what two clients' lists share.
Names(o) == {Instance(o.u)} \cup (IF "v" \in DOMAIN o THEN {Instance(o.v)} ELSE {})
                            \cup (IF "m" \in DOMAIN o THEN {Instance(o.m.url)} ELSE {})
AllNames(ops) == UNION {Names(ops[i]) : i \in DOMAIN ops}
Shared(lists) == {s \in Ids : \E c, d \in Clients : c # d /\ s \in AllNames(lists[c]) \cap AllNames(lists[d])}

Set(c, ops) == todo' = [todo EXCEPT ![c] = ops] /\ contended' = contended \cup Shared(todo')
Go(c, ops) == Set(c, ops \o Tail(todo[c])) /\ UNCHANGED errors
Kind(c) == IF Last(todo[c]).op = "ensureBinding" THEN "link" ELSE "unlink"
Fail(c) == Set(c, <<>>) /\ errors' = errors \cup {Kind(c)}

\* The Err(..)s of the requests below that change nothing are left out.
Request(c) ==
    /\ Idle(c) /\ requests[c] < session[c].requests
    /\ requests' = [requests EXCEPT ![c] = @ + 1]
    /\ UNCHANGED session

\* Repository::publish
Publish(c) ==
    /\ Request(c)
    /\ \E a \in Ids \ published : published' = published \cup {a}
    /\ UNCHANGED <<bound, reg, tasks, todo, answers, contended, errors, ends, spawnErrors>>

\* Faulty variant: the instances are not looked at.
CanUnpublishAny(a) == a \in published

CanUnpublish(a) == a \in published /\ a \notin bound

\* Repository::unpublish
Unpublish(c) ==
    /\ Request(c)
    /\ \E a \in Removable : CanUnpublish(a) /\ published' = published \ {a}
    /\ UNCHANGED <<bound, reg, tasks, todo, answers, contended, errors, ends, spawnErrors>>

LinkBinding(c) ==
    /\ Request(c)
    /\ \E b \in session[c].bindings \cap published : Set(c, LinkBindingOps(b))
    /\ UNCHANGED <<repo, reg, tasks, answers, errors, ends, spawnErrors>>

UnlinkBinding(c) ==
    /\ Request(c)
    /\ \E b \in session[c].bindings : reg[b] # None /\ Set(c, UnlinkBindingOps(b))
    /\ UNCHANGED <<repo, reg, tasks, answers, errors, ends, spawnErrors>>

----------------------------------------------------------------------------
(* The operations                                                          *)

\* ensure_*: the registry is asked.
Ensure(c) ==
    /\ Doing(c, "ensure")
    /\ Go(c, IF reg[Instance(Now(c).u)] = None THEN <<Op("bind", Now(c).u)>> ELSE <<>>)
    /\ UNCHANGED <<repo, reg, tasks, answers, counters>>

\* The repository is asked for the artefact.
Need(c) ==
    /\ Doing(c, "need")
    /\ IF Instance(Now(c).u) \in published THEN Go(c, <<>>) ELSE Fail(c)
    /\ UNCHANGED <<repo, reg, tasks, answers, counters>>

\* bind_*, the first step
Bind(c) ==
    /\ Doing(c, "bind")
    /\ IF Instance(Now(c).u) \in published THEN Go(c, <<Op("spawn", Now(c).u)>>) ELSE Fail(c)
    /\ UNCHANGED <<repo, reg, tasks, answers, counters>>

NewTask(u) == [id |-> u, alive |-> TRUE, box |-> <<>>, outs |-> <<>>, ins |-> {}]

\* Artefact::spawn by the managers: a task, under the url it was asked for; or an
\* error.  After that the servant is registered and linked to the metrics.
Spawn(c) ==
    /\ Doing(c, "spawn")
    /\ LET u == Now(c).u
       IN  \/ /\ Len(tasks) < MaxTasks /\ tasks' = Append(tasks, NewTask(u))
              /\ Go(c, <<Op("register", u), [op |-> "enlist", u |-> u, t |-> Len(tasks) + 1],
                         Op("need", u), Op("found", u)>>)
              /\ UNCHANGED spawnErrors
           \/ /\ spawnErrors + ends < MaxFaults /\ spawnErrors' = spawnErrors + 1
              /\ Fail(c) /\ UNCHANGED tasks
    /\ UNCHANGED <<repo, reg, answers, session, requests, ends>>

\* Repository::bind
Register(c) ==
    /\ Doing(c, "register")
    /\ LET s == Instance(Now(c).u)
       IN  IF s \in published THEN bound' = bound \cup {s} /\ Go(c, <<>>)
           ELSE Fail(c) /\ UNCHANGED bound
    /\ UNCHANGED <<published, reg, tasks, answers, counters>>

\* Registry::publish: the new servant replaces an old one, then that is an error.
Enlist(c) ==
    /\ Doing(c, "enlist")
    /\ LET s == Instance(Now(c).u)
       IN  /\ reg' = [reg EXCEPT ![s] = Now(c).t]
           /\ IF reg[s] = None THEN Go(c, <<>>) ELSE Fail(c)
    /\ UNCHANGED <<repo, tasks, answers, counters>>

\* Registry::find, where the servant has to be there
Found(c) ==
    /\ Doing(c, "found")
    /\ IF reg[Instance(Now(c).u)] # None THEN Go(c, <<>>) ELSE Fail(c)
    /\ UNCHANGED <<repo, reg, tasks, answers, counters>>

\* link_binding, the end: the binding is registered if it is not yet.
EnsureBinding(c) ==
    /\ Doing(c, "ensureBinding")
    /\ Go(c, IF reg[Instance(Now(c).u)] = None
             THEN <<Op("register", Now(c).u), [op |-> "enlist", u |-> Now(c).u, t |-> 1]>>
             ELSE <<>>)
    /\ UNCHANGED <<repo, reg, tasks, answers, counters>>

\* Artefact::link, the first lookup
ConnectFrom(c) ==
    /\ Doing(c, "connect")
    /\ LET t == reg[Instance(Now(c).u)]
       IN  IF t # None THEN Go(c, <<ConnectedTo(Now(c).u, t, Now(c).v)>>) ELSE Fail(c)
    /\ UNCHANGED <<repo, reg, tasks, answers, counters>>

\* ... and the second, which an offramp may do without
ConnectTo(c) ==
    /\ Doing(c, "connectTo")
    /\ LET t == Now(c).t
           s == Instance(Now(c).v)
       IN  IF reg[s] # None THEN Go(c, <<Send(Now(c).u, t, [m |-> "connect", url |-> Now(c).v, t |-> reg[s]])>>)
           ELSE IF Instance(tasks[t].id) \in Offramps THEN Go(c, <<>>) ELSE Fail(c)
    /\ UNCHANGED <<repo, reg, tasks, answers, counters>>

\* Onramp and Offramp::unlink: the lookup ...
CutRamp(c) ==
    /\ Doing(c, "cut")
    /\ LET t == reg[Instance(Now(c).u)]
       IN  IF t # None THEN Go(c, <<Ask(Now(c).u, t, Now(c).v)>>) ELSE Fail(c)
    /\ UNCHANGED <<repo, reg, tasks, answers, counters>>

\* ... and Disconnect with a channel for the answer, unless the task has ended.
Disconnect(c) ==
    /\ Doing(c, "ask")
    /\ LET t == Now(c).t
           m == [m |-> "disconnect", url |-> Now(c).v, t |-> None, c |-> c]
       IN  \/ /\ tasks[t].alive /\ Go(c, <<Op("answer", Now(c).u)>>)
              /\ tasks' = [tasks EXCEPT ![t].box = Append(@, m)]
           \/ ~tasks[t].alive /\ Fail(c) /\ UNCHANGED tasks
    /\ UNCHANGED <<repo, reg, answers, counters>>

\* unlink_onramp, unlink_offramp: unbind when nothing is connected any more.
Answered(c) ==
    /\ Doing(c, "answer") /\ answers[c] # <<>>
    /\ Go(c, IF Head(answers[c]) THEN <<Op("unbind", Now(c).u)>> ELSE <<>>)
    /\ answers' = [answers EXCEPT ![c] = <<>>]
    /\ UNCHANGED <<repo, reg, tasks, counters>>

\* unlink_pipeline: DisconnectOutput, then the pipeline is unbound if it is
\* registered, then the error of the first part is returned.
CutPipeline(c) ==
    /\ Doing(c, "cutOutput")
    /\ LET u == Now(c).u
           t == reg[Instance(u)]
       IN  Go(c, IF t # None
                 THEN <<Send(u, t, [m |-> "disconnect", url |-> Now(c).v, t |-> None]), Op("dismiss", u)>>
                 ELSE <<Op("dismiss", u), Op("fail", u)>>)
    /\ UNCHANGED <<repo, reg, tasks, answers, counters>>

Dismiss(c) ==
    /\ Doing(c, "dismiss")
    /\ Go(c, IF reg[Instance(Now(c).u)] # None THEN <<Op("unbind", Now(c).u)>> ELSE <<>>)
    /\ UNCHANGED <<repo, reg, tasks, answers, counters>>

GiveUp(c) ==
    /\ Doing(c, "fail") /\ Fail(c)
    /\ UNCHANGED <<repo, reg, tasks, answers, counters>>

\* unbind_*
Unbind(c) ==
    /\ Doing(c, "unbind")
    /\ IF Instance(Now(c).u) \in published
       THEN Go(c, <<Op("unlist", Now(c).u), Op("unregister", Now(c).u)>>) ELSE Fail(c)
    /\ UNCHANGED <<repo, reg, tasks, answers, counters>>

\* Registry::unpublish: for a ramp its error is returned after Repository::unbind.
Unlist(c) ==
    /\ Doing(c, "unlist") \/ Doing(c, "unlistBinding")
    /\ LET s == Instance(Now(c).u)
       IN  /\ reg' = [reg EXCEPT ![s] = None]
           /\ IF reg[s] # None THEN Go(c, <<>>)
              ELSE IF s \in Ramps THEN Go(c, <<Op("unregister", Now(c).u), Op("fail", Now(c).u)>>)
              ELSE Fail(c)
    /\ UNCHANGED <<repo, tasks, answers, counters>>

\* Repository::unbind
Unregister(c) ==
    /\ Doing(c, "unregister")
    /\ LET s == Instance(Now(c).u)
       IN  IF s \in published THEN bound' = bound \ {s} /\ Go(c, <<>>)
           ELSE Fail(c) /\ UNCHANGED bound
    /\ UNCHANGED <<published, reg, tasks, answers, counters>>

\* A message to a task; to one that has ended it is an error.
SendTo(c) ==
    /\ Doing(c, "send")
    /\ LET t == Now(c).t
       IN  \/ /\ tasks[t].alive /\ Go(c, <<>>)
              /\ tasks' = [tasks EXCEPT ![t].box = Append(@, Now(c).m)]
           \/ ~tasks[t].alive /\ Fail(c) /\ UNCHANGED tasks
    /\ UNCHANGED <<repo, reg, answers, counters>>

----------------------------------------------------------------------------
(* The tasks                                                               *)

Post(ts, to, m) == [x \in DOMAIN ts |-> IF x \in to THEN [ts[x] EXCEPT !.box = Append(@, m)] ELSE ts[x]]
Handled(t) == [tasks EXCEPT ![t].box = Tail(@)]
Is(t, of) == Instance(tasks[t].id) \in of
Gets(t, m) == tasks[t].alive /\ tasks[t].box # <<>> /\ Head(tasks[t].box).m = m
Msg(t) == Head(tasks[t].box)
Matching(t) == {o[2] : o \in {x \in ToSet(tasks[t].outs) : x[1] = Msg(t).url}}
Others(t) == SelectSeq(tasks[t].outs, LAMBDA x : x[1] # Msg(t).url)

\* SourceManager: Connect
OnrampConnect(t) ==
    /\ Is(t, Onramps) /\ Gets(t, "connect")
    /\ tasks' = Post([Handled(t) EXCEPT ![t].outs = Append(@, <<Msg(t).url, Msg(t).t>>)],
                     {Msg(t).t}, [m |-> "connectInput", url |-> tasks[t].id, t |-> t])
    /\ UNCHANGED <<repo, reg, todo, answers, contended, errors, counters>>

\* Faulty variant: the source goes on.
OnrampDisconnectStays(t) ==
    /\ Is(t, Onramps) /\ Gets(t, "disconnect")
    /\ tasks' = Post([Handled(t) EXCEPT ![t].outs = Others(t)],
                     Matching(t), [m |-> "disconnectInput", url |-> Msg(t).url, t |-> None])
    /\ answers' = [answers EXCEPT ![Msg(t).c] = <<Others(t) = <<>>>>]
    /\ UNCHANGED <<repo, reg, todo, contended, errors, counters>>

\* Faulty variant: the source ends with the first Disconnect.
OnrampDisconnectEnds(t) ==
    /\ Is(t, Onramps) /\ Gets(t, "disconnect")
    /\ tasks' = Post([Handled(t) EXCEPT ![t].outs = Others(t), ![t].alive = FALSE],
                     Matching(t), [m |-> "disconnectInput", url |-> Msg(t).url, t |-> None])
    /\ answers' = [answers EXCEPT ![Msg(t).c] = <<Others(t) = <<>>>>]
    /\ UNCHANGED <<repo, reg, todo, contended, errors, counters>>

\* SourceManager: Disconnect.  The pipeline is told to disconnect its own url.
OnrampDisconnect(t) ==
    /\ Is(t, Onramps) /\ Gets(t, "disconnect")
    /\ tasks' = Post([Handled(t) EXCEPT ![t].outs = Others(t), ![t].alive = Others(t) # <<>>],
                     Matching(t), [m |-> "disconnectInput", url |-> Msg(t).url, t |-> None])
    /\ answers' = [answers EXCEPT ![Msg(t).c] = <<Others(t) = <<>>>>]
    /\ UNCHANGED <<repo, reg, todo, contended, errors, counters>>

Keyed(ins, url) == {x \in ins : x[1] # url}

\* Faulty variant: an input that is disconnected is inserted.
PipelineInputAlike(t) ==
    /\ Gets(t, "connectInput") \/ Gets(t, "disconnectInput")
    /\ tasks' = [Handled(t) EXCEPT ![t].ins = Keyed(@, Msg(t).url) \cup {<<Msg(t).url, Msg(t).t>>}]
    /\ UNCHANGED <<repo, reg, todo, answers, contended, errors, counters>>

\* pipeline_task: ConnectInput, DisconnectInput
PipelineInput(t) ==
    /\ \/ /\ Gets(t, "connectInput")
          /\ tasks' = [Handled(t) EXCEPT ![t].ins = Keyed(@, Msg(t).url) \cup {<<Msg(t).url, Msg(t).t>>}]
       \/ /\ Gets(t, "disconnectInput")
          /\ tasks' = [Handled(t) EXCEPT ![t].ins = Keyed(@, Msg(t).url)]
    /\ UNCHANGED <<repo, reg, todo, answers, contended, errors, counters>>

\* ConnectOutput: the next pipeline learns of its input, unless it is this one.
PipelineConnect(t) ==
    /\ Is(t, Pipelines) /\ Gets(t, "connect")
    /\ tasks' = Post([Handled(t) EXCEPT ![t].outs = Append(@, <<Msg(t).url, Msg(t).t>>)],
                     IF Is(Msg(t).t, Pipelines) /\ Instance(Msg(t).url) # Instance(tasks[t].id) THEN {Msg(t).t} ELSE {},
                     [m |-> "connectInput", url |-> TrimToInstance(tasks[t].id), t |-> t])
    /\ UNCHANGED <<repo, reg, todo, answers, contended, errors, counters>>

\* DisconnectOutput: the next pipeline is told to forget this one, by the url
\* it was started with.
PipelineDisconnect(t) ==
    /\ Is(t, Pipelines) /\ Gets(t, "disconnect")
    /\ tasks' = Post([Handled(t) EXCEPT ![t].outs = Others(t)],
                     {x \in Matching(t) : Is(x, Pipelines)},
                     [m |-> "disconnectInput", url |-> tasks[t].id, t |-> None])
    /\ UNCHANGED <<repo, reg, todo, answers, contended, errors, counters>>

\* offramp: Connect on port in
OfframpConnect(t) ==
    /\ Is(t, Offramps) /\ Gets(t, "connect")
    /\ tasks' = [Handled(t) EXCEPT ![t].ins = Keyed(@, Msg(t).url) \cup {<<Msg(t).url, Msg(t).t>>}]
    /\ UNCHANGED <<repo, reg, todo, answers, contended, errors, counters>>

\* Faulty variant: the offramp ends whatever is still connected.
OfframpDisconnectEnds(t) ==
    /\ Is(t, Offramps) /\ Gets(t, "disconnect")
    /\ tasks' = [Handled(t) EXCEPT ![t].ins = {}, ![t].alive = FALSE]
    /\ answers' = [answers EXCEPT ![Msg(t).c] = <<TRUE>>]
    /\ UNCHANGED <<repo, reg, todo, contended, errors, counters>>

\* Faulty variant: the pipeline stays connected.
OfframpDisconnectKeeps(t) ==
    /\ Is(t, Offramps) /\ Gets(t, "disconnect")
    /\ tasks' = Handled(t)
    /\ answers' = [answers EXCEPT ![Msg(t).c] = <<tasks[t].ins = {}>>]
    /\ UNCHANGED <<repo, reg, todo, contended, errors, counters>>

\* Faulty variant: the offramp ends without an answer.
OfframpDisconnectSilent(t) ==
    LET ins == Keyed(tasks[t].ins, Msg(t).url)
    IN  /\ Is(t, Offramps) /\ Gets(t, "disconnect")
        /\ tasks' = [Handled(t) EXCEPT ![t].ins = ins, ![t].alive = ins # {}]
        /\ answers' = IF ins = {} THEN answers ELSE [answers EXCEPT ![Msg(t).c] = <<FALSE>>]
        /\ UNCHANGED <<repo, reg, todo, contended, errors, counters>>

\* offramp: Disconnect on port in; the last one ends it.
OfframpDisconnect(t) ==
    LET ins == Keyed(tasks[t].ins, Msg(t).url)
    IN  /\ Is(t, Offramps) /\ Gets(t, "disconnect")
        /\ tasks' = [Handled(t) EXCEPT ![t].ins = ins, ![t].alive = ins # {}]
        /\ answers' = [answers EXCEPT ![Msg(t).c] = <<ins = {}>>]
        /\ UNCHANGED <<repo, reg, todo, contended, errors, counters>>

\* An onramp ends on its own: SourceReply::StateChange(Disconnected).
OnrampEnds(t) ==
    /\ Is(t, Onramps) /\ tasks[t].alive /\ tasks[t].outs # <<>>
    /\ spawnErrors + ends < MaxFaults /\ ends' = ends + 1
    /\ tasks' = [tasks EXCEPT ![t].alive = FALSE]
    /\ UNCHANGED <<repo, reg, todo, answers, session, requests, contended, errors, spawnErrors>>

----------------------------------------------------------------------------

Client(c) ==
    \/ Ensure(c) \/ Need(c) \/ Bind(c) \/ Spawn(c) \/ Register(c) \/ Enlist(c) \/ Found(c)
    \/ EnsureBinding(c) \/ ConnectFrom(c) \/ ConnectTo(c) \/ CutRamp(c) \/ Disconnect(c)
    \/ Answered(c) \/ CutPipeline(c) \/ Dismiss(c) \/ GiveUp(c) \/ Unbind(c) \/ Unlist(c) \/ Unregister(c) \/ SendTo(c)

Task(t) ==
    \/ OnrampConnect(t) \/ OnrampDisconnect(t)
    \/ PipelineInput(t) \/ PipelineConnect(t) \/ PipelineDisconnect(t)
    \/ OfframpConnect(t) \/ OfframpDisconnect(t)

Next ==
    \/ \E c \in Clients : Publish(c) \/ Unpublish(c) \/ LinkBinding(c) \/ UnlinkBinding(c) \/ Client(c)
    \/ \E t \in DOMAIN tasks : Task(t) \/ OnrampEnds(t)

Spec == Init /\ [][Next]_vars

----------------------------------------------------------------------------

AllIdle == \A c \in Clients : Idle(c)
Quiet == AllIdle /\ \A t \in DOMAIN tasks : tasks[t].alive => tasks[t].box = <<>>
Clean == errors = {} /\ ends = 0 /\ contended = {}

Ends(b) == {Pairs(b, Servants)[i] : i \in DOMAIN Pairs(b, Servants)}
Used(b) == {Instance(x[1]) : x \in Ends(b)} \cup {Instance(x[2]) : x \in Ends(b)}
Running == {b \in Bindings : reg[b] # None}

TypeOK ==
    /\ bound \subseteq Ids /\ published \subseteq Ids
    /\ \A s \in Ids : reg[s] \in 0 .. Len(tasks)
    /\ \A t \in DOMAIN tasks : tasks[t].ins \subseteq (Servants \X {"in", "out", ""}) \X DOMAIN tasks
    /\ \A c \in Clients : Len(answers[c]) <= 1

\* "which has non-zero instances" cannot be unpublished: what is registered is
\* counted as an instance of an artefact that is there, at every point of every
\* request, those that fail half way included, and whatever other clients do at
\* the same time, if no two requests ever dealt with it at once.  (If they did,
\* a bind can come between the two halves of an unbind, system.rs:212-223.)
RegisteredIsBound == \A s \in Ids \ contended : reg[s] # None => s \in bound \cap published

\* Between requests, if none failed or dealt with the same as another at once,
\* exactly the servants of the running bindings are registered: a ramp that two
\* bindings share comes with the first and goes with the last.  Not so a pipeline
\* that two bindings share: it goes with the first (artefact.rs:637-639), and
\* then this does not hold.
RegisteredAsNeeded ==
    AllIdle /\ Clean => {s \in Servants : reg[s] # None} = UNION {Used(b) : b \in Running}

\* No onramp and no offramp runs that is not registered, once the messages are
\* handled, so nothing reads or writes behind the registry's back.
NoRampLeft ==
    Quiet /\ Clean => \A t \in DOMAIN tasks : Is(t, Ramps) /\ tasks[t].alive => reg[Instance(tasks[t].id)] = t

\* When the messages are handled, every link of a running binding leads to the
\* task that is registered and alive, and the way back for insights does too.
ConnectedAsLinked ==
    Quiet /\ Clean => \A b \in Running : \A x \in Ends(b) :
        LET f == reg[Instance(x[1])]
            t == reg[Instance(x[2])]
        IN  /\ f # None /\ t # None /\ tasks[f].alive /\ tasks[t].alive
            /\ <<x[2], t>> \in ToSet(tasks[f].outs)
            /\ \E i \in tasks[t].ins : i[2] = f

\* Insights are sent to tasks that run: the inputs of what is registered are
\* alive.  DisconnectInput names urls that ConnectInput did not use, so an input
\* stays with the pipeline's task for good; that does no harm as long as the
\* pipeline is not shared and goes together with its binding.
InputsAreAlive ==
    Quiet /\ Clean => \A s \in Servants : reg[s] # None => \A i \in tasks[reg[s]].ins : tasks[i[2]].alive

\* A client that waits for an answer waits for a task that runs and has the
\* Disconnect in its mailbox, whatever other clients do to other ramps, so every
\* request comes to an end; unless an onramp ended on its own, or another client
\* had to do with this ramp, and left a Disconnect unread (artefact.rs:426-439).
SomeoneAnswers ==
    ends = 0 => \A c \in Clients :
        Doing(c, "answer") /\ answers[c] = <<>> /\ Instance(Now(c).u) \notin contended =>
        \E t \in DOMAIN tasks :
            /\ tasks[t].alive /\ Instance(tasks[t].id) = Instance(Now(c).u)
            /\ \E m \in ToSet(tasks[t].box) : m.m = "disconnect" /\ m.c = c

\* The registry and the repository agree, and what is registered is what the
\* linked bindings need (system.rs:135-611).
RegistryRight == TypeOK /\ RegisteredIsBound /\ RegisteredAsNeeded

\* When all is quiet the tasks are connected as the bindings say, and no ramp
\* runs that no binding needs (artefact.rs:488-662).
LinksRight == NoRampLeft /\ ConnectedAsLinked
============================================================================
