---------------------------- MODULE DeployProofs ----------------------------
(***************************************************************************)
(* Proofs about deploying (module Deploy), for any artefacts, bindings,    *)
(* links and clients and any number of requests, tasks and faults.         *)
(***************************************************************************)
EXTENDS Deploy, Facts

(* What a request has still to do.                                         *)

\* The provers do not know that "" is in STRING.
Ports == STRING \union {"", "in"}
Urls == Ids \X Ports

Notes == [m : {"connect", "connectInput", "disconnectInput", "disconnect"}, url : Urls, t : Nat]
Messages == Notes \union [m : {"disconnect"}, url : Urls, t : Nat, c : Clients]

UrlNames ==
    {"need", "ensure", "bind", "spawn", "register", "found", "ensureBinding", "answer",
     "dismiss", "fail", "unbind", "unlist", "unlistBinding", "unregister"}
PairNames == {"connect", "cut", "cutOutput"}

UrlOps == [op : UrlNames, u : Urls]
PairOps == [op : PairNames, u : Urls, v : Urls]
EnlistOps == [op : {"enlist"}, u : Urls, t : Nat]
ToOps == [op : {"connectTo", "ask"}, u : Urls, t : Nat, v : Urls]
SendOps == [op : {"send"}, u : Urls, t : Nat, m : Notes]
Operations == UrlOps \union PairOps \union EnlistOps \union ToOps \union SendOps

-----------------------------------------------------------------------------
(* The inductive invariant.                                                *)

IsTask(r) ==
    /\ r = [id |-> r.id, alive |-> r.alive, box |-> r.box, outs |-> r.outs, ins |-> r.ins]
    /\ r.id \in Urls /\ r.box \in Seq(Messages)

AreTasks(ts) == ts \in Seq({ts[t] : t \in DOMAIN ts}) /\ \A t \in DOMAIN ts : IsTask(ts[t])

DeployTypes ==
    /\ ends \in Nat /\ reg \in [Ids -> Nat] /\ DOMAIN answers = Clients /\ session \in Sessions
    /\ todo \in [Clients -> Seq(Operations)] /\ AreTasks(tasks)

\* t is a task of one of the servants in S.
TaskOf(ts, t, S) == t \in DOMAIN ts /\ Instance(ts[t].id) \in S

\* A registered servant is a task of that servant.
RegistryInv == \A s \in Servants : reg[s] # None => TaskOf(tasks, reg[s], {s})

\* An operation is about servants of the right kind.
Sound(ts, o) ==
    /\ o.op \in {"cut", "ask", "answer"} => Instance(o.u) \in Ramps
    /\ o.op = "connect" => Instance(o.u) \in Servants
    /\ o.op = "cutOutput" => Instance(o.u) \in Pipelines
    /\ o.op = "ensureBinding" => Instance(o.u) \in Bindings
    /\ o.op = "enlist" /\ Instance(o.u) \in Servants => TaskOf(ts, o.t, {Instance(o.u)})
    /\ o.op = "ask" => TaskOf(ts, o.t, {Instance(o.u)})
    /\ o.op \in {"send", "connectTo"} => o.t \in DOMAIN ts
    /\ o.op = "send" /\ o.m.m = "disconnect" => TaskOf(ts, o.t, Pipelines)

\* Which operation may come before p: an answer is awaited first of all, a servant
\* is registered only after Repository::bind and Repository::unbind comes only
\* after Registry::unpublish.
Follows(o, p) ==
    /\ p.op # "answer"
    /\ p.op = "enlist" => o.op = "register" /\ o.u = p.u
    /\ p.op = "unregister" => o.op = "fail" \/ (o.op \in {"unlist", "unlistBinding"} /\ o.u = p.u)

Chain(ts, s) ==
    \A i \in DOMAIN s : Sound(ts, s[i]) /\ (i + 1 \in DOMAIN s => Follows(s[i], s[i + 1]))

\* A task of the ramp s runs and has a Disconnect of client c to answer.
Awaited(ts, c, s) ==
    \E t \in DOMAIN ts :
        /\ ts[t].alive /\ TaskOf(ts, t, {s})
        /\ \E i \in DOMAIN ts[t].box : ts[t].box[i].m = "disconnect" /\ ts[t].box[i].c = c

Waits(c, s) == answers[c] # <<>> \/ ends # 0 \/ s \in contended \/ Awaited(tasks, c, s)

\* What holds when an operation is next.
Due(c, p) ==
    /\ p.op = "answer" => Waits(c, Instance(p.u))
    /\ p.op = "enlist" => Instance(p.u) \in contended \union (bound \cap published)
    /\ p.op = "unregister" => Instance(p.u) \in contended \/ reg[Instance(p.u)] = None

RequestsInv == \A c \in Clients : Chain(tasks, todo[c]) /\ (todo[c] # <<>> => Due(c, todo[c][1]))

\* What two clients have to do with is contended.
SharedInv == Shared(todo) \subseteq contended

\* A Disconnect in the mailbox of a ramp, and its client d and its ramp s.
IsAsk(ts, t, i) == TaskOf(ts, t, Ramps) /\ i \in DOMAIN ts[t].box /\ ts[t].box[i].m = "disconnect"
AskOf(ts, t, i, d, s) == IsAsk(ts, t, i) /\ ts[t].box[i].c = d /\ Instance(ts[t].id) = s

Answering(c) == todo[c] # <<>> /\ todo[c][1].op = "answer"
Asked(c, s) == answers[c] = <<>> /\ Answering(c) /\ Instance(todo[c][1].u) = s

\* The client of a Disconnect waits for the answer of that ramp, it sent no other,
\* and a client that has an answer has not gone on.
AskInv ==
    /\ \A t, i, d, s : AskOf(tasks, t, i, d, s) => d \in Clients /\ Asked(d, s)
    /\ \A t, i, u, j, d, r, s : AskOf(tasks, t, i, d, r) /\ AskOf(tasks, u, j, d, s) => t = u /\ i = j
    /\ \A c \in Clients : answers[c] # <<>> => Answering(c)

DeployInv == DeployTypes /\ RegistryInv /\ RegisteredIsBound /\ RequestsInv /\ SharedInv /\ AskInv

-----------------------------------------------------------------------------
(* Lists of operations.                                                    *)

LEMMA OpTypes ==
  ASSUME NEW n \in UrlNames, NEW u \in Urls
  PROVE  Op(n, u) \in Operations /\ Op(n, u).op = n /\ Op(n, u).u = u
<1>1. Op(n, u) \in UrlOps /\ Op(n, u).op = n /\ Op(n, u).u = u
  BY DEF Op, UrlOps
<1> QED BY <1>1 DEF Operations

LEMMA PairTypes ==
  ASSUME NEW u \in Urls, NEW v \in Urls
  PROVE  /\ Connect(u, v) \in Operations /\ Connect(u, v).op = "connect" /\ Connect(u, v).u = u
         /\ Cut(u, v) \in Operations /\ Cut(u, v).op = "cut" /\ Cut(u, v).u = u
         /\ CutOutput(u, v) \in Operations /\ CutOutput(u, v).op = "cutOutput" /\ CutOutput(u, v).u = u
<1>1. Connect(u, v) \in PairOps /\ Connect(u, v).op = "connect" /\ Connect(u, v).u = u
  BY DEF Connect, PairOps, PairNames
<1>2. Cut(u, v) \in PairOps /\ Cut(u, v).op = "cut" /\ Cut(u, v).u = u
  BY DEF Cut, PairOps, PairNames
<1>3. CutOutput(u, v) \in PairOps /\ CutOutput(u, v).op = "cutOutput" /\ CutOutput(u, v).u = u
  BY DEF CutOutput, PairOps, PairNames
<1> QED BY <1>1, <1>2, <1>3 DEF Operations

LEMMA OperationFacts ==
  ASSUME NEW o \in Operations
  PROVE  /\ o.u \in Urls
         /\ o.op \in PairNames \union {"connectTo", "ask"} => o.v \in Urls
         /\ o.op \in {"enlist", "connectTo", "ask"} => o.t \in Nat
         /\ o.op = "send" => o.m \in Notes
<1>1. CASE o \in UrlOps
  BY <1>1 DEF UrlOps, UrlNames, PairNames
<1>2. CASE o \in PairOps
  BY <1>2 DEF PairOps, UrlNames, PairNames
<1>3. CASE o \in EnlistOps
  BY <1>3 DEF EnlistOps, UrlNames, PairNames
<1>4. CASE o \in ToOps
  BY <1>4 DEF ToOps, UrlNames, PairNames
<1>5. CASE o \in SendOps
  BY <1>5 DEF SendOps, UrlNames, PairNames
<1> QED BY <1>1, <1>2, <1>3, <1>4, <1>5 DEF Operations

\* An operation that may come first or after any other.
Free(p) == p.op \notin {"answer", "enlist", "unregister"}

LEMMA FreeFollows == ASSUME NEW p, Free(p) PROVE \A o : Follows(o, p)
BY DEF Free, Follows

\* A list with its first and its last operation.
List(ts, s, a, z) == s \in Seq(Operations) /\ Chain(ts, s) /\ s # <<>> /\ s[1] = a /\ s[Len(s)] = z

LEMMA OneOp == ASSUME NEW ts, NEW a \in Operations, Sound(ts, a) PROVE List(ts, <<a>>, a, a)
<1>1. PICK s : s = <<a>>
  OBVIOUS
<1>2. s \in Seq(Operations) /\ s # <<>> /\ s[1] = a /\ Len(s) = 1 /\ DOMAIN s = {1}
  BY <1>1
<1>3. Chain(ts, s)
  BY <1>2 DEF Chain
<1>4. List(ts, s, a, a)
  BY <1>2, <1>3 DEF List
<1> QED BY <1>1, <1>4

LEMMA ChainJoin ==
  ASSUME NEW ts, NEW s \in Seq(Operations), NEW r \in Seq(Operations), Chain(ts, s), Chain(ts, r),
         s # <<>> /\ r # <<>> => Follows(s[Len(s)], r[1])
  PROVE  s \o r \in Seq(Operations) /\ Chain(ts, s \o r)
<1> DEFINE u == s \o r
<1>1. u \in Seq(Operations) /\ Joined(s, r, u)
  BY JoinFacts
<1> HIDE DEF u
<1>2. ASSUME NEW i \in DOMAIN u PROVE Sound(ts, u[i]) /\ (i + 1 \in DOMAIN u => Follows(u[i], u[i + 1]))
  <2>1. PICK n \in Nat : n = Len(s) /\ DOMAIN s = 1 .. n
    BY <1>1 DEF Joined
  <2>2. PICK k \in Nat : k = Len(r) /\ DOMAIN r = 1 .. k /\ DOMAIN u = 1 .. n + k
    BY <1>1, <2>1 DEF Joined
  <2>3. (\A j \in 1 .. n : u[j] = s[j]) /\ \A j \in n + 1 .. n + k : u[j] = r[j - n]
    <3>1. \A j \in 1 .. n : u[j] = s[j]
      BY <1>1, <2>1 DEF Joined
    <3>2. ASSUME NEW j \in n + 1 .. n + k PROVE u[j] = r[j - n]
      <4>1. j \in DOMAIN u /\ j \notin DOMAIN s
        BY <2>1, <2>2
      <4> QED BY <1>1, <2>1, <4>1 DEF Joined
    <3> QED BY <3>1, <3>2
  <2>4. CASE i \in 1 .. n /\ i # n
    <3>1. i + 1 \in 1 .. n /\ i + 1 \in DOMAIN s /\ i \in DOMAIN s
      BY <2>1, <2>4
    <3>2. u[i] = s[i] /\ u[i + 1] = s[i + 1]
      BY <2>3, <3>1, <2>4
    <3> QED BY <3>1, <3>2 DEF Chain
  <2>5. CASE i = n
    <3>1. n \in 1 .. n /\ n \in DOMAIN s /\ s # <<>>
      BY <2>1, <2>2, <2>5
    <3>2. u[n] = s[n]
      BY <2>3, <3>1
    <3>3. Sound(ts, u[i])
      BY <2>5, <3>1, <3>2 DEF Chain
    <3>4. ASSUME i + 1 \in DOMAIN u PROVE Follows(u[i], u[i + 1])
      <4>1. n + 1 \in n + 1 .. n + k /\ k >= 1
        BY <2>2, <2>5, <3>4
      <4>2. u[n + 1] = r[1] /\ r # <<>>
        BY <2>2, <2>3, <4>1
      <4> QED BY <2>1, <2>5, <3>1, <3>2, <4>2
    <3> QED BY <3>3, <3>4
  <2>6. CASE i \in n + 1 .. n + k
    <3>a. i - n \in 1 .. k
      BY <2>6
    <3>b. u[i] = r[i - n]
      BY <2>3, <2>6
    <3>1. PICK j \in 1 .. k : j = i - n /\ u[i] = r[j]
      BY <3>a, <3>b
    <3>2. Sound(ts, r[j])
      BY <2>2, <3>1 DEF Chain
    <3>3. ASSUME i + 1 \in DOMAIN u PROVE Follows(u[i], u[i + 1])
      <4>1. i + 1 \in n + 1 .. n + k /\ j + 1 \in 1 .. k /\ (i + 1) - n = j + 1
        BY <2>2, <2>6, <3>1, <3>3
      <4>2. u[i + 1] = r[j + 1]
        BY <2>3, <4>1
      <4> QED BY <2>2, <3>1, <4>1, <4>2 DEF Chain
    <3> QED BY <3>1, <3>2, <3>3
  <2> QED BY <2>2, <2>4, <2>5, <2>6
<1> QED BY <1>1, <1>2 DEF Chain, u

LEMMA TwoOps ==
  ASSUME NEW ts, NEW a \in Operations, NEW b \in Operations, Sound(ts, a), Sound(ts, b), Follows(a, b)
  PROVE  List(ts, <<a, b>>, a, b)
<1>1. PICK s : s = <<a, b>>
  OBVIOUS
<1>2. s \in Seq(Operations) /\ s # <<>> /\ s[1] = a /\ s[2] = b /\ Len(s) = 2 /\ DOMAIN s = 1 .. 2
  BY <1>1
<1>3. Chain(ts, s)
  BY <1>2 DEF Chain
<1>4. List(ts, s, a, b)
  BY <1>2, <1>3 DEF List
<1> QED BY <1>1, <1>4

LEMMA FourOps ==
  ASSUME NEW ts, NEW a, NEW b, NEW c, NEW d, List(ts, <<a, b>>, a, b), List(ts, <<c, d>>, c, d), Follows(b, c)
  PROVE  List(ts, <<a, b, c, d>>, a, d)
<1>1. PICK s : s = <<a, b, c, d>>
  OBVIOUS
<1>2. s = <<a, b>> \o <<c, d>>
  BY <1>1
<1>3. s \in Seq(Operations) /\ Chain(ts, s)
  BY <1>2, ChainJoin DEF List
<1>4. s # <<>> /\ s[1] = a /\ s[Len(s)] = d
  BY <1>1
<1>5. List(ts, s, a, d)
  BY <1>3, <1>4 DEF List
<1> QED BY <1>1, <1>5

\* The tasks of a state are still there in the next, under their urls.
Grow(ts, us) == \A t \in DOMAIN ts : t \in DOMAIN us /\ us[t].id = ts[t].id

LEMMA ChainKept == ASSUME NEW ts, NEW us, Grow(ts, us), NEW s, Chain(ts, s) PROVE Chain(us, s)
<1>1. \A t, S : TaskOf(ts, t, S) => TaskOf(us, t, S)
  BY DEF Grow, TaskOf
<1>2. ASSUME NEW o, Sound(ts, o) PROVE Sound(us, o)
  BY <1>1, <1>2 DEF Sound, Grow
<1> QED BY <1>2 DEF Chain

LEMMA ChainTail ==
  ASSUME NEW ts, NEW s \in Seq(Operations), s # <<>>, Chain(ts, s)
  PROVE  /\ Head(s) = s[1] /\ s[1] \in Operations /\ Sound(ts, s[1])
         /\ Tail(s) \in Seq(Operations) /\ Chain(ts, Tail(s))
         /\ Tail(s) # <<>> => Tail(s)[1] = s[2] /\ Follows(s[1], s[2])
<1>1. PICK n \in Nat : n = Len(s) /\ DOMAIN s = 1 .. n /\ n >= 1 /\ s[1] \in Operations
  OBVIOUS
<1>2. PICK t : t = Tail(s) /\ t \in Seq(Operations) /\ DOMAIN t = 1 .. n - 1 /\ \A i \in 1 .. n - 1 : t[i] = s[i + 1]
  <2>1. Tail(s) \in Seq(Operations) /\ DOMAIN Tail(s) = 1 .. n - 1
    BY <1>1
  <2>2. \A i \in 1 .. n - 1 : Tail(s)[i] = s[i + 1]
    BY <1>1
  <2> QED BY <2>1, <2>2
<1>3. Sound(ts, s[1])
  <2>1. 1 \in DOMAIN s
    BY <1>1
  <2> QED BY <2>1 DEF Chain
<1>4. Chain(ts, t)
  <2>1. ASSUME NEW i \in 1 .. n - 1 PROVE Sound(ts, t[i]) /\ (i + 1 \in 1 .. n - 1 => Follows(t[i], t[i + 1]))
    <3>1. i + 1 \in 1 .. n /\ (i + 1 \in 1 .. n - 1 => (i + 1) + 1 \in 1 .. n)
      BY <1>1
    <3>2. t[i] = s[i + 1] /\ (i + 1 \in 1 .. n - 1 => t[i + 1] = s[(i + 1) + 1])
      BY <1>2
    <3> QED BY <1>1, <3>1, <3>2 DEF Chain
  <2> QED BY <1>2, <2>1 DEF Chain
<1>5. ASSUME t # <<>> PROVE t[1] = s[2] /\ Follows(s[1], s[2])
  <2>1. 1 \in 1 .. n - 1 /\ 1 + 1 \in DOMAIN s /\ 1 \in DOMAIN s
    BY <1>1, <1>2, <1>5
  <2>2. t[1] = s[1 + 1] /\ Follows(s[1], s[1 + 1])
    BY <1>2, <2>1 DEF Chain
  <2> QED BY <2>2
<1> QED BY <1>1, <1>2, <1>3, <1>4, <1>5

-----------------------------------------------------------------------------
(* A step of a client.                                                     *)

\* What is next for the other clients is still due.
Undisturbed(c) == \A d \in Clients \ {c} : \A p : todo[d] # <<>> /\ p = todo[d][1] => Due(d, p)'

LEMMA OthersKept ==
  ASSUME DeployTypes, RequestsInv, NEW c \in Clients, Grow(tasks, tasks'), Undisturbed(c), NEW d \in Clients, d # c,
         todo'[d] = todo[d]
  PROVE  Chain(tasks, todo[d])' /\ (todo'[d] # <<>> => Due(d, todo[d][1])')
<1>1. Chain(tasks', todo[d])
  BY ChainKept DEF RequestsInv
<1>2. PICK p : p = todo[d][1] /\ p = todo'[d][1]
  OBVIOUS
<1>3. todo[d] # <<>> => Due(d, p)'
  BY <1>2 DEF Undisturbed
<1> QED BY <1>1, <1>2, <1>3 DEF Due

\* The client goes on with ops in the place of what it did.
LEMMA GoStep ==
  ASSUME DeployTypes, RequestsInv, NEW c \in Clients, todo[c] # <<>>, Grow(tasks, tasks'), Undisturbed(c),
         NEW ops \in Seq(Operations), Go(c, ops), Chain(tasks', ops),
         NEW a, ops # <<>> => a = ops[1] /\ Due(c, a)',
         NEW p,
         Tail(todo[c]) # <<>> =>
            p = todo[c][2] /\ IF ops = <<>> THEN Due(c, p)' ELSE Follows(ops[Len(ops)], p)
  PROVE  todo' \in [Clients -> Seq(Operations)] /\ RequestsInv'
<1>1. PICK s \in Seq(Operations) : s = todo[c] /\ s # <<>> /\ Chain(tasks, s)
  BY DEF DeployTypes, RequestsInv
<1>2. PICK r \in Seq(Operations) : r = Tail(s) /\ Chain(tasks, r) /\ (r # <<>> => r[1] = s[2])
  BY <1>1, ChainTail
<1>3. Chain(tasks', r)
  BY <1>2, ChainKept
<1>4. PICK u : u = ops \o r
  OBVIOUS
<1>5. u \in Seq(Operations) /\ Chain(tasks', u)
  BY <1>1, <1>2, <1>3, <1>4, ChainJoin
<1>6. todo' = [todo EXCEPT ![c] = u]
  BY <1>1, <1>2, <1>4 DEF Go, Set
<1>7. todo' \in [Clients -> Seq(Operations)] /\ todo'[c] = u
  BY <1>5, <1>6 DEF DeployTypes
<1>8. ASSUME u # <<>> PROVE Due(c, u[1])'
  <2>1. CASE ops = <<>>
    <3>1. u = r
      BY <1>2, <1>4, <2>1
    <3>2. u[1] = p
      BY <1>1, <1>2, <1>8, <3>1
    <3>3. Tail(todo[c]) # <<>>
      BY <1>1, <1>2, <1>8, <3>1
    <3>4. Due(c, p)'
      BY <2>1, <3>3
    <3> QED BY <3>2, <3>4 DEF Due
  <2>2. CASE ops # <<>>
    <3>1. u[1] = a
      BY <1>2, <1>4, <2>2
    <3>2. Due(c, a)'
      BY <2>2
    <3> QED BY <3>1, <3>2 DEF Due
  <2> QED BY <2>1, <2>2
<1>9. Chain(tasks, todo[c])' /\ (todo'[c] # <<>> => Due(c, todo[c][1])')
  BY <1>5, <1>7, <1>8
<1>10. \A d \in Clients : d # c => todo'[d] = todo[d]
  BY <1>6 DEF DeployTypes
<1>11. RequestsInv'
  BY <1>9, <1>10, OthersKept DEF RequestsInv
<1> QED BY <1>7, <1>11

\* Nothing that comes next depends on an operation like this.
Plain(o) == o.op \notin {"send", "register", "fail", "unlist", "unlistBinding"}

LEMMA GoPlain ==
  ASSUME DeployTypes, RequestsInv, NEW c \in Clients, todo[c] # <<>>, Plain(todo[c][1]),
         Grow(tasks, tasks'), Undisturbed(c), NEW ops \in Seq(Operations), Go(c, ops), Chain(tasks', ops),
         NEW a, ops # <<>> => a = ops[1] /\ Due(c, a)'
  PROVE  todo' \in [Clients -> Seq(Operations)] /\ RequestsInv'
<1>1. PICK s \in Seq(Operations) : s = todo[c] /\ s # <<>> /\ Chain(tasks, s)
  BY DEF DeployTypes, RequestsInv
<1>2. PICK p : p = todo[c][2]
  OBVIOUS
<1>3. ASSUME Tail(todo[c]) # <<>> PROVE Due(c, p)' /\ Follows(ops[Len(ops)], p)
  <2>1. Follows(s[1], p) /\ Plain(s[1])
    BY <1>1, <1>2, <1>3, ChainTail
  <2>2. Free(p)
    BY <2>1 DEF Follows, Plain, Free
  <2> QED BY <2>2, FreeFollows DEF Free, Due
<1> QED BY <1>2, <1>3, GoStep

LEMMA GoOn ==
  ASSUME DeployTypes, RequestsInv, NEW c \in Clients, todo[c] # <<>>, Plain(todo[c][1]),
         Grow(tasks, tasks'), Undisturbed(c), Go(c, <<>>)
  PROVE  todo' \in [Clients -> Seq(Operations)] /\ RequestsInv'
<1>1. Chain(tasks', <<>>) /\ <<>> \in Seq(Operations)
  BY DEF Chain
<1> QED BY <1>1, GoPlain

LEMMA GoList ==
  ASSUME DeployTypes, RequestsInv, NEW c \in Clients, todo[c] # <<>>, Plain(todo[c][1]),
         Grow(tasks, tasks'), Undisturbed(c), NEW ops, NEW a, NEW z, List(tasks', ops, a, z), Go(c, ops), Due(c, a)'
  PROVE  todo' \in [Clients -> Seq(Operations)] /\ RequestsInv'
BY GoPlain DEF List

LEMMA FailStep ==
  ASSUME DeployTypes, RequestsInv, NEW c \in Clients, Grow(tasks, tasks'), Undisturbed(c), Fail(c)
  PROVE  todo' \in [Clients -> Seq(Operations)] /\ RequestsInv'
<1>1. /\ todo' \in [Clients -> Seq(Operations)] /\ todo'[c] = <<>>
      /\ \A d \in Clients : d # c => todo'[d] = todo[d]
  BY DEF DeployTypes, Fail, Set
<1>2. Chain(tasks', <<>>)
  BY DEF Chain
<1> QED BY <1>1, <1>2, OthersKept DEF RequestsInv

-----------------------------------------------------------------------------
(* What clients have to do with, and their mail.                           *)

LEMMA SetShared == ASSUME NEW c, NEW ops, Set(c, ops) PROVE contended \subseteq contended' /\ SharedInv'
BY DEF Set, SharedInv

LEMMA GoSets == ASSUME NEW c, NEW ops, Go(c, ops) \/ Fail(c) PROVE \E x : Set(c, x)
BY DEF Go, Fail

LEMMA UrlFacts == ASSUME NEW u \in Urls PROVE Instance(u) \in Ids
BY DEF Urls, Instance

\* Two clients that are about to deal with the same.
LEMMA BothNamed ==
  ASSUME DeployInv, NEW c \in Clients, NEW d \in Clients, c # d, todo[c] # <<>>, todo[d] # <<>>, NEW s,
         Instance(todo[c][1].u) = s, Instance(todo[d][1].u) = s
  PROVE  s \in contended
<1>1. todo[c] \in Seq(Operations) /\ todo[d] \in Seq(Operations)
  BY DEF DeployInv, DeployTypes
<1>2. 1 \in DOMAIN todo[c] /\ 1 \in DOMAIN todo[d] /\ todo[c][1] \in Operations
  BY <1>1
<1>3. s \in Ids
  BY <1>2, OperationFacts, UrlFacts
<1>4. s \in Names(todo[c][1]) /\ s \in Names(todo[d][1])
  BY DEF Names
<1>5. s \in AllNames(todo[c]) /\ s \in AllNames(todo[d])
  BY <1>2, <1>4 DEF AllNames
<1>6. s \in Shared(todo)
  BY <1>3, <1>5 DEF Shared
<1> QED BY <1>6 DEF DeployInv, SharedInv

\* No Disconnect comes to a ramp.
NoNewAsk == \A t, i, d, s : AskOf(tasks', t, i, d, s) => AskOf(tasks, t, i, d, s)

\* A client that is not waiting goes on.
LEMMA AskClient ==
  ASSUME DeployInv, NEW c \in Clients, NEW ops, Set(c, ops), ~Answering(c), NoNewAsk, answers' = answers
  PROVE  AskInv'
<1>1. \A d \in Clients : d # c => todo'[d] = todo[d]
  BY DEF Set, DeployInv, DeployTypes
<1>2. ASSUME NEW t, NEW i, NEW d, NEW s, AskOf(tasks', t, i, d, s) PROVE d \in Clients /\ Asked(d, s)'
  <2>1. d \in Clients /\ Asked(d, s)
    BY <1>2 DEF NoNewAsk, DeployInv, AskInv
  <2>2. todo'[d] = todo[d]
    BY <1>1, <2>1 DEF Asked
  <2> QED BY <2>1, <2>2 DEF Asked, Answering
<1>3. ASSUME NEW t, NEW i, NEW u, NEW j, NEW d, NEW r, NEW s, AskOf(tasks', t, i, d, r), AskOf(tasks', u, j, d, s)
      PROVE  t = u /\ i = j
  BY <1>3 DEF NoNewAsk, DeployInv, AskInv
<1>4. ASSUME NEW d \in Clients, answers'[d] # <<>> PROVE Answering(d)'
  <2>1. Answering(d) /\ d # c
    BY <1>4 DEF DeployInv, AskInv
  <2> QED BY <1>1, <2>1 DEF Answering
<1> QED BY <1>2, <1>3, <1>4 DEF AskInv

\* What a step does that leaves the repository, the registry and the tasks alone.
LEMMA OnlyTodo ==
  ASSUME DeployInv, NEW c \in Clients, NEW ops, Set(c, ops), UNCHANGED <<published, bound, reg, tasks, ends, session>>,
         DOMAIN answers' = DOMAIN answers, todo' \in [Clients -> Seq(Operations)], RequestsInv', AskInv'
  PROVE  DeployInv'
<1>1. contended \subseteq contended' /\ SharedInv'
  BY SetShared
<1>2. DeployTypes' /\ RegistryInv' /\ RegisteredIsBound'
  BY <1>1 DEF DeployInv, DeployTypes, RegistryInv, RegisteredIsBound
<1> QED BY <1>1, <1>2 DEF DeployInv

\* What a client does, and when.
LEMMA DoingFacts ==
  ASSUME DeployInv, NEW c \in Clients, NEW n, Doing(c, n)
  PROVE  /\ todo[c] # <<>> /\ todo[c] \in Seq(Operations) /\ Now(c) = todo[c][1] /\ Now(c).op = n
         /\ Now(c) \in Operations /\ Sound(tasks, Now(c)) /\ Due(c, Now(c))
         /\ Tail(todo[c]) # <<>> => Follows(Now(c), todo[c][2])
<1>1. PICK s \in Seq(Operations) : s = todo[c] /\ s # <<>> /\ Chain(tasks, s) /\ Due(c, s[1])
  BY DEF DeployInv, DeployTypes, RequestsInv, Doing, Idle
<1>2. /\ Head(s) = s[1] /\ s[1] \in Operations /\ Sound(tasks, s[1])
      /\ Tail(s) # <<>> => Follows(s[1], s[2])
  BY <1>1, ChainTail
<1> QED BY <1>1, <1>2 DEF Doing, Now

LEMMA GrowSame == tasks' = tasks => Grow(tasks, tasks')
BY DEF Grow

LEMMA UrlOpFacts ==
  ASSUME NEW n \in UrlNames \ {"ensureBinding", "answer"}, NEW u \in Urls
  PROVE  Op(n, u) \in Operations /\ Op(n, u).op = n /\ Op(n, u).u = u /\ \A ts : Sound(ts, Op(n, u))
<1>1. Op(n, u) \in Operations /\ Op(n, u).op = n /\ Op(n, u).u = u
  BY OpTypes
<1>2. ASSUME NEW ts PROVE Sound(ts, Op(n, u))
  BY <1>1 DEF Sound, UrlNames
<1> QED BY <1>1, <1>2

\* The step changes the list of a client that does not wait, and nothing else that
\* matters here.
Mere(c) == ~Answering(c) /\ UNCHANGED <<published, bound, reg, tasks, answers, ends, session>>

LEMMA MereFacts ==
  ASSUME DeployInv, NEW c \in Clients, Mere(c), NEW ops, Go(c, ops) \/ Fail(c)
  PROVE  /\ Grow(tasks, tasks') /\ Undisturbed(c) /\ AskInv'
         /\ todo' \in [Clients -> Seq(Operations)] /\ RequestsInv' => DeployInv'
<1>1. PICK x : Set(c, x)
  BY GoSets
<1>2. Grow(tasks, tasks')
  BY GrowSame DEF Mere
<1>3. ASSUME NEW d \in Clients \ {c}, NEW p, todo[d] # <<>>, p = todo[d][1] PROVE Due(d, p)'
  <2>1. Due(d, p)
    BY <1>3 DEF DeployInv, RequestsInv
  <2>2. contended \subseteq contended'
    BY <1>1, SetShared
  <2> QED BY <2>1, <2>2 DEF Due, Waits, Mere
<1>4. NoNewAsk
  BY DEF NoNewAsk, Mere
<1>5. AskInv'
  BY <1>1, <1>4, AskClient DEF Mere
<1>6. ASSUME todo' \in [Clients -> Seq(Operations)], RequestsInv' PROVE DeployInv'
  BY <1>1, <1>5, <1>6, OnlyTodo DEF Mere
<1> QED BY <1>2, <1>3, <1>5, <1>6 DEF Undisturbed

LEMMA MereOn ==
  ASSUME DeployInv, NEW c \in Clients, todo[c] # <<>>, Plain(todo[c][1]), Mere(c), Go(c, <<>>)
  PROVE  DeployInv'
<1>1. todo' \in [Clients -> Seq(Operations)] /\ RequestsInv'
  BY MereFacts, GoOn DEF DeployInv
<1> QED BY <1>1, MereFacts

LEMMA MereOne ==
  ASSUME DeployInv, NEW c \in Clients, todo[c] # <<>>, Plain(todo[c][1]), Mere(c),
         NEW o \in Operations, Sound(tasks, o), Free(o), Go(c, <<o>>)
  PROVE  DeployInv'
<1>1. Grow(tasks, tasks') /\ Undisturbed(c) /\ Sound(tasks', o)
  BY MereFacts DEF Mere
<1>2. List(tasks', <<o>>, o, o)
  BY <1>1, OneOp
<1>3. Due(c, o)'
  BY DEF Free, Due
<1>4. todo' \in [Clients -> Seq(Operations)] /\ RequestsInv'
  BY <1>1, <1>2, <1>3, GoList DEF DeployInv
<1> QED BY <1>4, MereFacts

LEMMA MereTwo ==
  ASSUME DeployInv, NEW c \in Clients, todo[c] # <<>>, Plain(todo[c][1]), Mere(c),
         NEW o \in Operations, NEW p \in Operations, Sound(tasks, o), Sound(tasks, p), Follows(o, p),
         Free(o), Go(c, <<o, p>>)
  PROVE  DeployInv'
<1>1. Grow(tasks, tasks') /\ Undisturbed(c) /\ Sound(tasks', o) /\ Sound(tasks', p)
  BY MereFacts DEF Mere
<1>2. List(tasks', <<o, p>>, o, p)
  BY <1>1, TwoOps
<1>3. Due(c, o)'
  BY DEF Free, Due
<1>4. todo' \in [Clients -> Seq(Operations)] /\ RequestsInv'
  BY <1>1, <1>2, <1>3, GoList DEF DeployInv
<1> QED BY <1>4, MereFacts

LEMMA MereFail ==
  ASSUME DeployInv, NEW c \in Clients, Mere(c), Fail(c)
  PROVE  DeployInv'
<1>1. todo' \in [Clients -> Seq(Operations)] /\ RequestsInv'
  BY MereFacts, FailStep DEF DeployInv
<1> QED BY <1>1, MereFacts

-----------------------------------------------------------------------------
(* The operations that only read the registry and the repository.          *)

LEMMA EnsureStep == ASSUME DeployInv, NEW c \in Clients, Ensure(c) PROVE DeployInv'
<1>1. todo[c] # <<>> /\ Now(c).op = "ensure" /\ Now(c) = todo[c][1] /\ Now(c) \in Operations
  BY DoingFacts DEF Ensure
<1>2. PICK u : u = Now(c).u /\ u \in Urls
  BY <1>1, OperationFacts
<1>3. Plain(todo[c][1]) /\ Mere(c)
  BY <1>1 DEF Plain, Mere, Answering, Ensure, repo, counters
<1>4. PICK o : o = Op("bind", u)
  OBVIOUS
<1>5. o \in Operations /\ Sound(tasks, o) /\ Free(o)
  BY <1>2, <1>4, UrlOpFacts DEF UrlNames, Free
<1>6. CASE Go(c, <<>>)
  BY <1>1, <1>3, <1>6, MereOn
<1>7. CASE Go(c, <<o>>)
  BY <1>1, <1>3, <1>5, <1>7, MereOne
<1> QED BY <1>2, <1>4, <1>6, <1>7 DEF Ensure

LEMMA NeedStep == ASSUME DeployInv, NEW c \in Clients, Need(c) PROVE DeployInv'
<1>1. todo[c] # <<>> /\ Now(c).op = "need" /\ Now(c) = todo[c][1]
  BY DoingFacts DEF Need
<1>2. Plain(todo[c][1]) /\ Mere(c)
  BY <1>1 DEF Plain, Mere, Answering, Need, repo, counters
<1> QED BY <1>1, <1>2, MereOn, MereFail DEF Need

LEMMA FoundStep == ASSUME DeployInv, NEW c \in Clients, Found(c) PROVE DeployInv'
<1>1. todo[c] # <<>> /\ Now(c).op = "found" /\ Now(c) = todo[c][1]
  BY DoingFacts DEF Found
<1>2. Plain(todo[c][1]) /\ Mere(c)
  BY <1>1 DEF Plain, Mere, Answering, Found, repo, counters
<1> QED BY <1>1, <1>2, MereOn, MereFail DEF Found

LEMMA GiveUpStep == ASSUME DeployInv, NEW c \in Clients, GiveUp(c) PROVE DeployInv'
<1>1. todo[c] # <<>> /\ Now(c).op = "fail" /\ Now(c) = todo[c][1]
  BY DoingFacts DEF GiveUp
<1>2. Mere(c)
  BY <1>1 DEF Mere, Answering, GiveUp, repo, counters
<1> QED BY <1>2, MereFail DEF GiveUp

LEMMA BindStep == ASSUME DeployInv, NEW c \in Clients, Bind(c) PROVE DeployInv'
<1>1. todo[c] # <<>> /\ Now(c).op = "bind" /\ Now(c) = todo[c][1] /\ Now(c) \in Operations
  BY DoingFacts DEF Bind
<1>2. PICK u : u = Now(c).u /\ u \in Urls
  BY <1>1, OperationFacts
<1>3. Plain(todo[c][1]) /\ Mere(c)
  BY <1>1 DEF Plain, Mere, Answering, Bind, repo, counters
<1>4. PICK o : o = Op("spawn", u)
  OBVIOUS
<1>5. o \in Operations /\ Sound(tasks, o) /\ Free(o)
  BY <1>2, <1>4, UrlOpFacts DEF UrlNames, Free
<1>6. CASE Go(c, <<o>>)
  BY <1>1, <1>3, <1>5, <1>6, MereOne
<1> QED BY <1>2, <1>3, <1>4, <1>6, MereFail DEF Bind

LEMMA DismissStep == ASSUME DeployInv, NEW c \in Clients, Dismiss(c) PROVE DeployInv'
<1>1. todo[c] # <<>> /\ Now(c).op = "dismiss" /\ Now(c) = todo[c][1] /\ Now(c) \in Operations
  BY DoingFacts DEF Dismiss
<1>2. PICK u : u = Now(c).u /\ u \in Urls
  BY <1>1, OperationFacts
<1>3. Plain(todo[c][1]) /\ Mere(c)
  BY <1>1 DEF Plain, Mere, Answering, Dismiss, repo, counters
<1>4. PICK o : o = Op("unbind", u)
  OBVIOUS
<1>5. o \in Operations /\ Sound(tasks, o) /\ Free(o)
  BY <1>2, <1>4, UrlOpFacts DEF UrlNames, Free
<1>6. CASE Go(c, <<>>)
  BY <1>1, <1>3, <1>6, MereOn
<1>7. CASE Go(c, <<o>>)
  BY <1>1, <1>3, <1>5, <1>7, MereOne
<1> QED BY <1>2, <1>4, <1>6, <1>7 DEF Dismiss

LEMMA UnbindStep == ASSUME DeployInv, NEW c \in Clients, Unbind(c) PROVE DeployInv'
<1>1. todo[c] # <<>> /\ Now(c).op = "unbind" /\ Now(c) = todo[c][1] /\ Now(c) \in Operations
  BY DoingFacts DEF Unbind
<1>2. PICK u : u = Now(c).u /\ u \in Urls
  BY <1>1, OperationFacts
<1>3. Plain(todo[c][1]) /\ Mere(c)
  BY <1>1 DEF Plain, Mere, Answering, Unbind, repo, counters
<1>4. PICK o, p : o = Op("unlist", u) /\ p = Op("unregister", u)
  OBVIOUS
<1>5. o \in Operations /\ Sound(tasks, o) /\ o.op = "unlist" /\ o.u = u
  BY <1>2, <1>4, UrlOpFacts DEF UrlNames
<1>6. p \in Operations /\ Sound(tasks, p) /\ p.op = "unregister" /\ p.u = u
  BY <1>2, <1>4, UrlOpFacts DEF UrlNames
<1>7. Free(o) /\ Follows(o, p)
  BY <1>5, <1>6 DEF Free, Follows
<1>8. CASE Go(c, <<o, p>>)
  BY <1>1, <1>3, <1>5, <1>6, <1>7, <1>8, MereTwo
<1> QED BY <1>2, <1>3, <1>4, <1>8, MereFail DEF Unbind

LEMMA RegFacts ==
  ASSUME DeployInv, NEW s \in Ids
  PROVE  reg[s] \in Nat /\ (s \in Servants /\ reg[s] # None => TaskOf(tasks, reg[s], {s}))
BY DEF DeployInv, DeployTypes, RegistryInv

LEMMA EnsureBindingStep == ASSUME DeployInv, NEW c \in Clients, EnsureBinding(c) PROVE DeployInv'
<1>1. /\ todo[c] # <<>> /\ Now(c).op = "ensureBinding" /\ Now(c) = todo[c][1]
      /\ Now(c) \in Operations /\ Sound(tasks, Now(c))
  BY DoingFacts DEF EnsureBinding
<1>2. PICK u : u = Now(c).u /\ u \in Urls
  BY <1>1, OperationFacts
<1>3. Plain(todo[c][1]) /\ Mere(c)
  BY <1>1 DEF Plain, Mere, Answering, EnsureBinding, repo, counters
<1>4. Instance(u) \notin Servants
  BY <1>1, <1>2, DeployAssumption DEF Sound
<1>5. PICK o, p : o = Op("register", u) /\ p = [op |-> "enlist", u |-> u, t |-> 1]
  OBVIOUS
<1>6. o \in Operations /\ Sound(tasks, o) /\ o.op = "register" /\ o.u = u
  BY <1>2, <1>5, UrlOpFacts DEF UrlNames
<1>7. p \in EnlistOps /\ p.op = "enlist" /\ p.u = u
  BY <1>2, <1>5 DEF EnlistOps
<1>8. p \in Operations /\ Sound(tasks, p)
  BY <1>4, <1>7 DEF Operations, Sound
<1>9. Free(o) /\ Follows(o, p)
  BY <1>6, <1>7 DEF Free, Follows
<1>10. CASE Go(c, <<o, p>>)
  BY <1>1, <1>3, <1>6, <1>8, <1>9, <1>10, MereTwo
<1>11. CASE Go(c, <<>>)
  BY <1>1, <1>3, <1>11, MereOn
<1> QED BY <1>2, <1>5, <1>10, <1>11 DEF EnsureBinding

LEMMA ConnectFromStep == ASSUME DeployInv, NEW c \in Clients, ConnectFrom(c) PROVE DeployInv'
<1>1. /\ todo[c] # <<>> /\ Now(c).op = "connect" /\ Now(c) = todo[c][1]
      /\ Now(c) \in Operations /\ Sound(tasks, Now(c))
  BY DoingFacts DEF ConnectFrom
<1>2. PICK u, v : u = Now(c).u /\ v = Now(c).v /\ u \in Urls /\ v \in Urls /\ Instance(u) \in Ids
  BY <1>1, OperationFacts, UrlFacts DEF PairNames
<1>3. Plain(todo[c][1]) /\ Mere(c)
  BY <1>1 DEF Plain, Mere, Answering, ConnectFrom, repo, counters
<1>4. PICK t : t = reg[Instance(u)] /\ t \in Nat /\ (t # None => t \in DOMAIN tasks)
  BY <1>1, <1>2, RegFacts DEF Sound, TaskOf
<1>5. PICK o : o = ConnectedTo(u, t, v)
  OBVIOUS
<1>6. o \in ToOps /\ o.op = "connectTo" /\ o.t = t
  BY <1>2, <1>4, <1>5 DEF ToOps, ConnectedTo
<1>7. o \in Operations /\ Free(o) /\ (t # None => Sound(tasks, o))
  BY <1>4, <1>6 DEF Operations, Free, Sound
<1>8. CASE t # None /\ Go(c, <<o>>)
  BY <1>1, <1>3, <1>7, <1>8, MereOne
<1> QED BY <1>2, <1>3, <1>4, <1>5, <1>8, MereFail DEF ConnectFrom

LEMMA ConnectToStep == ASSUME DeployInv, NEW c \in Clients, ConnectTo(c) PROVE DeployInv'
<1>1. /\ todo[c] # <<>> /\ Now(c).op = "connectTo" /\ Now(c) = todo[c][1]
      /\ Now(c) \in Operations /\ Sound(tasks, Now(c))
  BY DoingFacts DEF ConnectTo
<1>2. PICK u, v : u = Now(c).u /\ v = Now(c).v /\ u \in Urls /\ v \in Urls /\ Instance(v) \in Ids
  BY <1>1, OperationFacts, UrlFacts DEF PairNames
<1>3. Plain(todo[c][1]) /\ Mere(c)
  BY <1>1 DEF Plain, Mere, Answering, ConnectTo, repo, counters
<1>4. PICK t : t = Now(c).t /\ t \in DOMAIN tasks /\ t \in Nat
  BY <1>1 DEF Sound, DeployInv, DeployTypes, AreTasks
<1>5. PICK m : m = [m |-> "connect", url |-> v, t |-> reg[Instance(v)]] /\ m \in Notes /\ m.m = "connect"
  <2>1. PICK n \in Nat : n = reg[Instance(v)]
    BY <1>2, RegFacts
  <2>2. [m |-> "connect", url |-> v, t |-> n] \in Notes
    BY <1>2 DEF Notes
  <2> QED BY <2>1, <2>2
<1>6. PICK o : o = Send(u, t, m)
  OBVIOUS
<1>7. o \in SendOps /\ o.op = "send" /\ o.t = t /\ o.m.m = "connect"
  BY <1>2, <1>4, <1>5, <1>6 DEF SendOps, Send
<1>8. o \in Operations /\ Free(o) /\ Sound(tasks, o)
  BY <1>4, <1>7 DEF Operations, Free, Sound
<1>9. CASE Go(c, <<o>>)
  BY <1>1, <1>3, <1>8, <1>9, MereOne
<1>10. CASE Go(c, <<>>)
  BY <1>1, <1>3, <1>10, MereOn
<1> QED BY <1>2, <1>3, <1>4, <1>5, <1>6, <1>9, <1>10, MereFail DEF ConnectTo

LEMMA CutRampStep == ASSUME DeployInv, NEW c \in Clients, CutRamp(c) PROVE DeployInv'
<1>1. /\ todo[c] # <<>> /\ Now(c).op = "cut" /\ Now(c) = todo[c][1]
      /\ Now(c) \in Operations /\ Sound(tasks, Now(c))
  BY DoingFacts DEF CutRamp
<1>2. PICK u, v : u = Now(c).u /\ v = Now(c).v /\ u \in Urls /\ v \in Urls /\ Instance(u) \in Ids
  BY <1>1, OperationFacts, UrlFacts DEF PairNames
<1>3. Plain(todo[c][1]) /\ Mere(c)
  BY <1>1 DEF Plain, Mere, Answering, CutRamp, repo, counters
<1>4. Instance(u) \in Ramps /\ Instance(u) \in Servants
  BY <1>1, <1>2 DEF Sound, Servants
<1>5. PICK t : t = reg[Instance(u)] /\ t \in Nat /\ (t # None => TaskOf(tasks, t, {Instance(u)}))
  BY <1>2, <1>4, RegFacts
<1>6. PICK o : o = Ask(u, t, v)
  OBVIOUS
<1>7. o \in ToOps /\ o.op = "ask" /\ o.t = t /\ o.u = u
  BY <1>2, <1>5, <1>6 DEF ToOps, Ask
<1>8. o \in Operations /\ Free(o) /\ (t # None => Sound(tasks, o))
  BY <1>4, <1>5, <1>7 DEF Operations, Free, Sound
<1>9. CASE t # None /\ Go(c, <<o>>)
  BY <1>1, <1>3, <1>8, <1>9, MereOne
<1> QED BY <1>2, <1>3, <1>5, <1>6, <1>9, MereFail DEF CutRamp

LEMMA CutPipelineStep == ASSUME DeployInv, NEW c \in Clients, CutPipeline(c) PROVE DeployInv'
<1>1. /\ todo[c] # <<>> /\ Now(c).op = "cutOutput" /\ Now(c) = todo[c][1]
      /\ Now(c) \in Operations /\ Sound(tasks, Now(c))
  BY DoingFacts DEF CutPipeline
<1>2. PICK u, v : u = Now(c).u /\ v = Now(c).v /\ u \in Urls /\ v \in Urls /\ Instance(u) \in Ids
  BY <1>1, OperationFacts, UrlFacts DEF PairNames
<1>3. Plain(todo[c][1]) /\ Mere(c)
  BY <1>1 DEF Plain, Mere, Answering, CutPipeline, repo, counters
<1>4. PICK t : t = reg[Instance(u)] /\ t \in Nat /\ (t # None => TaskOf(tasks, t, Pipelines))
  <2>1. Instance(u) \in Pipelines /\ Instance(u) \in Servants
    BY <1>1, <1>2 DEF Sound, Servants
  <2>2. reg[Instance(u)] # None => TaskOf(tasks, reg[Instance(u)], Pipelines)
    BY <1>2, <2>1, RegFacts DEF TaskOf
  <2> QED BY <1>2, <2>2, RegFacts
<1>5. PICK o, p, q : /\ o = Send(u, t, [m |-> "disconnect", url |-> v, t |-> None])
                     /\ p = Op("dismiss", u) /\ q = Op("fail", u)
  OBVIOUS
<1>6. o \in Operations /\ o.op = "send" /\ o.t = t /\ Free(o)
  <2>1. [m |-> "disconnect", url |-> v, t |-> None] \in Notes
    BY <1>2 DEF Notes, None
  <2>2. o \in SendOps /\ o.op = "send" /\ o.t = t
    BY <1>2, <1>4, <1>5, <2>1 DEF SendOps, Send
  <2> QED BY <2>2 DEF Operations, Free
<1>7. p \in Operations /\ p.op = "dismiss" /\ Sound(tasks, p)
  BY <1>2, <1>5, UrlOpFacts DEF UrlNames
<1>8. q \in Operations /\ q.op = "fail" /\ Sound(tasks, q)
  BY <1>2, <1>5, UrlOpFacts DEF UrlNames
<1>9. Free(p) /\ Follows(o, p) /\ Follows(p, q)
  BY <1>7, <1>8 DEF Free, Follows
<1>10. CASE t # None /\ Go(c, <<o, p>>)
  <2>1. Sound(tasks, o)
    BY <1>4, <1>6, <1>10 DEF Sound, TaskOf
  <2> QED BY <1>1, <1>3, <1>6, <1>7, <1>9, <1>10, <2>1, MereTwo
<1>11. CASE Go(c, <<p, q>>)
  BY <1>1, <1>3, <1>7, <1>8, <1>9, <1>11, MereTwo
<1> QED BY <1>2, <1>4, <1>5, <1>10, <1>11 DEF CutPipeline

-----------------------------------------------------------------------------
(* The operations that change the registry and the repository.             *)

LEMMA AnsweredStep == ASSUME DeployInv, NEW c \in Clients, Answered(c) PROVE DeployInv'
<1>1. todo[c] # <<>> /\ Now(c).op = "answer" /\ Now(c) = todo[c][1] /\ Now(c) \in Operations
  BY DoingFacts DEF Answered
<1>2. PICK u : u = Now(c).u /\ u \in Urls
  BY <1>1, OperationFacts
<1>3. Plain(todo[c][1]) /\ UNCHANGED <<published, bound, reg, tasks, ends, session>>
  BY <1>1 DEF Plain, Answered, repo, counters
<1>4. PICK o : o = Op("unbind", u)
  OBVIOUS
<1>5. o \in Operations /\ Sound(tasks', o) /\ o.op = "unbind"
  BY <1>2, <1>4, UrlOpFacts DEF UrlNames
<1>6. Grow(tasks, tasks')
  BY <1>3, GrowSame
<1>7. List(tasks', <<o>>, o, o) /\ Due(c, o)'
  BY <1>5, OneOp DEF Due
<1>8. PICK ops : Go(c, ops) /\ (ops = <<>> \/ ops = <<o>>)
  BY <1>2, <1>4 DEF Answered
<1>9. PICK x : Set(c, x) /\ contended \subseteq contended'
  BY <1>8, GoSets, SetShared
<1>10. answers[c] # <<>> /\ answers' = [answers EXCEPT ![c] = <<>>] /\ DOMAIN answers = Clients
  BY DEF Answered, DeployInv, DeployTypes
<1>11. \A d \in Clients : d # c => answers'[d] = answers[d] /\ todo'[d] = todo[d]
  BY <1>9, <1>10 DEF Set, DeployInv, DeployTypes
<1>12. Undisturbed(c)
  <2>1. ASSUME NEW d \in Clients \ {c}, NEW p, todo[d] # <<>>, p = todo[d][1] PROVE Due(d, p)'
    <3>1. Due(d, p) /\ answers'[d] = answers[d]
      BY <1>11, <2>1 DEF DeployInv, RequestsInv
    <3> QED BY <1>3, <1>9, <3>1 DEF Due, Waits
  <2> QED BY <2>1 DEF Undisturbed
<1>13. AskInv'
  <2>1. ASSUME NEW t, NEW i, NEW d, NEW s, AskOf(tasks, t, i, d, s) PROVE d \in Clients /\ Asked(d, s)'
    <3>1. d \in Clients /\ Asked(d, s)
      BY <2>1 DEF DeployInv, AskInv
    <3>2. d # c
      BY <1>10, <3>1 DEF Asked
    <3>3. answers'[d] = answers[d] /\ todo'[d] = todo[d]
      BY <1>11, <3>1, <3>2
    <3> QED BY <3>1, <3>3 DEF Asked, Answering
  <2>2. ASSUME NEW d \in Clients, answers'[d] # <<>> PROVE Answering(d)'
    <3>1. d # c
      BY <1>10, <2>2
    <3>2. Answering(d) /\ todo'[d] = todo[d]
      BY <1>11, <2>2, <3>1 DEF DeployInv, AskInv
    <3> QED BY <3>2 DEF Answering
  <2> QED BY <1>3, <2>1, <2>2 DEF AskInv, DeployInv
<1>14. todo' \in [Clients -> Seq(Operations)] /\ RequestsInv'
  BY <1>1, <1>3, <1>6, <1>7, <1>8, <1>12, GoList, GoOn DEF DeployInv
<1> QED BY <1>3, <1>9, <1>10, <1>13, <1>14, OnlyTodo

LEMMA RegisterStep == ASSUME DeployInv, NEW c \in Clients, Register(c) PROVE DeployInv'
<1>1. /\ todo[c] # <<>> /\ Now(c).op = "register" /\ Now(c) = todo[c][1]
      /\ Tail(todo[c]) # <<>> => Follows(Now(c), todo[c][2])
  BY DoingFacts DEF Register
<1>2. PICK s : s = Instance(Now(c).u)
  OBVIOUS
<1>a. UNCHANGED <<published, reg, tasks, answers, ends, session>> /\ ~Answering(c)
  BY <1>1 DEF Register, counters, Answering
<1>3. CASE s \in published /\ bound' = bound \union {s} /\ Go(c, <<>>)
  <2>1. PICK p : p = todo[c][2]
    OBVIOUS
  <2>2. ASSUME Tail(todo[c]) # <<>> PROVE Due(c, p)'
    <3>1. Follows(Now(c), p)
      BY <1>1, <2>1, <2>2
    <3>2. p.op \notin {"answer", "unregister"} /\ (p.op = "enlist" => p.u = Now(c).u)
      BY <1>1, <3>1 DEF Follows
    <3>3. s \in bound' \cap published'
      BY <1>3 DEF Register
    <3> QED BY <1>2, <3>2, <3>3 DEF Due
  <2>3. Chain(tasks', <<>>) /\ <<>> \in Seq(Operations) /\ Grow(tasks, tasks')
    BY GrowSame DEF Chain, Register
  <2>a. PICK x : Set(c, x) /\ contended \subseteq contended' /\ SharedInv'
    BY <1>3, GoSets, SetShared
  <2>b. AskInv'
    <3>1. NoNewAsk
      BY <1>a DEF NoNewAsk
    <3> QED BY <1>a, <2>a, <3>1, AskClient
  <2>c. Undisturbed(c)
    <3>1. ASSUME NEW d \in Clients \ {c}, NEW q, todo[d] # <<>>, q = todo[d][1] PROVE Due(d, q)'
      <4>1. Due(d, q)
        BY <3>1 DEF DeployInv, RequestsInv
      <4> QED BY <1>a, <1>3, <2>a, <4>1 DEF Due, Waits
    <3> QED BY <3>1 DEF Undisturbed
  <2>4. todo' \in [Clients -> Seq(Operations)] /\ RequestsInv'
    BY <1>1, <1>3, <2>1, <2>2, <2>3, <2>c, GoStep DEF DeployInv
  <2>5. RegisteredIsBound'
    BY <1>a, <1>3, <2>a DEF DeployInv, RegisteredIsBound
  <2>6. RegistryInv' /\ DeployTypes'
    BY <1>a, <2>4 DEF DeployInv, DeployTypes, RegistryInv
  <2> QED BY <2>4, <2>5, <2>6, <2>a, <2>b DEF DeployInv
<1>4. CASE Fail(c) /\ bound' = bound
  <2>1. Mere(c)
    BY <1>a, <1>4 DEF Mere
  <2> QED BY <1>4, <2>1, MereFail
<1> QED BY <1>2, <1>3, <1>4 DEF Register

LEMMA EnlistStep == ASSUME DeployInv, NEW c \in Clients, Enlist(c) PROVE DeployInv'
<1>1. /\ todo[c] # <<>> /\ Now(c).op = "enlist" /\ Now(c) = todo[c][1]
      /\ Now(c) \in Operations /\ Sound(tasks, Now(c)) /\ Due(c, Now(c))
  BY DoingFacts DEF Enlist
<1>2. PICK u, t : u = Now(c).u /\ t = Now(c).t /\ u \in Urls /\ t \in Nat /\ Instance(u) \in Ids
  BY <1>1, OperationFacts, UrlFacts
<1>3. PICK s : s = Instance(u)
  OBVIOUS
<1>4. s \in contended \union (bound \cap published) /\ (s \in Servants => TaskOf(tasks, t, {s}))
  BY <1>1, <1>2, <1>3 DEF Sound, Due
<1>5. reg' = [reg EXCEPT ![s] = t]
  BY <1>2, <1>3 DEF Enlist
<1>a. UNCHANGED <<published, bound, tasks, answers, ends, session>> /\ ~Answering(c)
  BY <1>1 DEF Enlist, repo, counters, Answering
<1>b. PICK x : Set(c, x) /\ contended \subseteq contended' /\ SharedInv'
  <2>1. Go(c, <<>>) \/ Fail(c)
    BY DEF Enlist
  <2> QED BY <2>1, GoSets, SetShared
<1>c. reg' \in [Ids -> Nat] /\ \A y \in Ids : reg'[y] = IF y = s THEN t ELSE reg[y]
  BY <1>2, <1>5 DEF DeployInv, DeployTypes
<1>6. RegisteredIsBound' /\ RegistryInv'
  <2>3. RegisteredIsBound'
    BY <1>4, <1>a, <1>b, <1>c DEF DeployInv, RegisteredIsBound
  <2>4. ASSUME NEW y \in Servants, reg'[y] # None PROVE TaskOf(tasks', reg'[y], {y})
    BY <1>4, <1>a, <1>c, <2>4 DEF DeployInv, RegistryInv, Ids
  <2> QED BY <2>3, <2>4 DEF RegistryInv
<1>7. Plain(todo[c][1]) /\ Grow(tasks, tasks')
  BY <1>1, <1>a, GrowSame DEF Plain
<1>d. Undisturbed(c)
  <2>1. ASSUME NEW d \in Clients \ {c}, NEW q, todo[d] # <<>>, q = todo[d][1] PROVE Due(d, q)'
    <3>1. Due(d, q) /\ q \in Operations
      BY <2>1 DEF DeployInv, DeployTypes, RequestsInv
    <3>2. Instance(q.u) \in Ids
      BY <3>1, OperationFacts, UrlFacts
    <3>3. CASE Instance(q.u) = s
      <4>1. s \in contended
        BY <1>1, <1>2, <1>3, <2>1, <3>3, BothNamed
      <4> QED BY <1>a, <1>b, <3>1, <3>3, <4>1 DEF Due, Waits
    <3>4. CASE Instance(q.u) # s
      BY <1>a, <1>b, <1>c, <3>1, <3>2, <3>4 DEF Due, Waits
    <3> QED BY <3>3, <3>4
  <2> QED BY <2>1 DEF Undisturbed
<1>e. AskInv'
  <2>1. NoNewAsk
    BY <1>a DEF NoNewAsk
  <2> QED BY <1>a, <1>b, <2>1, AskClient
<1>8. todo' \in [Clients -> Seq(Operations)] /\ RequestsInv'
  BY <1>1, <1>7, <1>d, GoOn, FailStep DEF DeployInv, Enlist
<1>9. DeployTypes'
  BY <1>a, <1>c, <1>8 DEF DeployInv, DeployTypes
<1> QED BY <1>6, <1>8, <1>9, <1>b, <1>e DEF DeployInv

LEMMA UnlistStep == ASSUME DeployInv, NEW c \in Clients, Unlist(c) PROVE DeployInv'
<1>1. /\ todo[c] # <<>> /\ Now(c).op \in {"unlist", "unlistBinding"} /\ Now(c) = todo[c][1]
      /\ Now(c) \in Operations
      /\ Tail(todo[c]) # <<>> => Follows(Now(c), todo[c][2])
  BY DoingFacts DEF Unlist
<1>2. PICK u : u = Now(c).u /\ u \in Urls /\ Instance(u) \in Ids
  BY <1>1, OperationFacts, UrlFacts
<1>3. PICK s : s = Instance(u)
  OBVIOUS
<1>4. reg' = [reg EXCEPT ![s] = None]
  BY <1>2, <1>3 DEF Unlist
<1>5. /\ reg \in [Ids -> Nat] /\ UNCHANGED <<published, bound, tasks, answers, ends, session>>
      /\ ~Answering(c)
  BY <1>1 DEF DeployInv, DeployTypes, Unlist, repo, counters, Answering
<1>6. reg' \in [Ids -> Nat] /\ \A x \in Ids : reg'[x] = IF x = s THEN None ELSE reg[x]
  BY <1>4, <1>5 DEF None
<1>12. PICK o, q : o = Op("unregister", u) /\ q = Op("fail", u)
  OBVIOUS
<1>a. Go(c, <<>>) \/ Go(c, <<o, q>>) \/ Fail(c)
  BY <1>2, <1>12 DEF Unlist
<1>b. PICK x : Set(c, x) /\ contended \subseteq contended' /\ SharedInv'
  BY <1>a, GoSets, SetShared
<1>7. RegisteredIsBound' /\ RegistryInv'
  BY <1>5, <1>6, <1>b DEF DeployInv, RegisteredIsBound, RegistryInv, Ids
<1>8. Grow(tasks, tasks') /\ reg'[s] = None
  BY <1>2, <1>3, <1>5, <1>6, GrowSame
<1>c. Undisturbed(c)
  <2>1. ASSUME NEW d \in Clients \ {c}, NEW r, todo[d] # <<>>, r = todo[d][1] PROVE Due(d, r)'
    <3>1. Due(d, r) /\ r \in Operations
      BY <2>1 DEF DeployInv, DeployTypes, RequestsInv
    <3>2. Instance(r.u) \in Ids
      BY <3>1, OperationFacts, UrlFacts
    <3> QED BY <1>5, <1>6, <1>b, <3>1, <3>2 DEF Due, Waits
  <2> QED BY <2>1 DEF Undisturbed
<1>d. AskInv'
  <2>1. NoNewAsk
    BY <1>5 DEF NoNewAsk
  <2> QED BY <1>5, <1>b, <2>1, AskClient
<1>9. PICK p : p = todo[c][2]
  OBVIOUS
<1>10. Tail(todo[c]) # <<>> => p.op \notin {"answer", "enlist"} /\ (p.op = "unregister" => p.u = u)
  BY <1>1, <1>2, <1>9 DEF Follows
<1>11. ASSUME Go(c, <<>>) PROVE todo' \in [Clients -> Seq(Operations)] /\ RequestsInv'
  <2>1. Tail(todo[c]) # <<>> => Due(c, p)'
    BY <1>3, <1>8, <1>10 DEF Due
  <2>2. Chain(tasks', <<>>) /\ <<>> \in Seq(Operations)
    BY DEF Chain
  <2> QED BY <1>1, <1>8, <1>9, <1>11, <1>c, <2>1, <2>2, GoStep DEF DeployInv
<1>13. ASSUME Go(c, <<o, q>>) PROVE todo' \in [Clients -> Seq(Operations)] /\ RequestsInv'
  <2>1. o \in Operations /\ o.op = "unregister" /\ o.u = u /\ Sound(tasks', o)
    BY <1>2, <1>12, UrlOpFacts DEF UrlNames
  <2>2. q \in Operations /\ q.op = "fail" /\ Sound(tasks', q)
    BY <1>2, <1>12, UrlOpFacts DEF UrlNames
  <2>3. Follows(o, q) /\ Due(c, o)' /\ (Tail(todo[c]) # <<>> => Follows(q, p))
    BY <1>3, <1>8, <1>10, <2>1, <2>2 DEF Follows, Due
  <2>4. PICK ops : ops = <<o, q>> /\ List(tasks', ops, o, q)
    BY <2>1, <2>2, <2>3, TwoOps
  <2>5. ops \in Seq(Operations) /\ ops # <<>> /\ Chain(tasks', ops) /\ ops[1] = o /\ ops[Len(ops)] = q /\ Go(c, ops)
    BY <1>13, <2>4 DEF List
  <2> QED BY <1>1, <1>8, <1>9, <1>c, <2>3, <2>5, GoStep DEF DeployInv
<1>14. todo' \in [Clients -> Seq(Operations)] /\ RequestsInv'
  BY <1>8, <1>11, <1>13, <1>a, <1>c, FailStep DEF DeployInv
<1>15. DeployTypes'
  BY <1>5, <1>6, <1>14 DEF DeployInv, DeployTypes
<1> QED BY <1>7, <1>14, <1>15, <1>b, <1>d DEF DeployInv

LEMMA UnregisterStep == ASSUME DeployInv, NEW c \in Clients, Unregister(c) PROVE DeployInv'
<1>1. /\ todo[c] # <<>> /\ Now(c).op = "unregister" /\ Now(c) = todo[c][1] /\ Due(c, Now(c))
  BY DoingFacts DEF Unregister
<1>2. PICK s : s = Instance(Now(c).u) /\ (s \in contended \/ reg[s] = None)
  BY <1>1 DEF Due
<1>a. UNCHANGED <<published, reg, tasks, answers, ends, session>> /\ ~Answering(c)
  BY <1>1 DEF Unregister, counters, Answering
<1>3. CASE bound' = bound \ {s} /\ Go(c, <<>>)
  <2>1. Plain(todo[c][1]) /\ Grow(tasks, tasks')
    BY <1>1, GrowSame DEF Plain, Unregister
  <2>a. PICK x : Set(c, x) /\ contended \subseteq contended' /\ SharedInv'
    BY <1>3, GoSets, SetShared
  <2>b. AskInv'
    <3>1. NoNewAsk
      BY <1>a DEF NoNewAsk
    <3> QED BY <1>a, <2>a, <3>1, AskClient
  <2>c. Undisturbed(c)
    <3>1. ASSUME NEW d \in Clients \ {c}, NEW q, todo[d] # <<>>, q = todo[d][1] PROVE Due(d, q)'
      <4>1. Due(d, q)
        BY <3>1 DEF DeployInv, RequestsInv
      <4>2. CASE Instance(q.u) = s
        <5>1. s \in contended
          BY <1>1, <1>2, <3>1, <4>2, BothNamed
        <5> QED BY <1>a, <2>a, <4>1, <4>2, <5>1 DEF Due, Waits
      <4>3. CASE Instance(q.u) # s
        BY <1>a, <1>3, <2>a, <4>1, <4>3 DEF Due, Waits
      <4> QED BY <4>2, <4>3
    <3> QED BY <3>1 DEF Undisturbed
  <2>2. todo' \in [Clients -> Seq(Operations)] /\ RequestsInv'
    BY <1>1, <1>3, <2>1, <2>c, GoOn DEF DeployInv
  <2>3. RegisteredIsBound'
    BY <1>2, <1>3, <1>a, <2>a DEF DeployInv, RegisteredIsBound
  <2>4. RegistryInv' /\ DeployTypes'
    BY <1>a, <2>2 DEF DeployInv, DeployTypes, RegistryInv
  <2> QED BY <2>2, <2>3, <2>4, <2>a, <2>b DEF DeployInv
<1>4. CASE Fail(c) /\ bound' = bound
  <2>1. Mere(c)
    BY <1>a, <1>4 DEF Mere
  <2> QED BY <1>4, <2>1, MereFail
<1> QED BY <1>2, <1>3, <1>4 DEF Unregister

-----------------------------------------------------------------------------
(* The tasks.                                                              *)

LEMMA SameTasks ==
  ASSUME NEW ts, AreTasks(ts), NEW us, us = [x \in DOMAIN ts |-> us[x]], \A x \in DOMAIN ts : IsTask(us[x])
  PROVE  AreTasks(us) /\ DOMAIN us = DOMAIN ts
<1>1. PICK n \in Nat : n = Len(ts) /\ DOMAIN ts = 1 .. n
  BY DEF AreTasks
<1>2. PICK R : R = {us[x] : x \in DOMAIN us}
  OBVIOUS
<1>3. DOMAIN us = 1 .. n /\ \A x \in 1 .. n : us[x] \in R
  BY <1>1, <1>2
<1>4. us = [x \in 1 .. n |-> us[x]]
  BY <1>1
<1>5. us \in Seq(R)
  BY <1>3, <1>4
<1> QED BY <1>1, <1>2, <1>3, <1>5 DEF AreTasks

LEMMA MoreTasks ==
  ASSUME NEW ts, AreTasks(ts), NEW r, IsTask(r)
  PROVE  /\ AreTasks(Append(ts, r)) /\ Grow(ts, Append(ts, r)) /\ Len(ts) \in Nat
         /\ DOMAIN Append(ts, r) = DOMAIN ts \union {Len(ts) + 1} /\ Append(ts, r)[Len(ts) + 1] = r
         /\ \A x \in DOMAIN ts : Append(ts, r)[x] = ts[x]
<1>1. PICK us : us = Append(ts, r)
  OBVIOUS
<1>2. PICK S : ts \in Seq(S) /\ r \in S
  <2>1. ts \in Seq({ts[t] : t \in DOMAIN ts} \union {r})
    BY DEF AreTasks
  <2> QED BY <2>1
<1>3. /\ us \in Seq(S) /\ Len(ts) \in Nat /\ Len(us) = Len(ts) + 1
      /\ DOMAIN us = DOMAIN ts \union {Len(ts) + 1}
      /\ \A i \in DOMAIN ts : us[i] = ts[i]
      /\ us[Len(ts) + 1] = r
  BY <1>1, <1>2, AppendFacts
<1>4. \A x \in DOMAIN us : IsTask(us[x])
  BY <1>3 DEF AreTasks
<1>5. PICK n \in Nat : n = Len(us) /\ DOMAIN us = 1 .. n
  BY <1>3
<1>6. us \in Seq({us[x] : x \in DOMAIN us})
  <2>1. PICK R : R = {us[x] : x \in DOMAIN us}
    OBVIOUS
  <2>2. us = [x \in 1 .. n |-> us[x]] /\ \A x \in 1 .. n : us[x] \in R
    BY <1>3, <1>5, <2>1
  <2>3. us \in Seq(R)
    BY <2>2
  <2> QED BY <2>1, <2>3
<1>7. AreTasks(us) /\ Grow(ts, us)
  BY <1>3, <1>4, <1>6 DEF AreTasks, Grow
<1> QED BY <1>1, <1>3, <1>7

\* Nothing that may have come is a Disconnect.
NoneNew(r, s) == \A i \in DOMAIN s.box : i \in DOMAIN r.box \/ s.box[i].m # "disconnect"

\* What is registered stays a task.
LEMMA RegistryKept ==
  ASSUME RegistryInv, reg' = reg, Grow(tasks, tasks')
  PROVE  RegistryInv'
BY DEF RegistryInv, Grow, TaskOf

\* A task that may have got a message.
Longer(r, s) ==
    /\ IsTask(s) /\ s.id = r.id /\ s.alive = r.alive
    /\ \A i \in DOMAIN r.box : i \in DOMAIN s.box /\ s.box[i] = r.box[i]

\* Tasks may have got messages and new tasks started: who waited waits still.
MoreMail == \A x \in DOMAIN tasks : x \in DOMAIN tasks' /\ Longer(tasks[x], tasks'[x])

LEMMA AwaitedStill ==
  ASSUME MoreMail, NEW d, NEW s, Awaited(tasks, d, s) PROVE Awaited(tasks, d, s)'
<1>1. PICK x \in DOMAIN tasks :
          /\ tasks[x].alive /\ TaskOf(tasks, x, {s})
          /\ \E i \in DOMAIN tasks[x].box : tasks[x].box[i].m = "disconnect" /\ tasks[x].box[i].c = d
  BY DEF Awaited
<1>2. PICK i \in DOMAIN tasks[x].box : tasks[x].box[i].m = "disconnect" /\ tasks[x].box[i].c = d
  BY <1>1
<1>3. x \in DOMAIN tasks' /\ tasks'[x].alive /\ TaskOf(tasks', x, {s}) /\ i \in DOMAIN tasks'[x].box /\ tasks'[x].box[i] = tasks[x].box[i]
  BY <1>1 DEF MoreMail, Longer, TaskOf
<1> QED BY <1>2, <1>3 DEF Awaited

LEMMA MailUndisturbed ==
  ASSUME DeployInv, NEW c \in Clients, MoreMail, UNCHANGED <<published, bound, reg, answers, ends>>,
         contended \subseteq contended'
  PROVE  Undisturbed(c)
<1>1. ASSUME NEW d \in Clients \ {c}, NEW p, todo[d] # <<>>, p = todo[d][1] PROVE Due(d, p)'
  <2>1. Due(d, p)
    BY <1>1 DEF DeployInv, RequestsInv
  <2>2. Waits(d, Instance(p.u)) => Waits(d, Instance(p.u))'
    BY AwaitedStill DEF Waits
  <2> QED BY <2>1, <2>2 DEF Due
<1> QED BY <1>1 DEF Undisturbed

LEMMA SpawnStep == ASSUME DeployInv, NEW c \in Clients, Spawn(c) PROVE DeployInv'
<1>1. todo[c] # <<>> /\ Now(c).op = "spawn" /\ Now(c) = todo[c][1] /\ Now(c) \in Operations
  BY DoingFacts DEF Spawn
<1>2. PICK u : u = Now(c).u /\ u \in Urls
  BY <1>1, OperationFacts
<1>3. Plain(todo[c][1]) /\ UNCHANGED <<published, bound, reg, answers, ends, session>> /\ ~Answering(c)
  BY <1>1 DEF Plain, Spawn, repo, Answering
<1>4. CASE Fail(c) /\ tasks' = tasks
  <2>1. Mere(c)
    BY <1>3, <1>4 DEF Mere
  <2> QED BY <1>4, <2>1, MereFail
<1>5. PICK t : t = Len(tasks) + 1
  OBVIOUS
<1>6. PICK a, b, d, e : /\ a = Op("register", u) /\ b = [op |-> "enlist", u |-> u, t |-> t]
                        /\ d = Op("need", u) /\ e = Op("found", u)
  OBVIOUS
<1>7. CASE tasks' = Append(tasks, NewTask(u)) /\ Go(c, <<a, b, d, e>>)
  <2>1. PICK r : r = NewTask(u) /\ IsTask(r) /\ r.id = u /\ r.box = <<>>
    <3>1. PICK r : r = NewTask(u)
      OBVIOUS
    <3>2. <<>> \in Seq(Messages)
      OBVIOUS
    <3>3. r = [id |-> u, alive |-> TRUE, box |-> <<>>, outs |-> <<>>, ins |-> {}]
      BY <3>1 DEF NewTask
    <3>4. r.id = u /\ r.alive = TRUE /\ r.box = <<>> /\ r.outs = <<>> /\ r.ins = {}
      BY <3>3
    <3>5. r = [id |-> r.id, alive |-> r.alive, box |-> r.box, outs |-> r.outs, ins |-> r.ins]
      BY <3>3, <3>4, Zenon
    <3>6. IsTask(r)
      BY <1>2, <3>2, <3>4, <3>5, Zenon DEF IsTask
    <3> QED BY <3>1, <3>4, <3>6
  <2>2. /\ AreTasks(tasks') /\ Grow(tasks, tasks') /\ t \in Nat
        /\ t \in DOMAIN tasks' /\ tasks'[t] = r
        /\ DOMAIN tasks' = DOMAIN tasks \union {t} /\ \A x \in DOMAIN tasks : tasks'[x] = tasks[x]
    BY <1>5, <1>7, <2>1, MoreTasks DEF DeployInv, DeployTypes
  <2>3. a \in Operations /\ a.op = "register" /\ a.u = u /\ Sound(tasks', a)
    BY <1>2, <1>6, UrlOpFacts DEF UrlNames
  <2>4. d \in Operations /\ d.op = "need" /\ Sound(tasks', d)
    BY <1>2, <1>6, UrlOpFacts DEF UrlNames
  <2>5. e \in Operations /\ e.op = "found" /\ Sound(tasks', e)
    BY <1>2, <1>6, UrlOpFacts DEF UrlNames
  <2>6. b \in EnlistOps /\ b.op = "enlist" /\ b.u = u /\ b.t = t
    BY <1>2, <1>6, <2>2 DEF EnlistOps
  <2>7. b \in Operations /\ Sound(tasks', b)
    BY <2>1, <2>2, <2>6 DEF Operations, Sound, TaskOf
  <2>8. Follows(a, b) /\ Follows(b, d) /\ Follows(d, e) /\ Due(c, a)'
    BY <2>3, <2>4, <2>5, <2>6 DEF Follows, Due
  <2>9. List(tasks', <<a, b>>, a, b) /\ List(tasks', <<d, e>>, d, e)
    BY <2>3, <2>4, <2>5, <2>7, <2>8, TwoOps
  <2>10. List(tasks', <<a, b, d, e>>, a, e)
    BY <2>8, <2>9, FourOps
  <2>a. PICK ops : Set(c, ops) /\ contended \subseteq contended' /\ SharedInv'
    BY <1>7, GoSets, SetShared
  <2>b. MoreMail
    BY <2>2 DEF MoreMail, Longer, DeployInv, DeployTypes, AreTasks
  <2>c. Undisturbed(c)
    BY <1>3, <2>a, <2>b, MailUndisturbed
  <2>d. NoNewAsk
    <3>1. ASSUME NEW x, NEW i, NEW k, NEW s, AskOf(tasks', x, i, k, s) PROVE AskOf(tasks, x, i, k, s)
      <4>1. x \in DOMAIN tasks' /\ x # t
        BY <2>1, <2>2, <3>1 DEF AskOf, IsAsk, TaskOf
      <4> QED BY <2>2, <3>1, <4>1 DEF AskOf, IsAsk, TaskOf
    <3> QED BY <3>1 DEF NoNewAsk
  <2>e. AskInv'
    BY <1>3, <2>a, <2>d, AskClient
  <2>11. todo' \in [Clients -> Seq(Operations)] /\ RequestsInv'
    BY <1>1, <1>3, <1>7, <2>2, <2>8, <2>10, <2>c, GoList DEF DeployInv
  <2>12. DeployTypes' /\ RegisteredIsBound'
    BY <1>3, <2>2, <2>11, <2>a DEF DeployInv, DeployTypes, RegisteredIsBound
  <2>13. RegistryInv'
    BY <1>3, <2>2, RegistryKept DEF DeployInv
  <2> QED BY <2>11, <2>12, <2>13, <2>a, <2>e DEF DeployInv
<1> QED BY <1>2, <1>4, <1>5, <1>6, <1>7 DEF Spawn

\* A message comes to the mailbox of a task.
LEMMA Delivered ==
  ASSUME AreTasks(tasks), NEW t \in DOMAIN tasks, NEW m \in Messages,
         tasks' = [tasks EXCEPT ![t].box = Append(@, m)]
  PROVE  \E n :
         /\ AreTasks(tasks') /\ DOMAIN tasks' = DOMAIN tasks /\ Grow(tasks, tasks') /\ MoreMail
         /\ \A x \in DOMAIN tasks : x # t => tasks'[x] = tasks[x]
         /\ n \notin DOMAIN tasks[t].box /\ DOMAIN tasks'[t].box = DOMAIN tasks[t].box \union {n}
         /\ tasks'[t].box[n] = m
<1>2. PICK r : r = tasks[t] /\ IsTask(r)
  BY DEF AreTasks
<1>3. PICK n, b : /\ b = Append(r.box, m) /\ b \in Seq(Messages)
                  /\ n \notin DOMAIN r.box /\ DOMAIN b = DOMAIN r.box \union {n} /\ b[n] = m
                  /\ \A i \in DOMAIN r.box : b[i] = r.box[i]
  <2>1. r.box \in Seq(Messages)
    BY <1>2 DEF IsTask
  <2>2. PICK b : b = Append(r.box, m)
    OBVIOUS
  <2>3. /\ b \in Seq(Messages) /\ Len(r.box) \in Nat /\ DOMAIN b = DOMAIN r.box \union {Len(r.box) + 1}
        /\ b[Len(r.box) + 1] = m /\ \A i \in DOMAIN r.box : b[i] = r.box[i]
    BY <2>1, <2>2, AppendFacts
  <2>4. Len(r.box) + 1 \notin DOMAIN r.box
    BY <2>1
  <2> QED BY <2>2, <2>3, <2>4
<1>4. PICK q : q = [r EXCEPT !.box = b]
  OBVIOUS
<1>5. IsTask(q) /\ q.id = r.id /\ q.alive = r.alive /\ q.box = b
  BY <1>2, <1>3, <1>4 DEF IsTask
<1>6. tasks' = [tasks EXCEPT ![t] = q]
  BY <1>2, <1>3, <1>4
<1>7. tasks' = [x \in DOMAIN tasks |-> tasks'[x]] /\ \A x \in DOMAIN tasks : tasks'[x] = IF x = t THEN q ELSE tasks[x]
  BY <1>6
<1>8. \A x \in DOMAIN tasks : IsTask(tasks'[x])
  BY <1>5, <1>7 DEF AreTasks
<1>9. AreTasks(tasks') /\ DOMAIN tasks' = DOMAIN tasks
  <2>1. PICK us : us = tasks'
    OBVIOUS
  <2>2. us = [x \in DOMAIN tasks |-> us[x]] /\ \A x \in DOMAIN tasks : IsTask(us[x])
    BY <1>7, <1>8, <2>1, Zenon
  <2>3. AreTasks(us) /\ DOMAIN us = DOMAIN tasks
    BY <2>2, SameTasks, Zenon
  <2> QED BY <2>1, <2>3, Zenon
<1>10. Grow(tasks, tasks')
  BY <1>2, <1>5, <1>7, <1>9 DEF Grow
<1>11. MoreMail
  <2>1. Longer(r, q)
    BY <1>3, <1>5 DEF Longer
  <2>2. \A x \in DOMAIN tasks : x # t => Longer(tasks[x], tasks'[x])
    BY <1>7, <1>8 DEF Longer
  <2> QED BY <1>2, <1>7, <1>9, <2>1, <2>2 DEF MoreMail
<1>12. tasks'[t].box = b
  BY <1>5, <1>7
<1> QED BY <1>2, <1>3, <1>7, <1>9, <1>10, <1>11, <1>12

LEMMA SendToStep == ASSUME DeployInv, NEW c \in Clients, SendTo(c) PROVE DeployInv'
<1>1. /\ todo[c] # <<>> /\ Now(c).op = "send" /\ Now(c) = todo[c][1]
      /\ Now(c) \in Operations /\ Sound(tasks, Now(c))
      /\ Tail(todo[c]) # <<>> => Follows(Now(c), todo[c][2])
  BY DoingFacts DEF SendTo
<1>2. PICK t, m : t = Now(c).t /\ m = Now(c).m /\ t \in DOMAIN tasks /\ m \in Messages
  BY <1>1, OperationFacts DEF Sound, Messages
<1>3. UNCHANGED <<published, bound, reg, answers, ends, session>> /\ ~Answering(c)
  BY <1>1 DEF SendTo, repo, counters, Answering
<1>4. CASE Fail(c) /\ tasks' = tasks
  <2>1. Mere(c)
    BY <1>3, <1>4 DEF Mere
  <2> QED BY <1>4, <2>1, MereFail
<1>5. CASE Go(c, <<>>) /\ tasks' = [tasks EXCEPT ![t].box = Append(@, m)]
  <2>1. PICK n :
         /\ AreTasks(tasks') /\ DOMAIN tasks' = DOMAIN tasks /\ Grow(tasks, tasks') /\ MoreMail
         /\ \A x \in DOMAIN tasks : x # t => tasks'[x] = tasks[x]
         /\ n \notin DOMAIN tasks[t].box /\ DOMAIN tasks'[t].box = DOMAIN tasks[t].box \union {n}
         /\ tasks'[t].box[n] = m
    <3>1. AreTasks(tasks)
      BY DEF DeployInv, DeployTypes
    <3>2. t \in DOMAIN tasks /\ m \in Messages /\ tasks' = [tasks EXCEPT ![t].box = Append(@, m)]
      BY <1>2, <1>5, Zenon
    <3> QED BY <3>1, <3>2, Delivered
  <2>2. m.m = "disconnect" => ~TaskOf(tasks, t, Ramps)
    BY <1>1, <1>2, DeployAssumption DEF Sound, TaskOf
  <2>3. NoNewAsk
    <3>1. ASSUME NEW x, NEW i, NEW k, NEW s, AskOf(tasks', x, i, k, s) PROVE AskOf(tasks, x, i, k, s)
      <4>1. x \in DOMAIN tasks /\ tasks'[x].id = tasks[x].id /\ TaskOf(tasks, x, Ramps)
        BY <2>1, <3>1 DEF AskOf, IsAsk, TaskOf, Grow
      <4>2. i \in DOMAIN tasks[x].box
        BY <2>1, <2>2, <3>1, <4>1 DEF AskOf, IsAsk
      <4> QED BY <2>1, <3>1, <4>1, <4>2 DEF AskOf, IsAsk, MoreMail, Longer
    <3> QED BY <3>1 DEF NoNewAsk
  <2>a. PICK x : Set(c, x) /\ contended \subseteq contended' /\ SharedInv'
    BY <1>5, GoSets, SetShared
  <2>b. AskInv'
    BY <1>3, <2>3, <2>a, AskClient
  <2>c. Undisturbed(c)
    BY <1>3, <2>1, <2>a, MailUndisturbed
  <2>11. PICK p : p = todo[c][2]
    OBVIOUS
  <2>12. Tail(todo[c]) # <<>> => Due(c, p)'
    BY <1>1, <2>11 DEF Follows, Due
  <2>13. Chain(tasks', <<>>) /\ <<>> \in Seq(Operations)
    BY DEF Chain
  <2>14. todo' \in [Clients -> Seq(Operations)] /\ RequestsInv'
    BY <1>1, <1>5, <2>1, <2>11, <2>12, <2>13, <2>c, GoStep DEF DeployInv
  <2>15. DeployTypes' /\ RegisteredIsBound'
    BY <1>3, <2>1, <2>14, <2>a DEF DeployInv, DeployTypes, RegisteredIsBound
  <2>16. RegistryInv'
    BY <1>3, <2>1, RegistryKept DEF DeployInv
  <2> QED BY <2>14, <2>15, <2>16, <2>a, <2>b DEF DeployInv
<1> QED BY <1>2, <1>4, <1>5 DEF SendTo

LEMMA DisconnectStep == ASSUME DeployInv, NEW c \in Clients, Disconnect(c) PROVE DeployInv'
<1>1. /\ todo[c] # <<>> /\ Now(c).op = "ask" /\ Now(c) = todo[c][1]
      /\ Now(c) \in Operations /\ Sound(tasks, Now(c))
  BY DoingFacts DEF Disconnect
<1>2. PICK t, u, v : t = Now(c).t /\ u = Now(c).u /\ v = Now(c).v /\ u \in Urls /\ v \in Urls
  BY <1>1, OperationFacts
<1>3. TaskOf(tasks, t, {Instance(u)}) /\ t \in DOMAIN tasks /\ Instance(u) \in Ramps /\ Instance(tasks[t].id) = Instance(u)
  BY <1>1, <1>2 DEF Sound, TaskOf
<1>4. Plain(todo[c][1]) /\ UNCHANGED <<published, bound, reg, answers, ends, session>> /\ ~Answering(c)
  BY <1>1 DEF Plain, Disconnect, repo, counters, Answering
<1>5. PICK m : m = [m |-> "disconnect", url |-> v, t |-> None, c |-> c]
  OBVIOUS
<1>6. m \in Messages /\ m.m = "disconnect" /\ m.c = c
  BY <1>2, <1>5 DEF Messages, None
<1>7. CASE Fail(c) /\ tasks' = tasks
  <2>1. Mere(c)
    BY <1>4, <1>7 DEF Mere
  <2> QED BY <1>7, <2>1, MereFail
<1>8. PICK o : o = Op("answer", u)
  OBVIOUS
<1>9. CASE tasks[t].alive /\ Go(c, <<o>>) /\ tasks' = [tasks EXCEPT ![t].box = Append(@, m)]
  <2>1. PICK n :
         /\ AreTasks(tasks') /\ DOMAIN tasks' = DOMAIN tasks /\ Grow(tasks, tasks') /\ MoreMail
         /\ \A x \in DOMAIN tasks : x # t => tasks'[x] = tasks[x]
         /\ n \notin DOMAIN tasks[t].box /\ DOMAIN tasks'[t].box = DOMAIN tasks[t].box \union {n}
         /\ tasks'[t].box[n] = m
    BY <1>3, <1>6, <1>9, Delivered DEF DeployInv, DeployTypes
  <2>2. o \in Operations /\ o.op = "answer" /\ o.u = u
    <3>1. "answer" \in UrlNames
      BY DEF UrlNames
    <3> QED BY <1>2, <1>8, <3>1, OpTypes
  <2>3. Sound(tasks', o)
    BY <1>3, <2>2 DEF Sound
  <2>4. Awaited(tasks', c, Instance(u))
    <3>1. tasks'[t].alive /\ TaskOf(tasks', t, {Instance(u)}) /\ t \in DOMAIN tasks' /\ n \in DOMAIN tasks'[t].box
      BY <1>3, <1>9, <2>1 DEF MoreMail, Longer, TaskOf
    <3> QED BY <1>6, <2>1, <3>1 DEF Awaited
  <2>5. Due(c, o)'
    BY <2>2, <2>4 DEF Due, Waits
  <2>6. List(tasks', <<o>>, o, o)
    BY <2>2, <2>3, OneOp
  <2>a. PICK x : Set(c, x) /\ contended \subseteq contended' /\ SharedInv'
    BY <1>9, GoSets, SetShared
  <2>c. Undisturbed(c)
    BY <1>4, <2>1, <2>a, MailUndisturbed
  <2>7. todo' \in [Clients -> Seq(Operations)] /\ RequestsInv'
    BY <1>1, <1>4, <1>9, <2>1, <2>5, <2>6, <2>c, GoList DEF DeployInv
  <2>8. todo'[c] # <<>> /\ todo'[c][1] = o /\ \A d \in Clients : d # c => todo'[d] = todo[d]
    <3>1. PICK s \in Seq(Operations) : s = todo[c] /\ s # <<>>
      BY <1>1 DEF DeployInv, DeployTypes
    <3>2. Tail(s) \in Seq(Operations)
      BY <3>1
    <3>3. PICK y : y = <<o>> \o Tail(s) /\ y # <<>> /\ y[1] = o
      <4>1. <<o>> \o Tail(s) # <<>> /\ (<<o>> \o Tail(s))[1] = o
        BY <2>2, <3>2
      <4> QED BY <4>1
    <3>4. todo' = [todo EXCEPT ![c] = y]
      BY <1>9, <3>1, <3>3 DEF Go, Set
    <3> QED BY <3>3, <3>4 DEF DeployInv, DeployTypes
  <2>9. answers[c] = <<>> /\ \A y, i, s : ~AskOf(tasks, y, i, c, s)
    BY <1>4 DEF DeployInv, AskInv, Asked
  <2>10. ASSUME NEW y, NEW i, NEW d, NEW s, AskOf(tasks', y, i, d, s)
         PROVE  (y = t /\ i = n /\ d = c /\ s = Instance(u)) \/ AskOf(tasks, y, i, d, s)
    <3>1. y \in DOMAIN tasks /\ tasks'[y].id = tasks[y].id /\ TaskOf(tasks, y, Ramps)
      BY <2>1, <2>10 DEF AskOf, IsAsk, TaskOf, Grow
    <3>2. CASE i \in DOMAIN tasks[y].box
      BY <2>1, <2>10, <3>1, <3>2 DEF AskOf, IsAsk, MoreMail, Longer
    <3>3. CASE i \notin DOMAIN tasks[y].box
      BY <1>3, <1>6, <2>1, <2>10, <3>1, <3>3 DEF AskOf, IsAsk
    <3> QED BY <3>2, <3>3
  <2>11. ASSUME NEW y, NEW i, NEW d, NEW s, AskOf(tasks', y, i, d, s) PROVE d \in Clients /\ Asked(d, s)'
    <3>1. CASE d = c /\ s = Instance(u)
      BY <1>4, <2>2, <2>8, <2>9, <3>1 DEF Asked, Answering
    <3>2. CASE AskOf(tasks, y, i, d, s)
      <4>1. d \in Clients /\ d # c /\ Asked(d, s)
        BY <2>9, <3>2 DEF DeployInv, AskInv
      <4>2. todo'[d] = todo[d]
        BY <2>8, <4>1
      <4> QED BY <1>4, <4>1, <4>2 DEF Asked, Answering
    <3> QED BY <2>10, <2>11, <3>1, <3>2
  <2>12. ASSUME NEW y, NEW i, NEW z, NEW j, NEW d, NEW r, NEW s, AskOf(tasks', y, i, d, r), AskOf(tasks', z, j, d, s)
         PROVE  y = z /\ i = j
    BY <2>9, <2>10, <2>12 DEF DeployInv, AskInv
  <2>13. ASSUME NEW d \in Clients, answers'[d] # <<>> PROVE Answering(d)'
    <3>1. Answering(d) /\ d # c
      BY <1>4, <2>13 DEF DeployInv, AskInv
    <3> QED BY <2>8, <3>1 DEF Answering
  <2>14. AskInv'
    BY <2>11, <2>12, <2>13 DEF AskInv
  <2>15. DeployTypes' /\ RegisteredIsBound'
    BY <1>4, <2>1, <2>7, <2>a DEF DeployInv, DeployTypes, RegisteredIsBound
  <2>16. RegistryInv'
    BY <1>4, <2>1, RegistryKept DEF DeployInv
  <2> QED BY <2>7, <2>14, <2>15, <2>16, <2>a DEF DeployInv
<1> QED BY <1>2, <1>5, <1>7, <1>8, <1>9 DEF Disconnect

\* A task after a message was handled that leaves it with alive = al.
After(vs, t, al) ==
    /\ vs = [x \in DOMAIN tasks |-> vs[x]] /\ \A x \in DOMAIN tasks : x # t => vs[x] = tasks[x]
    /\ IsTask(vs[t]) /\ vs[t].id = tasks[t].id /\ vs[t].box = Tail(tasks[t].box) /\ vs[t].alive = al

LEMMA AfterIs ==
  ASSUME AreTasks(tasks), NEW t \in DOMAIN tasks, tasks[t].box # <<>>, NEW X, NEW Y, NEW vs
  PROVE  /\ vs = [Handled(t) EXCEPT ![t].outs = X] => After(vs, t, tasks[t].alive)
         /\ vs = [Handled(t) EXCEPT ![t].ins = X] => After(vs, t, tasks[t].alive)
         /\ vs = [Handled(t) EXCEPT ![t].outs = X, ![t].alive = Y] => After(vs, t, Y)
         /\ vs = [Handled(t) EXCEPT ![t].ins = X, ![t].alive = Y] => After(vs, t, Y)
<1>1. PICK r : r = tasks[t] /\ IsTask(r)
  BY DEF AreTasks
<1>2. PICK b : b = Tail(r.box) /\ b \in Seq(Messages)
  <2>1. r.box \in Seq(Messages) /\ r.box # <<>>
    BY <1>1 DEF IsTask
  <2>2. Tail(r.box) \in Seq(Messages)
    BY <2>1, TailFacts
  <2> QED BY <2>2
<1>3. PICK h : h = [r EXCEPT !.box = b]
  OBVIOUS
<1>4. IsTask(h) /\ h.id = r.id /\ h.box = b /\ h.alive = r.alive
  BY <1>1, <1>2, <1>3 DEF IsTask
<1>5. PICK hs : hs = [tasks EXCEPT ![t] = h] /\ hs = Handled(t)
  BY <1>1, <1>2, <1>3 DEF Handled
<1>6. hs = [x \in DOMAIN tasks |-> hs[x]] /\ hs[t] = h /\ \A x \in DOMAIN tasks : x # t => hs[x] = tasks[x]
  BY <1>5
<1>7. ASSUME NEW q, IsTask(q), q.id = r.id, q.box = b, NEW us, us = [hs EXCEPT ![t] = q] PROVE After(us, t, q.alive)
  <2>1. us = [x \in DOMAIN tasks |-> us[x]] /\ us[t] = q /\ \A x \in DOMAIN tasks : x # t => us[x] = tasks[x]
    BY <1>6, <1>7
  <2> QED BY <1>1, <1>2, <1>7, <2>1 DEF After
<1>8. ASSUME vs = [Handled(t) EXCEPT ![t].outs = X] PROVE After(vs, t, tasks[t].alive)
  <2>1. PICK q : q = [h EXCEPT !.outs = X] /\ vs = [hs EXCEPT ![t] = q]
    BY <1>5, <1>6, <1>8
  <2>2. IsTask(q) /\ q.id = r.id /\ q.box = b /\ q.alive = r.alive
    BY <1>4, <2>1 DEF IsTask
  <2> QED BY <1>1, <1>7, <2>1, <2>2
<1>9. ASSUME vs = [Handled(t) EXCEPT ![t].ins = X] PROVE After(vs, t, tasks[t].alive)
  <2>1. PICK q : q = [h EXCEPT !.ins = X] /\ vs = [hs EXCEPT ![t] = q]
    BY <1>5, <1>6, <1>9
  <2>2. IsTask(q) /\ q.id = r.id /\ q.box = b /\ q.alive = r.alive
    BY <1>4, <2>1 DEF IsTask
  <2> QED BY <1>1, <1>7, <2>1, <2>2
<1>10. ASSUME vs = [Handled(t) EXCEPT ![t].outs = X, ![t].alive = Y] PROVE After(vs, t, Y)
  <2>1. PICK q : q = [h EXCEPT !.outs = X, !.alive = Y] /\ vs = [hs EXCEPT ![t] = q]
    BY <1>5, <1>6, <1>10
  <2>2. IsTask(q) /\ q.id = r.id /\ q.box = b /\ q.alive = Y
    BY <1>4, <2>1 DEF IsTask
  <2> QED BY <1>1, <1>7, <2>1, <2>2
<1>11. ASSUME vs = [Handled(t) EXCEPT ![t].ins = X, ![t].alive = Y] PROVE After(vs, t, Y)
  <2>1. PICK q : q = [h EXCEPT !.ins = X, !.alive = Y] /\ vs = [hs EXCEPT ![t] = q]
    BY <1>5, <1>6, <1>11
  <2>2. IsTask(q) /\ q.id = r.id /\ q.box = b /\ q.alive = Y
    BY <1>4, <2>1 DEF IsTask
  <2> QED BY <1>1, <1>7, <2>1, <2>2
<1> QED BY <1>8, <1>9, <1>10, <1>11

LEMMA PostFacts ==
  ASSUME NEW ts, NEW to, NEW m \in Messages, m.m # "disconnect", NEW us, us = Post(ts, to, m),
         \A x \in DOMAIN ts : IsTask(ts[x])
  PROVE  us = [x \in DOMAIN ts |-> us[x]] /\ \A x \in DOMAIN ts : Longer(ts[x], us[x]) /\ NoneNew(ts[x], us[x])
<1>1. us = [x \in DOMAIN ts |-> us[x]]
  BY DEF Post
<1>2. ASSUME NEW x \in DOMAIN ts PROVE Longer(ts[x], us[x]) /\ NoneNew(ts[x], us[x])
  <2>1. PICK r : r = ts[x] /\ IsTask(r)
    BY <1>2
  <2>2. CASE us[x] = r
    BY <2>1, <2>2 DEF Longer, NoneNew
  <2>3. PICK b : b = Append(r.box, m)
    OBVIOUS
  <2>4. r.box \in Seq(Messages)
    BY <2>1 DEF IsTask
  <2>5. /\ b \in Seq(Messages) /\ \A i \in DOMAIN r.box : i \in DOMAIN b /\ b[i] = r.box[i]
        /\ \A i \in DOMAIN b : i \in DOMAIN r.box \/ b[i] = m
    BY <2>3, <2>4, AppendFacts
  <2>6. CASE us[x] = [r EXCEPT !.box = b]
    <3>1. PICK q : q = us[x]
      OBVIOUS
    <3>2. IsTask(q) /\ q.id = r.id /\ q.alive = r.alive /\ q.box = b
      BY <2>1, <2>5, <2>6, <3>1 DEF IsTask
    <3> QED BY <2>1, <2>5, <3>1, <3>2 DEF Longer, NoneNew
  <2>7. us[x] = r \/ us[x] = [r EXCEPT !.box = b]
    BY <2>1, <2>3 DEF Post
  <2> QED BY <2>2, <2>6, <2>7
<1> QED BY <1>1, <1>2

LEMMA TaskKept ==
  ASSUME DeployInv, Grow(tasks, tasks'), AreTasks(tasks'), UNCHANGED <<published, bound, reg, todo, contended, session>>,
         ends' \in Nat, DOMAIN answers' = Clients, AskInv',
         \A c \in Clients : \A s : Answering(c) /\ s = Instance(todo[c][1].u) /\ Waits(c, s) => Waits(c, s)'
  PROVE  DeployInv'
<1>1. DeployTypes' /\ RegisteredIsBound' /\ SharedInv'
  BY DEF DeployInv, DeployTypes, RegisteredIsBound, SharedInv
<1>2. RegistryInv'
  BY RegistryKept DEF DeployInv
<1>3. ASSUME NEW c \in Clients PROVE Chain(tasks', todo[c]) /\ (todo[c] # <<>> => Due(c, todo[c][1])')
  <2>1. Chain(tasks', todo[c])
    BY ChainKept DEF DeployInv, RequestsInv
  <2>2. PICK p : p = todo[c][1] /\ p = todo'[c][1] /\ (todo[c] # <<>> => Due(c, p))
    BY DEF DeployInv, RequestsInv
  <2>3. PICK s : s = Instance(p.u)
    OBVIOUS
  <2>4. todo[c] # <<>> /\ p.op = "answer" /\ Waits(c, s) => Waits(c, s)'
    BY <2>2, <2>3 DEF Answering
  <2>5. todo[c] # <<>> /\ Due(c, p) => Due(c, p)'
    BY <2>3, <2>4 DEF Due
  <2> QED BY <2>1, <2>2, <2>5 DEF Due
<1>4. RequestsInv'
  BY <1>3 DEF RequestsInv
<1> QED BY <1>1, <1>2, <1>4 DEF DeployInv

\* How a message of task t is handled: a ramp's Disconnect is answered, anything
\* else leaves the answers and the task's life alone.
Response(t, al) ==
    \/ answers' = answers /\ al = tasks[t].alive /\ ~IsAsk(tasks, t, 1)
    \/ IsAsk(tasks, t, 1) /\ \E b : answers' = [answers EXCEPT ![tasks[t].box[1].c] = <<b>>]

\* A message was handled and perhaps another sent: what is awaited is still to
\* come, or has come.
LEMMA TaskEffect ==
  ASSUME DeployInv, NEW t \in DOMAIN tasks, tasks[t].box # <<>>,
         UNCHANGED <<published, bound, reg, todo, ends, contended, session>>,
         NEW vs, NEW al, After(vs, t, al), tasks' = [x \in DOMAIN vs |-> tasks'[x]],
         \A x \in DOMAIN vs : Longer(vs[x], tasks'[x]) /\ NoneNew(vs[x], tasks'[x]), Response(t, al)
  PROVE  DeployInv'
<1>1. AreTasks(tasks) /\ DOMAIN answers = Clients
  BY DEF DeployInv, DeployTypes
<1>2. DOMAIN vs = DOMAIN tasks /\ \A x \in DOMAIN tasks : vs[x].id = tasks[x].id
  BY DEF After
<1>3. AreTasks(tasks') /\ DOMAIN tasks' = DOMAIN tasks
  <2>1. tasks' = [x \in DOMAIN tasks |-> tasks'[x]] /\ \A x \in DOMAIN tasks : IsTask(tasks'[x])
    BY <1>2 DEF Longer
  <2> QED BY <1>1, <2>1, SameTasks
<1>4. Grow(tasks, tasks')
  BY <1>2, <1>3 DEF Grow, Longer
<1>5. PICK bx \in Seq(Messages) : bx = tasks[t].box /\ bx # <<>> /\ vs[t].box = Tail(bx)
  BY <1>1 DEF AreTasks, IsTask, After
<1>6. ASSUME NEW i PROVE i \in DOMAIN Tail(bx) => i \in Nat /\ i + 1 \in DOMAIN bx /\ i + 1 # 1 /\ Tail(bx)[i] = bx[i + 1]
  BY <1>5, TailFacts
<1>7. ASSUME NEW i \in DOMAIN bx, i # 1 PROVE i - 1 \in DOMAIN Tail(bx) /\ Tail(bx)[i - 1] = bx[i]
  BY <1>5, <1>7, TailFacts
<1>8. ASSUME NEW x, NEW i, NEW d, NEW s, AskOf(tasks', x, i, d, s)
      PROVE  \E j : AskOf(tasks, x, j, d, s) /\ IF x = t THEN i \in Nat /\ j = i + 1 /\ j # 1 ELSE j = i
  <2>1. x \in DOMAIN tasks /\ tasks'[x].id = tasks[x].id /\ TaskOf(tasks, x, Ramps) /\ Instance(tasks[x].id) = s
    BY <1>3, <1>4, <1>8 DEF AskOf, IsAsk, TaskOf, Grow
  <2>2. i \in DOMAIN vs[x].box /\ vs[x].box[i].m = "disconnect" /\ vs[x].box[i].c = d
    BY <1>2, <1>8, <2>1 DEF AskOf, IsAsk, NoneNew, Longer
  <2>3. CASE x # t
    <3>1. vs[x] = tasks[x]
      BY <2>1, <2>3 DEF After
    <3> QED BY <2>1, <2>2, <2>3, <3>1 DEF AskOf, IsAsk
  <2>4. CASE x = t
    <3>1. i \in Nat /\ i + 1 \in DOMAIN bx /\ i + 1 # 1 /\ Tail(bx)[i] = bx[i + 1]
      BY <1>5, <1>6, <2>2, <2>4
    <3>2. AskOf(tasks, x, i + 1, d, s)
      BY <1>5, <2>1, <2>2, <2>4, <3>1 DEF AskOf, IsAsk
    <3> QED BY <2>4, <3>1, <3>2
  <2> QED BY <2>3, <2>4
<1>9. PICK k, r : k = tasks[t].box[1].c /\ r = Instance(tasks[t].id)
  OBVIOUS
<1>a. (IsAsk(tasks, t, 1) <=> AskOf(tasks, t, 1, k, r))
      /\ \A d \in Clients : answers'[d] = answers[d] \/ (d = k /\ IsAsk(tasks, t, 1) /\ answers'[d] # <<>>)
  <2>1. IsAsk(tasks, t, 1) <=> AskOf(tasks, t, 1, k, r)
    BY <1>9 DEF AskOf
  <2>2. ASSUME IsAsk(tasks, t, 1), NEW b, answers' = [answers EXCEPT ![k] = <<b>>], NEW d \in Clients
        PROVE  answers'[d] = answers[d] \/ (d = k /\ answers'[d] # <<>>)
    BY <1>1, <2>2
  <2> QED BY <1>9, <2>1, <2>2 DEF Response
<1>10. ASSUME NEW x, NEW i, NEW d, NEW s, AskOf(tasks', x, i, d, s) PROVE d \in Clients /\ Asked(d, s)'
  <2>1. PICK j : AskOf(tasks, x, j, d, s) /\ (x = t => j # 1)
    BY <1>8, <1>10
  <2>2. d \in Clients /\ Asked(d, s)
    BY <2>1 DEF DeployInv, AskInv
  <2>3. ~(d = k /\ IsAsk(tasks, t, 1))
    BY <1>a, <2>1 DEF DeployInv, AskInv
  <2> QED BY <1>a, <2>2, <2>3 DEF Asked, Answering
<1>11. ASSUME NEW x, NEW i, NEW y, NEW j, NEW d, NEW q, NEW s, AskOf(tasks', x, i, d, q), AskOf(tasks', y, j, d, s)
       PROVE  x = y /\ i = j
  <2>1. PICK m : AskOf(tasks, x, m, d, q) /\ IF x = t THEN i \in Nat /\ m = i + 1 ELSE m = i
    BY <1>8, <1>11
  <2>2. PICK n : AskOf(tasks, y, n, d, s) /\ IF y = t THEN j \in Nat /\ n = j + 1 ELSE n = j
    BY <1>8, <1>11
  <2>3. x = y /\ m = n
    BY <2>1, <2>2 DEF DeployInv, AskInv
  <2> QED BY <2>1, <2>2, <2>3
<1>12. \A c \in Clients : answers'[c] # <<>> => Answering(c)'
  <2>1. ASSUME NEW c \in Clients, answers'[c] # <<>> PROVE Answering(c)
    <3>1. CASE answers'[c] = answers[c]
      BY <2>1, <3>1 DEF DeployInv, AskInv
    <3>2. CASE answers'[c] # answers[c]
      <4>1. AskOf(tasks, t, 1, c, r)
        BY <1>a, <3>2
      <4> QED BY <4>1 DEF DeployInv, AskInv, Asked
    <3> QED BY <3>1, <3>2
  <2> QED BY <2>1 DEF Answering
<1>13. AskInv'
  BY <1>10, <1>11, <1>12 DEF AskInv
<1>14. ASSUME NEW c \in Clients, NEW s, Answering(c), s = Instance(todo[c][1].u), Waits(c, s) PROVE Waits(c, s)'
  <2>1. CASE answers'[c] # <<>> \/ ends # 0 \/ s \in contended
    BY <2>1 DEF Waits
  <2>2. CASE answers'[c] = <<>> /\ ends = 0 /\ s \notin contended
    <3>1. answers[c] = <<>> \/ answers' = answers
      BY <1>1, <2>2 DEF Response
    <3>2. Awaited(tasks, c, s)
      BY <1>14, <2>2, <3>1 DEF Waits
    <3>a. PICK x \in DOMAIN tasks :
              /\ tasks[x].alive /\ TaskOf(tasks, x, {s})
              /\ \E i \in DOMAIN tasks[x].box : tasks[x].box[i].m = "disconnect" /\ tasks[x].box[i].c = c
      BY <3>2 DEF Awaited
    <3>3. PICK i \in DOMAIN tasks[x].box : tasks[x].box[i].m = "disconnect" /\ tasks[x].box[i].c = c
      BY <3>a
    <3>b. ASSUME x = t PROVE ~IsAsk(tasks, t, 1)
      <4> SUFFICES ASSUME IsAsk(tasks, t, 1) PROVE FALSE
        OBVIOUS
      <4>1. k \in Clients /\ Asked(k, r) /\ r = s
        BY <1>9, <1>a, <3>a, <3>b DEF DeployInv, AskInv, TaskOf
      <4>2. answers'[k] # <<>>
        <5>1. PICK b : answers' = [answers EXCEPT ![k] = <<b>>]
          BY <1>9 DEF Response
        <5>2. answers'[k] = <<b>>
          BY <1>1, <4>1, <5>1
        <5> QED BY <5>2
      <4>3. k # c
        BY <2>2, <4>2
      <4> QED BY <1>14, <2>2, <4>1, <4>3, BothNamed DEF Asked, Answering
    <3>c. s \in Ramps
      <4>1. todo[c] \in Seq(Operations) /\ todo[c] # <<>> /\ Chain(tasks, todo[c]) /\ todo[c][1].op = "answer"
        BY <1>14 DEF DeployInv, DeployTypes, RequestsInv, Answering
      <4>2. Sound(tasks, todo[c][1])
        BY <4>1, ChainTail
      <4> QED BY <1>14, <4>1, <4>2 DEF Sound
    <3>4. tasks'[x].alive /\ TaskOf(tasks', x, {s})
      <4>1. vs[x].alive = tasks[x].alive /\ Longer(vs[x], tasks'[x])
        BY <1>2, <3>b DEF After, Response
      <4> QED BY <1>2, <1>3, <3>a, <4>1 DEF Longer, TaskOf
    <3>5. PICK j \in DOMAIN vs[x].box : vs[x].box[j] = tasks[x].box[i]
      <4>1. CASE x # t
        BY <4>1 DEF After
      <4>2. CASE x = t
        <5>1. i # 1
          BY <1>5, <3>a, <3>b, <3>c, <3>3, <4>2 DEF IsAsk, TaskOf
        <5>2. i - 1 \in DOMAIN Tail(bx) /\ Tail(bx)[i - 1] = bx[i]
          BY <1>5, <1>7, <4>2, <5>1
        <5> QED BY <1>5, <4>2, <5>2
      <4> QED BY <4>1, <4>2
    <3>6. j \in DOMAIN tasks'[x].box /\ tasks'[x].box[j] = tasks[x].box[i]
      BY <1>2, <3>5 DEF Longer
    <3>7. Awaited(tasks', c, s)
      BY <1>3, <3>3, <3>4, <3>6 DEF Awaited
    <3> QED BY <3>7 DEF Waits
  <2> QED BY <2>1, <2>2
<1>15. ends' \in Nat /\ DOMAIN answers' = Clients
  BY <1>1 DEF DeployInv, DeployTypes, Response
<1> QED BY <1>3, <1>4, <1>13, <1>14, <1>15, TaskKept

LEMMA TaskPosts ==
  ASSUME DeployInv, NEW t \in DOMAIN tasks, tasks[t].box # <<>>,
         UNCHANGED <<published, bound, reg, todo, ends, contended, session>>,
         NEW vs, NEW al, After(vs, t, al), NEW to, NEW m \in Messages, m.m # "disconnect",
         tasks' = Post(vs, to, m) \/ tasks' = vs, Response(t, al)
  PROVE  DeployInv'
<1>1. vs = [x \in DOMAIN vs |-> vs[x]] /\ \A x \in DOMAIN vs : IsTask(vs[x])
  BY DEF After, DeployInv, DeployTypes, AreTasks
<1>2. tasks' = [x \in DOMAIN vs |-> tasks'[x]] /\ \A x \in DOMAIN vs : Longer(vs[x], tasks'[x]) /\ NoneNew(vs[x], tasks'[x])
  <2>1. CASE tasks' = Post(vs, to, m)
    BY <1>1, <2>1, PostFacts
  <2>2. CASE tasks' = vs
    BY <1>1, <2>2 DEF Longer, NoneNew
  <2> QED BY <2>1, <2>2
<1> QED BY <1>2, TaskEffect

LEMMA GetsFacts ==
  ASSUME DeployInv, NEW t \in DOMAIN tasks, NEW n, Gets(t, n)
  PROVE  /\ AreTasks(tasks) /\ DOMAIN answers = Clients /\ t \in Nat /\ tasks[t].id \in Urls /\ tasks[t].box # <<>>
         /\ Msg(t).m = n /\ Msg(t).url \in Urls /\ Msg(t) = tasks[t].box[1]
         /\ IsAsk(tasks, t, 1) <=> n = "disconnect" /\ Is(t, Ramps)
<1>1. AreTasks(tasks) /\ DOMAIN answers = Clients /\ IsTask(tasks[t]) /\ t \in Nat
  BY DEF DeployInv, DeployTypes, AreTasks
<1>2. PICK b : b = tasks[t].box /\ b \in Seq(Messages) /\ b # <<>> /\ tasks[t].id \in Urls
  BY <1>1 DEF Gets, IsTask
<1>3. PICK m \in Messages : m = Msg(t) /\ m.m = n /\ m = b[1] /\ 1 \in DOMAIN b
  <2>1. Head(b) \in Messages /\ Head(b) = b[1] /\ 1 \in DOMAIN b
    BY <1>2, TailFacts
  <2> QED BY <1>2, <2>1 DEF Msg, Gets
<1>4. m.url \in Urls
  BY DEF Messages, Notes
<1>5. IsAsk(tasks, t, 1) <=> n = "disconnect" /\ Is(t, Ramps)
  BY <1>2, <1>3 DEF IsAsk, TaskOf, Is
<1> QED BY <1>1, <1>2, <1>3, <1>4, <1>5

LEMMA MessageTypes ==
  ASSUME NEW n \in {"connectInput", "disconnectInput"}, NEW u \in Urls, NEW t \in Nat
  PROVE  [m |-> n, url |-> u, t |-> t] \in Messages /\ [m |-> n, url |-> u, t |-> t].m # "disconnect"
<1>1. [m |-> n, url |-> u, t |-> t] \in Notes /\ [m |-> n, url |-> u, t |-> t].m # "disconnect"
  BY DEF Notes
<1> QED BY <1>1 DEF Messages

LEMMA TrimFacts == ASSUME NEW u \in Urls PROVE TrimToInstance(u) \in Urls
<1>1. Instance(u) \in Ids /\ "" \in Ports
  BY UrlFacts DEF Ports
<1> QED BY <1>1 DEF TrimToInstance, Url, Urls

LEMMA OnrampConnectStep == ASSUME DeployInv, NEW t \in DOMAIN tasks, OnrampConnect(t) PROVE DeployInv'
<1>1. /\ AreTasks(tasks) /\ DOMAIN answers = Clients /\ t \in Nat /\ tasks[t].id \in Urls /\ tasks[t].box # <<>>
      /\ ~IsAsk(tasks, t, 1)
  BY GetsFacts DEF OnrampConnect
<1>2. UNCHANGED <<published, bound, reg, todo, ends, contended, session, answers>>
  BY DEF OnrampConnect, repo, counters
<1>3. PICK X : X = Append(Handled(t)[t].outs, <<Msg(t).url, Msg(t).t>>)
  OBVIOUS
<1>4. PICK vs : vs = [Handled(t) EXCEPT ![t].outs = X]
  OBVIOUS
<1>5. PICK m : m = [m |-> "connectInput", url |-> tasks[t].id, t |-> t] /\ m \in Messages /\ m.m # "disconnect"
  <2>1. [m |-> "connectInput", url |-> tasks[t].id, t |-> t] \in Messages /\ [m |-> "connectInput", url |-> tasks[t].id, t |-> t].m # "disconnect"
    BY <1>1, MessageTypes
  <2> QED BY <2>1
<1>6. After(vs, t, tasks[t].alive)
  BY <1>1, <1>4, AfterIs
<1>7. tasks' = Post(vs, {Msg(t).t}, m)
  BY <1>3, <1>4, <1>5 DEF OnrampConnect
<1>r. Response(t, tasks[t].alive)
  BY <1>1, <1>2 DEF Response
<1> QED BY <1>1, <1>2, <1>r, <1>5, <1>6, <1>7, TaskPosts

LEMMA OnrampDisconnectStep ==
  ASSUME DeployInv, NEW t \in DOMAIN tasks, OnrampDisconnect(t) PROVE DeployInv'
<1>1. /\ AreTasks(tasks) /\ DOMAIN answers = Clients /\ t \in Nat /\ tasks[t].box # <<>>
      /\ Msg(t).url \in Urls /\ Msg(t) = tasks[t].box[1]
  BY GetsFacts DEF OnrampDisconnect
<1>2. UNCHANGED <<published, bound, reg, todo, ends, contended, session>>
  BY DEF OnrampDisconnect, repo, counters
<1>3. PICK vs : vs = [Handled(t) EXCEPT ![t].outs = Others(t), ![t].alive = Others(t) # <<>>]
  OBVIOUS
<1>4. PICK m : m = [m |-> "disconnectInput", url |-> Msg(t).url, t |-> None] /\ m \in Messages /\ m.m # "disconnect"
  <2>1. [m |-> "disconnectInput", url |-> Msg(t).url, t |-> None] \in Messages /\ [m |-> "disconnectInput", url |-> Msg(t).url, t |-> None].m # "disconnect"
    BY <1>1, MessageTypes DEF None
  <2> QED BY <2>1
<1>5. PICK al : al = (Others(t) # <<>>) /\ After(vs, t, al)
  BY <1>1, <1>3, AfterIs
<1>6. tasks' = Post(vs, Matching(t), m)
  BY <1>3, <1>4 DEF OnrampDisconnect
<1>7. Response(t, al)
  <2>1. Is(t, Ramps)
    BY DEF OnrampDisconnect, Is, Ramps
  <2>2. IsAsk(tasks, t, 1)
    BY <2>1, GetsFacts DEF OnrampDisconnect
  <2> QED BY <1>1, <2>2 DEF Response, OnrampDisconnect
<1> QED BY <1>1, <1>2, <1>4, <1>5, <1>6, <1>7, TaskPosts

LEMMA PipelineInputStep == ASSUME DeployInv, NEW t \in DOMAIN tasks, PipelineInput(t) PROVE DeployInv'
<1>1. /\ AreTasks(tasks) /\ DOMAIN answers = Clients /\ tasks[t].box # <<>> /\ ~IsAsk(tasks, t, 1)
      /\ tasks[t].id \in Urls
  BY GetsFacts DEF PipelineInput
<1>2. UNCHANGED <<published, bound, reg, todo, ends, contended, session, answers>>
  BY DEF PipelineInput, repo, counters
<1>3. PICK X : tasks' = [Handled(t) EXCEPT ![t].ins = X]
  BY DEF PipelineInput
<1>4. After(tasks', t, tasks[t].alive)
  BY <1>1, <1>3, AfterIs
<1>5. PICK m : m \in Messages /\ m.m # "disconnect"
  <2>1. [m |-> "connect", url |-> tasks[t].id, t |-> 0] \in Notes /\ [m |-> "connect", url |-> tasks[t].id, t |-> 0].m # "disconnect"
    BY <1>1 DEF Notes
  <2> QED BY <2>1 DEF Messages
<1>r. Response(t, tasks[t].alive)
  BY <1>1, <1>2 DEF Response
<1> QED BY <1>1, <1>2, <1>r, <1>4, <1>5, TaskPosts

LEMMA PipelineConnectStep == ASSUME DeployInv, NEW t \in DOMAIN tasks, PipelineConnect(t) PROVE DeployInv'
<1>1. /\ AreTasks(tasks) /\ DOMAIN answers = Clients /\ t \in Nat /\ tasks[t].id \in Urls /\ tasks[t].box # <<>>
      /\ ~IsAsk(tasks, t, 1)
  BY GetsFacts DEF PipelineConnect
<1>2. UNCHANGED <<published, bound, reg, todo, ends, contended, session, answers>>
  BY DEF PipelineConnect, repo, counters
<1>3. PICK X : X = Append(Handled(t)[t].outs, <<Msg(t).url, Msg(t).t>>)
  OBVIOUS
<1>4. PICK vs : vs = [Handled(t) EXCEPT ![t].outs = X]
  OBVIOUS
<1>5. TrimToInstance(tasks[t].id) \in Urls
  BY <1>1, TrimFacts
<1>6. PICK m : m = [m |-> "connectInput", url |-> TrimToInstance(tasks[t].id), t |-> t] /\ m \in Messages /\ m.m # "disconnect"
  <2>1. [m |-> "connectInput", url |-> TrimToInstance(tasks[t].id), t |-> t] \in Messages /\ [m |-> "connectInput", url |-> TrimToInstance(tasks[t].id), t |-> t].m # "disconnect"
    BY <1>1, <1>5, MessageTypes
  <2> QED BY <2>1
<1>7. After(vs, t, tasks[t].alive)
  BY <1>1, <1>4, AfterIs
<1>8. PICK to : tasks' = Post(vs, to, m)
  BY <1>3, <1>4, <1>6 DEF PipelineConnect
<1>r. Response(t, tasks[t].alive)
  BY <1>1, <1>2 DEF Response
<1> QED BY <1>1, <1>2, <1>r, <1>6, <1>7, <1>8, TaskPosts

LEMMA PipelineDisconnectStep == ASSUME DeployInv, NEW t \in DOMAIN tasks, PipelineDisconnect(t) PROVE DeployInv'
<1>1. /\ AreTasks(tasks) /\ DOMAIN answers = Clients /\ t \in Nat /\ tasks[t].id \in Urls /\ tasks[t].box # <<>>
  BY GetsFacts DEF PipelineDisconnect
<1>2. UNCHANGED <<published, bound, reg, todo, ends, contended, session, answers>>
  BY DEF PipelineDisconnect, repo, counters
<1>3. PICK vs : vs = [Handled(t) EXCEPT ![t].outs = Others(t)]
  OBVIOUS
<1>4. PICK m : m = [m |-> "disconnectInput", url |-> tasks[t].id, t |-> None] /\ m \in Messages /\ m.m # "disconnect"
  <2>1. [m |-> "disconnectInput", url |-> tasks[t].id, t |-> None] \in Messages /\ [m |-> "disconnectInput", url |-> tasks[t].id, t |-> None].m # "disconnect"
    BY <1>1, MessageTypes DEF None
  <2> QED BY <2>1
<1>5. After(vs, t, tasks[t].alive)
  BY <1>1, <1>3, AfterIs
<1>6. PICK to : tasks' = Post(vs, to, m)
  BY <1>3, <1>4 DEF PipelineDisconnect
<1>7. Response(t, tasks[t].alive)
  <2>1. ~Is(t, Ramps)
    BY DeployAssumption DEF PipelineDisconnect, Is
  <2>2. ~IsAsk(tasks, t, 1)
    BY <2>1, GetsFacts DEF PipelineDisconnect
  <2> QED BY <1>2, <2>2 DEF Response
<1> QED BY <1>1, <1>2, <1>4, <1>5, <1>6, <1>7, TaskPosts

LEMMA OfframpConnectStep == ASSUME DeployInv, NEW t \in DOMAIN tasks, OfframpConnect(t) PROVE DeployInv'
<1>1. /\ AreTasks(tasks) /\ DOMAIN answers = Clients /\ tasks[t].box # <<>> /\ ~IsAsk(tasks, t, 1)
      /\ tasks[t].id \in Urls
  BY GetsFacts DEF OfframpConnect
<1>2. UNCHANGED <<published, bound, reg, todo, ends, contended, session, answers>>
  BY DEF OfframpConnect, repo, counters
<1>3. PICK X : tasks' = [Handled(t) EXCEPT ![t].ins = X]
  BY DEF OfframpConnect
<1>4. After(tasks', t, tasks[t].alive)
  BY <1>1, <1>3, AfterIs
<1>5. PICK m : m \in Messages /\ m.m # "disconnect"
  <2>1. [m |-> "connect", url |-> tasks[t].id, t |-> 0] \in Notes /\ [m |-> "connect", url |-> tasks[t].id, t |-> 0].m # "disconnect"
    BY <1>1 DEF Notes
  <2> QED BY <2>1 DEF Messages
<1>r. Response(t, tasks[t].alive)
  BY <1>1, <1>2 DEF Response
<1> QED BY <1>1, <1>2, <1>r, <1>4, <1>5, TaskPosts

LEMMA OfframpDisconnectStep ==
  ASSUME DeployInv, NEW t \in DOMAIN tasks, OfframpDisconnect(t) PROVE DeployInv'
<1>1. /\ AreTasks(tasks) /\ DOMAIN answers = Clients /\ tasks[t].box # <<>> /\ tasks[t].id \in Urls
      /\ Msg(t) = tasks[t].box[1]
  BY GetsFacts DEF OfframpDisconnect
<1>2. UNCHANGED <<published, bound, reg, todo, ends, contended, session>>
  BY DEF OfframpDisconnect, repo, counters
<1>3. PICK X : X = Keyed(tasks[t].ins, Msg(t).url)
  OBVIOUS
<1>4. PICK al : al = (X # {}) /\ tasks' = [Handled(t) EXCEPT ![t].ins = X, ![t].alive = al]
  BY <1>3 DEF OfframpDisconnect
<1>5. After(tasks', t, al)
  BY <1>1, <1>4, AfterIs
<1>6. PICK m : m \in Messages /\ m.m # "disconnect"
  <2>1. [m |-> "connect", url |-> tasks[t].id, t |-> 0] \in Notes /\ [m |-> "connect", url |-> tasks[t].id, t |-> 0].m # "disconnect"
    BY <1>1 DEF Notes
  <2> QED BY <2>1 DEF Messages
<1>7. Response(t, al)
  <2>1. Is(t, Ramps)
    BY DEF OfframpDisconnect, Is, Ramps
  <2>2. IsAsk(tasks, t, 1)
    BY <2>1, GetsFacts DEF OfframpDisconnect
  <2> QED BY <1>1, <2>2 DEF Response, OfframpDisconnect
<1> QED BY <1>1, <1>2, <1>5, <1>6, <1>7, TaskPosts

LEMMA OnrampEndsStep == ASSUME DeployInv, NEW t \in DOMAIN tasks, OnrampEnds(t) PROVE DeployInv'
<1>1. AreTasks(tasks) /\ DOMAIN answers' = Clients /\ ends' \in Nat /\ ends' # 0
  BY DEF DeployInv, DeployTypes, OnrampEnds
<1>2. PICK q : q = [tasks[t] EXCEPT !.alive = FALSE] /\ tasks' = [tasks EXCEPT ![t] = q]
  BY DEF OnrampEnds
<1>3. IsTask(q) /\ q.id = tasks[t].id /\ q.box = tasks[t].box
  <2>1. PICK r : r = tasks[t] /\ IsTask(r) /\ q = [r EXCEPT !.alive = FALSE]
    BY <1>1, <1>2 DEF AreTasks
  <2>2. IsTask(q) /\ q.id = r.id /\ q.box = r.box
    BY <2>1 DEF IsTask
  <2> QED BY <2>1, <2>2
<1>4. tasks' = [x \in DOMAIN tasks |-> tasks'[x]] /\ \A x \in DOMAIN tasks : tasks'[x] = IF x = t THEN q ELSE tasks[x]
  BY <1>2
<1>5. \A x \in DOMAIN tasks : IsTask(tasks'[x])
  BY <1>1, <1>3, <1>4 DEF AreTasks
<1>6. AreTasks(tasks') /\ DOMAIN tasks' = DOMAIN tasks
  BY <1>1, <1>4, <1>5, SameTasks
<1>7. Grow(tasks, tasks')
  BY <1>3, <1>4, <1>6 DEF Grow
<1>8. \A c \in Clients : \A s : Waits(c, s)'
  BY <1>1 DEF Waits
<1>9. UNCHANGED <<published, bound, reg, todo, answers, contended, session>>
  BY DEF OnrampEnds, repo
<1>10. \A x, i, d, s : AskOf(tasks', x, i, d, s) => AskOf(tasks, x, i, d, s)
  BY <1>3, <1>4, <1>6 DEF AskOf, IsAsk, TaskOf
<1>11. AskInv'
  BY <1>9, <1>10 DEF DeployInv, AskInv, Asked, Answering
<1> QED BY <1>1, <1>6, <1>7, <1>8, <1>9, <1>11, TaskKept

-----------------------------------------------------------------------------
(* Requests begin with lists of operations that are sound in every state.  *)

Loose == {o \in Operations : Free(o) /\ \A ts : Sound(ts, o)}
ServantUrls == Servants \X Ports

LEMMA LooseChain == ASSUME NEW s \in Seq(Loose) PROVE s \in Seq(Operations) /\ \A ts : Chain(ts, s)
<1>1. PICK n \in Nat : n = Len(s) /\ DOMAIN s = 1 .. n
  OBVIOUS
<1>2. \A i \in 1 .. n : s[i] \in Loose
  BY <1>1
<1>3. \A i \in 1 .. n : s[i] \in Operations /\ Free(s[i]) /\ \A ts : Sound(ts, s[i])
  BY <1>2 DEF Loose
<1>4. s \in Seq(Operations)
  <2>1. s = [i \in 1 .. n |-> s[i]]
    BY <1>1
  <2> QED BY <1>3, <2>1
<1>5. ASSUME NEW ts PROVE Chain(ts, s)
  BY <1>1, <1>3, FreeFollows DEF Chain
<1> QED BY <1>4, <1>5

LEMMA LooseOp == ASSUME NEW o \in Operations, Free(o), \A ts : Sound(ts, o) PROVE o \in Loose
BY DEF Loose

LEMMA LooseUrlOp ==
  ASSUME NEW n \in {"need", "ensure", "fail"}, NEW u \in Urls
  PROVE  Op(n, u) \in Loose
<1>1. PICK o : o = Op(n, u) /\ o \in Operations /\ o.op = n /\ \A ts : Sound(ts, o)
  BY UrlOpFacts DEF UrlNames
<1>2. Free(o)
  BY <1>1 DEF Free
<1> QED BY <1>1, <1>2, LooseOp

LEMMA LoosePairOps ==
  ASSUME NEW u \in Urls, NEW v \in Urls
  PROVE  /\ Instance(u) \in Servants => Connect(u, v) \in Loose
         /\ Instance(u) \in Pipelines => CutOutput(u, v) \in Loose
         /\ Instance(u) \in Ramps => Cut(u, v) \in Loose
<1>1. ASSUME Instance(u) \in Servants PROVE Connect(u, v) \in Loose
  <2>1. PICK o : o = Connect(u, v) /\ o \in Operations /\ o.op = "connect" /\ o.u = u
    BY PairTypes
  <2>2. Free(o) /\ \A ts : Sound(ts, o)
    BY <1>1, <2>1 DEF Free, Sound
  <2> QED BY <2>1, <2>2, LooseOp
<1>2. ASSUME Instance(u) \in Pipelines PROVE CutOutput(u, v) \in Loose
  <2>1. PICK o : o = CutOutput(u, v) /\ o \in Operations /\ o.op = "cutOutput" /\ o.u = u
    BY PairTypes
  <2>2. Free(o) /\ \A ts : Sound(ts, o)
    BY <1>2, <2>1 DEF Free, Sound
  <2> QED BY <2>1, <2>2, LooseOp
<1>3. ASSUME Instance(u) \in Ramps PROVE Cut(u, v) \in Loose
  <2>1. PICK o : o = Cut(u, v) /\ o \in Operations /\ o.op = "cut" /\ o.u = u
    BY PairTypes
  <2>2. Free(o) /\ \A ts : Sound(ts, o)
    BY <1>3, <2>1 DEF Free, Sound
  <2> QED BY <2>1, <2>2, LooseOp
<1> QED BY <1>1, <1>2, <1>3

LEMMA ServantUrlFacts == ASSUME NEW u \in ServantUrls PROVE u \in Urls /\ Instance(u) \in Servants
BY DEF ServantUrls, Urls, Ids, Instance

LEMMA ServantUrlIs ==
  ASSUME NEW s \in Servants, NEW p \in Ports
  PROVE  Url(s, p) \in ServantUrls /\ Instance(Url(s, p)) = s
BY DEF ServantUrls, Url, Instance

LEMMA LooseTwo == ASSUME NEW a \in Loose, NEW b \in Loose PROVE <<a, b>> \in Seq(Loose)
OBVIOUS

LEMMA LinkToLoose == ASSUME NEW u \in ServantUrls, NEW v \in ServantUrls PROVE LinkTo(u, v) \in Seq(Loose)
<1>1. u \in Urls /\ v \in Urls /\ Instance(u) \in Servants
  BY ServantUrlFacts
<1>2. PICK a, b, d : a = Op("need", u) /\ b = Op("ensure", u) /\ d = Connect(u, v)
  OBVIOUS
<1>3. a \in Loose /\ b \in Loose /\ d \in Loose
  BY <1>1, <1>2, LooseUrlOp, LoosePairOps
<1>4. <<a, b, d>> \in Seq(Loose)
  BY <1>3
<1> QED BY <1>2, <1>4 DEF LinkTo

LEMMA LinkOpsLoose == ASSUME NEW u \in ServantUrls, NEW v \in ServantUrls PROVE LinkOps(u, v) \in Seq(Loose)
<1>1. u \in Urls /\ v \in Urls
  BY ServantUrlFacts
<1>2. PICK a, b : a = Op("ensure", v) /\ b = Op("ensure", u)
  OBVIOUS
<1>3. a \in Loose /\ b \in Loose
  BY <1>1, <1>2, LooseUrlOp
<1>4. PICK x : x = <<a, b>> /\ x \in Seq(Loose)
  BY <1>3, LooseTwo
<1>5. PICK y, z : y = LinkTo(u, v) /\ z = LinkTo(v, u) /\ y \in Seq(Loose) /\ z \in Seq(Loose)
  BY LinkToLoose
<1>6. x \o y \in Seq(Loose) /\ x \o y \o z \in Seq(Loose) /\ x \o y \o <<>> \in Seq(Loose)
  BY <1>4, <1>5
<1> QED BY <1>2, <1>4, <1>5, <1>6 DEF LinkOps

LEMMA SeqByIndex ==
  ASSUME NEW S, NEW s \in Seq(S), NEW T, NEW f, f = [i \in DOMAIN s |-> f[i]], \A i \in DOMAIN s : f[i] \in T
  PROVE  f \in Seq(T)
<1>1. PICK n \in Nat : n = Len(s) /\ DOMAIN s = 1 .. n
  OBVIOUS
<1>2. f = [i \in 1 .. n |-> f[i]] /\ \A i \in 1 .. n : f[i] \in T
  BY <1>1
<1> QED BY <1>2

LEMMA ElementFacts == ASSUME NEW S, NEW s \in Seq(S), NEW i \in DOMAIN s PROVE s[i] \in S
OBVIOUS

LinkRecords == [from : Servants, port : STRING, tos : Seq(Servants)]

LEMMA LinkFacts ==
  ASSUME NEW b \in Bindings
  PROVE  /\ Links[b] \in Seq(LinkRecords)
         /\ \A i \in DOMAIN Links[b] : Links[b][i] \in LinkRecords
<1>1. Links[b] \in Seq(LinkRecords)
  BY DeployAssumption DEF LinkRecords
<1> QED BY <1>1

LEMMA PairsTyped == ASSUME NEW b \in Bindings, NEW S PROVE Pairs(b, S) \in Seq(ServantUrls \X ServantUrls)
<1>1. PICK ls : ls = Links[b] /\ ls \in Seq(LinkRecords) /\ \A i \in DOMAIN ls : ls[i] \in LinkRecords
  BY LinkFacts
<1>2. PICK f : f = [i \in DOMAIN Links[b] |->
        IF Links[b][i].from \in S
        THEN [j \in DOMAIN Links[b][i].tos |->
                <<Url(Links[b][i].from, Links[b][i].port), Url(Links[b][i].tos[j], "in")>>]
        ELSE <<>>]
  OBVIOUS
<1>3. PICK T : T = ServantUrls \X ServantUrls
  OBVIOUS
<1>4. ASSUME NEW i \in DOMAIN ls PROVE f[i] \in Seq(T)
  <2>1. PICK l : l = ls[i] /\ l.from \in Servants /\ l.port \in Ports /\ l.tos \in Seq(Servants)
    BY <1>1, <1>4 DEF LinkRecords, Ports
  <2>2. CASE f[i] = <<>>
    BY <2>2
  <2>3. CASE f[i] = [j \in DOMAIN l.tos |-> <<Url(l.from, l.port), Url(l.tos[j], "in")>>]
    <3>1. PICK g : g = f[i]
      OBVIOUS
    <3>2. g = [j \in DOMAIN l.tos |-> g[j]]
      BY <2>3, <3>1
    <3>3. ASSUME NEW j \in DOMAIN l.tos PROVE g[j] \in T
      <4>1. l.tos[j] \in Servants /\ "in" \in Ports
        BY <2>1, <3>3, ElementFacts DEF Ports
      <4>2. PICK u, v : u = Url(l.from, l.port) /\ v = Url(l.tos[j], "in") /\ u \in ServantUrls /\ v \in ServantUrls
        BY <2>1, <4>1, ServantUrlIs
      <4>3. g[j] = <<u, v>>
        BY <2>3, <3>1, <3>3, <4>2
      <4> QED BY <1>3, <4>2, <4>3
    <3>4. g \in Seq(T)
      BY <2>1, <3>2, <3>3, SeqByIndex
    <3> QED BY <3>1, <3>4
  <2>4. f[i] = <<>> \/ f[i] = [j \in DOMAIN l.tos |-> <<Url(l.from, l.port), Url(l.tos[j], "in")>>]
    BY <1>1, <1>2, <1>4, <2>1
  <2> QED BY <2>2, <2>3, <2>4
<1>5. f = [i \in DOMAIN ls |-> f[i]]
  BY <1>1, <1>2
<1>6. f \in Seq(Seq(T))
  BY <1>1, <1>4, <1>5, SeqByIndex
<1>7. FlattenSeq(f) \in Seq(T)
  BY <1>6, FlattenFacts
<1> QED BY <1>2, <1>3, <1>7 DEF Pairs

LEMMA LinkAllLoose ==
  ASSUME NEW ps \in Seq(ServantUrls \X ServantUrls)
  PROVE  FlattenSeq([i \in DOMAIN ps |-> LinkOps(ps[i][1], ps[i][2])]) \in Seq(Loose)
<1>1. PICK f : f = [i \in DOMAIN ps |-> LinkOps(ps[i][1], ps[i][2])]
  OBVIOUS
<1>2. ASSUME NEW i \in DOMAIN ps PROVE f[i] \in Seq(Loose)
  <2>1. ps[i] \in ServantUrls \X ServantUrls
    BY <1>2
  <2>2. ps[i][1] \in ServantUrls /\ ps[i][2] \in ServantUrls
    BY <2>1
  <2>3. f[i] = LinkOps(ps[i][1], ps[i][2])
    BY <1>1, <1>2
  <2> QED BY <2>2, <2>3, LinkOpsLoose
<1>3. f = [i \in DOMAIN ps |-> f[i]]
  BY <1>1
<1>4. f \in Seq(Seq(Loose))
  BY <1>2, <1>3, SeqByIndex
<1> QED BY <1>1, <1>4, FlattenFacts

LEMMA BindingUrl == ASSUME NEW b \in Bindings PROVE Url(b, "") \in Urls /\ Instance(Url(b, "")) = b
BY DEF Url, Urls, Ids, Ports, Instance

LEMMA LinkBindingLoose == ASSUME NEW b \in Bindings PROVE LinkBindingOps(b) \in Seq(Loose)
<1>1. PICK x : /\ x = FlattenSeq([i \in DOMAIN Pairs(b, Pipelines) |-> LinkOps(Pairs(b, Pipelines)[i][1], Pairs(b, Pipelines)[i][2])])
               /\ x \in Seq(Loose)
  BY PairsTyped, LinkAllLoose
<1>2. PICK y : /\ y = FlattenSeq([i \in DOMAIN Pairs(b, Onramps) |-> LinkOps(Pairs(b, Onramps)[i][1], Pairs(b, Onramps)[i][2])])
               /\ y \in Seq(Loose)
  BY PairsTyped, LinkAllLoose
<1>3. PICK u : u = Url(b, "") /\ u \in Urls /\ Instance(u) = b
  BY BindingUrl
<1>4. PICK o : o = Op("ensureBinding", u)
  OBVIOUS
<1>5. o \in Operations /\ o.op = "ensureBinding" /\ o.u = u
  <2>1. "ensureBinding" \in UrlNames
    BY DEF UrlNames
  <2> QED BY <1>3, <1>4, <2>1, OpTypes
<1>6. Free(o) /\ \A ts : Sound(ts, o)
  BY <1>3, <1>5 DEF Free, Sound
<1>7. o \in Loose
  BY <1>5, <1>6, LooseOp
<1>8. x \o y \o <<o>> \in Seq(Loose)
  BY <1>1, <1>2, <1>7
<1> QED BY <1>1, <1>2, <1>3, <1>4, <1>8 DEF LinkBindingOps

LEMMA UnlinkOnrampLoose ==
  ASSUME NEW l \in LinkRecords, l.from \in Onramps
  PROVE  UnlinkOnrampOps(l) \in Seq(Loose)
<1>1. l.from \in Servants /\ l.port \in Ports /\ l.tos \in Seq(Servants) /\ l.from \in Ramps
  BY DEF LinkRecords, Ports, Ramps
<1>2. PICK u : u = Url(l.from, l.port) /\ u \in Urls /\ Instance(u) \in Ramps
  BY <1>1, ServantUrlIs, ServantUrlFacts
<1>3. PICK a : a = Op("need", u) /\ a \in Loose
  BY <1>2, LooseUrlOp
<1>4. PICK d : d = IF l.tos = <<>> THEN Op("fail", u) ELSE Cut(u, Url(Last(l.tos), "in"))
  OBVIOUS
<1>5. d \in Loose
  <2>1. CASE l.tos = <<>>
    BY <1>2, <1>4, <2>1, LooseUrlOp
  <2>2. CASE l.tos # <<>>
    <3>1. Last(l.tos) \in Servants
      BY <1>1, <2>2 DEF Last
    <3>2. PICK v : v = Url(Last(l.tos), "in") /\ v \in Urls
      BY <3>1, ServantUrlIs, ServantUrlFacts DEF Ports
    <3> QED BY <1>2, <1>4, <2>2, <3>2, LoosePairOps
  <2> QED BY <2>1, <2>2
<1>6. <<a, d>> \in Seq(Loose)
  BY <1>3, <1>5, LooseTwo
<1> QED BY <1>2, <1>3, <1>4, <1>6 DEF UnlinkOnrampOps

LEMMA UnlinkPipelineLoose == ASSUME NEW l \in LinkRecords, l.from \in Pipelines PROVE UnlinkPipelineOps(l) \in Seq(Loose)
<1>1. l.from \in Servants /\ l.port \in Ports /\ l.tos \in Seq(Servants)
  BY DEF LinkRecords, Ports
<1>2. PICK u : u = Url(l.from, l.port) /\ u \in Urls /\ Instance(u) \in Pipelines
  BY <1>1, ServantUrlIs, ServantUrlFacts
<1>3. PICK f : f = [j \in DOMAIN l.tos |->
            <<Op("need", u), CutOutput(u, Url(l.tos[j], "in"))>>
            \o (IF l.tos[j] \in Offramps THEN <<Op("need", Url(l.tos[j], "in")), Cut(Url(l.tos[j], "in"), u)>> ELSE <<>>)]
  OBVIOUS
<1>4. ASSUME NEW j \in DOMAIN l.tos PROVE f[j] \in Seq(Loose)
  <2>1. l.tos[j] \in Servants /\ "in" \in Ports
    BY <1>1, <1>4, ElementFacts DEF Ports
  <2>2. PICK v : v = Url(l.tos[j], "in") /\ v \in Urls /\ Instance(v) = l.tos[j]
    BY <2>1, ServantUrlIs, ServantUrlFacts
  <2>3. PICK x : x = <<Op("need", u), CutOutput(u, v)>> /\ x \in Seq(Loose)
    BY <1>2, <2>2, LooseUrlOp, LoosePairOps, LooseTwo
  <2>4. PICK y : y = (IF l.tos[j] \in Offramps THEN <<Op("need", v), Cut(v, u)>> ELSE <<>>) /\ y \in Seq(Loose)
    <3>1. ASSUME l.tos[j] \in Offramps PROVE <<Op("need", v), Cut(v, u)>> \in Seq(Loose)
      <4>1. Instance(v) \in Ramps
        BY <2>2, <3>1 DEF Ramps
      <4> QED BY <1>2, <2>2, <4>1, LooseUrlOp, LoosePairOps, LooseTwo
    <3>2. <<>> \in Seq(Loose)
      OBVIOUS
    <3> QED BY <3>1, <3>2
  <2>5. f[j] = x \o y
    BY <1>3, <1>4, <2>2, <2>3, <2>4
  <2> QED BY <2>3, <2>4, <2>5
<1>5. f = [j \in DOMAIN l.tos |-> f[j]]
  BY <1>3
<1>6. f \in Seq(Seq(Loose))
  BY <1>1, <1>4, <1>5, SeqByIndex
<1>7. FlattenSeq(f) \in Seq(Loose)
  BY <1>6, FlattenFacts
<1> QED BY <1>2, <1>3, <1>7 DEF UnlinkPipelineOps

\* A list a request may begin with.
Begins(ops) == ops \in Seq(Operations) /\ (\A ts : Chain(ts, ops)) /\ (ops # <<>> => Free(ops[1]))

LEMMA LooseFirst == ASSUME NEW s \in Seq(Loose), s # <<>> PROVE Free(s[1])
<1>1. s[1] \in Loose
  OBVIOUS
<1> QED BY <1>1 DEF Loose

LEMMA LooseBegins == ASSUME NEW s \in Seq(Loose) PROVE Begins(s)
BY LooseChain, LooseFirst DEF Begins

LEMMA LooseThen ==
  ASSUME NEW s \in Seq(Loose), NEW r, NEW a, NEW z, \A ts : List(ts, r, a, z), Free(a)
  PROVE  Begins(s \o r)
<1>1. s \in Seq(Operations) /\ \A ts : Chain(ts, s)
  BY LooseChain
<1>2. r \in Seq(Operations) /\ r # <<>> /\ r[1] = a /\ \A ts : Chain(ts, r)
  BY DEF List
<1>3. PICK u : u = s \o r
  OBVIOUS
<1>4. u \in Seq(Operations)
  BY <1>1, <1>2, <1>3
<1>5. ASSUME NEW ts PROVE Chain(ts, u)
  <2>1. Follows(s[Len(s)], r[1])
    BY <1>2, FreeFollows
  <2> QED BY <1>1, <1>2, <1>3, <2>1, ChainJoin
<1>6. (u[1] = s[1] /\ s # <<>>) \/ u[1] = a
  BY <1>1, <1>2, <1>3
<1>7. Free(u[1])
  BY <1>6, LooseFirst
<1>8. Begins(u)
  BY <1>4, <1>5, <1>7 DEF Begins
<1> QED BY <1>3, <1>8

LEMMA UnlinkBindingBegins == ASSUME NEW b \in Bindings PROVE Begins(UnlinkBindingOps(b))
<1> DEFINE Again(i) == \E j \in 1 .. i - 1 : Links[b][j].from = Links[b][i].from
<1>1. PICK ls : ls = Links[b] /\ ls \in Seq(LinkRecords) /\ \A i \in DOMAIN ls : ls[i] \in LinkRecords
  BY LinkFacts
<1>2. PICK f : f = [i \in DOMAIN Links[b] |-> IF Links[b][i].from \in Onramps THEN UnlinkOnrampOps(Links[b][i]) ELSE <<>>]
  OBVIOUS
<1>3. PICK g : g = [i \in DOMAIN Links[b] |->
              IF Links[b][i].from \in Pipelines /\ ~Again(i) THEN UnlinkPipelineOps(Links[b][i]) ELSE <<>>]
  OBVIOUS
<1>4. f = [i \in DOMAIN ls |-> f[i]] /\ \A i \in DOMAIN ls : f[i] \in Seq(Loose)
  <2>1. <<>> \in Seq(Loose)
    OBVIOUS
  <2>2. ASSUME NEW i \in DOMAIN ls PROVE f[i] \in Seq(Loose)
    <3>1. ls[i] \in LinkRecords /\ f[i] = IF ls[i].from \in Onramps THEN UnlinkOnrampOps(ls[i]) ELSE <<>>
      BY <1>1, <1>2, <2>2
    <3> QED BY <2>1, <3>1, UnlinkOnrampLoose
  <2>3. f = [i \in DOMAIN ls |-> f[i]]
    BY <1>1, <1>2
  <2> QED BY <2>2, <2>3
<1> HIDE DEF Again
<1>5. g = [i \in DOMAIN ls |-> g[i]] /\ \A i \in DOMAIN ls : g[i] \in Seq(Loose)
  <2>1. <<>> \in Seq(Loose)
    OBVIOUS
  <2>2. ASSUME NEW i \in DOMAIN ls PROVE g[i] \in Seq(Loose)
    <3>1. ls[i] \in LinkRecords /\ ((ls[i].from \in Pipelines /\ g[i] = UnlinkPipelineOps(ls[i])) \/ g[i] = <<>>)
      BY <1>1, <1>3, <2>2
    <3> QED BY <2>1, <3>1, UnlinkPipelineLoose
  <2>3. g = [i \in DOMAIN ls |-> g[i]]
    BY <1>1, <1>3
  <2> QED BY <2>2, <2>3
<1>6. PICK x : x = FlattenSeq(f) /\ x \in Seq(Loose)
  <2>1. f \in Seq(Seq(Loose))
    BY <1>1, <1>4, SeqByIndex
  <2> QED BY <2>1, FlattenFacts
<1>7. PICK y : y = FlattenSeq(g) /\ y \in Seq(Loose)
  <2>1. g \in Seq(Seq(Loose))
    BY <1>1, <1>5, SeqByIndex
  <2> QED BY <2>1, FlattenFacts
<1>8. PICK u : u = Url(b, "") /\ u \in Urls
  BY BindingUrl
<1>9. PICK p, q : p = Op("unlistBinding", u) /\ q = Op("unregister", u)
  OBVIOUS
<1>10. p \in Operations /\ p.op = "unlistBinding" /\ p.u = u /\ \A ts : Sound(ts, p)
  BY <1>8, <1>9, UrlOpFacts DEF UrlNames
<1>11. q \in Operations /\ q.op = "unregister" /\ q.u = u /\ \A ts : Sound(ts, q)
  BY <1>8, <1>9, UrlOpFacts DEF UrlNames
<1>12. Free(p) /\ Follows(p, q)
  BY <1>10, <1>11 DEF Free, Follows
<1>13. \A ts : List(ts, <<p, q>>, p, q)
  BY <1>10, <1>11, <1>12, TwoOps
<1>14. x \o y \in Seq(Loose)
  BY <1>6, <1>7
<1>15. Begins((x \o y) \o <<p, q>>)
  BY <1>12, <1>13, <1>14, LooseThen
<1>16. UnlinkBindingOps(b) = (x \o y) \o <<p, q>>
  BY <1>2, <1>3, <1>6, <1>7, <1>8, <1>9, Zenon DEF UnlinkBindingOps, Again
<1> QED BY <1>15, <1>16

\* A request begins when the client has nothing else to do.
LEMMA BeginStep ==
  ASSUME DeployInv, NEW c \in Clients, NEW ops, Begins(ops), todo[c] = <<>>, Set(c, ops),
         UNCHANGED <<published, bound, reg, tasks, answers, ends, session>>
  PROVE  DeployInv'
<1>1. /\ todo' \in [Clients -> Seq(Operations)] /\ todo'[c] = ops
      /\ \A d \in Clients : d # c => todo'[d] = todo[d]
  BY DEF DeployInv, DeployTypes, Begins, Set
<1>2. Chain(tasks', ops) /\ (ops # <<>> => Due(c, ops[1])')
  BY DEF Begins, Free, Due
<1>3. contended \subseteq contended' /\ Grow(tasks, tasks') /\ ~Answering(c)
  BY SetShared, GrowSame DEF Answering
<1>4. MoreMail /\ NoNewAsk
  BY DEF MoreMail, Longer, NoNewAsk, DeployInv, DeployTypes, AreTasks
<1>5. Undisturbed(c) /\ AskInv'
  BY <1>3, <1>4, MailUndisturbed, AskClient
<1>6. Chain(tasks, todo[c])' /\ (todo'[c] # <<>> => Due(c, todo[c][1])')
  BY <1>1, <1>2
<1>7. RequestsInv'
  BY <1>1, <1>3, <1>5, <1>6, OthersKept DEF RequestsInv, DeployInv
<1> QED BY <1>1, <1>5, <1>7, OnlyTodo

LEMMA SessionFacts == ASSUME DeployInv, NEW c \in Clients PROVE session[c].bindings \subseteq Bindings
BY DeployAssumption DEF DeployInv, DeployTypes

LEMMA LinkBindingStep == ASSUME DeployInv, NEW c \in Clients, LinkBinding(c) PROVE DeployInv'
<1>1. PICK b \in Bindings : Set(c, LinkBindingOps(b))
  BY SessionFacts DEF LinkBinding
<1>2. Begins(LinkBindingOps(b))
  BY LinkBindingLoose, LooseBegins
<1> QED BY <1>1, <1>2, BeginStep DEF LinkBinding, Request, Idle, repo

LEMMA UnlinkBindingStep == ASSUME DeployInv, NEW c \in Clients, UnlinkBinding(c) PROVE DeployInv'
<1>1. PICK b \in Bindings : Set(c, UnlinkBindingOps(b))
  BY SessionFacts DEF UnlinkBinding
<1>2. Begins(UnlinkBindingOps(b))
  BY UnlinkBindingBegins
<1> QED BY <1>1, <1>2, BeginStep DEF UnlinkBinding, Request, Idle, repo

LEMMA PublishStep ==
  ASSUME DeployInv, NEW c \in Clients, Publish(c) \/ Unpublish(c)
  PROVE  DeployInv'
<1>1. UNCHANGED <<bound, reg, tasks, todo, answers, ends, contended, session>>
  BY DEF Publish, Unpublish, Request
<1>2. bound \cap published \subseteq published'
  BY DEF Publish, Unpublish, CanUnpublish
<1>3. ASSUME NEW d \in Clients PROVE Chain(tasks', todo'[d]) /\ (todo'[d] # <<>> => Due(d, todo[d][1])')
  <2>1. Chain(tasks', todo'[d])
    BY <1>1 DEF DeployInv, RequestsInv
  <2>2. PICK p : p = todo[d][1] /\ p = todo'[d][1] /\ (todo[d] # <<>> => Due(d, p))
    BY <1>1 DEF DeployInv, RequestsInv
  <2>3. Due(d, p) => Due(d, p)'
    BY <1>1, <1>2 DEF Due, Waits
  <2> QED BY <1>1, <2>1, <2>2, <2>3 DEF Due
<1>4. RequestsInv'
  BY <1>3 DEF RequestsInv
<1>5. RegisteredIsBound'
  BY <1>1, <1>2 DEF DeployInv, RegisteredIsBound
<1>6. DeployTypes' /\ RegistryInv' /\ SharedInv'
  BY <1>1 DEF DeployInv, DeployTypes, RegistryInv, SharedInv
<1>7. AskInv'
  BY <1>1 DEF DeployInv, AskInv, Asked, Answering
<1> QED BY <1>4, <1>5, <1>6, <1>7 DEF DeployInv

-----------------------------------------------------------------------------
(* The theorems.                                                           *)

LEMMA DeployInit == Init => DeployInv
<1> SUFFICES ASSUME Init PROVE DeployInv
  OBVIOUS
<1>1. /\ tasks = <<>> /\ ends = 0 /\ reg = [s \in Ids |-> 0] /\ session \in Sessions
      /\ todo = [c \in Clients |-> <<>>] /\ answers = [c \in Clients |-> <<>>]
  BY DEF Init, None
<1>2. AreTasks(tasks)
  <2>1. DOMAIN tasks = {} /\ tasks \in Seq({tasks[t] : t \in DOMAIN tasks})
    BY <1>1
  <2> QED BY <2>1 DEF AreTasks
<1>3. DeployTypes
  BY <1>1, <1>2 DEF DeployTypes
<1>4. RegistryInv /\ RegisteredIsBound
  BY <1>1 DEF RegistryInv, RegisteredIsBound, None, Ids
<1>5. Chain(tasks, <<>>)
  BY DEF Chain
<1>6. RequestsInv
  BY <1>1, <1>5 DEF RequestsInv
<1>7. SharedInv
  <2>1. \A c \in Clients : AllNames(todo[c]) = {}
    BY <1>1 DEF AllNames
  <2> QED BY <2>1 DEF SharedInv, Shared
<1>8. AskInv
  <2>1. \A t, i, d, s : ~AskOf(tasks, t, i, d, s)
    BY <1>1 DEF AskOf, IsAsk, TaskOf
  <2> QED BY <1>1, <2>1 DEF AskInv
<1> QED BY <1>3, <1>4, <1>6, <1>7, <1>8 DEF DeployInv

LEMMA ClientSteps == ASSUME DeployInv, NEW c \in Clients, Client(c) PROVE DeployInv'
BY EnsureStep, NeedStep, BindStep, SpawnStep, RegisterStep, EnlistStep, FoundStep, EnsureBindingStep,
   ConnectFromStep, ConnectToStep, CutRampStep, DisconnectStep, AnsweredStep, CutPipelineStep, DismissStep, GiveUpStep,
   UnbindStep, UnlistStep, UnregisterStep, SendToStep DEF Client

LEMMA TaskSteps == ASSUME DeployInv, NEW t \in DOMAIN tasks, Task(t) PROVE DeployInv'
BY OnrampConnectStep, OnrampDisconnectStep, PipelineInputStep, PipelineConnectStep, PipelineDisconnectStep,
   OfframpConnectStep, OfframpDisconnectStep DEF Task

LEMMA DeployStep == ASSUME DeployInv, [Next]_vars PROVE DeployInv'
<1>1. ASSUME NEW c \in Clients, Publish(c) \/ Unpublish(c) \/ LinkBinding(c) \/ UnlinkBinding(c) \/ Client(c)
      PROVE  DeployInv'
  BY <1>1, PublishStep, LinkBindingStep, UnlinkBindingStep, ClientSteps
<1>2. ASSUME NEW t \in DOMAIN tasks, Task(t) \/ OnrampEnds(t) PROVE DeployInv'
  BY <1>2, TaskSteps, OnrampEndsStep
<1>3. CASE UNCHANGED vars
  BY <1>3 DEF vars, DeployInv, DeployTypes, RegistryInv, RegisteredIsBound, RequestsInv, Due, Waits,
                 SharedInv, AskInv, Asked, Answering
<1> QED BY <1>1, <1>2, <1>3 DEF Next

LEMMA WaitingIsAwaited == DeployInv => SomeoneAnswers
<1> SUFFICES ASSUME DeployInv, ends = 0, NEW c \in Clients, Doing(c, "answer"), answers[c] = <<>>,
                    Instance(Now(c).u) \notin contended
             PROVE  \E t \in DOMAIN tasks :
                        /\ tasks[t].alive /\ Instance(tasks[t].id) = Instance(Now(c).u)
                        /\ \E m \in ToSet(tasks[t].box) : m.m = "disconnect" /\ m.c = c
  BY DEF SomeoneAnswers
<1>1. Waits(c, Instance(Now(c).u))
  BY DoingFacts DEF Due
<1>2. PICK t \in DOMAIN tasks :
          /\ tasks[t].alive /\ TaskOf(tasks, t, {Instance(Now(c).u)})
          /\ \E i \in DOMAIN tasks[t].box : tasks[t].box[i].m = "disconnect" /\ tasks[t].box[i].c = c
  BY <1>1 DEF Waits, Awaited
<1>3. PICK i \in DOMAIN tasks[t].box : tasks[t].box[i].m = "disconnect" /\ tasks[t].box[i].c = c
  BY <1>2
<1>4. tasks[t].box[i] \in ToSet(tasks[t].box)
  BY <1>3 DEF ToSet
<1> QED BY <1>2, <1>3, <1>4 DEF TaskOf

\* Whatever any number of clients do at once, a client never waits for an answer
\* of a ramp that no other client had to do with and that will not give one: the
\* ramp runs and has the client's Disconnect, unless an onramp ended on its own
\* (artefact.rs:395-470, system.rs:391-611).
THEOREM UnlinkingNeverHangs == Spec => []SomeoneAnswers
<1>1. DeployInv /\ [Next]_vars => DeployInv'
  BY DeployStep
<1> QED BY <1>1, DeployInit, WaitingIsAwaited, PTL DEF Spec

\* Whatever any number of clients do at once, what is registered is counted as an
\* instance of an artefact that is published, at every point of every request, so
\* a running servant's artefact cannot be unpublished; except for a servant that
\* two requests dealt with at the same time (repository.rs:224-263).
THEOREM RegisteredCannotBeUnpublished == Spec => []RegisteredIsBound
<1>1. DeployInv /\ [Next]_vars => DeployInv'
  BY DeployStep
<1>2. DeployInv => RegisteredIsBound
  BY DEF DeployInv
<1> QED BY <1>1, <1>2, DeployInit, PTL DEF Spec

=============================================================================
