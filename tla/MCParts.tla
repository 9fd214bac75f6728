----------------------------- MODULE MCParts -------------------------------
(* The parts that work alone, one at a time: an event identifier, a        *)
(* preprocessor of a stream, the preprocessor of gelf, the optimizer, a    *)
(* match, the aggregate functions, a linked source, the crononome.         *)
EXTENDS EventIds, Framing, Gelf, Optimizer, Match, Aggr, Linked, Crononome

VARIABLE which
CONSTANT WireLen    \* bound: bytes on a wire of lines

Data(i) == <<"data", i>>
Space(i) == <<"space", i>>

\* Every way to put separators on a wire.
LineStreams ==
    {[kind |-> "lines", max |-> m, buffered |-> m # 0,
      wire |-> [i \in 1 .. WireLen |-> IF i \in s THEN Space(i) ELSE Data(i)]] :
     m \in {0, 2, 3}, s \in SUBSET (1 .. WireLen)}

\* Frames as <<length, payload is white space>>; a length takes head bytes.
\* A length of -1 stands for a token that is no number.
RECURSIVE Framed(_, _, _, _, _)
Framed(specs, kind, head, wire, frames) ==
    IF specs = <<>>
    THEN [kind |-> kind, wire |-> wire, frames |-> frames]
    ELSE LET n == specs[1][1]
             size == IF n < 0 THEN 0 ELSE n
             token == IF n < 0 THEN <<Data(Len(wire) + 1)>> ELSE [i \in 1 .. head |-> <<"length", n>>]
             start == wire \o token \o (IF kind = "textual" THEN <<Space(0)>> ELSE <<>>)
             payload == [i \in 1 .. size |-> IF specs[1][2] THEN Space(Len(start) + i)
                                             ELSE Data(Len(start) + i)]
         IN  Framed(Tail(specs), kind, head, start \o payload,
                    IF n < 0 THEN frames
                    ELSE Append(frames, [payload |-> payload, end |-> Len(start) + size]))

Specs == {<<<<2, FALSE>>, <<0, FALSE>>, <<1, TRUE>>>>, <<<<0, FALSE>>, <<2, TRUE>>, <<0, FALSE>>>>,
          <<<<1, TRUE>>, <<1, FALSE>>, <<1, TRUE>>>>}

MCWires ==
    LineStreams
    \union {Framed(s, "length", HeaderLen, <<>>, <<>>) : s \in Specs}
    \union {Framed(s, "textual", h, <<>>, <<>>) : h \in {1, 2},
            s \in Specs \union {<<<<1, FALSE>>, <<-1, FALSE>>, <<1, FALSE>>>>}}

\* Queries of an input 1, operators 2 to 4 and an output 5: each sends to later
\* ones, 1 and 2 to up to two of them, and 2 has a second port unless it is a
\* passthrough.
Later(n, port) == {<<m, port>> : m \in n + 1 .. 5}
UpTo(k, S) == UNION {[1 .. n -> S] : n \in 0 .. k}

MCQueries ==
    {[skip |-> skip,
      wires |-> Restrict(w, {k \in DOMAIN w : w[k] # <<>> /\ (k[2] = "err" => 2 \notin skip)})] :
     skip \in SUBSET (2 .. 4),
     w \in {(<<1, "out">> :> a) @@ (<<2, "out">> :> b) @@ (<<2, "err">> :> e)
            @@ (<<3, "out">> :> c) @@ (<<4, "out">> :> d) :
            a \in UpTo(2, Later(1, "in")) \union UpTo(1, Later(1, "aux")),
            b \in UpTo(2, Later(2, "in")), e \in UpTo(1, {<<5, "aux">>}),
            c \in UpTo(1, Later(3, "in")), d \in UpTo(1, Later(4, "aux"))}}

\* Scripts of up to three clauses, with every kind of pattern.
Num(n) == <<"int", 2 * n>>
Half(n) == <<"float", n>>
Str(s) == <<"str", s>>
Lit(v) == <<"lit", v>>
AB == <<"a", "b">>
Is(rhs) == [kind |-> "expr", rhs |-> rhs]
Test(op, key, rhs) == [op |-> op, key |-> key, rhs |-> rhs]
Fields(fs) == [kind |-> "record", fields |-> fs]
Has(op, key, rhs) == Fields(<<Test(op, key, rhs)>>)
As(p) == [kind |-> "assign", pattern |-> p]
Elements(open, es) == [kind |-> "tuple", open |-> open, exprs |-> es]

Patterns ==
    {Is(Lit(Num(1))), Is(Lit(Half(2))), Is(Lit(Str(AB))), Is(<<"var", "x">>),
     Has("==", "a", Lit(Num(1))), Has("==", "a", Lit(Str(AB))), Has("==", "a", <<"var", "x">>),
     Has("==", "b", Lit(Num(1))), Has("!=", "a", Lit(Num(1))),
     Has("~=", "a", <<"a">>), Has("~=", "a", AB), Has("~=", "a", <<"b">>),
     Has("present", "a", <<>>), Has("absent", "a", <<>>),
     Fields(<<Test("==", "a", Lit(Num(1))), Test("present", "b", <<>>)>>),
     [kind |-> "extract", prefix |-> <<"a">>], [kind |-> "any"], [kind |-> "default"],
     As(Has("absent", "a", <<>>)), As([kind |-> "any"]),
     Elements(FALSE, <<<<Test("==", "a", Lit(Num(1)))>>>>),
     Elements(TRUE, <<<<Test("absent", "a", <<>>)>>>>), Elements(TRUE, <<<<>>>>)}

Clauses ==
    {[pattern |-> p, guard |-> ""] : p \in Patterns}
    \union {[pattern |-> p, guard |-> "g"] :
            p \in {Is(Lit(Num(1))), Has("==", "a", Lit(Num(1))), [kind |-> "any"]}}

MCScripts == {[i \in DOMAIN cs |-> [at |-> i] @@ cs[i]] :
              cs \in UNION {[1 .. n -> Clauses] : n \in 1 .. 3}}

Scalars == {Num(1), Num(2), Half(2), Half(3), Str(<<"a">>), Str(AB)}
Records == {<<"rec", Restrict([a |-> x, b |-> Num(1)], keys)>> :
            x \in Scalars, keys \in SUBSET {"a", "b"}}
Arrays == {<<"arr", s>> : s \in {<<>>, <<<<"rec", [a |-> Num(1)]>>>>, <<<<"rec", <<>>>>>>,
                                 <<<<"rec", [a |-> Num(1)]>>, Num(1)>>}}
MCTargets == Scalars \union Records \union Arrays
MCValuations == {[x |-> v, g |-> b] : v \in {Num(1), Str(AB)}, b \in BOOLEAN}

MCSamples == {-1, 1, 2}

\* Every second, every other one, at intervals, once, never.
MCSchedules == {0 .. 5, {0, 2, 4}, {1, 4}, {3}, {}}

PartsSymmetry == Symmetry \union Permutations(Clients)

\* The parts that are not looked at are fixed.
SomeWire == CHOOSE w \in Wires : TRUE
SomeQuery == [skip |-> {}, wires |-> <<>>]
SomeScript == CHOOSE s \in Scripts : TRUE

PartsInit ==
    /\ which \in {"ids", "stream", "gelf", "optimizer", "match", "aggr", "linked", "cron"}
    /\ which = "ids" \/ seen = [r \in Regs |-> {<<1, 0, 0>>}]
    /\ which = "stream" \/ stream = SomeWire
    /\ Init /\ StreamInit /\ GelfInit /\ AggrInit /\ LinkedInit /\ CronInit
    /\ which = "linked" \/ server = [proto |-> "rest", linked |-> TRUE]
    /\ which = "cron" \/ (sched = [e \in Entries |-> {}] /\ time = 0)
    /\ query \in IF which = "optimizer" THEN Queries ELSE {SomeQuery}
    /\ script \in IF which = "match" THEN Scripts ELSE {SomeScript}
    /\ OptimizerStart /\ MatchStart

PartsNext ==
    \/ which = "ids" /\ Next
       /\ UNCHANGED <<streamVars, gelfVars, optimizerVars, matchVars, aggrVars, linkedVars,
                      cronVars, which>>
    \/ which = "stream" /\ StreamNext
       /\ UNCHANGED <<vars, gelfVars, optimizerVars, matchVars, aggrVars, linkedVars,
                      cronVars, which>>
    \/ which = "gelf" /\ GelfNext
       /\ UNCHANGED <<vars, streamVars, optimizerVars, matchVars, aggrVars, linkedVars,
                      cronVars, which>>
    \/ which = "optimizer" /\ Optimize
       /\ UNCHANGED <<vars, streamVars, gelfVars, matchVars, aggrVars, linkedVars, cronVars, which>>
    \/ which = "match" /\ CompileMatch
       /\ UNCHANGED <<vars, streamVars, gelfVars, optimizerVars, aggrVars, linkedVars,
                      cronVars, which>>
    \/ which = "aggr" /\ AggrNext
       /\ UNCHANGED <<vars, streamVars, gelfVars, optimizerVars, matchVars, linkedVars,
                      cronVars, which>>
    \/ which = "linked" /\ LinkedNext
       /\ UNCHANGED <<vars, streamVars, gelfVars, optimizerVars, matchVars, aggrVars,
                      cronVars, which>>
    \/ which = "cron" /\ CronNext
       /\ UNCHANGED <<vars, streamVars, gelfVars, optimizerVars, matchVars, aggrVars,
                      linkedVars, which>>

partsVars == <<vars, streamVars, gelfVars, optimizerVars, matchVars, aggrVars,
               linkedVars, cronVars, which>>

PartsSpec == PartsInit /\ [][PartsNext]_partsVars

-----------------------------------------------------------------------------
(* Properties: what each module promises, looked at where its part moves.  *)
(* RepliesRight (Linked) and TriggersExact (Crononome) are checked as they *)
(* stand.                                                                  *)

\* Event ids stand for exactly the events merged into them: the tracked vector
\* is sorted and without doubles, and every getter agrees with the set.
IdsAgree == which = "ids" => IdsExact

\* A preprocessor gives the messages that were sent, whole and none of them
\* twice: from a stream cut anywhere, and from chunks that arrive in any order.
MessagesAgree ==
    /\ which = "stream" => MessagesExact
    /\ which = "gelf" => GelfExact

\* A query delivers what it delivered before optimize rewired it.
QueriesAgree == which = "optimizer" => OptimizedAlike

\* A compiled match takes the first clause of the script that matches, for
\* scripts in which no two clauses test the same thing for the same value, and
\* unless a search tree of literals is asked for a fraction (FirstClauseWins
\* says why: the code takes another clause there).
ClausesAgree == which = "match" => FirstClauseWins

\* An aggregate says what holds of the values of its window: count, sum, mean,
\* max, first, last and collect after a merge too, min and var only before one,
\* a histogram until a cache has filled up.
AggregatesAgree == which = "aggr" => AggregatesExact
=============================================================================
