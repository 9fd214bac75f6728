-------------------------------- MODULE Match --------------------------------
(***************************************************************************)
(* How tremor-script compiles and runs a match (tremor-script/src/ast.rs,  *)
(* ast/raw.rs, ast/analyzer.rs, interpreter.rs, interpreter/expr.rs and    *)
(* imut_expr.rs).                                                          *)
(*                                                                         *)
(* The compiler moves cheap clauses up past clauses that exclude them,     *)
(* puts neighbours that exclude each other into groups, looks up a record  *)
(* key once for a group, and puts literals into a search tree.  A clause   *)
(* is named by its place in the script.                                    *)
(*                                                                         *)
(* Values: <<"int", n>> and <<"float", n>> are n halves, <<"str", s>> has  *)
(* a sequence of letters, <<"rec", f>> fields, <<"arr", s>> elements.      *)
(* A right-hand side is <<"lit", value>> or <<"var", name>>.               *)
(*                                                                         *)
(* A field of a record pattern is tested with ==, !=, ~= and a prefix,     *)
(* present or absent: other comparisons, nested patterns and other         *)
(* extractors, which never exclude anything or do so in the same way, are  *)
(* left out, and so are array patterns.  So are errors: right-hand sides   *)
(* evaluate, a guard to TRUE or FALSE.  Reordering does change which       *)
(* clause is the first to fail with an error.                              *)
(***************************************************************************)
EXTENDS Integers, Sequences, FiniteSets, SequencesExt

CONSTANTS
    Scripts,        \* the sequences of clauses to compile
    Targets,        \* the values to match
    Valuations,     \* what variables and guards evaluate to
    MIN_BTREE_SIZE  \* literals in a group from which on it becomes a search tree

VARIABLES
    script,     \* the clauses as written, [pattern, guard] with guard "" for none
    compiled    \* NotYet, or Match: groups, and the default clause or 0

matchVars == <<script, compiled>>

NotYet == <<>>
NoKey == ""

----------------------------------------------------------------------------
(* Values                                                                  *)

IsNumber(v) == v[1] \in {"int", "float"}
Value(rhs, val) == IF rhs[1] = "lit" THEN rhs[2] ELSE val[rhs[2]]

\* val_eq: numbers by what they stand for
ValEq(v, w) == IF IsNumber(v) /\ IsNumber(w) THEN v[2] = w[2] ELSE v = w

Truncated(halves) == IF halves >= 0 THEN halves \div 2 ELSE -((-halves) \div 2)

\* Ord for Value, which the search tree uses: between a float and an integer the
\* float is truncated.  (A negative float is less than an unsigned integer.)
OrdEq(v, w) ==
    IF IsNumber(v) /\ IsNumber(w) /\ v[1] # w[1] THEN Truncated(v[2]) = Truncated(w[2]) ELSE v = w

\* Value looked up by key; NotYet if there is none
Lookup(v, key) == IF v[1] = "rec" /\ key \in DOMAIN v[2] THEN v[2][key] ELSE NotYet

----------------------------------------------------------------------------
(* Testing a pattern.  A field of a record pattern is [op, key, rhs]; the  *)
(* extractor of ~= is prefix.                                              *)

\* Extractor::extract of a prefix
Extracts(prefix, v) == v[1] = "str" /\ IsPrefix(prefix, v[2])

\* One field of match_rp_expr
TestField(f, v, val) ==
    LET w == Lookup(v, f.key)
    IN  CASE f.op = "present" -> w # NotYet
          [] f.op = "absent"  -> w = NotYet
          [] f.op = "=="      -> w # NotYet /\ ValEq(w, Value(f.rhs, val))
          [] f.op = "!="      -> w # NotYet /\ ~ValEq(w, Value(f.rhs, val))
          [] f.op = "~="      -> w # NotYet /\ Extracts(f.rhs, w)

\* match_rp_expr
TestRecord(fields, v, val) == v[1] = "rec" /\ \A i \in DOMAIN fields : TestField(fields[i], v, val)

\* match_tp_expr; an element is a record pattern, or <<>> for _
TestTuple(p, v, val) ==
    /\ v[1] = "arr"
    /\ IF p.open THEN Len(v[2]) >= Len(p.exprs) ELSE Len(v[2]) = Len(p.exprs)
    /\ \A i \in DOMAIN p.exprs : p.exprs[i] = <<>> \/ TestRecord(p.exprs[i], v[2][i], val)

\* An assignment binds a name around a pattern.
Inner(p) == IF p.kind = "assign" THEN p.pattern ELSE p

\* test_predicate_expr, the pattern without the guard
TestPattern(p, v, val) ==
    LET q == Inner(p)
    IN  CASE q.kind \in {"any", "default"} -> TRUE
          [] q.kind = "expr"    -> ValEq(v, Value(q.rhs, val))
          [] q.kind = "extract" -> Extracts(q.prefix, v)
          [] q.kind = "record"  -> TestRecord(q.fields, v, val)
          [] q.kind = "tuple"   -> TestTuple(q, v, val)

TestPredicate(c, v, val) == TestPattern(c.pattern, v, val) /\ (c.guard = "" \/ val[c.guard])

----------------------------------------------------------------------------
(* Patterns that exclude each other                                        *)

\* Extractor::is_exclusive_to of a prefix
ExtractorExcludes(prefix, v) == v[1] = "str" => ~IsPrefix(prefix, v[2])

\* Faulty variant: the keys are not compared.
FieldExcludesAnyKey(f, g) == f.op \in {"==", "!=", "present"} /\ g.op = "absent"

\* PredicatePattern::is_exclusive_to
FieldExcludes(f, g) ==
    /\ f.key = g.key
    /\ \/ f.op = "==" /\ g.op = "==" /\ f.rhs # g.rhs
       \/ f.op \in {"==", "!=", "present"} /\ g.op = "absent"
       \/ f.op = "==" /\ f.rhs[1] = "lit" /\ g.op = "~=" /\ ExtractorExcludes(g.rhs, f.rhs[2])
       \/ f.op = "~=" /\ g.op = "==" /\ g.rhs[1] = "lit" /\ ExtractorExcludes(f.rhs, g.rhs[2])
       \/ f.op = "~=" /\ g.op = "~=" /\ ~IsPrefix(f.rhs, g.rhs) /\ ~IsPrefix(g.rhs, f.rhs)

\* RecordPattern::is_exclusive_to
RecordExcludes(r, s) ==
    Len(r) = 1 /\ Len(s) = 1 /\ (FieldExcludes(r[1], s[1]) \/ FieldExcludes(s[1], r[1]))

\* Pattern::is_exclusive_to.  Literals are compared with their node ids, so two
\* clauses with a literal always exclude each other.
PatternExcludes(p, q) ==
    \/ p.kind = "expr" /\ q.kind = "expr" /\ p.rhs[1] = "lit" /\ q.rhs[1] = "lit"
    \/ p.kind = "record" /\ q.kind = "record" /\ RecordExcludes(p.fields, q.fields)
    \/ /\ p.kind = "tuple" /\ q.kind = "tuple"
       /\ \E i \in DOMAIN p.exprs \intersect DOMAIN q.exprs : RecordExcludes(p.exprs[i], q.exprs[i])

\* PredicateClause::is_exclusive_to, symmetric as its callers use it
Excludes(c, d) ==
    c.guard = "" /\ d.guard = "" /\ PatternExcludes(Inner(c.pattern), Inner(d.pattern))

----------------------------------------------------------------------------
(* What a clause costs: FREE 0, CONST 10, AVERAGE 100, a prefix 25         *)

FieldCost(f) ==
    CASE f.op \in {"present", "absent"} -> 10
      [] f.op \in {"==", "!="} -> IF f.rhs[1] = "lit" THEN 20 ELSE 100
      [] f.op = "~=" -> 25

RecordCost(fields) == FoldLeft(LAMBDA sum, f : sum + FieldCost(f) + 100, 0, fields)
TupleCost(exprs) == FoldLeft(LAMBDA sum, r : sum + IF r = <<>> THEN 1 ELSE RecordCost(r), 0, exprs)

PatternCost(p) ==
    CASE p.kind \in {"any", "default"} -> 0
      [] p.kind = "expr"    -> 10
      [] p.kind = "extract" -> 25
      [] p.kind = "record"  -> RecordCost(p.fields)
      [] p.kind = "tuple"   -> TupleCost(p.exprs)

Cost(c) == (IF c.guard = "" THEN 0 ELSE 10) + PatternCost(Inner(c.pattern))

----------------------------------------------------------------------------
(* Compiling                                                               *)

\* Faulty variant: cheap clauses move up past any other.
MovesUpAlways(c, before) == Cost(c) < Cost(before)

MovesUp(c, before) == Cost(c) <= Cost(before) /\ Excludes(c, before)

SwapUp(cs, j) == IF MovesUp(cs[j], cs[j-1]) THEN [cs EXCEPT ![j] = cs[j-1], ![j-1] = cs[j]] ELSE cs

\* sort_clauses: for the last place first, walk up from it
SortClauses(cs) ==
    FoldLeft(SwapUp, cs,
             FlattenSeq([i \in 1 .. Len(cs) |->
                [k \in 1 .. Len(cs) - i |-> Len(cs) - i + 2 - k]]))

\* sort_by_key(cost), which is stable
InsertByCost(cs, c) ==
    LET k == Cardinality({i \in DOMAIN cs : Cost(cs[i]) <= Cost(c)})
    IN  SubSeq(cs, 1, k) \o <<c>> \o SubSeq(cs, k + 1, Len(cs))
SortByCost(cs) == FoldLeft(InsertByCost, <<>>, cs)

\* The key of a record pattern of one field, tested with == or ~=
SingleKey(c) ==
    IF c.pattern.kind = "record" /\ Len(c.pattern.fields) = 1
       /\ c.pattern.fields[1].op \in {"==", "~="}
    THEN c.pattern.fields[1].key ELSE NoKey

\* The pattern for the value of the key
Field(c) ==
    LET f == c.pattern.fields[1]
    IN  [c EXCEPT !.pattern = IF f.op = "==" THEN [kind |-> "expr", rhs |-> f.rhs]
                              ELSE [kind |-> "extract", prefix |-> f.rhs]]

IsLiteral(c) == c.pattern.kind = "expr" /\ c.pattern.rhs[1] = "lit"

\* One part of a group: a search tree (in the order of insertion) and the rest
Part(cs) ==
    IF Cardinality({i \in DOMAIN cs : IsLiteral(cs[i]) /\ cs[i].guard = ""}) >= MIN_BTREE_SIZE
    THEN [tree |-> SelectSeq(cs, IsLiteral), rest |-> SelectSeq(cs, LAMBDA c : ~IsLiteral(c))]
    ELSE [tree |-> <<>>, rest |-> cs]

\* The key that all clauses of a group test
SharedKey(cs) ==
    IF cs # <<>> /\ \A i \in DOMAIN cs : SingleKey(cs[i]) = SingleKey(cs[1])
    THEN SingleKey(cs[1]) ELSE NoKey

\* ClauseGroup::optimize of a group that is complete; pre is its precondition
Group(cs) ==
    LET key == SharedKey(cs)
    IN  [pre |-> key,
         parts |-> <<Part(IF key = NoKey THEN cs ELSE [i \in DOMAIN cs |-> Field(cs[i])])>>]

\* A clause joins the group before it if it excludes all of it.
JoinOrStart(acc, c) ==
    IF \A i \in DOMAIN acc.group : Excludes(c, acc.group[i])
    THEN [acc EXCEPT !.group = Append(@, c)]
    ELSE [groups |-> Append(acc.groups, Group(SortByCost(acc.group))), group |-> <<c>>]

Groups(cs) ==
    LET acc == FoldLeft(JoinOrStart, [groups |-> <<>>, group |-> <<>>], cs)
    IN  Append(acc.groups, Group(SortByCost(acc.group)))

\* Faulty variant: groups without a precondition are combined with any other.
CombineLoosely(gs, g) ==
    IF gs # <<>> /\ (Last(gs).pre = g.pre \/ g.pre = NoKey)
    THEN [gs EXCEPT ![Len(gs)].parts = @ \o g.parts] ELSE Append(gs, g)

\* ClauseGroup::combine: neighbours with one precondition share it
Combine(gs, g) ==
    IF gs # <<>> /\ Last(gs).pre = g.pre /\ g.pre # NoKey
    THEN [gs EXCEPT ![Len(gs)].parts = @ \o g.parts] ELSE Append(gs, g)

IsDefault(c) == c.pattern.kind = "default" /\ c.guard = ""

\* MatchRaw::up: a default at the end is taken out; one clause is left alone
Up(cs) ==
    LET dflt == cs # <<>> /\ IsDefault(Last(cs))
        rest == IF dflt THEN Front(cs) ELSE cs
    IN  [groups |-> IF Len(rest) = 1
                    THEN <<[pre |-> NoKey, parts |-> <<[tree |-> <<>>, rest |-> rest]>>]>>
                    ELSE FoldLeft(Combine, <<>>, Groups(SortClauses(rest))),
         dflt |-> IF dflt THEN Last(cs).at ELSE 0]

----------------------------------------------------------------------------
(* Running: the place in the script of the clause that is taken, 0 for none *)

\* The clauses of a part that are taken, the first one of them if any: from the
\* tree the one inserted last, then the rest in order.
InPart(part, v, val) ==
    Reverse(SelectSeq(part.tree, LAMBDA c : OrdEq(c.pattern.rhs[2], v)))
    \o SelectSeq(part.rest, LAMBDA c : TestPredicate(c, v, val))

InGroup(g, v, val) ==
    LET t == IF g.pre = NoKey THEN v ELSE Lookup(v, g.pre)
    IN  IF t = NotYet THEN <<>>
        ELSE FlattenSeq([i \in DOMAIN g.parts |-> InPart(g.parts[i], t, val)])

\* match_expr
Taken(m, v, val) ==
    LET hits == FlattenSeq([i \in DOMAIN m.groups |-> InGroup(m.groups[i], v, val)])
    IN  IF hits # <<>> THEN hits[1].at ELSE m.dflt

----------------------------------------------------------------------------

MatchStart == compiled = NotYet
MatchInit == script \in Scripts /\ MatchStart

CompileMatch == compiled = NotYet /\ compiled' = Up(script) /\ UNCHANGED script

----------------------------------------------------------------------------
(* Properties                                                              *)

\* What a reader of the script expects: the first clause that matches.
FirstClause(cs, v, val) ==
    LET hits == SelectSeq(cs, LAMBDA c : TestPredicate(c, v, val))
    IN  IF hits # <<>> THEN hits[1].at ELSE 0

\* The tests for equality of a pattern that the compiler takes for exclusive,
\* with the place in the value that they look at.
EqTests(p) ==
    CASE p.kind = "expr" /\ p.rhs[1] = "lit" -> {<<0, NoKey, p.rhs>>}
      [] p.kind = "record" /\ Len(p.fields) = 1 ->
            {<<0, f.key, f.rhs>> : f \in {g \in ToSet(p.fields) : g.op = "=="}}
      [] p.kind = "tuple" ->
            UNION {{<<i, f.key, f.rhs>> : f \in {g \in ToSet(p.exprs[i]) : g.op = "=="}} :
                   i \in {j \in DOMAIN p.exprs : Len(p.exprs[j]) = 1}}
      [] OTHER -> {}

\* No two clauses compare the same thing with different expressions, or with
\* literals, that have the same value.
Apart(cs, val) ==
    \A i, j \in DOMAIN cs : i < j =>
        \A s \in EqTests(Inner(cs[i].pattern)), t \in EqTests(Inner(cs[j].pattern)) :
            (s[1] = t[1] /\ s[2] = t[2] /\ (s[3] # t[3] \/ s[2] = NoKey))
                => ~ValEq(Value(s[3], val), Value(t[3], val))

HasTree(m) == \E i \in DOMAIN m.groups :
                  \E j \in DOMAIN m.groups[i].parts : m.groups[i].parts[j].tree # <<>>

Fractional(v) ==
    \/ v[1] = "float" /\ v[2] % 2 = 1
    \/ v[1] = "rec" /\ \E k \in DOMAIN v[2] : v[2][k][1] = "float" /\ v[2][k][2] % 2 = 1

\* Sorting, grouping, preconditions and search trees do not change which clause
\* a match takes (raw.rs:2242-2338, ast.rs:1762-1905), for scripts whose tests
\* for equality are apart, and unless a search tree is asked for a fraction.
FirstClauseWins ==
    compiled # NotYet =>
        \A v \in Targets, val \in Valuations :
            (Apart(script, val) /\ ~(HasTree(compiled) /\ Fractional(v)))
                => Taken(compiled, v, val) = FirstClause(script, v, val)
=============================================================================
