---------------------------- MODULE SelectProofs ----------------------------
(***************************************************************************)
(* The select operator keeps its promises for every set of groups, every   *)
(* chain of windows and all bounds: the windows partition the events of    *)
(* their group, and verdicts come back to the events.                      *)
(*                                                                         *)
(* The proof follows the code from the inside out: one window, the way     *)
(* down the chain and back (GroupWindow::on_event), one group              *)
(* (Settle, TickWindows), the groups of an event or a tick, the statement. *)
(* Each level is shown to hand on what the level below it handed on        *)
(* (RunInv, Handled, Exact), so that the invariant of the statement,       *)
(* SelectInv, is Exact counted from the empty map of groups.               *)
(***************************************************************************)
EXTENDS Select, Facts

-----------------------------------------------------------------------------
(* Types                                                                   *)

\* A window over the events in S; one that holds nothing has no data.
WindowOver(S) ==
    {w \in [pos : Nat, data : Seq(S), ids : SUBSET S, tx : BOOLEAN, holds : BOOLEAN] :
        w.holds \/ w.data = <<>>}
WindowsOver(S) == [1 .. Len(chain) -> WindowOver(S)]
ContextOver(S) == [ids : SUBSET S, tx : BOOLEAN]
GivenOver(S) == [had : BOOLEAN, data : Seq(S)]
EventOver(S) == [had : {TRUE}, data : Seq(S)]
OutputOver(S) == [level : 1 .. Len(chain), data : Seq(S), ids : SUBSET S, tx : BOOLEAN]

\* A run down the chain that begins at the window from.
Runs(S, from) ==
    [ws : WindowsOver(S), ctx : ContextOver(S), out : Seq(OutputOver(S)),
     emitted : SUBSET (from .. Len(chain)), late : SUBSET (from .. Len(chain)),
     failed : BOOLEAN, live : BOOLEAN]

LEMMA ChainFacts ==
  ASSUME chain \in Chains
  PROVE  /\ Len(chain) \in Nat /\ Len(chain) >= 1 /\ DOMAIN chain = 1 .. Len(chain)
         /\ \A i \in 1 .. Len(chain) :
              /\ chain[i].kind \in {"count", "time"}
              /\ chain[i].size \in Nat /\ chain[i].max_groups \in Nat
<1>1. chain \in Seq(Windows) /\ chain # <<>>
  BY SelectAssumption
<1>2. Len(chain) \in Nat /\ Len(chain) >= 1 /\ DOMAIN chain = 1 .. Len(chain)
  BY <1>1
<1>3. \A i \in 1 .. Len(chain) : chain[i] \in Windows
  BY <1>1, <1>2
<1> QED BY <1>2, <1>3 DEF Windows

\* What a window does with an event: one that includes it emits, a count based
\* one emits only what it includes.
LEMMA WindowEventFacts ==
  ASSUME NEW k, k.kind \in {"count", "time"}, k.size \in Nat, NEW pos \in Nat, NEW t \in Nat,
         NEW a, a = WindowEvent(k, pos, t)
  PROVE  /\ a.pos \in Nat /\ a.include \in BOOLEAN /\ a.emit \in BOOLEAN
         /\ a.include => a.emit
         /\ k.kind = "count" /\ a.emit => a.include
         /\ k.kind = "time" => ~a.include
<1>1. CASE k.kind = "count"
  BY <1>1 DEF WindowEvent, CountEvent
<1>2. CASE k.kind = "time"
  BY <1>2 DEF WindowEvent, TimeEvent
<1> QED BY <1>1, <1>2

Same(v, w) == v.data = w.data /\ v.ids = w.ids /\ v.tx = w.tx /\ v.holds = w.holds

\* v is w once it took in p.
Taken(v, w, ctx, p) ==
    /\ p.had => /\ v.data = w.data \o p.data /\ v.ids = w.ids \union ctx.ids
                /\ (v.tx <=> w.tx \/ ctx.tx) /\ v.holds = TRUE
    /\ ~p.had => Same(v, w)

\* A window takes something in.
LEMMA RecordFacts ==
  ASSUME NEW S, NEW w \in WindowOver(S), NEW ctx \in ContextOver(S), NEW prev \in GivenOver(S),
         NEW v, v = Record(w, ctx, prev)
  PROVE  /\ v \in WindowOver(S) /\ v.pos = w.pos
         /\ Taken(v, w, ctx, prev)
<1>1. CASE prev.had
  <2>1. v = [w EXCEPT !.data = @ \o prev.data, !.ids = @ \union ctx.ids, !.tx = @ \/ ctx.tx, !.holds = TRUE]
    BY <1>1 DEF Record
  <2>2. w.data \o prev.data \in Seq(S) /\ w.ids \union ctx.ids \in SUBSET S /\ (w.tx \/ ctx.tx) \in BOOLEAN
    BY DEF WindowOver, ContextOver, GivenOver
  <2>3. PICK d, n, x : d = w.data \o prev.data /\ n = w.ids \union ctx.ids /\ x = (w.tx \/ ctx.tx)
    OBVIOUS
  <2>4. v = [w EXCEPT !.data = d, !.ids = n, !.tx = x, !.holds = TRUE]
    BY <2>1, <2>3
  <2>5. v.data = d /\ v.ids = n /\ v.tx = x /\ v.holds = TRUE /\ v.pos = w.pos
    BY <2>4 DEF WindowOver
  <2>6. v \in WindowOver(S)
    BY <2>2, <2>3, <2>4, <2>5 DEF WindowOver
  <2>7. v.tx <=> w.tx \/ ctx.tx
    BY Zenon, <2>3, <2>5
  <2> QED BY <1>1, <2>3, <2>5, <2>6, <2>7 DEF Taken
<1>2. CASE ~prev.had
  BY <1>2 DEF Record, Taken, Same
<1> QED BY <1>1, <1>2

\* A window is reset.
LEMMA ResetFacts ==
  ASSUME NEW S, NEW w \in WindowOver(S), NEW v, v = Reset(w)
  PROVE  v \in WindowOver(S) /\ v.data = <<>> /\ v.tx = FALSE /\ v.holds = FALSE /\ v.ids = w.ids
<1>1. v.data = <<>> /\ v.tx = FALSE /\ v.holds = FALSE /\ v.ids = w.ids
  BY DEF Reset, WindowOver
<1>2. v \in [pos : Nat, data : Seq(S), ids : SUBSET S, tx : BOOLEAN, holds : BOOLEAN]
  <2>1. <<>> \in Seq(S)
    OBVIOUS
  <2>2. PICK d \in Seq(S) : d = <<>>
    BY <2>1
  <2>3. v = [w EXCEPT !.data = d, !.tx = FALSE, !.holds = FALSE]
    BY <2>2 DEF Reset
  <2> QED BY <2>3 DEF WindowOver
<1> QED BY <1>1, <1>2 DEF WindowOver

\* A window moves on.
LEMMA MovedFacts ==
  ASSUME NEW S, NEW w \in WindowOver(S), NEW p \in Nat, NEW v, v = [w EXCEPT !.pos = p]
  PROVE  /\ v \in WindowOver(S) /\ v.data = w.data /\ v.ids = w.ids /\ v.tx = w.tx /\ v.holds = w.holds
BY DEF WindowOver

\* The id of a window is cleared.
LEMMA ClearedFacts ==
  ASSUME NEW S, NEW w \in WindowOver(S), NEW u, u = [w EXCEPT !.ids = {}]
  PROVE  /\ u \in WindowOver(S) /\ u.data = w.data /\ u.ids = {} /\ u.tx = w.tx /\ u.holds = w.holds
         /\ u.pos = w.pos
BY DEF WindowOver

LEMMA WindowFields ==
  ASSUME NEW S, NEW w \in WindowOver(S)
  PROVE  w.pos \in Nat /\ w.data \in Seq(S) /\ w.ids \in SUBSET S /\ w.tx \in BOOLEAN
         /\ w.holds \in BOOLEAN /\ (w.holds \/ w.data = <<>>)
BY DEF WindowOver

\* What the window before i hands on.
LEMMA PrevFacts ==
  ASSUME chain \in Chains, NEW S, NEW ws \in WindowsOver(S), NEW i \in 1 .. Len(chain), NEW event,
         i = 1 => event \in EventOver(S), NEW p, p = Prev(ws, i, event)
  PROVE  /\ p \in GivenOver(S)
         /\ p.had \/ p.data = <<>>
         /\ i # 1 => i - 1 \in 1 .. Len(chain) /\ p.had = ws[i - 1].holds /\ p.data = ws[i - 1].data
         /\ i = 1 => p = event /\ p.had = TRUE
<1>1. CASE i = 1
  <2>1. p = event /\ event \in EventOver(S)
    BY <1>1 DEF Prev
  <2> QED BY <1>1, <2>1 DEF EventOver, GivenOver
<1>2. CASE i # 1
  <2>1. i - 1 \in 1 .. Len(chain)
    BY <1>2, ChainFacts
  <2>2. ws[i - 1] \in WindowOver(S)
    BY <2>1 DEF WindowsOver
  <2>3. p = [had |-> ws[i - 1].holds, data |-> ws[i - 1].data]
    BY <1>2 DEF Prev
  <2>4. ws[i - 1].data \in Seq(S) /\ ws[i - 1].holds \in BOOLEAN /\ (ws[i - 1].holds \/ ws[i - 1].data = <<>>)
    BY <2>2, WindowFields
  <2> QED BY <1>2, <2>1, <2>3, <2>4 DEF GivenOver
<1> QED BY <1>1, <1>2

\* The parts of Down.
DownParts(t, err, event, acc, i, a, w0, refused, prev, w, emits, failed) ==
    /\ a = WindowEvent(chain[i], acc.ws[i].pos, t)
    /\ w0 = [acc.ws[i] EXCEPT !.pos = a.pos]
    /\ refused = (a.include /\ i = 1 /\ err = AccumulateFails)
    /\ prev = IF refused THEN [event EXCEPT !.data = <<>>] ELSE Prev(acc.ws, i, event)
    /\ w = IF a.include THEN Record(w0, acc.ctx, prev) ELSE w0
    /\ emits = (a.emit /\ ~refused)
    /\ failed = (refused \/ (emits /\ w.holds /\ err = i))
    /\ Down(t, err, event, acc, i) =
           [ws |-> [acc.ws EXCEPT ![i] = IF emits THEN [w EXCEPT !.ids = {}] ELSE w],
            ctx |-> IF emits THEN [ids |-> w.ids, tx |-> w.tx] ELSE acc.ctx,
            out |-> IF emits /\ w.holds
                    THEN Append(acc.out, [level |-> i, data |-> w.data, ids |-> w.ids, tx |-> w.tx])
                    ELSE acc.out,
            emitted |-> IF emits THEN acc.emitted \cup {i} ELSE acc.emitted,
            late |-> IF a.include THEN acc.late ELSE acc.late \cup {i},
            failed |-> failed,
            live |-> emits /\ ~failed]

\* What one window does, part by part.
LEMMA DownIs ==
  ASSUME NEW t, NEW err, NEW event, NEW acc, NEW i, acc.live
  PROVE  \E a, w0, refused, prev, w, emits, failed :
            DownParts(t, err, event, acc, i, a, w0, refused, prev, w, emits, failed)
<1> DEFINE a == WindowEvent(chain[i], acc.ws[i].pos, t)
           w0 == [acc.ws[i] EXCEPT !.pos = a.pos]
           refused == a.include /\ i = 1 /\ err = AccumulateFails
           prev == IF refused THEN [event EXCEPT !.data = <<>>] ELSE Prev(acc.ws, i, event)
           w == IF a.include THEN Record(w0, acc.ctx, prev) ELSE w0
           emits == a.emit /\ ~refused
           failed == refused \/ (emits /\ w.holds /\ err = i)
<1>1. DownParts(t, err, event, acc, i, a, w0, refused, prev, w, emits, failed)
  BY Zenon DEF DownParts, Down
<1> QED BY Zenon, <1>1

LEMMA RunFields ==
  ASSUME NEW S, NEW from, NEW acc \in Runs(S, from)
  PROVE  /\ acc.ws \in WindowsOver(S) /\ acc.ctx \in ContextOver(S) /\ acc.out \in Seq(OutputOver(S))
         /\ acc.emitted \in SUBSET (from .. Len(chain)) /\ acc.late \in SUBSET (from .. Len(chain))
         /\ acc.failed \in BOOLEAN /\ acc.live \in BOOLEAN
BY DEF Runs

\* The window i, once it was given the event.
LEMMA WindowTyped ==
  ASSUME chain \in Chains, NEW S, NEW from \in {1, 2}, NEW acc \in Runs(S, from),
         NEW i \in from .. Len(chain), NEW t \in Nat, NEW err, NEW event,
         from = 1 => event \in EventOver(S),
         NEW a, NEW w0, NEW refused, NEW prev, NEW w, NEW emits, NEW failed,
         DownParts(t, err, event, acc, i, a, w0, refused, prev, w, emits, failed)
  PROVE  /\ w0 \in WindowOver(S) /\ w0.data = acc.ws[i].data /\ w0.ids = acc.ws[i].ids
         /\ w0.tx = acc.ws[i].tx /\ w0.holds = acc.ws[i].holds
         /\ prev \in GivenOver(S) /\ w \in WindowOver(S)
         /\ refused \in BOOLEAN /\ emits \in BOOLEAN /\ failed \in BOOLEAN
         /\ i \in 1 .. Len(chain) /\ (i = 1 => event \in EventOver(S))
         /\ a.include \in BOOLEAN /\ a.emit \in BOOLEAN /\ (a.include => a.emit)
         /\ chain[i].kind \in {"count", "time"}
         /\ chain[i].kind = "count" /\ a.emit => a.include
         /\ chain[i].kind = "time" => ~a.include
<1>1. i \in 1 .. Len(chain) /\ (i = 1 => event \in EventOver(S))
  BY ChainFacts
<1>2. acc.ws \in WindowsOver(S) /\ acc.ctx \in ContextOver(S)
  BY RunFields
<1>3. acc.ws[i] \in WindowOver(S)
  BY <1>1, <1>2 DEF WindowsOver
<1>4. acc.ws[i].pos \in Nat
  BY <1>3, WindowFields
<1>5. a = WindowEvent(chain[i], acc.ws[i].pos, t) /\ w0 = [acc.ws[i] EXCEPT !.pos = a.pos]
  BY Zenon DEF DownParts
<1>6. /\ chain[i].kind \in {"count", "time"} /\ chain[i].size \in Nat
  BY <1>1, ChainFacts
<1>7. /\ a.pos \in Nat /\ a.include \in BOOLEAN /\ a.emit \in BOOLEAN /\ (a.include => a.emit)
      /\ chain[i].kind = "count" /\ a.emit => a.include
      /\ chain[i].kind = "time" => ~a.include
  BY <1>4, <1>5, <1>6, WindowEventFacts
<1>8. /\ w0 \in WindowOver(S) /\ w0.data = acc.ws[i].data /\ w0.ids = acc.ws[i].ids
      /\ w0.tx = acc.ws[i].tx /\ w0.holds = acc.ws[i].holds
  BY <1>3, <1>5, <1>7, MovedFacts
<1>9. refused \in BOOLEAN /\ emits \in BOOLEAN /\ failed \in BOOLEAN /\ (refused => i = 1)
  BY Zenon DEF DownParts
<1>10. prev = IF refused THEN [event EXCEPT !.data = <<>>] ELSE Prev(acc.ws, i, event)
  BY Zenon DEF DownParts
<1>11. prev \in GivenOver(S)
  <2>1. CASE refused
    <3>1. event \in EventOver(S) /\ prev = [event EXCEPT !.data = <<>>] /\ <<>> \in Seq(S)
      BY <1>1, <1>9, <1>10, <2>1
    <3>2. PICK d \in Seq(S) : d = <<>>
      BY <3>1
    <3>3. prev = [event EXCEPT !.data = d]
      BY <3>1, <3>2
    <3> QED BY <3>1, <3>3 DEF EventOver, GivenOver
  <2>2. CASE ~refused
    BY <1>1, <1>2, <1>10, <2>2, PrevFacts
  <2> QED BY <2>1, <2>2
<1>12. w \in WindowOver(S)
  <2>1. Record(w0, acc.ctx, prev) \in WindowOver(S)
    <3>1. PICK ctx \in ContextOver(S) : ctx = acc.ctx
      BY <1>2
    <3>2. Record(w0, ctx, prev) \in WindowOver(S)
      BY <1>8, <1>11, RecordFacts
    <3> QED BY <3>1, <3>2
  <2>2. w = IF a.include THEN Record(w0, acc.ctx, prev) ELSE w0
    BY Zenon DEF DownParts
  <2> QED BY <1>8, <2>1, <2>2
<1> QED BY <1>1, <1>6, <1>7, <1>8, <1>9, <1>11, <1>12

\* A step down the chain keeps the types.
LEMMA DownTyped ==
  ASSUME chain \in Chains, NEW S, NEW from \in {1, 2}, NEW acc \in Runs(S, from),
         NEW i \in from .. Len(chain), NEW t \in Nat, NEW err, NEW event,
         from = 1 => event \in EventOver(S)
  PROVE  Down(t, err, event, acc, i) \in Runs(S, from)
<1>1. CASE ~acc.live
  BY <1>1 DEF Down
<1>2. CASE acc.live
  <2>1. PICK a, w0, refused, prev, w, emits, failed :
            DownParts(t, err, event, acc, i, a, w0, refused, prev, w, emits, failed)
    BY Zenon, <1>2, DownIs
  <2>2. refused \in BOOLEAN /\ emits \in BOOLEAN /\ failed \in BOOLEAN
    BY Zenon, <2>1 DEF DownParts
  <2>3. i \in 1 .. Len(chain)
    BY ChainFacts
  <2>4. /\ acc.ws \in WindowsOver(S) /\ acc.ctx \in ContextOver(S) /\ acc.out \in Seq(OutputOver(S))
        /\ acc.emitted \in SUBSET (from .. Len(chain)) /\ acc.late \in SUBSET (from .. Len(chain))
    BY RunFields
  <2>5. w \in WindowOver(S)
    BY <2>1, WindowTyped
  <2>6. PICK u : u = IF emits THEN [w EXCEPT !.ids = {}] ELSE w
    OBVIOUS
  <2>7. u \in WindowOver(S)
    <3>1. [w EXCEPT !.ids = {}] \in WindowOver(S)
      BY <2>5, ClearedFacts
    <3> QED BY <2>5, <2>6, <3>1
  <2>8. [acc.ws EXCEPT ![i] = u] \in WindowsOver(S)
    BY <2>3, <2>4, <2>7 DEF WindowsOver
  <2>9. w.ids \in SUBSET S /\ w.tx \in BOOLEAN /\ w.data \in Seq(S) /\ w.holds \in BOOLEAN
    BY <2>5, WindowFields
  <2>10. PICK c : c = IF emits THEN [ids |-> w.ids, tx |-> w.tx] ELSE acc.ctx
    OBVIOUS
  <2>11. c \in ContextOver(S)
    BY <2>4, <2>9, <2>10 DEF ContextOver
  <2>12. PICK o : o = IF emits /\ w.holds
                THEN Append(acc.out, [level |-> i, data |-> w.data, ids |-> w.ids, tx |-> w.tx])
                ELSE acc.out
    OBVIOUS
  <2>13. o \in Seq(OutputOver(S))
    <3>1. [level |-> i, data |-> w.data, ids |-> w.ids, tx |-> w.tx] \in OutputOver(S)
      BY <2>3, <2>9 DEF OutputOver
    <3>2. Append(acc.out, [level |-> i, data |-> w.data, ids |-> w.ids, tx |-> w.tx]) \in Seq(OutputOver(S))
      BY <2>4, <3>1, AppendFacts
    <3> QED BY <2>4, <2>12, <3>2
  <2>14. PICK m, l : m = (IF emits THEN acc.emitted \cup {i} ELSE acc.emitted)
                  /\ l = (IF a.include THEN acc.late ELSE acc.late \cup {i})
    OBVIOUS
  <2>15. m \in SUBSET (from .. Len(chain)) /\ l \in SUBSET (from .. Len(chain))
    BY <2>4, <2>14
  <2>16. Down(t, err, event, acc, i) =
           [ws |-> [acc.ws EXCEPT ![i] = u], ctx |-> c, out |-> o, emitted |-> m, late |-> l,
            failed |-> failed, live |-> emits /\ ~failed]
    <3>1. Down(t, err, event, acc, i) =
           [ws |-> [acc.ws EXCEPT ![i] = IF emits THEN [w EXCEPT !.ids = {}] ELSE w],
            ctx |-> IF emits THEN [ids |-> w.ids, tx |-> w.tx] ELSE acc.ctx,
            out |-> IF emits /\ w.holds
                    THEN Append(acc.out, [level |-> i, data |-> w.data, ids |-> w.ids, tx |-> w.tx])
                    ELSE acc.out,
            emitted |-> IF emits THEN acc.emitted \cup {i} ELSE acc.emitted,
            late |-> IF a.include THEN acc.late ELSE acc.late \cup {i},
            failed |-> failed,
            live |-> emits /\ ~failed]
      BY Zenon, <2>1 DEF DownParts
    <3> QED BY <2>6, <2>10, <2>12, <2>14, <3>1
  <2>17. (emits /\ ~failed) \in BOOLEAN
    OBVIOUS
  <2> QED BY <2>2, <2>8, <2>11, <2>13, <2>15, <2>16, <2>17 DEF Runs
<1> QED BY <1>1, <1>2

\* What Back makes of the windows.
GivenIn(acc, event, err, i) ==
    IF i = 1 /\ err = AccumulateFails THEN [event EXCEPT !.data = <<>>] ELSE Prev(acc.ws, i, event)
ResetIn(acc, i) == IF i \in acc.emitted THEN Reset(acc.ws[i]) ELSE acc.ws[i]
BackIn(acc, event, err, i) ==
    IF i \in acc.late THEN Record(ResetIn(acc, i), acc.ctx, GivenIn(acc, event, err, i)) ELSE ResetIn(acc, i)
BackWindows(acc, event, err) == [i \in DOMAIN acc.ws |-> BackIn(acc, event, err, i)]

\* The result of Back, field by field.
BackDone(acc, event, err, r) ==
    /\ r.ws = BackWindows(acc, event, err) /\ r.failed = (1 \in acc.late /\ err = AccumulateFails)
    /\ r.out = acc.out /\ r.late = acc.late /\ r.emitted = acc.emitted /\ r.ctx = acc.ctx
    /\ r.live = acc.live
    /\ r = [ws |-> r.ws, ctx |-> r.ctx, out |-> r.out, emitted |-> r.emitted, late |-> r.late,
            failed |-> r.failed, live |-> r.live]

LEMMA BackFields ==
  ASSUME NEW S, NEW from, NEW acc \in Runs(S, from), ~acc.failed, NEW event, NEW err,
         NEW r, r = Back(acc, event, err)
  PROVE  BackDone(acc, event, err, r)
<1>1. PICK ws, f : ws = BackWindows(acc, event, err) /\ f = (1 \in acc.late /\ err = AccumulateFails)
  OBVIOUS
<1>2. r = [acc EXCEPT !.ws = ws, !.failed = f]
  <2>1. Back(acc, event, err) = [acc EXCEPT !.ws = BackWindows(acc, event, err),
                                            !.failed = 1 \in acc.late /\ err = AccumulateFails]
    BY Zenon DEF Back, BackWindows, BackIn, ResetIn, GivenIn
  <2> QED BY <1>1, <2>1
<1> QED BY <1>1, <1>2 DEF Runs, BackDone

LEMMA BackInTyped ==
  ASSUME chain \in Chains, NEW S, NEW from \in {1, 2}, NEW acc \in Runs(S, from), NEW err, NEW event,
         from = 1 => event \in EventOver(S), NEW i \in 1 .. Len(chain)
  PROVE  /\ BackIn(acc, event, err, i) \in WindowOver(S) /\ ResetIn(acc, i) \in WindowOver(S)
         /\ i \in acc.late => i >= from /\ (i = 1 => event \in EventOver(S)) 
                              /\ GivenIn(acc, event, err, i) \in GivenOver(S)
<1>1. acc.ws \in WindowsOver(S) /\ acc.late \in SUBSET (from .. Len(chain)) /\ acc.ws[i] \in WindowOver(S)
  BY RunFields DEF WindowsOver
<1>2. ResetIn(acc, i) \in WindowOver(S)
  <2>1. Reset(acc.ws[i]) \in WindowOver(S)
    BY <1>1, ResetFacts
  <2> QED BY <1>1, <2>1 DEF ResetIn
<1>3. CASE i \in acc.late
  <2>1. i >= from /\ (i = 1 => event \in EventOver(S))
    BY <1>1, <1>3
  <2>2. GivenIn(acc, event, err, i) \in GivenOver(S)
    <3>1. CASE i = 1 /\ err = AccumulateFails
      <4>0. <<>> \in Seq(S)
        OBVIOUS
      <4>1. PICK d \in Seq(S) : d = <<>>
        BY <4>0
      <4>2. GivenIn(acc, event, err, i) = [event EXCEPT !.data = d]
        BY <3>1, <4>1 DEF GivenIn
      <4> QED BY <2>1, <3>1, <4>2 DEF EventOver, GivenOver
    <3>2. CASE ~(i = 1 /\ err = AccumulateFails)
      <4>1. Prev(acc.ws, i, event) \in GivenOver(S)
        BY <1>1, <2>1, PrevFacts
      <4> QED BY <3>2, <4>1 DEF GivenIn
    <3> QED BY <3>1, <3>2
  <2>3. PICK ctx \in ContextOver(S) : ctx = acc.ctx
    BY RunFields
  <2>4. Record(ResetIn(acc, i), ctx, GivenIn(acc, event, err, i)) \in WindowOver(S)
    BY <1>2, <2>2, RecordFacts
  <2>5. BackIn(acc, event, err, i) \in WindowOver(S)
    BY <1>3, <2>3, <2>4 DEF BackIn
  <2> QED BY <1>2, <2>1, <2>2, <2>5
<1>4. CASE i \notin acc.late
  BY <1>2, <1>4 DEF BackIn
<1> QED BY <1>3, <1>4

\* On the way back the windows stay windows.
LEMMA BackTyped ==
  ASSUME chain \in Chains, NEW S, NEW from \in {1, 2}, NEW acc \in Runs(S, from), NEW err, NEW event,
         from = 1 => event \in EventOver(S)
  PROVE  Back(acc, event, err) \in Runs(S, from)
<1>1. CASE acc.failed
  BY <1>1 DEF Back
<1>2. CASE ~acc.failed
  <2>1. \A i \in 1 .. Len(chain) : BackIn(acc, event, err, i) \in WindowOver(S)
    BY BackInTyped
  <2>2. DOMAIN acc.ws = 1 .. Len(chain)
    BY RunFields DEF WindowsOver
  <2>3. BackWindows(acc, event, err) \in WindowsOver(S)
    BY <2>1, <2>2 DEF BackWindows, WindowsOver
  <2>4. PICK r : r = Back(acc, event, err)
    OBVIOUS
  <2>5. BackDone(acc, event, err, r)
    BY <1>2, <2>4, BackFields
  <2>6. r.failed \in BOOLEAN
    BY Zenon, <2>5 DEF BackDone
  <2>7. r \in Runs(S, from)
    BY <2>3, <2>5, <2>6, RunFields DEF Runs, BackDone
  <2> QED BY <2>4, <2>7
<1> QED BY <1>1, <1>2

\* The run of an event down the chain: its first state, its steps, its result.
RunOf(f, start, from, t, err, event) ==
    /\ f[from - 1] = start
    /\ \A i \in from .. Len(chain) : f[i] = Down(t, err, event, f[i - 1], i)
    /\ RunWindows(start, from, t, err, event) = Back(f[Len(chain)], event, err)

\* The recursive function of RunWindows exists.
LEMMA RunExists ==
  ASSUME chain \in Chains, NEW S, NEW from \in {1, 2}, NEW start \in Runs(S, from), NEW t \in Nat,
         NEW err, NEW event, from = 1 => event \in EventOver(S)
  PROVE  \E f : RunOf(f, start, from, t, err, event)
<1> DEFINE lo == from - 1
           Is(f) == f = [i \in from - 1 .. Len(chain) |->
                            IF i = from - 1 THEN start ELSE Down(t, err, event, f[i - 1], i)]
           F == [i \in lo + 1 .. Len(chain) |-> [acc \in Runs(S, from) |-> Down(t, err, event, acc, i)]]
<1>1. lo \in Int /\ Len(chain) \in Int /\ lo <= Len(chain) /\ lo + 1 = from
  BY ChainFacts
<1>2. F \in [lo + 1 .. Len(chain) -> [Runs(S, from) -> Runs(S, from)]]
  BY <1>1, DownTyped
<1>3. PICK g \in [lo .. Len(chain) -> Runs(S, from)] : Iterates(g, lo, Len(chain), start, F)
  <2> HIDE DEF lo, F
  <2> QED BY <1>1, <1>2, IteratesExists
<1>4. Is(g)
  <2>1. \A i \in lo .. Len(chain) : i # lo => F[i][g[i - 1]] = Down(t, err, event, g[i - 1], i)
    <3> SUFFICES ASSUME NEW i \in lo .. Len(chain), i # lo
                 PROVE  F[i][g[i - 1]] = Down(t, err, event, g[i - 1], i)
      OBVIOUS
    <3>1. i \in lo + 1 .. Len(chain) /\ i - 1 \in lo .. Len(chain)
      BY <1>1
    <3>2. g[i - 1] \in Runs(S, from)
      BY <1>3, <3>1
    <3> QED BY <3>1, <3>2
  <2>2. g = [i \in lo .. Len(chain) |-> IF i = lo THEN start ELSE F[i][g[i - 1]]]
    BY <1>3 DEF Iterates
  <2> HIDE DEF F
  <2>3. g = [i \in lo .. Len(chain) |-> IF i = lo THEN start ELSE Down(t, err, event, g[i - 1], i)]
    BY <2>1, <2>2
  <2> QED BY <2>3
<1>5. PICK f : f = CHOOSE h : Is(h)
  OBVIOUS
<1>6. Is(f)
  <2> HIDE DEF Is
  <2> QED BY Zenon, <1>4, <1>5
<1>7. RunWindows(start, from, t, err, event) = Back(f[Len(chain)], event, err)
  BY Zenon, <1>5 DEF RunWindows
<1>8. f[from - 1] = start
  <2>1. from - 1 \in from - 1 .. Len(chain)
    BY <1>1
  <2> QED BY <1>6, <2>1
<1>9. \A i \in from .. Len(chain) : f[i] = Down(t, err, event, f[i - 1], i)
  <2> SUFFICES ASSUME NEW i \in from .. Len(chain) PROVE f[i] = Down(t, err, event, f[i - 1], i)
    OBVIOUS
  <2>1. i \in from - 1 .. Len(chain) /\ i # from - 1
    BY <1>1
  <2> QED BY <1>6, <2>1
<1> QED BY <1>7, <1>8, <1>9 DEF RunOf

\* Running the windows leaves windows, whatever fails.
LEMMA RunTyped ==
  ASSUME chain \in Chains, NEW S, NEW from \in {1, 2}, NEW start \in Runs(S, from), NEW t \in Nat,
         NEW err, NEW event, from = 1 => event \in EventOver(S),
         NEW f, RunOf(f, start, from, t, err, event)
  PROVE  /\ \A i \in from - 1 .. Len(chain) : f[i] \in Runs(S, from)
         /\ RunWindows(start, from, t, err, event) \in Runs(S, from)
<1>1. PICK lo \in Int : lo = from - 1 /\ Len(chain) \in Int /\ lo <= Len(chain) /\ lo + 1 = from
  BY ChainFacts
<1>2. PICK A : A = [i \in lo .. Len(chain) |-> Runs(S, from)]
  OBVIOUS
<1>3. f[lo] \in A[lo]
  BY <1>1, <1>2 DEF RunOf
<1>4. \A i \in lo + 1 .. Len(chain) : f[i - 1] \in A[i - 1] => f[i] \in A[i]
  <2> SUFFICES ASSUME NEW i \in lo + 1 .. Len(chain), f[i - 1] \in A[i - 1] PROVE f[i] \in A[i]
    OBVIOUS
  <2>1. i - 1 \in lo .. Len(chain) /\ i \in lo .. Len(chain) /\ i \in from .. Len(chain)
    BY <1>1
  <2>2. f[i - 1] \in Runs(S, from) /\ f[i] = Down(t, err, event, f[i - 1], i)
    BY <1>2, <2>1 DEF RunOf
  <2>3. f[i] \in Runs(S, from)
    BY <2>1, <2>2, DownTyped
  <2> QED BY <1>2, <2>1, <2>3
<1>5. \A i \in lo .. Len(chain) : f[i] \in A[i]
  BY <1>1, <1>3, <1>4, Inductive
<1>6. \A i \in lo .. Len(chain) : f[i] \in Runs(S, from)
  BY <1>2, <1>5
<1>7. f[Len(chain)] \in Runs(S, from)
  BY <1>1, <1>6
<1>8. Back(f[Len(chain)], event, err) \in Runs(S, from)
  BY <1>7, BackTyped
<1> QED BY <1>1, <1>6, <1>8 DEF RunOf

-----------------------------------------------------------------------------
(* The data of some of the emitted events                                  *)

\* The data of those events in o that are in X.
Chosen(o, X) == [k \in DOMAIN o |-> IF o[k] \in X THEN o[k].data ELSE <<>>]
DataOf(o, X) == FlattenSeq(Chosen(o, X))
HasData(U, T) == \A x \in U : x.data \in Seq(T)

LEMMA ChosenTyped ==
  ASSUME NEW U, NEW T, HasData(U, T), NEW o \in Seq(U), NEW X
  PROVE  Chosen(o, X) \in Seq(Seq(T)) /\ Len(Chosen(o, X)) = Len(o) /\ DataOf(o, X) \in Seq(T)
<1>1. Len(o) \in Nat /\ DOMAIN o = 1 .. Len(o) /\ \A k \in 1 .. Len(o) : o[k] \in U
  OBVIOUS
<1>2. \A k \in 1 .. Len(o) : (IF o[k] \in X THEN o[k].data ELSE <<>>) \in Seq(T)
  BY <1>1 DEF HasData
<1>3. Chosen(o, X) \in [1 .. Len(o) -> Seq(T)]
  BY <1>1, <1>2 DEF Chosen
<1>4. Chosen(o, X) \in Seq(Seq(T)) /\ Len(Chosen(o, X)) = Len(o)
  BY <1>1, <1>3
<1> QED BY <1>4, FlattenFacts DEF DataOf

\* The data of two outputs, one after the other.
LEMMA DataConcat ==
  ASSUME NEW U, NEW T, HasData(U, T), NEW o \in Seq(U), NEW p \in Seq(U), NEW X
  PROVE  DataOf(o \o p, X) = DataOf(o, X) \o DataOf(p, X)
<1>1. PICK q \in Seq(U) : q = o \o p
  BY ConcatIn
<1>2. /\ Len(o) \in Nat /\ Len(p) \in Nat /\ DOMAIN o = 1 .. Len(o) /\ DOMAIN p = 1 .. Len(p)
      /\ Len(q) = Len(o) + Len(p) /\ DOMAIN q = 1 .. Len(o) + Len(p)
      /\ \A i \in DOMAIN o : q[i] = o[i]
      /\ \A i \in DOMAIN q : i \in DOMAIN o \/ (i - Len(o) \in DOMAIN p /\ q[i] = p[i - Len(o)])
  BY <1>1, ConcatFacts
<1>3. PICK a \in Seq(Seq(T)) : a = Chosen(o, X) /\ Len(a) = Len(o)
  BY ChosenTyped
<1>4. PICK b \in Seq(Seq(T)) : b = Chosen(p, X) /\ Len(b) = Len(p)
  BY ChosenTyped
<1>5. PICK c \in Seq(Seq(T)) : c = Chosen(q, X) /\ Len(c) = Len(q)
  BY ChosenTyped
<1>6. PICK d \in Seq(Seq(T)) : d = a \o b
  BY ConcatIn
<1>7. /\ DOMAIN a = 1 .. Len(a) /\ DOMAIN b = 1 .. Len(b)
      /\ Len(d) = Len(a) + Len(b) /\ DOMAIN d = 1 .. Len(a) + Len(b)
      /\ \A i \in DOMAIN a : d[i] = a[i]
      /\ \A i \in DOMAIN d : i \in DOMAIN a \/ (i - Len(a) \in DOMAIN b /\ d[i] = b[i - Len(a)])
  BY <1>6, ConcatFacts
<1>8. \A k \in DOMAIN q : c[k] = d[k]
  <2> SUFFICES ASSUME NEW k \in DOMAIN q PROVE c[k] = d[k]
    OBVIOUS
  <2>1. c[k] = IF q[k] \in X THEN q[k].data ELSE <<>>
    BY <1>5 DEF Chosen
  <2>2. CASE k \in DOMAIN o
    <3>1. a[k] = IF o[k] \in X THEN o[k].data ELSE <<>>
      BY <1>3, <2>2 DEF Chosen
    <3>2. q[k] = o[k] /\ d[k] = a[k]
      BY <1>2, <1>3, <1>7, <2>2
    <3> QED BY <2>1, <3>1, <3>2
  <2>3. CASE k \notin DOMAIN o
    <3>1. PICK l : l = k - Len(o)
      OBVIOUS
    <3>2. l \in DOMAIN p /\ q[k] = p[l]
      BY <1>2, <2>3, <3>1
    <3>3. d[k] = b[l]
      BY <1>2, <1>3, <1>4, <1>7, <2>3, <3>1
    <3>4. b[l] = IF p[l] \in X THEN p[l].data ELSE <<>>
      BY <1>4, <3>2 DEF Chosen
    <3> QED BY <2>1, <3>2, <3>3, <3>4
  <2> QED BY <2>2, <2>3
<1>9. c = d
  <2>1. Len(c) = Len(d) /\ DOMAIN c = DOMAIN q
    BY <1>2, <1>3, <1>4, <1>5, <1>7
  <2>2. \A k \in DOMAIN c : c[k] = d[k]
    BY <1>8, <2>1
  <2> QED BY ZenonT(60), <1>5, <1>6, <1>7, <2>1, <2>2, SameSequence
<1>10. FlattenSeq(a \o b) = FlattenSeq(a) \o FlattenSeq(b)
  BY FlattenConcat
<1> QED BY Zenon, <1>1, <1>3, <1>4, <1>5, <1>6, <1>9, <1>10 DEF DataOf

\* None of the outputs is chosen.
LEMMA DataNone ==
  ASSUME NEW U, NEW T, HasData(U, T), NEW o \in Seq(U), NEW X,
         \A k \in DOMAIN o : o[k] \notin X
  PROVE  DataOf(o, X) = <<>>
<1>1. Chosen(o, X) \in Seq(Seq(T))
  BY ChosenTyped
<1>2. \A k \in DOMAIN Chosen(o, X) : Chosen(o, X)[k] = <<>>
  BY DEF Chosen
<1> QED BY <1>1, <1>2, FlattenBlank DEF DataOf

LEMMA DataOne ==
  ASSUME NEW U, NEW T, HasData(U, T), NEW x \in U, NEW X
  PROVE  DataOf(<<x>>, X) = IF x \in X THEN x.data ELSE <<>>
<1>1. PICK d \in Seq(T) : d = IF x \in X THEN x.data ELSE <<>>
  <2>1. (IF x \in X THEN x.data ELSE <<>>) \in Seq(T)
    BY DEF HasData
  <2> QED BY <2>1
<1>2. Chosen(<<x>>, X) = Append(<<>>, d)
  <2>1. Chosen(<<x>>, X) \in Seq(Seq(T)) /\ Len(Chosen(<<x>>, X)) = 1
    <3>1. <<x>> \in Seq(U) /\ Len(<<x>>) = 1
      OBVIOUS
    <3> QED BY <3>1, ChosenTyped
  <2>2. Chosen(<<x>>, X)[1] = d
    BY <1>1 DEF Chosen
  <2> QED BY <2>1, <2>2
<1>3. <<>> \in Seq(Seq(T)) /\ FlattenSeq(<<>>) \in Seq(T)
  <2>1. <<>> \in Seq(T) /\ <<>> \in Seq(Seq(T))
    OBVIOUS
  <2> QED BY <2>1, FlattenEmpty
<1>4. FlattenSeq(Append(<<>>, d)) = FlattenSeq(<<>>) \o d
  BY <1>3, FlattenAppend
<1>5. <<>> \o d = d
  BY ConcatEmpty
<1> QED BY <1>1, <1>2, <1>4, <1>5, FlattenEmpty DEF DataOf

LEMMA DataAppend ==
  ASSUME NEW U, NEW T, HasData(U, T), NEW o \in Seq(U), NEW x \in U, NEW X
  PROVE  /\ x \in X => DataOf(Append(o, x), X) = DataOf(o, X) \o x.data
         /\ x \notin X => DataOf(Append(o, x), X) = DataOf(o, X)
<1>1. <<x>> \in Seq(U) /\ Append(o, x) = o \o <<x>>
  OBVIOUS
<1>2. DataOf(o \o <<x>>, X) = DataOf(o, X) \o DataOf(<<x>>, X)
  <2>1. PICK p \in Seq(U) : p = <<x>>
    BY <1>1
  <2>2. DataOf(o \o p, X) = DataOf(o, X) \o DataOf(p, X)
    BY DataConcat
  <2> QED BY <2>1, <2>2
<1>3. DataOf(<<x>>, X) = IF x \in X THEN x.data ELSE <<>>
  BY DataOne
<1>4. DataOf(o, X) \in Seq(T)
  BY ChosenTyped
<1>5. DataOf(o, X) \o <<>> = DataOf(o, X)
  BY <1>4, ConcatEmpty
<1> QED BY <1>1, <1>2, <1>3, <1>5

\* The same events under other names.
LEMMA DataSame ==
  ASSUME NEW o, NEW p, NEW X, NEW Y, DOMAIN o = DOMAIN p,
         \A k \in DOMAIN o : o[k].data = p[k].data /\ (o[k] \in X <=> p[k] \in Y)
  PROVE  DataOf(o, X) = DataOf(p, Y)
<1>1. Chosen(o, X) = Chosen(p, Y)
  BY DEF Chosen
<1> QED BY <1>1 DEF DataOf

\* What window j emitted in a run.
AtLevel(j) == {x \in OutputOver(Nat) : x.level = j}
Level(o, j) == DataOf(o, AtLevel(j))

LEMMA OutputData ==
  \A S : HasData(OutputOver(S), S)
BY DEF OutputOver, HasData

LEMMA LevelTyped ==
  ASSUME NEW S, NEW o \in Seq(OutputOver(S)), NEW j
  PROVE  Level(o, j) \in Seq(S)
BY OutputData, ChosenTyped DEF Level

LEMMA LevelEmpty ==
  ASSUME NEW j
  PROVE  Level(<<>>, j) = <<>>
<1>1. <<>> \in Seq(OutputOver(Nat)) /\ \A k \in DOMAIN <<>> : <<>>[k] \notin AtLevel(j)
  OBVIOUS
<1> QED BY <1>1, OutputData, DataNone DEF Level

\* One event more.
LEMMA LevelAppend ==
  ASSUME NEW S, S \subseteq Nat, NEW o \in Seq(OutputOver(S)), NEW x \in OutputOver(S), NEW j
  PROVE  /\ x.level = j => Level(Append(o, x), j) = Level(o, j) \o x.data
         /\ x.level # j => Level(Append(o, x), j) = Level(o, j)
<1>1. x \in OutputOver(Nat)
  <2>1. x \in [level : 1 .. Len(chain), data : Seq(S), ids : SUBSET S, tx : BOOLEAN]
    BY DEF OutputOver
  <2>2. x.data \in Seq(Nat)
    BY <2>1, SequenceOver
  <2>3. x \in [level : 1 .. Len(chain), data : Seq(Nat), ids : SUBSET Nat, tx : BOOLEAN]
    BY <2>1, <2>2
  <2> QED BY <2>3 DEF OutputOver
<1>2. x \in AtLevel(j) <=> x.level = j
  BY <1>1 DEF AtLevel
<1>3. HasData(OutputOver(S), S)
  BY OutputData
<1> QED BY <1>2, <1>3, DataAppend DEF Level

LEMMA LevelAppendAt ==
  ASSUME NEW S, S \subseteq Nat, NEW o \in Seq(OutputOver(S)), NEW x \in OutputOver(S)
  PROVE  Level(Append(o, x), x.level) = Level(o, x.level) \o x.data
BY LevelAppend

\* What window j emitted in two runs, one after the other.
LEMMA LevelConcat ==
  ASSUME NEW S, NEW o \in Seq(OutputOver(S)), NEW p \in Seq(OutputOver(S)), NEW j
  PROVE  Level(o \o p, j) = Level(o, j) \o Level(p, j)
BY OutputData, DataConcat DEF Level

-----------------------------------------------------------------------------
(* A run without an error                                                  *)

\* The window i does not emit.
StepStays(acc, i, d) ==
    /\ \A j \in 1 .. Len(chain) : j # i => d.ws[j] = acc.ws[j]
    /\ Same(d.ws[i], acc.ws[i])
    /\ d.ctx = acc.ctx /\ d.out = acc.out /\ d.emitted = acc.emitted
    /\ d.late = acc.late \union {i} /\ d.failed = FALSE /\ d.live = FALSE

\* The window i emits w.
StepEmits(acc, i, event, w, d) ==
    /\ \A j \in 1 .. Len(chain) : j # i => d.ws[j] = acc.ws[j]
    /\ d.ws[i].data = w.data /\ d.ws[i].tx = w.tx /\ d.ws[i].holds = w.holds
    /\ d.ctx = [ids |-> w.ids, tx |-> w.tx]
    /\ w.holds => d.out = Append(acc.out, [level |-> i, data |-> w.data, ids |-> w.ids, tx |-> w.tx])
    /\ ~w.holds => d.out = acc.out
    /\ d.emitted = acc.emitted \union {i} /\ d.failed = FALSE /\ d.live = TRUE
    /\ \/ d.late = acc.late /\ Taken(w, acc.ws[i], acc.ctx, Prev(acc.ws, i, event))
       \/ d.late = acc.late \union {i} /\ Same(w, acc.ws[i]) /\ chain[i].kind = "time"

\* What the new window i is.
LEMMA DownWindow ==
  ASSUME chain \in Chains, NEW S, NEW from \in {1, 2}, NEW acc \in Runs(S, from), acc.live,
         NEW i \in from .. Len(chain), NEW t \in Nat, NEW event,
         from = 1 => event \in EventOver(S),
         NEW a, NEW w0, NEW refused, NEW prev, NEW w, NEW emits, NEW failed,
         DownParts(t, NoError, event, acc, i, a, w0, refused, prev, w, emits, failed)
  PROVE  /\ refused = FALSE /\ failed = FALSE /\ emits = a.emit
         /\ a.include => Taken(w, acc.ws[i], acc.ctx, Prev(acc.ws, i, event))
         /\ ~a.include => Same(w, acc.ws[i])
<1>1. i # NoError /\ NoError # AccumulateFails
  BY ChainFacts DEF NoError, AccumulateFails
<1>2. refused \in BOOLEAN /\ emits \in BOOLEAN /\ failed \in BOOLEAN /\ a.emit \in BOOLEAN
  BY WindowTyped
<1>3. ~refused
  BY Zenon, <1>1 DEF DownParts
<1>4. (emits <=> a.emit) /\ ~failed
  BY Zenon, <1>1, <1>3 DEF DownParts
<1>5. prev = Prev(acc.ws, i, event)
  BY Zenon, <1>3 DEF DownParts
<1>6. w = IF a.include THEN Record(w0, acc.ctx, prev) ELSE w0
  BY Zenon DEF DownParts
<1>7. /\ w0 \in WindowOver(S) /\ w0.data = acc.ws[i].data /\ w0.ids = acc.ws[i].ids
      /\ w0.tx = acc.ws[i].tx /\ w0.holds = acc.ws[i].holds /\ prev \in GivenOver(S)
  BY WindowTyped
<1>8. ASSUME a.include PROVE Taken(w, acc.ws[i], acc.ctx, Prev(acc.ws, i, event))
  <2>1. PICK ctx \in ContextOver(S) : ctx = acc.ctx
    BY RunFields
  <2>2. w = Record(w0, ctx, prev)
    BY <1>6, <1>8, <2>1
  <2>3. Taken(w, w0, ctx, prev)
    BY <1>7, <2>2, RecordFacts
  <2> QED BY <1>5, <1>7, <2>1, <2>3 DEF Taken, Same
<1>9. ASSUME ~a.include PROVE Same(w, acc.ws[i])
  BY <1>6, <1>7, <1>9 DEF Same
<1> QED BY <1>2, <1>3, <1>4, <1>8, <1>9

\* A window that is reached either stays, or emits and goes on, or fails.
LEMMA DownCases ==
  ASSUME chain \in Chains, NEW S, NEW from \in {1, 2}, NEW acc \in Runs(S, from), acc.live,
         NEW i \in from .. Len(chain), NEW t \in Nat, NEW event,
         from = 1 => event \in EventOver(S), NEW d, d = Down(t, NoError, event, acc, i)
  PROVE  StepStays(acc, i, d) \/ \E w \in WindowOver(S) : StepEmits(acc, i, event, w, d)
<1>1. PICK a, w0, refused, prev, w, emits, failed :
          DownParts(t, NoError, event, acc, i, a, w0, refused, prev, w, emits, failed)
  BY Zenon, DownIs
<1>2. /\ refused = FALSE /\ failed = FALSE /\ emits = a.emit
      /\ a.include => Taken(w, acc.ws[i], acc.ctx, Prev(acc.ws, i, event))
      /\ ~a.include => Same(w, acc.ws[i])
  BY <1>1, DownWindow
<1>3. /\ w \in WindowOver(S) /\ i \in 1 .. Len(chain) /\ a.include \in BOOLEAN /\ a.emit \in BOOLEAN
      /\ (a.include => a.emit) /\ chain[i].kind \in {"count", "time"}
      /\ (chain[i].kind = "count" /\ a.emit => a.include)
  BY <1>1, WindowTyped
<1>4. acc.ws \in WindowsOver(S) /\ DOMAIN acc.ws = 1 .. Len(chain)
  BY RunFields DEF WindowsOver
<1>5. PICK l \in BOOLEAN : (l <=> a.emit) /\
        d = [ws |-> [acc.ws EXCEPT ![i] = IF emits THEN [w EXCEPT !.ids = {}] ELSE w],
            ctx |-> IF emits THEN [ids |-> w.ids, tx |-> w.tx] ELSE acc.ctx,
            out |-> IF emits /\ w.holds
                    THEN Append(acc.out, [level |-> i, data |-> w.data, ids |-> w.ids, tx |-> w.tx])
                    ELSE acc.out,
            emitted |-> IF emits THEN acc.emitted \cup {i} ELSE acc.emitted,
            late |-> IF a.include THEN acc.late ELSE acc.late \cup {i},
            failed |-> FALSE,
            live |-> l]
  <2>1. PICK l : l = (emits /\ ~failed)
    OBVIOUS
  <2>2. d = [ws |-> [acc.ws EXCEPT ![i] = IF emits THEN [w EXCEPT !.ids = {}] ELSE w],
            ctx |-> IF emits THEN [ids |-> w.ids, tx |-> w.tx] ELSE acc.ctx,
            out |-> IF emits /\ w.holds
                    THEN Append(acc.out, [level |-> i, data |-> w.data, ids |-> w.ids, tx |-> w.tx])
                    ELSE acc.out,
            emitted |-> IF emits THEN acc.emitted \cup {i} ELSE acc.emitted,
            late |-> IF a.include THEN acc.late ELSE acc.late \cup {i},
            failed |-> failed,
            live |-> l]
    BY ZenonT(60), <1>1, <2>1 DEF DownParts
  <2>3. l \in BOOLEAN /\ (l <=> a.emit)
    BY Zenon, <1>2, <2>1
  <2> QED BY Zenon, <1>2, <2>2, <2>3
<1>6. ASSUME ~a.emit PROVE StepStays(acc, i, d)
  <2>1. ~emits /\ ~a.include /\ l = FALSE
    BY <1>2, <1>3, <1>5, <1>6
  <2>2. d.ws = [acc.ws EXCEPT ![i] = w] /\ d.ctx = acc.ctx /\ d.out = acc.out /\ d.emitted = acc.emitted
        /\ d.late = acc.late \union {i} /\ d.failed = FALSE /\ d.live = FALSE
    BY <1>5, <2>1
  <2>3. d.ws[i] = w /\ \A j \in 1 .. Len(chain) : j # i => d.ws[j] = acc.ws[j]
    BY <1>3, <1>4, <2>2
  <2> QED BY <1>2, <2>1, <2>2, <2>3 DEF StepStays
<1>7. ASSUME a.emit PROVE StepEmits(acc, i, event, w, d)
  <2>1. emits /\ l = TRUE
    BY <1>2, <1>5, <1>7
  <2>2. PICK u : u = [w EXCEPT !.ids = {}]
    OBVIOUS
  <2>3. u.data = w.data /\ u.tx = w.tx /\ u.holds = w.holds
    BY <1>3, <2>2, ClearedFacts
  <2>4. d.ws = [acc.ws EXCEPT ![i] = u] /\ d.ctx = [ids |-> w.ids, tx |-> w.tx]
        /\ d.emitted = acc.emitted \union {i}
        /\ d.late = (IF a.include THEN acc.late ELSE acc.late \union {i})
        /\ d.failed = FALSE /\ d.live = TRUE
    BY <1>2, <1>5, <2>1, <2>2
  <2>5. d.out = IF w.holds THEN Append(acc.out, [level |-> i, data |-> w.data, ids |-> w.ids, tx |-> w.tx])
                ELSE acc.out
    BY <1>5, <2>1
  <2>6. d.ws[i] = u /\ \A j \in 1 .. Len(chain) : j # i => d.ws[j] = acc.ws[j]
    BY <1>3, <1>4, <2>4
  <2>7. \/ d.late = acc.late /\ Taken(w, acc.ws[i], acc.ctx, Prev(acc.ws, i, event))
        \/ d.late = acc.late \union {i} /\ Same(w, acc.ws[i]) /\ chain[i].kind = "time"
    BY <1>2, <1>3, <1>7, <2>4
  <2> QED BY Zenon, <2>3, <2>4, <2>5, <2>6, <2>7 DEF StepEmits
<1> QED BY <1>3, <1>6, <1>7

\* The windows from .. m emitted, the next one did not.
Shape(from, m, i, acc) ==
    /\ m \in from - 1 .. i /\ acc.emitted = from .. m
    /\ acc.late \subseteq from .. m + 1 /\ ~acc.failed
    /\ acc.live => m = i /\ acc.late \subseteq from .. m
    /\ ~acc.live => m < i /\ m + 1 \in acc.late

\* The other windows are as they were,
Untouched(ws0, from, m, acc) ==
    \A j \in 1 .. Len(chain) : j \notin from .. m => Level(acc.out, j) = <<>> /\ Same(acc.ws[j], ws0[j])

\* those that emitted did so with what the window before them emitted, unless
\* they take it in later,
PassedOn(ws0, from, event, m, acc) ==
    \A j \in from .. m :
        /\ Level(acc.out, j) = acc.ws[j].data
        /\ j \in acc.late => acc.ws[j].data = ws0[j].data /\ chain[j].kind = "time"
        /\ j \notin acc.late => acc.ws[j].data = ws0[j].data \o Prev(acc.ws, j, event).data

\* and what one of them held reaches the next.
Carries(ws0, from, event, m, acc) ==
    /\ \A j \in from .. m : j \notin acc.late
    /\ Prev(ws0, from, event).had \/ \E j \in from .. m : ws0[j].holds
    => Prev(acc.ws, m + 1, event).had

RunInv(ws0, from, event, m, i, acc) ==
    /\ Shape(from, m, i, acc) /\ Untouched(ws0, from, m, acc)
    /\ PassedOn(ws0, from, event, m, acc) /\ Carries(ws0, from, event, m, acc)

LEMMA SamePrev ==
  ASSUME NEW ws, NEW vs, NEW event, NEW j \in Nat, j # 1 => vs[j - 1] = ws[j - 1]
  PROVE  Prev(vs, j, event) = Prev(ws, j, event)
BY DEF Prev

\* A window that does not emit ends the way down.
LEMMA StaysInv ==
  ASSUME chain \in Chains, NEW S, NEW from \in {1, 2}, NEW acc, NEW i \in from .. Len(chain),
         NEW event, NEW ws0, NEW m, RunInv(ws0, from, event, m, i - 1, acc), acc.live,
         NEW d, StepStays(acc, i, d)
  PROVE  RunInv(ws0, from, event, m, i, d)
<1>1. Len(chain) \in Nat /\ i \in 1 .. Len(chain) /\ i \in Nat /\ from \in Nat
  BY ChainFacts
<1>2. m = i - 1 /\ acc.emitted = from .. m /\ acc.late \subseteq from .. m /\ ~acc.failed
  BY DEF RunInv, Shape
<1>3. /\ \A j \in 1 .. Len(chain) : j # i => d.ws[j] = acc.ws[j]
      /\ Same(d.ws[i], acc.ws[i]) /\ d.out = acc.out /\ d.emitted = acc.emitted
      /\ d.late = acc.late \union {i} /\ d.failed = FALSE /\ d.live = FALSE
  BY DEF StepStays
<1>4. Shape(from, m, i, d)
  BY <1>1, <1>2, <1>3 DEF Shape
<1>5. Untouched(ws0, from, m, d)
  <2> SUFFICES ASSUME NEW j \in 1 .. Len(chain), j \notin from .. m
               PROVE  Level(d.out, j) = <<>> /\ Same(d.ws[j], ws0[j])
    BY DEF Untouched
  <2>1. Level(acc.out, j) = <<>> /\ Same(acc.ws[j], ws0[j])
    BY DEF RunInv, Untouched
  <2>2. CASE j = i
    BY <1>3, <2>1, <2>2 DEF Same
  <2>3. CASE j # i
    BY <1>3, <2>1, <2>3
  <2> QED BY <2>2, <2>3
<1>6. \A j \in from .. m + 1 : Prev(d.ws, j, event) = Prev(acc.ws, j, event)
  <2> SUFFICES ASSUME NEW j \in from .. m + 1 PROVE Prev(d.ws, j, event) = Prev(acc.ws, j, event)
    OBVIOUS
  <2>1. j \in Nat /\ (j # 1 => j - 1 \in 1 .. Len(chain) /\ j - 1 # i)
    BY <1>1, <1>2
  <2>2. j # 1 => d.ws[j - 1] = acc.ws[j - 1]
    BY <1>3, <2>1
  <2> QED BY <2>1, <2>2, SamePrev
<1>7. PassedOn(ws0, from, event, m, d)
  <2> SUFFICES ASSUME NEW j \in from .. m
               PROVE  /\ Level(d.out, j) = d.ws[j].data
                      /\ j \in d.late => d.ws[j].data = ws0[j].data /\ chain[j].kind = "time"
                      /\ j \notin d.late => d.ws[j].data = ws0[j].data \o Prev(d.ws, j, event).data
    BY DEF PassedOn
  <2>1. j \in 1 .. Len(chain) /\ j # i /\ j \in from .. m + 1
    BY <1>1, <1>2
  <2>2. d.ws[j] = acc.ws[j] /\ Prev(d.ws, j, event) = Prev(acc.ws, j, event) /\ (j \in d.late <=> j \in acc.late)
    BY <1>3, <1>6, <2>1
  <2>3. /\ Level(acc.out, j) = acc.ws[j].data
        /\ j \in acc.late => acc.ws[j].data = ws0[j].data /\ chain[j].kind = "time"
        /\ j \notin acc.late => acc.ws[j].data = ws0[j].data \o Prev(acc.ws, j, event).data
    BY DEF RunInv, PassedOn
  <2> QED BY <1>3, <2>2, <2>3
<1>8. Carries(ws0, from, event, m, d)
  <2>1. m + 1 \in from .. m + 1
    BY <1>1, <1>2
  <2>2. Prev(d.ws, m + 1, event) = Prev(acc.ws, m + 1, event)
    BY <1>6, <2>1
  <2> QED BY <1>3, <2>2 DEF Carries, RunInv
<1> QED BY <1>4, <1>5, <1>7, <1>8 DEF RunInv

EmittedAt(acc, i, w, d) ==
    /\ \A j \in 1 .. Len(chain) : j # i => Level(d.out, j) = Level(acc.out, j)
    /\ Level(d.out, i) = Level(acc.out, i) \o w.data

LEMMA EmitsLevel ==
  ASSUME chain \in Chains, NEW S, S \subseteq Nat, NEW from, NEW acc \in Runs(S, from),
         NEW i \in 1 .. Len(chain), NEW event, NEW w \in WindowOver(S), NEW d, StepEmits(acc, i, event, w, d)
  PROVE  EmittedAt(acc, i, w, d)
<1>1. PICK o \in Seq(OutputOver(S)) : o = acc.out
  BY RunFields
<1>2. CASE w.holds
  <2>1. PICK x : x = [level |-> i, data |-> w.data, ids |-> w.ids, tx |-> w.tx]
    OBVIOUS
  <2>2. x \in OutputOver(S) /\ x.level = i /\ x.data = w.data
    BY <2>1, WindowFields DEF OutputOver
  <2>3. d.out = Append(o, x)
    BY <1>1, <1>2, <2>1 DEF StepEmits
  <2>4. \A j \in 1 .. Len(chain) : j # i => Level(Append(o, x), j) = Level(o, j)
    BY <2>2, LevelAppend
  <2>5. Level(Append(o, x), i) = Level(o, i) \o x.data
    <3>1. Level(Append(o, x), x.level) = Level(o, x.level) \o x.data
      BY <2>2, LevelAppendAt
    <3> QED BY Zenon, <2>2, <3>1
  <2> QED BY <1>1, <2>2, <2>3, <2>4, <2>5 DEF EmittedAt
<1>3. CASE ~w.holds
  <2>1. d.out = acc.out
    BY <1>3 DEF StepEmits
  <2>2. w.data = <<>>
    BY <1>3, WindowFields
  <2>3. Level(o, i) \in Seq(S)
    BY LevelTyped
  <2>4. Level(o, i) \o <<>> = Level(o, i)
    BY <2>3, ConcatEmpty
  <2> QED BY <1>1, <2>1, <2>2, <2>4 DEF EmittedAt
<1> QED BY <1>2, <1>3

\* A window that emits hands on what it held and was given.
LEMMA EmitsInv ==
  ASSUME chain \in Chains, NEW S, S \subseteq Nat, NEW from \in {1, 2}, NEW acc \in Runs(S, from),
         NEW i \in from .. Len(chain), NEW event, from = 1 => event \in EventOver(S),
         NEW ws0, NEW m, RunInv(ws0, from, event, m, i - 1, acc), acc.live,
         NEW w \in WindowOver(S), NEW d, StepEmits(acc, i, event, w, d)
  PROVE  RunInv(ws0, from, event, i, i, d)
<1>1. Len(chain) \in Nat /\ i \in 1 .. Len(chain) /\ i \in Nat /\ from \in Nat /\ from <= i
  BY ChainFacts
<1>2. m = i - 1 /\ acc.emitted = from .. m /\ acc.late \subseteq from .. m /\ ~acc.failed
  BY DEF RunInv, Shape
<1>3. /\ \A j \in 1 .. Len(chain) : j # i => d.ws[j] = acc.ws[j]
      /\ d.ws[i].data = w.data /\ d.ws[i].holds = w.holds
      /\ d.emitted = acc.emitted \union {i} /\ d.failed = FALSE /\ d.live = TRUE
  BY DEF StepEmits
<1>4. PICK p : p = Prev(acc.ws, i, event)
  OBVIOUS
<1>5. \/ d.late = acc.late /\ Taken(w, acc.ws[i], acc.ctx, p)
      \/ d.late = acc.late \union {i} /\ Same(w, acc.ws[i]) /\ chain[i].kind = "time"
  BY <1>4 DEF StepEmits
<1>6. /\ \A j \in 1 .. Len(chain) : j # i => Level(d.out, j) = Level(acc.out, j)
      /\ Level(d.out, i) = Level(acc.out, i) \o w.data
  <2>1. EmittedAt(acc, i, w, d)
    BY <1>1, EmitsLevel
  <2> QED BY Zenon, <2>1 DEF EmittedAt
<1>7. Level(acc.out, i) = <<>> /\ Same(acc.ws[i], ws0[i])
  <2>1. i \notin from .. m
    BY <1>1, <1>2
  <2> QED BY <1>1, <2>1 DEF RunInv, Untouched
<1>8. Shape(from, i, i, d)
  <2>1. d.late \subseteq from .. i
    BY <1>1, <1>2, <1>5
  <2> QED BY <1>1, <1>2, <1>3, <2>1 DEF Shape
<1>9. Untouched(ws0, from, i, d)
  <2> SUFFICES ASSUME NEW j \in 1 .. Len(chain), j \notin from .. i
               PROVE  Level(d.out, j) = <<>> /\ Same(d.ws[j], ws0[j])
    BY DEF Untouched
  <2>1. j # i /\ j \notin from .. m
    BY <1>1, <1>2
  <2>2. Level(acc.out, j) = <<>> /\ Same(acc.ws[j], ws0[j])
    BY <2>1 DEF RunInv, Untouched
  <2> QED BY <1>3, <1>6, <2>1, <2>2
<1>10. \A j \in from .. i : Prev(d.ws, j, event) = Prev(acc.ws, j, event)
  <2> SUFFICES ASSUME NEW j \in from .. i PROVE Prev(d.ws, j, event) = Prev(acc.ws, j, event)
    OBVIOUS
  <2>1. j \in Nat /\ (j # 1 => j - 1 \in 1 .. Len(chain) /\ j - 1 # i)
    BY <1>1, <1>2
  <2>2. j # 1 => d.ws[j - 1] = acc.ws[j - 1]
    BY <1>3, <2>1
  <2> QED BY <2>1, <2>2, SamePrev
<1>11. /\ p \in GivenOver(S) /\ (p.had \/ p.data = <<>>)
  <2>1. acc.ws \in WindowsOver(S) /\ (i = 1 => event \in EventOver(S))
    BY <1>1, RunFields
  <2> QED BY <1>1, <1>4, <2>1, PrevFacts
<1>12. PassedOn(ws0, from, event, i, d)
  <2> SUFFICES ASSUME NEW j \in from .. i
               PROVE  /\ Level(d.out, j) = d.ws[j].data
                      /\ j \in d.late => d.ws[j].data = ws0[j].data /\ chain[j].kind = "time"
                      /\ j \notin d.late => d.ws[j].data = ws0[j].data \o Prev(d.ws, j, event).data
    BY DEF PassedOn
  <2>1. CASE j = i
    <3>1. w.data \in Seq(S) /\ acc.ws[i].data \in Seq(S)
      <4>1. acc.ws[i] \in WindowOver(S)
        BY <1>1, RunFields DEF WindowsOver
      <4> QED BY <4>1, WindowFields
    <3>2. <<>> \o w.data = w.data
      BY <3>1, ConcatEmpty
    <3>3. Level(d.out, j) = d.ws[j].data
      BY <1>3, <1>6, <1>7, <2>1, <3>2
    <3>4. CASE d.late = acc.late /\ Taken(w, acc.ws[i], acc.ctx, p)
      <4>1. i \notin d.late
        BY <1>1, <1>2, <3>4
      <4>2. acc.ws[i].data \o <<>> = acc.ws[i].data
        BY <3>1, ConcatEmpty
      <4>3. w.data = acc.ws[i].data \o p.data
        BY <1>11, <3>4, <4>2 DEF Taken, Same
      <4>4. Prev(d.ws, j, event) = p
        BY <1>4, <1>10, <2>1
      <4> QED BY <1>3, <1>7, <2>1, <3>3, <4>1, <4>3, <4>4 DEF Same
    <3>5. CASE d.late = acc.late \union {i} /\ Same(w, acc.ws[i]) /\ chain[i].kind = "time"
      BY <1>3, <1>7, <2>1, <3>3, <3>5 DEF Same
    <3> QED BY <1>5, <3>4, <3>5
  <2>2. CASE j # i
    <3>1. j \in 1 .. Len(chain) /\ j \in from .. m
      BY <1>1, <1>2, <2>2
    <3>2. d.ws[j] = acc.ws[j] /\ Prev(d.ws, j, event) = Prev(acc.ws, j, event) /\ (j \in d.late <=> j \in acc.late)
          /\ Level(d.out, j) = Level(acc.out, j)
      BY <1>3, <1>5, <1>6, <1>10, <2>2, <3>1
    <3>3. /\ Level(acc.out, j) = acc.ws[j].data
          /\ j \in acc.late => acc.ws[j].data = ws0[j].data /\ chain[j].kind = "time"
          /\ j \notin acc.late => acc.ws[j].data = ws0[j].data \o Prev(acc.ws, j, event).data
      BY <3>1 DEF RunInv, PassedOn
    <3> QED BY <3>2, <3>3
  <2> QED BY <2>1, <2>2
<1>13. Carries(ws0, from, event, i, d)
  <2> SUFFICES ASSUME \A j \in from .. i : j \notin d.late,
                      Prev(ws0, from, event).had \/ \E j \in from .. i : ws0[j].holds
               PROVE  Prev(d.ws, i + 1, event).had
    BY DEF Carries
  <2>1. i \in from .. i
    BY <1>1
  <2>2. d.late = acc.late /\ Taken(w, acc.ws[i], acc.ctx, p)
    BY <1>5, <2>1
  <2>3. Prev(d.ws, i + 1, event).had = d.ws[i].holds
    BY <1>1 DEF Prev
  <2>4. CASE Prev(ws0, from, event).had \/ \E j \in from .. m : ws0[j].holds
    <3>1. \A j \in from .. m : j \in from .. i
      BY <1>1, <1>2
    <3>2. m + 1 = i
      BY <1>1, <1>2
    <3>3. p.had
      BY <1>4, <2>2, <2>4, <3>1, <3>2 DEF RunInv, Carries
    <3> QED BY <1>3, <2>2, <2>3, <3>3 DEF Taken
  <2>5. CASE ws0[i].holds
    <3>1. w.holds
      BY <1>7, <2>2, <2>5 DEF Taken, Same
    <3> QED BY <1>3, <2>3, <3>1
  <2>6. \A j \in from .. i : j = i \/ j \in from .. m
    BY <1>1, <1>2
  <2> QED BY <2>4, <2>5, <2>6
<1> QED BY <1>8, <1>9, <1>12, <1>13 DEF RunInv

Blank(w) == w.data = <<>> /\ w.tx = FALSE /\ w.holds = FALSE

\* What the run gave window j.
GivenTo(ws0, from, event, o, j) == IF j = from THEN Prev(ws0, from, event).data ELSE Level(o, j - 1)

LaterCounts == \A i \in 1 .. Len(chain) : i > 1 => chain[i].kind = "count"

\* The result of a run: every window emitted or holds, in order, what it held
\* and what it was given; the windows before from are left alone; if nothing
\* is late nothing is held; otherwise, when the later windows count, something
\* is if something was there.
Moved(ws0, from, event, r) ==
    \A j \in from .. Len(chain) :
        Level(r.out, j) \o r.ws[j].data = ws0[j].data \o GivenTo(ws0, from, event, r.out, j)
Alone(ws0, from, r) ==
    \A j \in 1 .. Len(chain) : j < from => Level(r.out, j) = <<>> /\ Same(r.ws[j], ws0[j])
Cleared(from, r) == r.late = {} => \A j \in from .. Len(chain) : Blank(r.ws[j])
Kept(ws0, from, event, r) ==
    /\ LaterCounts /\ r.late # {}
    /\ Prev(ws0, from, event).had \/ \E j \in from .. Len(chain) : ws0[j].holds
    => \E j \in from .. Len(chain) : r.ws[j].holds

Ran(ws0, from, event, r) ==
    /\ ~r.failed /\ Moved(ws0, from, event, r) /\ Alone(ws0, from, r)
    /\ Cleared(from, r) /\ Kept(ws0, from, event, r)

\* Window j on the way back.
LEMMA BackWindow ==
  ASSUME chain \in Chains, NEW S, NEW from \in {1, 2}, NEW acc \in Runs(S, from), ~acc.failed, NEW event,
         from = 1 => event \in EventOver(S), NEW j \in 1 .. Len(chain),
         NEW r, r = Back(acc, event, NoError)
  PROVE  /\ ~r.failed /\ r.late = acc.late /\ r.out = acc.out /\ r.ws[j] \in WindowOver(S)
         /\ j \in acc.late => Taken(r.ws[j], ResetIn(acc, j), acc.ctx, Prev(acc.ws, j, event))
         /\ j \notin acc.late => r.ws[j] = ResetIn(acc, j)
         /\ j \in acc.emitted => Blank(ResetIn(acc, j))
         /\ j \notin acc.emitted => ResetIn(acc, j) = acc.ws[j]
<1>1. NoError # AccumulateFails
  BY DEF NoError, AccumulateFails
<1>2. BackDone(acc, event, NoError, r)
  BY BackFields
<1>3. ~r.failed
  BY Zenon, <1>1, <1>2 DEF BackDone
<1>4. acc.ws \in WindowsOver(S) /\ acc.ws[j] \in WindowOver(S) /\ DOMAIN acc.ws = 1 .. Len(chain)
  BY RunFields DEF WindowsOver
<1>5. r.ws[j] = BackIn(acc, event, NoError, j) /\ r.late = acc.late /\ r.out = acc.out
  BY <1>2, <1>4 DEF BackDone, BackWindows
<1>6. /\ BackIn(acc, event, NoError, j) \in WindowOver(S) /\ ResetIn(acc, j) \in WindowOver(S)
      /\ j \in acc.late => GivenIn(acc, event, NoError, j) \in GivenOver(S)
  BY BackInTyped
<1>7. GivenIn(acc, event, NoError, j) = Prev(acc.ws, j, event)
  BY <1>1 DEF GivenIn
<1>8. ASSUME j \in acc.late
      PROVE  Taken(r.ws[j], ResetIn(acc, j), acc.ctx, Prev(acc.ws, j, event))
  <2>1. PICK ctx \in ContextOver(S) : ctx = acc.ctx
    BY RunFields
  <2>2. PICK p \in GivenOver(S) : p = Prev(acc.ws, j, event)
    BY <1>6, <1>7, <1>8
  <2>3. r.ws[j] = Record(ResetIn(acc, j), ctx, p)
    BY <1>5, <1>7, <1>8, <2>1, <2>2 DEF BackIn
  <2>4. Taken(r.ws[j], ResetIn(acc, j), ctx, p)
    BY <1>6, <2>3, RecordFacts
  <2> QED BY <2>1, <2>2, <2>4
<1>9. j \notin acc.late => r.ws[j] = ResetIn(acc, j)
  BY <1>5 DEF BackIn
<1>10. j \in acc.emitted => Blank(ResetIn(acc, j))
  <2>1. Blank(Reset(acc.ws[j]))
    <3>1. PICK w \in WindowOver(S) : w = acc.ws[j]
      BY <1>4
    <3>2. PICK v : v = Reset(w)
      OBVIOUS
    <3>3. v.data = <<>> /\ v.tx = FALSE /\ v.holds = FALSE
      BY <3>2, ResetFacts
    <3> QED BY <3>1, <3>2, <3>3 DEF Blank
  <2> QED BY <2>1 DEF ResetIn
<1>11. j \notin acc.emitted => ResetIn(acc, j) = acc.ws[j]
  BY DEF ResetIn
<1> QED BY <1>3, <1>5, <1>6, <1>8, <1>9, <1>10, <1>11

\* What a window that emitted, or the one after them, is given.
LEMMA GivenIs ==
  ASSUME chain \in Chains, NEW from \in {1, 2}, NEW ws0, NEW event, NEW m, NEW i, NEW acc,
         RunInv(ws0, from, event, m, i, acc), i \in from - 1 .. Len(chain), NEW j \in from .. m + 1, 
         j \in 1 .. Len(chain)
  PROVE  Prev(acc.ws, j, event).data = GivenTo(ws0, from, event, acc.out, j)
<1>1. m \in from - 1 .. i /\ m \in Int
  BY DEF RunInv, Shape
<1>2. CASE j # from
  <2>1. j - 1 \in from .. m /\ j # 1
    BY <1>1, <1>2
  <2>2. Level(acc.out, j - 1) = acc.ws[j - 1].data
    BY <2>1 DEF RunInv, PassedOn
  <2> QED BY <1>2, <2>1, <2>2 DEF Prev, GivenTo
<1>3. CASE j = from /\ from = 1
  BY <1>3 DEF Prev, GivenTo
<1>4. CASE j = from /\ from = 2
  <2>1. 1 \in 1 .. Len(chain) /\ 1 \notin from .. m
    BY <1>1, <1>4, ChainFacts
  <2>2. Same(acc.ws[1], ws0[1])
    BY <2>1 DEF RunInv, Untouched
  <2> QED BY <1>4, <2>2 DEF Prev, GivenTo, Same
<1> QED BY <1>2, <1>3, <1>4

\* On the way back every window has what it held and was given.
LEMMA BackMoved ==
  ASSUME chain \in Chains, NEW S, NEW from \in {1, 2}, NEW ws0 \in WindowsOver(S), NEW acc \in Runs(S, from),
         NEW event, from = 1 => event \in EventOver(S),
         NEW m, RunInv(ws0, from, event, m, Len(chain), acc), NEW r, r = Back(acc, event, NoError)
  PROVE  Moved(ws0, from, event, r)
<1> SUFFICES ASSUME NEW j \in from .. Len(chain)
             PROVE  Level(r.out, j) \o r.ws[j].data = ws0[j].data \o GivenTo(ws0, from, event, r.out, j)
  BY DEF Moved
<1>1. Len(chain) \in Nat /\ j \in 1 .. Len(chain) /\ Len(chain) \in from - 1 .. Len(chain)
  BY ChainFacts
<1>2. /\ m \in from - 1 .. Len(chain) /\ acc.emitted = from .. m /\ acc.late \subseteq from .. m + 1
      /\ ~acc.failed /\ (acc.live => m = Len(chain)) /\ (~acc.live => m + 1 \in acc.late)
  BY DEF RunInv, Shape
<1>3. /\ r.late = acc.late /\ r.out = acc.out /\ r.ws[j] \in WindowOver(S)
      /\ j \in acc.late => Taken(r.ws[j], ResetIn(acc, j), acc.ctx, Prev(acc.ws, j, event))
      /\ j \notin acc.late => r.ws[j] = ResetIn(acc, j)
      /\ j \in acc.emitted => Blank(ResetIn(acc, j))
      /\ j \notin acc.emitted => ResetIn(acc, j) = acc.ws[j]
  BY <1>1, <1>2, BackWindow
<1>4. acc.ws \in WindowsOver(S) /\ acc.ws[j] \in WindowOver(S) /\ acc.out \in Seq(OutputOver(S))
      /\ ws0[j] \in WindowOver(S)
  BY <1>1, RunFields DEF WindowsOver
<1>5. ws0[j].data \in Seq(S) /\ acc.ws[j].data \in Seq(S) /\ r.ws[j].data \in Seq(S)
  BY <1>3, <1>4, WindowFields
<1>6. PICK p : p = Prev(acc.ws, j, event)
  OBVIOUS
<1>7. p.data \in Seq(S) /\ (p.had \/ p.data = <<>>)
  <2>1. p \in GivenOver(S) /\ (p.had \/ p.data = <<>>)
    <3>1. j = 1 => event \in EventOver(S)
      OBVIOUS
    <3> QED BY <1>1, <1>4, <1>6, <3>1, PrevFacts
  <2> QED BY <2>1 DEF GivenOver
<1>8. PICK g : g = GivenTo(ws0, from, event, acc.out, j)
  OBVIOUS
<1>9. j \in from .. m + 1 => p.data = g
  BY <1>1, <1>6, <1>8, GivenIs
<1>10. /\ <<>> \o p.data = p.data /\ ws0[j].data \o <<>> = ws0[j].data /\ <<>> \o acc.ws[j].data = acc.ws[j].data
       /\ acc.ws[j].data \o <<>> = acc.ws[j].data
       /\ <<>> \o ws0[j].data = ws0[j].data
  BY <1>5, <1>7, ConcatEmpty
<1>11. CASE j \in acc.emitted
  <2>1. j \in from .. m /\ j \in from .. m + 1
    BY <1>2, <1>11
  <2>2. /\ Level(acc.out, j) = acc.ws[j].data
        /\ j \in acc.late => acc.ws[j].data = ws0[j].data
        /\ j \notin acc.late => acc.ws[j].data = ws0[j].data \o p.data
    BY <1>6, <2>1 DEF RunInv, PassedOn
  <2>3. CASE j \in acc.late
    <3>1. r.ws[j].data = p.data
      BY <1>3, <1>6, <1>7, <1>10, <1>11, <2>3 DEF Taken, Same, Blank
    <3> QED BY <1>3, <1>8, <1>9, <2>1, <2>2, <2>3, <3>1
  <2>4. CASE j \notin acc.late
    <3>1. r.ws[j].data = <<>>
      BY <1>3, <1>11, <2>4 DEF Blank
    <3> QED BY <1>3, <1>8, <1>9, <1>10, <2>1, <2>2, <2>4, <3>1
  <2> QED BY <2>3, <2>4
<1>12. CASE j \notin acc.emitted
  <2>1. j \notin from .. m
    BY <1>2, <1>12
  <2>2. Level(acc.out, j) = <<>> /\ acc.ws[j].data = ws0[j].data
    BY <1>1, <2>1 DEF RunInv, Untouched, Same
  <2>3. CASE j \in acc.late
    <3>1. j \in from .. m + 1
      BY <1>2, <2>3
    <3>2. r.ws[j].data = ws0[j].data \o p.data
      BY <1>3, <1>6, <1>7, <1>10, <1>12, <2>2, <2>3 DEF Taken, Same
    <3>3. r.ws[j].data = ws0[j].data \o g /\ <<>> \o r.ws[j].data = r.ws[j].data
      BY <1>5, <1>9, <3>1, <3>2, ConcatEmpty
    <3> QED BY <1>3, <1>8, <2>2, <3>3
  <2>4. CASE j \notin acc.late
    <3>1. r.ws[j].data = ws0[j].data
      BY <1>3, <1>12, <2>2, <2>4
    <3>2. j # from /\ j - 1 \in 1 .. Len(chain) /\ j - 1 \notin from .. m
      BY <1>1, <1>2, <2>1, <2>4
    <3>3. g = <<>>
      BY <1>8, <3>2 DEF RunInv, Untouched, GivenTo
    <3> QED BY <1>3, <1>8, <1>10, <2>2, <3>1, <3>3
  <2> QED BY <2>3, <2>4
<1> QED BY <1>11, <1>12

\* If nothing is late nothing is held; otherwise something is.
LEMMA BackRest ==
  ASSUME chain \in Chains, NEW S, NEW from \in {1, 2}, NEW ws0 \in WindowsOver(S), NEW acc \in Runs(S, from),
         NEW event, from = 1 => event \in EventOver(S),
         NEW m, RunInv(ws0, from, event, m, Len(chain), acc), NEW r, r = Back(acc, event, NoError)
  PROVE  ~r.failed /\ Alone(ws0, from, r) /\ Cleared(from, r) /\ Kept(ws0, from, event, r)
<1>1. Len(chain) \in Nat /\ Len(chain) >= 1
  BY ChainFacts
<1>2. /\ m \in from - 1 .. Len(chain) /\ acc.emitted = from .. m /\ acc.late \subseteq from .. m + 1
      /\ ~acc.failed /\ (acc.live => m = Len(chain)) /\ (~acc.live => m + 1 \in acc.late /\ m < Len(chain))
  BY DEF RunInv, Shape
<1>3. \A j \in 1 .. Len(chain) :
      /\ ~r.failed /\ r.late = acc.late /\ r.out = acc.out
      /\ j \in acc.late => Taken(r.ws[j], ResetIn(acc, j), acc.ctx, Prev(acc.ws, j, event))
      /\ j \notin acc.late => r.ws[j] = ResetIn(acc, j)
      /\ j \in acc.emitted => Blank(ResetIn(acc, j))
      /\ j \notin acc.emitted => ResetIn(acc, j) = acc.ws[j]
  BY <1>2, BackWindow
<1>4. ~r.failed /\ r.late = acc.late /\ r.out = acc.out
  BY <1>1, <1>3
<1>5. Alone(ws0, from, r)
  <2> SUFFICES ASSUME NEW j \in 1 .. Len(chain), j < from
               PROVE  Level(r.out, j) = <<>> /\ Same(r.ws[j], ws0[j])
    BY DEF Alone
  <2>1. j \notin acc.late /\ j \notin acc.emitted /\ j \notin from .. m
    BY <1>2
  <2>2. Level(acc.out, j) = <<>> /\ Same(acc.ws[j], ws0[j])
    BY <2>1 DEF RunInv, Untouched
  <2> QED BY <1>3, <1>4, <2>1, <2>2
<1>6. Cleared(from, r)
  <2> SUFFICES ASSUME r.late = {}, NEW j \in from .. Len(chain) PROVE Blank(r.ws[j])
    BY DEF Cleared
  <2>1. acc.live \/ ~acc.live
    OBVIOUS
  <2>2. m = Len(chain) /\ j \in acc.emitted /\ j \notin acc.late /\ j \in 1 .. Len(chain)
    BY <1>1, <1>2, <1>4, <2>1
  <2> QED BY <1>3, <2>2
<1>7. Kept(ws0, from, event, r)
  <2> SUFFICES ASSUME LaterCounts, r.late # {},
                      Prev(ws0, from, event).had \/ \E j \in from .. Len(chain) : ws0[j].holds
               PROVE  \E j \in from .. Len(chain) : r.ws[j].holds
    BY DEF Kept
  <2>1. CASE from = 1 /\ 1 \in acc.late
    <3>1. Prev(acc.ws, 1, event).had = TRUE
      BY <2>1 DEF Prev, EventOver
    <3>2. Taken(r.ws[1], ResetIn(acc, 1), acc.ctx, Prev(acc.ws, 1, event))
      BY <1>1, <1>3, <2>1
    <3>3. r.ws[1].holds
      BY <3>1, <3>2 DEF Taken
    <3>4. 1 \in from .. Len(chain)
      BY <1>1, <2>1
    <3> QED BY <3>3, <3>4
  <2>2. CASE ~(from = 1 /\ 1 \in acc.late)
    <3>1. \A j \in from .. m : j \notin acc.late
      <4> SUFFICES ASSUME NEW j \in from .. m, j \in acc.late PROVE FALSE
        OBVIOUS
      <4>1. j \in 1 .. Len(chain) /\ j > 1
        BY <1>1, <1>2, <2>2
      <4>2. chain[j].kind = "time" /\ chain[j].kind = "count"
        BY <4>1 DEF RunInv, PassedOn, LaterCounts
      <4> QED BY <4>2
    <3>2. m + 1 \in acc.late /\ m + 1 \in from .. Len(chain) /\ m + 1 \in 1 .. Len(chain) /\ m + 1 \notin acc.emitted
      <4>1. PICK j \in acc.late : TRUE
        BY <1>4
      <4>2. j = m + 1
        BY <1>2, <3>1, <4>1
      <4>3. acc.late \in SUBSET (from .. Len(chain))
        BY RunFields
      <4> QED BY <1>1, <1>2, <4>1, <4>2, <4>3
    <3>3. CASE Prev(ws0, from, event).had \/ \E j \in from .. m : ws0[j].holds
      <4>1. Prev(acc.ws, m + 1, event).had
        BY <3>1, <3>3 DEF RunInv, Carries
      <4>2. Taken(r.ws[m + 1], ResetIn(acc, m + 1), acc.ctx, Prev(acc.ws, m + 1, event))
        BY <1>3, <3>2
      <4>3. r.ws[m + 1].holds
        BY <4>1, <4>2 DEF Taken
      <4> QED BY <3>2, <4>3
    <3>4. ASSUME NEW j \in from .. Len(chain), j \notin from .. m, ws0[j].holds
          PROVE  \E k \in from .. Len(chain) : r.ws[k].holds
      <4>1. j \in 1 .. Len(chain) /\ j \notin acc.emitted
        BY <1>1, <1>2, <3>4
      <4>2. Same(acc.ws[j], ws0[j])
        BY <3>4, <4>1 DEF RunInv, Untouched
      <4>3. ResetIn(acc, j) = acc.ws[j] /\ acc.ws[j].holds
        BY <1>3, <3>4, <4>1, <4>2 DEF Same
      <4>4. r.ws[j].holds
        BY <1>3, <4>1, <4>3 DEF Taken, Same
      <4> QED BY <4>4
    <3> QED BY <3>3, <3>4
  <2> QED BY <2>1, <2>2
<1> QED BY <1>4, <1>5, <1>6, <1>7

-----------------------------------------------------------------------------
(* The flags and the ids of what is emitted, when all windows count        *)

\* x is transactional if an event in it is, and (if tr) its id tracks them.
Good(T, tr, x) ==
    /\ x.tx <=> \E e \in ToSet(x.data) : e \in T
    /\ tr => ToSet(x.data) \subseteq x.ids

\* What is handed on with the context ctx.
GoodGiven(T, tr, ctx, p) ==
    /\ ctx.tx <=> \E e \in ToSet(p.data) : e \in T
    /\ tr => ToSet(p.data) \subseteq ctx.ids

AllCount == \A i \in 1 .. Len(chain) : chain[i].kind = "count"

VerdictInv(T, tr, event, m, acc) ==
    /\ \A k \in DOMAIN acc.out : Good(T, tr, acc.out[k])
    /\ \A j \in 1 .. Len(chain) : j \notin 1 .. m => Good(T, tr, acc.ws[j])
    /\ GoodGiven(T, tr, acc.ctx, Prev(acc.ws, m + 1, event))

LEMMA ToSetConcat ==
  ASSUME NEW U, NEW a \in Seq(U), NEW b \in Seq(U)
  PROVE  ToSet(a \o b) = ToSet(a) \union ToSet(b)
<1>1. Joined(a, b, a \o b)
  BY JoinFacts
<1>2. PICK u : u = a \o b
  OBVIOUS
<1>3. Joined(a, b, u)
  BY <1>1, <1>2
<1>4. \A x \in ToSet(u) : x \in ToSet(a) \union ToSet(b)
  BY <1>3 DEF ToSet, Joined
<1>5. \A x \in ToSet(a) : x \in ToSet(u)
  BY <1>3 DEF ToSet, Joined
<1>6. \A x \in ToSet(b) : x \in ToSet(u)
  BY <1>3 DEF ToSet, Joined
<1> QED BY <1>2, <1>4, <1>5, <1>6

LEMMA SameGood ==
  ASSUME NEW T, NEW tr, NEW v, NEW w, Same(v, w), Good(T, tr, w)
  PROVE  Good(T, tr, v)
BY Zenon DEF Same, Good

\* Taking in good data with its context leaves a good window.
LEMMA TakenGood ==
  ASSUME NEW S, NEW T, NEW tr, NEW w, w.data \in Seq(S), Good(T, tr, w), NEW p, p.data \in Seq(S), NEW ctx,
         GoodGiven(T, tr, ctx, p), NEW v, Taken(v, w, ctx, p)
  PROVE  Good(T, tr, v)
<1>1. CASE p.had
  <2>1. v.data = w.data \o p.data /\ v.ids = w.ids \union ctx.ids /\ (v.tx <=> w.tx \/ ctx.tx)
    BY <1>1 DEF Taken
  <2>2. ToSet(v.data) = ToSet(w.data) \union ToSet(p.data)
    BY <2>1, ToSetConcat
  <2>3. /\ w.tx <=> \E e \in ToSet(w.data) : e \in T
        /\ tr => ToSet(w.data) \subseteq w.ids
        /\ ctx.tx <=> \E e \in ToSet(p.data) : e \in T
        /\ tr => ToSet(p.data) \subseteq ctx.ids
    BY Zenon DEF Good, GoodGiven
  <2>4. v.tx <=> \E e \in ToSet(v.data) : e \in T
    BY <2>1, <2>2, <2>3
  <2>5. tr => ToSet(v.data) \subseteq v.ids
    BY <2>1, <2>2, <2>3
  <2> QED BY <2>4, <2>5 DEF Good
<1>2. CASE ~p.had
  BY <1>2, SameGood DEF Taken
<1> QED BY <1>1, <1>2

\* The ids and the flag, for a window that does not emit.
LEMMA StaysVerdict ==
  ASSUME chain \in Chains, NEW acc, NEW i \in 1 .. Len(chain),
         NEW event, NEW T, NEW tr, VerdictInv(T, tr, event, i - 1, acc), NEW d, StepStays(acc, i, d)
  PROVE  VerdictInv(T, tr, event, i - 1, d)
<1>1. Len(chain) \in Nat /\ i \in Nat /\ (i - 1) + 1 = i
  BY ChainFacts
<1>2. \A j \in 1 .. Len(chain) : j \notin 1 .. i - 1 => Good(T, tr, d.ws[j])
  <2> SUFFICES ASSUME NEW j \in 1 .. Len(chain), j \notin 1 .. i - 1 PROVE Good(T, tr, d.ws[j])
    OBVIOUS
  <2>1. Good(T, tr, acc.ws[j])
    BY DEF VerdictInv
  <2>2. CASE j = i
    BY <2>1, <2>2, SameGood DEF StepStays
  <2>3. CASE j # i
    BY <2>1, <2>3 DEF StepStays
  <2> QED BY <2>2, <2>3
<1>3. Prev(d.ws, i, event) = Prev(acc.ws, i, event)
  <2>1. i # 1 => i - 1 \in 1 .. Len(chain) /\ i - 1 # i
    BY <1>1
  <2>2. i # 1 => d.ws[i - 1] = acc.ws[i - 1]
    BY <2>1 DEF StepStays
  <2> QED BY <1>1, <2>2, SamePrev
<1>4. \A k \in DOMAIN d.out : Good(T, tr, d.out[k])
  BY DEF VerdictInv, StepStays
<1>5. GoodGiven(T, tr, d.ctx, Prev(d.ws, i, event))
  BY <1>1, <1>3 DEF VerdictInv, StepStays
<1> QED BY <1>1, <1>2, <1>4, <1>5 DEF VerdictInv

\* The ids and the flag, for a window that emits.
LEMMA EmitsVerdict ==
  ASSUME chain \in Chains, AllCount, NEW S, NEW acc \in Runs(S, 1), NEW i \in 1 .. Len(chain),
         NEW event \in EventOver(S), NEW T, NEW tr, VerdictInv(T, tr, event, i - 1, acc),
         NEW w \in WindowOver(S), NEW d, StepEmits(acc, i, event, w, d)
  PROVE  VerdictInv(T, tr, event, i, d)
<1>1. Len(chain) \in Nat /\ i \in Nat /\ (i - 1) + 1 = i /\ i + 1 # 1 /\ (i + 1) - 1 = i
  BY ChainFacts
<1>2. chain[i].kind # "time"
  BY DEF AllCount
<1>3. PICK p : p = Prev(acc.ws, i, event)
  OBVIOUS
<1>4. Taken(w, acc.ws[i], acc.ctx, p)
  BY <1>2, <1>3 DEF StepEmits
<1>5. Good(T, tr, acc.ws[i]) /\ GoodGiven(T, tr, acc.ctx, p)
  <2>1. i \notin 1 .. i - 1
    BY <1>1
  <2> QED BY <1>1, <1>3, <2>1 DEF VerdictInv
<1>6. acc.ws \in WindowsOver(S) /\ acc.ws[i] \in WindowOver(S) /\ acc.out \in Seq(OutputOver(S))
  BY RunFields DEF WindowsOver
<1>7. p.data \in Seq(S) /\ acc.ws[i].data \in Seq(S)
  <2>1. p \in GivenOver(S)
    BY <1>3, <1>6, PrevFacts
  <2> QED BY <1>6, <2>1, WindowFields DEF GivenOver
<1>8. Good(T, tr, w)
  BY <1>4, <1>5, <1>7, TakenGood
<1>9. \A k \in DOMAIN d.out : Good(T, tr, d.out[k])
  <2>1. \A k \in DOMAIN acc.out : Good(T, tr, acc.out[k])
    BY DEF VerdictInv
  <2>2. CASE w.holds
    <3>1. PICK x : x = [level |-> i, data |-> w.data, ids |-> w.ids, tx |-> w.tx]
      OBVIOUS
    <3>2. x \in OutputOver(S) /\ x.data = w.data /\ x.ids = w.ids /\ x.tx = w.tx
      BY <3>1, WindowFields DEF OutputOver
    <3>3. Good(T, tr, x)
      BY Zenon, <1>8, <3>2 DEF Good
    <3>4. PICK o \in Seq(OutputOver(S)) : o = acc.out
      BY <1>6
    <3>5. d.out = Append(o, x)
      BY <2>2, <3>1, <3>4 DEF StepEmits
    <3>6. \A k \in DOMAIN Append(o, x) : Good(T, tr, Append(o, x)[k])
      <4> SUFFICES ASSUME NEW k \in DOMAIN Append(o, x) PROVE Good(T, tr, Append(o, x)[k])
        OBVIOUS
      <4>1. (k \in DOMAIN o /\ Append(o, x)[k] = o[k]) \/ Append(o, x)[k] = x
        BY <3>2, AppendFacts
      <4> QED BY <2>1, <3>3, <3>4, <4>1
    <3> QED BY <3>5, <3>6
  <2>3. CASE ~w.holds
    BY <2>1, <2>3 DEF StepEmits
  <2> QED BY <2>2, <2>3
<1>10. \A j \in 1 .. Len(chain) : j \notin 1 .. i => Good(T, tr, d.ws[j])
  <2> SUFFICES ASSUME NEW j \in 1 .. Len(chain), j \notin 1 .. i PROVE Good(T, tr, d.ws[j])
    OBVIOUS
  <2>1. j # i /\ j \notin 1 .. i - 1
    BY <1>1
  <2> QED BY <2>1 DEF VerdictInv, StepEmits
<1>11. GoodGiven(T, tr, d.ctx, Prev(d.ws, i + 1, event))
  <2>1. Prev(d.ws, i + 1, event).data = w.data
    BY <1>1 DEF Prev, StepEmits
  <2>2. d.ctx.ids = w.ids /\ d.ctx.tx = w.tx
    BY DEF StepEmits
  <2> QED BY Zenon, <1>8, <2>1, <2>2 DEF Good, GoodGiven
<1> QED BY <1>9, <1>10, <1>11 DEF VerdictInv

AllGood(T, tr, r) ==
    /\ \A k \in DOMAIN r.out : Good(T, tr, r.out[k])
    /\ \A j \in 1 .. Len(chain) : Good(T, tr, r.ws[j])

LEMMA BlankGood ==
  ASSUME NEW T, NEW tr, NEW w, Blank(w)
  PROVE  Good(T, tr, w)
<1>1. ToSet(w.data) = {} /\ w.tx = FALSE
  BY DEF Blank, ToSet
<1> QED BY <1>1 DEF Good

\* The ids and the flag, on the way back.
LEMMA BackVerdict ==
  ASSUME chain \in Chains, AllCount, NEW S, NEW ws0, NEW acc \in Runs(S, 1),
         NEW event \in EventOver(S), NEW T, NEW tr,
         NEW m, RunInv(ws0, 1, event, m, Len(chain), acc), VerdictInv(T, tr, event, m, acc),
         NEW r, r = Back(acc, event, NoError)
  PROVE  AllGood(T, tr, r)
<1>1. Len(chain) \in Nat /\ 1 \in 1 .. Len(chain)
  BY ChainFacts
<1>2. /\ m \in 0 .. Len(chain) /\ acc.emitted = 1 .. m /\ acc.late \subseteq 1 .. m + 1 /\ ~acc.failed
  BY DEF RunInv, Shape
<1>3. \A k \in DOMAIN r.out : Good(T, tr, r.out[k])
  <2>1. r.out = acc.out
    BY <1>1, <1>2, BackWindow
  <2> QED BY <2>1 DEF VerdictInv
<1>4. ASSUME NEW j \in 1 .. Len(chain) PROVE Good(T, tr, r.ws[j])
  <2>1. /\ j \in acc.late => Taken(r.ws[j], ResetIn(acc, j), acc.ctx, Prev(acc.ws, j, event))
        /\ j \notin acc.late => r.ws[j] = ResetIn(acc, j)
        /\ j \in acc.emitted => Blank(ResetIn(acc, j))
        /\ j \notin acc.emitted => ResetIn(acc, j) = acc.ws[j]
    BY <1>2, BackWindow
  <2>2. CASE j \in acc.emitted
    <3>1. j \notin acc.late
      <4>1. j \in 1 .. m /\ chain[j].kind # "time"
        BY <1>2, <2>2 DEF AllCount
      <4> QED BY <4>1 DEF RunInv, PassedOn
    <3> QED BY <2>1, <2>2, <3>1, BlankGood
  <2>3. CASE j \notin acc.emitted
    <3>1. j \notin 1 .. m
      BY <1>2, <2>3
    <3>2. Good(T, tr, acc.ws[j])
      BY <3>1 DEF VerdictInv
    <3>3. CASE j \in acc.late
      <4>1. j = m + 1
        BY <1>2, <3>1, <3>3
      <4>2. PICK p : p = Prev(acc.ws, j, event)
        OBVIOUS
      <4>3. GoodGiven(T, tr, acc.ctx, p)
        BY <4>1, <4>2 DEF VerdictInv
      <4>4. acc.ws \in WindowsOver(S) /\ acc.ws[j] \in WindowOver(S)
        BY RunFields DEF WindowsOver
      <4>5. p.data \in Seq(S) /\ acc.ws[j].data \in Seq(S)
        <5>1. p \in GivenOver(S)
          BY <4>2, <4>4, PrevFacts
        <5> QED BY <4>4, <5>1, WindowFields DEF GivenOver
      <4>6. Taken(r.ws[j], acc.ws[j], acc.ctx, p)
        BY <2>1, <2>3, <3>3, <4>2
      <4> QED BY <3>2, <4>3, <4>5, <4>6, TakenGood
    <3>4. CASE j \notin acc.late
      BY <2>1, <2>3, <3>2, <3>4
    <3> QED BY <3>3, <3>4
  <2> QED BY <2>2, <2>3
<1> QED BY <1>3, <1>4 DEF AllGood

\* The invariant of a run; vd says that flags and ids are looked at.
FullInv(ws0, from, event, vd, T, tr, i, acc) ==
    \E m : RunInv(ws0, from, event, m, i, acc) /\ (vd => VerdictInv(T, tr, event, m, acc))

\* Before the first window nothing was handed on.
LEMMA FullStart ==
  ASSUME chain \in Chains, NEW S, NEW from \in {1, 2}, NEW ws0 \in WindowsOver(S),
         NEW ctx \in ContextOver(S), NEW event, NEW T, NEW tr, NEW vd \in BOOLEAN,
         vd => /\ from = 1 /\ GoodGiven(T, tr, ctx, event)
               /\ \A j \in 1 .. Len(chain) : Good(T, tr, ws0[j])
  PROVE  /\ Start(ws0, ctx) \in Runs(S, from)
         /\ FullInv(ws0, from, event, vd, T, tr, from - 1, Start(ws0, ctx))
<1>1. PICK acc : acc = Start(ws0, ctx)
  OBVIOUS
<1>2. /\ acc.ws = ws0 /\ acc.ctx = ctx /\ acc.out = <<>> /\ acc.emitted = {} /\ acc.late = {}
      /\ acc.failed = FALSE /\ acc.live = TRUE
  BY <1>1 DEF Start
<1>3. acc \in Runs(S, from)
  <2>1. <<>> \in Seq(OutputOver(S))
    OBVIOUS
  <2>2. PICK o \in Seq(OutputOver(S)) : o = <<>>
    BY <2>1
  <2>3. acc = [ws |-> ws0, ctx |-> ctx, out |-> o, emitted |-> {}, late |-> {},
               failed |-> FALSE, live |-> TRUE]
    BY <1>1, <2>2 DEF Start
  <2> QED BY <2>3 DEF Runs
<1>4. from - 1 \in from - 1 .. from - 1 /\ (from .. from - 1) = {} /\ from - 1 \in Int /\ (from - 1) + 1 = from
  OBVIOUS
<1>5. Shape(from, from - 1, from - 1, acc)
  BY <1>2, <1>4 DEF Shape
<1>6. Untouched(ws0, from, from - 1, acc)
  BY <1>2, LevelEmpty DEF Untouched, Same
<1>7. PassedOn(ws0, from, event, from - 1, acc)
  BY <1>4 DEF PassedOn
<1>8. Carries(ws0, from, event, from - 1, acc)
  <2>1. ~\E j \in from .. from - 1 : ws0[j].holds
    BY <1>4
  <2> QED BY <1>2, <1>4, <2>1 DEF Carries
<1>9. ASSUME vd PROVE VerdictInv(T, tr, event, from - 1, acc)
  <2>1. from = 1 /\ GoodGiven(T, tr, ctx, event) /\ \A j \in 1 .. Len(chain) : Good(T, tr, ws0[j])
    BY <1>9
  <2>2. Prev(acc.ws, (from - 1) + 1, event) = event
    BY <1>4, <2>1 DEF Prev
  <2>3. DOMAIN acc.out = {}
    BY <1>2
  <2> QED BY <1>2, <2>1, <2>2, <2>3 DEF VerdictInv
<1> QED BY <1>1, <1>3, <1>5, <1>6, <1>7, <1>8, <1>9 DEF RunInv, FullInv

\* One window further down the chain.
LEMMA FullStep ==
  ASSUME chain \in Chains, NEW S, S \subseteq Nat, NEW from \in {1, 2}, NEW acc \in Runs(S, from),
         NEW i \in from .. Len(chain), NEW t \in Nat, NEW event, from = 1 => event \in EventOver(S),
         NEW ws0, NEW T, NEW tr, NEW vd \in BOOLEAN, vd => from = 1 /\ AllCount,
         FullInv(ws0, from, event, vd, T, tr, i - 1, acc)
  PROVE  FullInv(ws0, from, event, vd, T, tr, i, Down(t, NoError, event, acc, i))
<1>1. PICK m : RunInv(ws0, from, event, m, i - 1, acc) /\ (vd => VerdictInv(T, tr, event, m, acc))
  BY DEF FullInv
<1>2. PICK d : d = Down(t, NoError, event, acc, i)
  OBVIOUS
<1>3. i \in 1 .. Len(chain) /\ Len(chain) \in Nat
  BY ChainFacts
<1>4. CASE ~acc.live
  <2>1. d = acc
    BY <1>2, <1>4 DEF Down
  <2>2. Shape(from, m, i - 1, acc)
    BY <1>1 DEF RunInv
  <2>3. Shape(from, m, i, acc)
    BY <1>3, <1>4, <2>2 DEF Shape
  <2>4. RunInv(ws0, from, event, m, i, acc)
    BY <1>1, <2>3 DEF RunInv
  <2> QED BY <1>1, <1>2, <2>1, <2>4 DEF FullInv
<1>5. CASE acc.live
  <2>1. m = i - 1
    BY <1>1, <1>5 DEF RunInv, Shape
  <2>2. CASE StepStays(acc, i, d)
    <3>1. RunInv(ws0, from, event, m, i, d)
      BY <1>1, <1>5, <2>2, StaysInv
    <3>2. vd => VerdictInv(T, tr, event, m, d)
      BY <1>1, <1>3, <2>1, <2>2, StaysVerdict
    <3> QED BY <1>2, <3>1, <3>2 DEF FullInv
  <2>3. ASSUME NEW w \in WindowOver(S), StepEmits(acc, i, event, w, d)
        PROVE  FullInv(ws0, from, event, vd, T, tr, i, d)
    <3>1. RunInv(ws0, from, event, i, i, d)
      BY <1>1, <1>5, <2>3, EmitsInv
    <3>2. ASSUME vd PROVE VerdictInv(T, tr, event, i, d)
      <4>1. acc \in Runs(S, 1) /\ event \in EventOver(S) /\ AllCount /\ VerdictInv(T, tr, event, i - 1, acc)
        BY <1>1, <2>1, <3>2
      <4> QED BY <1>3, <2>3, <4>1, EmitsVerdict
    <3> QED BY <3>1, <3>2 DEF FullInv
  <2>4. StepStays(acc, i, d) \/ \E w \in WindowOver(S) : StepEmits(acc, i, event, w, d)
    BY <1>2, <1>5, DownCases
  <2> QED BY <1>2, <2>2, <2>3, <2>4
<1> QED BY <1>4, <1>5

\* A run without an error.
LEMMA RunExact ==
  ASSUME chain \in Chains, NEW S, S \subseteq Nat, NEW from \in {1, 2}, NEW ws0 \in WindowsOver(S),
         NEW ctx \in ContextOver(S), NEW t \in Nat, NEW event, from = 1 => event \in EventOver(S),
         NEW T, NEW tr, NEW vd \in BOOLEAN,
         vd => /\ from = 1 /\ AllCount /\ GoodGiven(T, tr, ctx, event)
               /\ \A j \in 1 .. Len(chain) : Good(T, tr, ws0[j]),
         NEW r, r = RunWindows(Start(ws0, ctx), from, t, NoError, event)
  PROVE  Ran(ws0, from, event, r) /\ (vd => AllGood(T, tr, r))
<1>1. PICK start : start = Start(ws0, ctx)
  OBVIOUS
<1>2. start \in Runs(S, from) /\ FullInv(ws0, from, event, vd, T, tr, from - 1, start)
  BY <1>1, FullStart
<1>3. PICK f : RunOf(f, start, from, t, NoError, event)
  BY <1>2, RunExists
<1>4. \A i \in from - 1 .. Len(chain) : f[i] \in Runs(S, from)
  BY <1>2, <1>3, RunTyped
<1>5. PICK lo \in Int : lo = from - 1 /\ Len(chain) \in Int /\ lo <= Len(chain) /\ lo + 1 = from
  BY ChainFacts
<1>6. PICK A : A = [i \in lo .. Len(chain) |-> {acc \in Runs(S, from) : FullInv(ws0, from, event, vd, T, tr, i, acc)}]
  OBVIOUS
<1>7. f[lo] \in A[lo]
  BY <1>2, <1>3, <1>5, <1>6 DEF RunOf
<1>8. \A i \in lo + 1 .. Len(chain) : f[i - 1] \in A[i - 1] => f[i] \in A[i]
  <2> SUFFICES ASSUME NEW i \in lo + 1 .. Len(chain), f[i - 1] \in A[i - 1] PROVE f[i] \in A[i]
    OBVIOUS
  <2>1. i - 1 \in lo .. Len(chain) /\ i \in lo .. Len(chain) /\ i \in from .. Len(chain)
    BY <1>5
  <2>2. f[i - 1] \in Runs(S, from) /\ FullInv(ws0, from, event, vd, T, tr, i - 1, f[i - 1])
        /\ f[i] = Down(t, NoError, event, f[i - 1], i)
    BY <1>3, <1>6, <2>1 DEF RunOf
  <2>3. FullInv(ws0, from, event, vd, T, tr, i, f[i])
    BY <2>1, <2>2, FullStep
  <2> QED BY <1>4, <1>5, <1>6, <2>1, <2>3
<1>9. \A i \in lo .. Len(chain) : f[i] \in A[i]
  BY <1>5, <1>7, <1>8, Inductive
<1>10. PICK acc \in Runs(S, from) : acc = f[Len(chain)] /\ FullInv(ws0, from, event, vd, T, tr, Len(chain), acc)
  <2>1. Len(chain) \in lo .. Len(chain)
    BY <1>5
  <2> QED BY <1>6, <1>9, <2>1
<1>11. PICK m : RunInv(ws0, from, event, m, Len(chain), acc) /\ (vd => VerdictInv(T, tr, event, m, acc))
  BY <1>10 DEF FullInv
<1>12. r = Back(acc, event, NoError)
  BY <1>1, <1>3, <1>10 DEF RunOf
<1>13. Moved(ws0, from, event, r)
  BY <1>11, <1>12, BackMoved
<1>14. ~r.failed /\ Alone(ws0, from, r) /\ Cleared(from, r) /\ Kept(ws0, from, event, r)
  BY <1>11, <1>12, BackRest
<1>15. ASSUME vd PROVE AllGood(T, tr, r)
  <2>1. from = 1 /\ AllCount /\ VerdictInv(T, tr, event, m, acc)
    BY <1>11, <1>15
  <2>2. acc \in Runs(S, 1) /\ event \in EventOver(S) /\ RunInv(ws0, 1, event, m, Len(chain), acc)
    BY <1>11, <2>1
  <2> QED BY <1>12, <2>1, <2>2, BackVerdict
<1> QED BY <1>13, <1>14, <1>15 DEF Ran

-----------------------------------------------------------------------------
(* Groups                                                                  *)

GroupsOver(S) == [Groups -> {Absent} \union WindowsOver(S)]
LabelledOver(S) ==
    [group : Groups, level : 1 .. Len(chain), data : Seq(S), ids : SUBSET S, tx : BOOLEAN]

\* What window j of group g emitted, and what it holds.
AtGroup(g, j) == {x \in LabelledOver(Nat) : x.group = g /\ x.level = j}
OutOf(o, g, j) == DataOf(o, AtGroup(g, j))
HeldIn(gr, g, i) == IF gr[g] = Absent THEN <<>> ELSE gr[g][i].data

\* Between gr and hr the group g was given d, and emitted its part of o.
Passes(gr, hr, o, g, d) ==
    \A i \in 1 .. Len(chain) :
        OutOf(o, g, i) \o HeldIn(hr, g, i) =
            HeldIn(gr, g, i) \o (IF i = 1 THEN d ELSE OutOf(o, g, i - 1))

LEMMA LabelledData ==
  \A S : HasData(LabelledOver(S), S)
BY DEF LabelledOver, HasData

LEMMA OutOfTyped ==
  ASSUME NEW S, NEW o \in Seq(LabelledOver(S)), NEW g, NEW j
  PROVE  OutOf(o, g, j) \in Seq(S)
BY LabelledData, ChosenTyped DEF OutOf

LEMMA OutOfEmpty ==
  ASSUME NEW g, NEW j
  PROVE  OutOf(<<>>, g, j) = <<>>
<1>1. <<>> \in Seq(LabelledOver(Nat)) /\ \A k \in DOMAIN <<>> : <<>>[k] \notin AtGroup(g, j)
  OBVIOUS
<1> QED BY <1>1, LabelledData, DataNone DEF OutOf

LEMMA OutOfConcat ==
  ASSUME NEW S, NEW o \in Seq(LabelledOver(S)), NEW p \in Seq(LabelledOver(S)), NEW g, NEW j
  PROVE  OutOf(o \o p, g, j) = OutOf(o, g, j) \o OutOf(p, g, j)
BY LabelledData, DataConcat DEF OutOf

\* Absent is no list of windows, so a group is absent or has windows.
LEMMA AbsentFacts ==
  ASSUME chain \in Chains, NEW S
  PROVE  Absent \notin WindowsOver(S)
<1>1. DOMAIN Absent = {} /\ 1 \in 1 .. Len(chain)
  BY ChainFacts DEF Absent
<1> QED BY <1>1 DEF WindowsOver

LEMMA HeldTyped ==
  ASSUME NEW S, NEW gr \in GroupsOver(S), NEW g \in Groups, NEW i \in 1 .. Len(chain)
  PROVE  HeldIn(gr, g, i) \in Seq(S)
<1>1. CASE gr[g] = Absent
  <2>1. <<>> \in Seq(S)
    OBVIOUS
  <2> QED BY <1>1, <2>1 DEF HeldIn
<1>2. CASE gr[g] # Absent
  <2>1. gr[g] \in WindowsOver(S)
    BY <1>2 DEF GroupsOver
  <2>2. gr[g][i] \in WindowOver(S)
    BY <2>1 DEF WindowsOver
  <2>3. gr[g][i].data \in Seq(S)
    BY <2>2, WindowFields
  <2> QED BY <1>2, <2>3 DEF HeldIn
<1> QED BY <1>1, <1>2

\* The events a group emitted.
Alike(l, o) ==
    DOMAIN l = DOMAIN o /\ \A k \in DOMAIN o : l[k].data = o[k].data /\ l[k].ids = o[k].ids /\ l[k].tx = o[k].tx
OnlyOf(l, g, o) ==
    /\ \A j : OutOf(l, g, j) = Level(o, j)
    /\ \A h, j : h # g => OutOf(l, h, j) = <<>>

\* The label of a group changes nothing else.
LEMMA LabelledFacts ==
  ASSUME NEW S, S \subseteq Nat, NEW o \in Seq(OutputOver(S)), NEW g \in Groups, NEW l, l = Labelled(g, o)
  PROVE  l \in Seq(LabelledOver(S)) /\ Alike(l, o) /\ OnlyOf(l, g, o)
<1>1. Len(o) \in Nat /\ DOMAIN o = 1 .. Len(o) /\ \A k \in DOMAIN o : o[k] \in OutputOver(S)
  OBVIOUS
<1>2. /\ DOMAIN l = DOMAIN o
      /\ \A k \in DOMAIN o : l[k] = [group |-> g, level |-> o[k].level, data |-> o[k].data, ids |-> o[k].ids,
                                     tx |-> o[k].tx]
  BY DEF Labelled
<1>3. \A k \in DOMAIN o : /\ l[k] \in LabelledOver(S) /\ l[k] \in LabelledOver(Nat) /\ o[k] \in OutputOver(Nat)
                          /\ l[k].group = g /\ l[k].level = o[k].level
                          /\ l[k].data = o[k].data /\ l[k].ids = o[k].ids /\ l[k].tx = o[k].tx
  <2> SUFFICES ASSUME NEW k \in DOMAIN o
               PROVE  /\ l[k] \in LabelledOver(S) /\ l[k] \in LabelledOver(Nat) /\ o[k] \in OutputOver(Nat)
                      /\ l[k].group = g /\ l[k].level = o[k].level
                      /\ l[k].data = o[k].data /\ l[k].ids = o[k].ids /\ l[k].tx = o[k].tx
    OBVIOUS
  <2>1. PICK x : x = o[k]
    OBVIOUS
  <2>2. x \in [level : 1 .. Len(chain), data : Seq(S), ids : SUBSET S, tx : BOOLEAN]
    BY <1>1, <2>1 DEF OutputOver
  <2>3. x.data \in Seq(Nat) /\ x.ids \subseteq Nat
    BY <2>2, SequenceOver
  <2>4. l[k] = [group |-> g, level |-> x.level, data |-> x.data, ids |-> x.ids, tx |-> x.tx]
    BY <1>2, <2>1
  <2>5. l[k] \in LabelledOver(S)
    BY <2>2, <2>4 DEF LabelledOver
  <2>6. l[k] \in LabelledOver(Nat)
    BY <2>2, <2>3, <2>4 DEF LabelledOver
  <2>7. x \in OutputOver(Nat)
    BY <2>2, <2>3 DEF OutputOver
  <2> QED BY <2>1, <2>4, <2>5, <2>6, <2>7
<1>4. l \in Seq(LabelledOver(S))
  <2>1. l \in [1 .. Len(o) -> LabelledOver(S)]
    <3>1. l = [k \in DOMAIN o |-> l[k]]
      BY DEF Labelled
    <3> QED BY <1>1, <1>3, <3>1
  <2> QED BY <1>1, <2>1
<1>5. ASSUME NEW j PROVE OutOf(l, g, j) = Level(o, j)
  <2>1. \A k \in DOMAIN l : l[k].data = o[k].data /\ (l[k] \in AtGroup(g, j) <=> o[k] \in AtLevel(j))
    BY <1>2, <1>3 DEF AtGroup, AtLevel
  <2> QED BY <1>2, <2>1, DataSame DEF OutOf, Level
<1>6. ASSUME NEW h, NEW j, h # g PROVE OutOf(l, h, j) = <<>>
  <2>1. \A k \in DOMAIN l : l[k] \notin AtGroup(h, j)
    BY <1>2, <1>3, <1>6 DEF AtGroup
  <2>2. HasData(LabelledOver(S), S)
    BY LabelledData
  <2> QED BY <1>4, <2>1, <2>2, DataNone DEF OutOf
<1>7. Alike(l, o)
  BY <1>2, <1>3 DEF Alike
<1>8. OnlyOf(l, g, o)
  BY <1>5, <1>6 DEF OnlyOf
<1> QED BY <1>4, <1>7, <1>8

\* One after the other.
LEMMA PassesTwice ==
  ASSUME chain \in Chains, NEW S, NEW a \in GroupsOver(S), NEW b \in GroupsOver(S), NEW c \in GroupsOver(S),
         NEW o \in Seq(LabelledOver(S)), NEW p \in Seq(LabelledOver(S)), NEW g \in Groups,
         NEW d \in Seq(S), NEW e \in Seq(S), Passes(a, b, o, g, d), Passes(b, c, p, g, e)
  PROVE  Passes(a, c, o \o p, g, d \o e)
<1> SUFFICES ASSUME NEW i \in 1 .. Len(chain)
             PROVE  OutOf(o \o p, g, i) \o HeldIn(c, g, i) =
                      HeldIn(a, g, i) \o (IF i = 1 THEN d \o e ELSE OutOf(o \o p, g, i - 1))
  BY DEF Passes
<1>0. ASSUME NEW j PROVE OutOf(o \o p, g, j) = OutOf(o, g, j) \o OutOf(p, g, j)
  BY OutOfConcat
<1>1. PICK oi \in Seq(S), pi \in Seq(S), ha \in Seq(S), hb \in Seq(S), hc \in Seq(S) :
        /\ oi = OutOf(o, g, i) /\ pi = OutOf(p, g, i)
        /\ ha = HeldIn(a, g, i) /\ hb = HeldIn(b, g, i) /\ hc = HeldIn(c, g, i)
  BY OutOfTyped, HeldTyped
<1>2. PICK x \in Seq(S), y \in Seq(S) :
        /\ x = (IF i = 1 THEN d ELSE OutOf(o, g, i - 1)) /\ y = (IF i = 1 THEN e ELSE OutOf(p, g, i - 1))
        /\ x \o y = (IF i = 1 THEN d \o e ELSE OutOf(o \o p, g, i - 1))
  <2>1. OutOf(o, g, i - 1) \in Seq(S) /\ OutOf(p, g, i - 1) \in Seq(S)
    BY OutOfTyped
  <2>2. OutOf(o \o p, g, i - 1) = OutOf(o, g, i - 1) \o OutOf(p, g, i - 1)
    BY Zenon, <1>0
  <2>3. CASE i = 1
    BY <2>3
  <2>4. CASE i # 1
    BY <2>1, <2>2, <2>4
  <2> QED BY <2>3, <2>4
<1>3. oi \o hb = ha \o x
  BY <1>1, <1>2 DEF Passes
<1>4. pi \o hc = hb \o y
  BY <1>1, <1>2 DEF Passes
<1>5. OutOf(o \o p, g, i) = oi \o pi
  BY <1>0, <1>1
<1>6. Rejoins(oi, pi, hc, ha, x, y)
  BY <1>3, <1>4, Rejoined
<1> QED BY <1>1, <1>2, <1>5, <1>6 DEF Rejoins

Dispatches(S) ==
    [groups : GroupsOver(S), dflt : WindowsOver(S), out : Seq(LabelledOver(S)), failed : BOOLEAN]

\* The groups that are kept do not exceed the limit of the statement.
Bounded(gr) == IsFiniteSet(Known(gr)) /\ Cardinality(Known(gr)) <= MaxGroups

\* A chain has windows, so max_groups has a least value.
LEMMA MaxGroupsIs ==
  ASSUME chain \in Chains
  PROVE  MaxGroups \in Nat
<1>1. PICK M : M = {chain[i].max_groups : i \in DOMAIN chain}
  OBVIOUS
<1>2. M \subseteq Nat /\ M # {}
  <2>1. 1 \in DOMAIN chain
    BY ChainFacts
  <2> QED BY <1>1, <2>1, ChainFacts
<1>3. Min(M) \in M
  BY <1>2, LeastOfNaturals
<1> QED BY <1>1, <1>2, <1>3 DEF MaxGroups

\* The known groups once g has windows, or has none.
LEMMA KnownWith ==
  ASSUME NEW gr, DOMAIN gr = Groups, NEW g \in Groups, NEW v, NEW hr, hr = [gr EXCEPT ![g] = v]
  PROVE  /\ v = Absent => Known(hr) \subseteq Known(gr)
         /\ v # Absent => Known(hr) = Known(gr) \union {g}
         /\ gr[g] # Absent => g \in Known(gr)
         /\ gr[g] = Absent => g \notin Known(gr)
BY DEF Known

\* One group more where there is room, or one that is known already.
LEMMA BoundedWith ==
  ASSUME chain \in Chains, NEW gr, DOMAIN gr = Groups, Bounded(gr), NEW g \in Groups, NEW v,
         v = Absent \/ gr[g] # Absent \/ ~TooMany(gr), NEW hr, hr = [gr EXCEPT ![g] = v]
  PROVE  Bounded(hr)
<1>1. IsFiniteSet(Known(gr)) /\ Cardinality(Known(gr)) <= MaxGroups /\ MaxGroups \in Nat
      /\ Cardinality(Known(gr)) \in Nat
  BY MaxGroupsIs, FS_CardinalityType DEF Bounded
<1>2. CASE v = Absent
  <2>1. Known(hr) \subseteq Known(gr)
    BY <1>2, KnownWith
  <2>2. IsFiniteSet(Known(hr)) /\ Cardinality(Known(hr)) <= Cardinality(Known(gr))
    BY <1>1, <2>1, FS_Subset
  <2>3. Cardinality(Known(hr)) \in Nat
    BY <2>2, FS_CardinalityType
  <2> QED BY <1>1, <2>2, <2>3 DEF Bounded
<1>3. CASE v # Absent /\ gr[g] # Absent
  <2>1. Known(hr) = Known(gr)
    <3>1. Known(hr) = Known(gr) \union {g}
      BY <1>3, KnownWith
    <3>2. g \in Known(gr)
      BY <1>3 DEF Known
    <3> QED BY <3>1, <3>2
  <2> QED BY <1>1, <2>1 DEF Bounded
<1>4. CASE v # Absent /\ gr[g] = Absent
  <2>1. Known(hr) = Known(gr) \union {g} /\ g \notin Known(gr)
    BY <1>4, KnownWith
  <2>2. IsFiniteSet(Known(hr)) /\ Cardinality(Known(hr)) = Cardinality(Known(gr)) + 1
    <3>1. PICK K : K = Known(gr)
      OBVIOUS
    <3>2. IsFiniteSet(K) /\ g \notin K /\ Known(hr) = K \union {g}
      BY <1>1, <2>1, <3>1
    <3>3. IsFiniteSet(K \union {g}) /\ Cardinality(K \union {g}) = Cardinality(K) + 1
      BY <3>2, FS_AddElement
    <3> QED BY <3>1, <3>2, <3>3
  <2>3. Cardinality(Known(gr)) < MaxGroups
    BY <1>1, <1>4 DEF TooMany
  <2> QED BY <1>1, <2>2, <2>3 DEF Bounded
<1> QED BY <1>2, <1>3, <1>4

\* The outcomes of Settle: an error, or the group is kept or goes.
Settled(acc, g, r, s) ==
    /\ s.out = acc.out \o Labelled(g, r.out)
    /\ \/ /\ s.failed
          /\ s.groups = acc.groups \/ (acc.groups[g] # Absent /\ s.groups = [acc.groups EXCEPT ![g] = r.ws])
          /\ s.dflt = acc.dflt \/ s.dflt = r.ws
       \/ /\ ~s.failed /\ ~r.failed /\ r.late = {} /\ acc.groups[g] = Absent
          /\ s.groups = acc.groups /\ s.dflt = r.ws
       \/ /\ ~s.failed /\ ~r.failed /\ r.late = {} /\ acc.groups[g] # Absent
          /\ s.groups = [acc.groups EXCEPT ![g] = Absent] /\ s.dflt = acc.dflt
       \/ /\ ~s.failed /\ ~r.failed /\ r.late # {} /\ acc.groups[g] = Absent /\ ~TooMany(acc.groups)
          /\ s.groups = [acc.groups EXCEPT ![g] = r.ws] /\ s.dflt = ResetGroup(r.ws)
       \/ /\ ~s.failed /\ ~r.failed /\ r.late # {} /\ acc.groups[g] # Absent
          /\ s.groups = [acc.groups EXCEPT ![g] = r.ws] /\ s.dflt = acc.dflt

\* What becomes of the group, case by case.
LEMMA SettleIs ==
  ASSUME NEW acc, NEW g, NEW r, r.failed \in BOOLEAN, NEW s, s = Settle(acc, g, r)
  PROVE  Settled(acc, g, r, s) /\ s.failed \in BOOLEAN
         /\ s = [groups |-> s.groups, dflt |-> s.dflt, out |-> s.out, failed |-> s.failed]
<1> DEFINE new == acc.groups[g] = Absent
           keep == ~CanRemove(r)
           tooMany == new /\ keep /\ TooMany(acc.groups)
<1>1. s = [groups |-> IF new /\ (r.failed \/ tooMany \/ ~keep) THEN acc.groups
                    ELSE [acc.groups EXCEPT ![g] = IF r.failed \/ keep THEN r.ws ELSE Absent],
           dflt |-> IF ~new THEN acc.dflt
                  ELSE IF ~r.failed /\ keep /\ ~tooMany THEN ResetGroup(r.ws) ELSE r.ws,
           out |-> acc.out \o Labelled(g, r.out),
           failed |-> r.failed \/ tooMany]
  BY Zenon DEF Settle
<1>2. PICK f : f = (r.failed \/ tooMany)
  OBVIOUS
<1>3. f \in BOOLEAN /\ (f <=> r.failed \/ tooMany)
  BY Zenon, <1>2
<1>4. keep <=> r.late # {}
  BY DEF CanRemove
<1> HIDE DEF keep
<1>5. tooMany <=> new /\ keep /\ TooMany(acc.groups)
  BY Zenon
<1>6. new <=> acc.groups[g] = Absent
  BY Zenon
<1> HIDE DEF new, tooMany
<1>7. /\ s.groups = IF new /\ (r.failed \/ tooMany \/ ~keep) THEN acc.groups
                    ELSE [acc.groups EXCEPT ![g] = IF r.failed \/ keep THEN r.ws ELSE Absent]
      /\ s.dflt = IF ~new THEN acc.dflt
                  ELSE IF ~r.failed /\ keep /\ ~tooMany THEN ResetGroup(r.ws) ELSE r.ws
      /\ s.out = acc.out \o Labelled(g, r.out) /\ s.failed = f
      /\ s = [groups |-> s.groups, dflt |-> s.dflt, out |-> s.out, failed |-> s.failed]
  <2>1. PICK G, d, o :
          /\ G = IF new /\ (r.failed \/ tooMany \/ ~keep) THEN acc.groups
                 ELSE [acc.groups EXCEPT ![g] = IF r.failed \/ keep THEN r.ws ELSE Absent]
          /\ d = IF ~new THEN acc.dflt
                 ELSE IF ~r.failed /\ keep /\ ~tooMany THEN ResetGroup(r.ws) ELSE r.ws
          /\ o = acc.out \o Labelled(g, r.out)
    OBVIOUS
  <2>2. s = [groups |-> G, dflt |-> d, out |-> o, failed |-> f]
    BY Zenon, <1>1, <1>2, <2>1
  <2>3. s.groups = G /\ s.dflt = d /\ s.out = o /\ s.failed = f
    BY <2>2
  <2> QED BY Zenon, <2>1, <2>2, <2>3
<1>8. CASE f
  <2>1. s.failed
    BY <1>7, <1>8
  <2>2. s.groups = acc.groups \/ (acc.groups[g] # Absent /\ s.groups = [acc.groups EXCEPT ![g] = r.ws])
    BY <1>3, <1>5, <1>6, <1>7, <1>8
  <2>3. s.dflt = acc.dflt \/ s.dflt = r.ws
    BY <1>3, <1>5, <1>6, <1>7, <1>8
  <2> QED BY <1>3, <1>7, <2>1, <2>2, <2>3 DEF Settled
<1>9. CASE ~f
  <2>1. ~s.failed /\ ~r.failed /\ ~tooMany
    BY <1>3, <1>7, <1>9
  <2>2. CASE new /\ keep
    BY <1>3, <1>4, <1>5, <1>6, <1>7, <2>1, <2>2 DEF Settled
  <2>3. CASE new /\ ~keep
    BY <1>3, <1>4, <1>5, <1>6, <1>7, <2>1, <2>3 DEF Settled
  <2>4. CASE ~new /\ keep
    BY <1>3, <1>4, <1>5, <1>6, <1>7, <2>1, <2>4 DEF Settled
  <2>5. CASE ~new /\ ~keep
    BY <1>3, <1>4, <1>5, <1>6, <1>7, <2>1, <2>5 DEF Settled
  <2> QED BY <2>2, <2>3, <2>4, <2>5
<1> QED BY <1>8, <1>9

\* The default group after one of its runs was kept.
LEMMA ResetGroupFacts ==
  ASSUME NEW S, NEW ws \in WindowsOver(S)
  PROVE  ResetGroup(ws) \in WindowsOver(S) /\ \A j \in 1 .. Len(chain) : Blank(ResetGroup(ws)[j])
<1>1. DOMAIN ws = 1 .. Len(chain)
  BY DEF WindowsOver
<1>2. ASSUME NEW j \in 1 .. Len(chain)
      PROVE  ResetGroup(ws)[j] \in WindowOver(S) /\ Blank(ResetGroup(ws)[j])
  <2>1. PICK w \in WindowOver(S) : w = ws[j]
    BY DEF WindowsOver
  <2>2. PICK v : v = Reset(w)
    OBVIOUS
  <2>3. v \in WindowOver(S) /\ v.data = <<>> /\ v.tx = FALSE /\ v.holds = FALSE
    BY <2>2, ResetFacts
  <2>4. PICK u : u = [v EXCEPT !.pos = 0]
    OBVIOUS
  <2>5. u \in WindowOver(S) /\ u.data = v.data /\ u.tx = v.tx /\ u.holds = v.holds
    BY <2>3, <2>4, MovedFacts
  <2>6. ResetGroup(ws)[j] = u
    BY <1>1, <2>1, <2>2, <2>4 DEF ResetGroup
  <2> QED BY <2>3, <2>5, <2>6 DEF Blank
<1>3. ResetGroup(ws) = [j \in 1 .. Len(chain) |-> ResetGroup(ws)[j]]
  BY <1>1 DEF ResetGroup
<1> QED BY <1>2, <1>3 DEF WindowsOver

\* Settling a group keeps the map within max_groups.
LEMMA SettleTyped ==
  ASSUME chain \in Chains, NEW S, S \subseteq Nat, NEW acc \in Dispatches(S), NEW g \in Groups,
         NEW r \in Runs(S, 1), NEW s, s = Settle(acc, g, r), Bounded(acc.groups)
  PROVE  s \in Dispatches(S) /\ Bounded(s.groups)
<1>1. acc.groups \in GroupsOver(S) /\ acc.dflt \in WindowsOver(S) /\ acc.out \in Seq(LabelledOver(S))
  BY DEF Dispatches
<1>2. r.ws \in WindowsOver(S) /\ r.out \in Seq(OutputOver(S)) /\ r.failed \in BOOLEAN
  BY RunFields
<1>3. Settled(acc, g, r, s) /\ s.failed \in BOOLEAN
      /\ s = [groups |-> s.groups, dflt |-> s.dflt, out |-> s.out, failed |-> s.failed]
  BY <1>2, SettleIs
<1>4. s.out \in Seq(LabelledOver(S))
  <2>1. Labelled(g, r.out) \in Seq(LabelledOver(S))
    BY <1>2, LabelledFacts
  <2>2. acc.out \o Labelled(g, r.out) \in Seq(LabelledOver(S))
    BY <1>1, <2>1, ConcatIn
  <2> QED BY <1>3, <2>2 DEF Settled
<1>5. s.dflt \in WindowsOver(S)
  <2>1. ResetGroup(r.ws) \in WindowsOver(S)
    BY <1>2, ResetGroupFacts
  <2> QED BY <1>1, <1>2, <1>3, <2>1 DEF Settled
<1>6. \/ s.groups = acc.groups
      \/ \E v \in {Absent, r.ws} : /\ s.groups = [acc.groups EXCEPT ![g] = v]
                                   /\ v = Absent \/ acc.groups[g] # Absent \/ ~TooMany(acc.groups)
  BY <1>3 DEF Settled
<1>7. DOMAIN acc.groups = Groups
  BY <1>1 DEF GroupsOver
<1>8. CASE s.groups = acc.groups
  BY <1>1, <1>3, <1>4, <1>5, <1>8 DEF Dispatches
<1>9. ASSUME NEW v \in {Absent, r.ws}, s.groups = [acc.groups EXCEPT ![g] = v],
             v = Absent \/ acc.groups[g] # Absent \/ ~TooMany(acc.groups)
      PROVE  s \in Dispatches(S) /\ Bounded(s.groups)
  <2>1. s.groups \in GroupsOver(S)
    BY <1>1, <1>2, <1>9 DEF GroupsOver
  <2>2. Bounded(s.groups)
    BY <1>7, <1>9, BoundedWith
  <2> QED BY <1>3, <1>4, <1>5, <2>1, <2>2 DEF Dispatches
<1> QED BY <1>6, <1>8, <1>9

-----------------------------------------------------------------------------
(* The windows of a group, seen from the map of groups                     *)

\* Between ws0 and ws1 the windows were given d and emitted o.
Handled(ws0, ws1, o, d) ==
    \A i \in 1 .. Len(chain) :
        Level(o, i) \o ws1[i].data = ws0[i].data \o (IF i = 1 THEN d ELSE Level(o, i - 1))

\* The group v holds what the windows ws hold.
HoldsAs(v, ws) == \A i \in 1 .. Len(chain) : (IF v = Absent THEN <<>> ELSE v[i].data) = ws[i].data

AllBlank(ws) == \A i \in 1 .. Len(chain) : Blank(ws[i])

LEMMA HoldsNothing ==
  ASSUME NEW ws, AllBlank(ws)
  PROVE  HoldsAs(Absent, ws)
BY DEF AllBlank, Blank, HoldsAs

LEMMA HoldsItself ==
  ASSUME chain \in Chains, NEW S, NEW ws \in WindowsOver(S)
  PROVE  HoldsAs(ws, ws)
<1>1. ws # Absent
  BY AbsentFacts
<1> QED BY <1>1 DEF HoldsAs

\* What the windows of g did, seen from the groups.
LEMMA PassesOn ==
  ASSUME chain \in Chains, NEW S, S \subseteq Nat, NEW gr \in GroupsOver(S), NEW hr \in GroupsOver(S),
         NEW g \in Groups, \A h \in Groups : h # g => hr[h] = gr[h],
         NEW ws0, NEW ws1, NEW o \in Seq(OutputOver(S)), NEW d \in Seq(S),
         Handled(ws0, ws1, o, d), HoldsAs(gr[g], ws0), HoldsAs(hr[g], ws1),
         NEW l, l = Labelled(g, o), NEW h \in Groups
  PROVE  Passes(gr, hr, l, h, IF h = g THEN d ELSE <<>>)
<1>1. /\ \A j : OutOf(l, g, j) = Level(o, j)
      /\ \A k, j : k # g => OutOf(l, k, j) = <<>>
  <2>1. OnlyOf(l, g, o)
    BY LabelledFacts
  <2> QED BY <2>1 DEF OnlyOf
<1>2. CASE h = g
  <2>1. \A i \in 1 .. Len(chain) : HeldIn(gr, g, i) = ws0[i].data /\ HeldIn(hr, g, i) = ws1[i].data
    BY DEF HeldIn, HoldsAs
  <2>2. ASSUME NEW i \in 1 .. Len(chain)
        PROVE  OutOf(l, g, i) \o HeldIn(hr, g, i) = HeldIn(gr, g, i) \o (IF i = 1 THEN d ELSE OutOf(l, g, i - 1))
    <3>1. Level(o, i) \o ws1[i].data = ws0[i].data \o (IF i = 1 THEN d ELSE Level(o, i - 1))
      BY DEF Handled
    <3>2. OutOf(l, g, i) = Level(o, i) /\ OutOf(l, g, i - 1) = Level(o, i - 1)
      BY <1>1
    <3> QED BY Zenon, <2>1, <3>1, <3>2
  <2>3. Passes(gr, hr, l, g, d)
    BY <2>2 DEF Passes
  <2> QED BY <1>2, <2>3
<1>3. CASE h # g
  <2>1. ASSUME NEW i \in 1 .. Len(chain)
        PROVE  OutOf(l, h, i) \o HeldIn(hr, h, i) = HeldIn(gr, h, i) \o (IF i = 1 THEN <<>> ELSE OutOf(l, h, i - 1))
    <3>1. HeldIn(hr, h, i) = HeldIn(gr, h, i)
      BY <1>3 DEF HeldIn
    <3>2. HeldIn(gr, h, i) \in Seq(S)
      BY HeldTyped
    <3>3. OutOf(l, h, i) = <<>> /\ (IF i = 1 THEN <<>> ELSE OutOf(l, h, i - 1)) = <<>>
      BY <1>1, <1>3
    <3> QED BY <3>1, <3>2, <3>3, ConcatEmpty
  <2>2. Passes(gr, hr, l, h, <<>>)
    BY <2>1 DEF Passes
  <2> QED BY <1>3, <2>2
<1> QED BY <1>2, <1>3

\* Every group that is kept holds something.
InUse(gr) == LaterCounts => \A g \in Known(gr) : \E i \in 1 .. Len(chain) : gr[g][i].holds

\* All windows of all groups, and all that is emitted.
GoodGroups(T, tr, gr) == \A g \in Known(gr) : \A i \in 1 .. Len(chain) : Good(T, tr, gr[g][i])
GoodOut(T, tr, o) == \A k \in DOMAIN o : Good(T, tr, o[k])

LEMMA GoodOutConcat ==
  ASSUME NEW U, NEW o \in Seq(U), NEW p \in Seq(U), NEW T, NEW tr, GoodOut(T, tr, o), GoodOut(T, tr, p)
  PROVE  GoodOut(T, tr, o \o p)
<1>1. PICK u : u = o \o p
  OBVIOUS
<1>2. Joined(o, p, u)
  BY <1>1, JoinFacts
<1>3. \A k \in DOMAIN u : Good(T, tr, u[k])
  BY <1>2 DEF Joined, GoodOut
<1> QED BY <1>1, <1>3 DEF GoodOut

LEMMA GoodLabelled ==
  ASSUME NEW S, S \subseteq Nat, NEW o \in Seq(OutputOver(S)), NEW g \in Groups, NEW T, NEW tr, GoodOut(T, tr, o)
  PROVE  GoodOut(T, tr, Labelled(g, o))
<1>1. PICK l : l = Labelled(g, o)
  OBVIOUS
<1>2. DOMAIN l = DOMAIN o
      /\ \A k \in DOMAIN o : l[k].data = o[k].data /\ l[k].ids = o[k].ids /\ l[k].tx = o[k].tx
  <2>1. Alike(l, o)
    BY <1>1, LabelledFacts
  <2> QED BY <2>1 DEF Alike
<1>3. \A k \in DOMAIN o : Good(T, tr, o[k])
  BY DEF GoodOut
<1>4. \A k \in DOMAIN l : Good(T, tr, l[k])
  BY <1>2, <1>3 DEF Good
<1> QED BY <1>1, <1>4 DEF GoodOut

\* What holds of the groups gr and of o, given since the groups gr0.
Exact(gr0, given, vd, T, tr, gr, o) ==
    /\ \A g \in Groups : Passes(gr0, gr, o, g, given[g])
    /\ InUse(gr)
    /\ vd => GoodGroups(T, tr, gr) /\ GoodOut(T, tr, o)

\* The group g was given d.
AddsTo(given, given1, g, d) ==
    \A h \in Groups : given1[h] = given[h] \o (IF h = g THEN d ELSE <<>>)

\* The group v, if there, is in use, and what it holds and p are good.
InOrder(v, p, vd, T, tr) ==
    /\ LaterCounts /\ v # Absent => \E i \in 1 .. Len(chain) : v[i].holds
    /\ vd => GoodOut(T, tr, p) /\ (v # Absent => \A i \in 1 .. Len(chain) : Good(T, tr, v[i]))

\* From gr to hr the group g turned d into p, and nothing else changed.
Turns(gr, hr, g, d, p, vd, T, tr) ==
    /\ \E ws0, ws1 : Handled(ws0, ws1, p, d) /\ HoldsAs(gr[g], ws0) /\ HoldsAs(hr[g], ws1)
    /\ \A h \in Groups : h # g => hr[h] = gr[h]
    /\ InOrder(hr[g], p, vd, T, tr)

\* The groups with one more handled, which is known (and in use) or absent.
LEMMA ExactMore ==
  ASSUME chain \in Chains, NEW S, S \subseteq Nat, NEW gr0 \in GroupsOver(S), NEW gr \in GroupsOver(S),
         NEW hr \in GroupsOver(S), NEW o \in Seq(LabelledOver(S)), NEW given \in [Groups -> Seq(S)],
         NEW vd \in BOOLEAN, NEW T, NEW tr, Exact(gr0, given, vd, T, tr, gr, o), NEW g \in Groups,
         NEW p \in Seq(OutputOver(S)), NEW d \in Seq(S), Turns(gr, hr, g, d, p, vd, T, tr),
         NEW given1 \in [Groups -> Seq(S)], AddsTo(given, given1, g, d)
  PROVE  Exact(gr0, given1, vd, T, tr, hr, o \o Labelled(g, p))
<1>1. PICK l \in Seq(LabelledOver(S)) : l = Labelled(g, p)
  BY LabelledFacts
<1>2. PICK v : v = hr[g] /\ InOrder(v, p, vd, T, tr) /\ \A h \in Groups : h # g => hr[h] = gr[h]
  BY DEF Turns
<1>3. ASSUME NEW h \in Groups PROVE Passes(gr0, hr, o \o l, h, given1[h])
  <2>1. PICK e \in Seq(S) : e = IF h = g THEN d ELSE <<>>
    <3>1. <<>> \in Seq(S)
      OBVIOUS
    <3> QED BY <3>1
  <2>2. Passes(gr, hr, l, h, e)
    <3>1. PICK ws0, ws1 : Handled(ws0, ws1, p, d) /\ HoldsAs(gr[g], ws0) /\ HoldsAs(hr[g], ws1)
      BY DEF Turns
    <3>2. Passes(gr, hr, l, h, IF h = g THEN d ELSE <<>>)
      BY <1>1, <1>2, <3>1, PassesOn
    <3> QED BY <2>1, <3>2
  <2>3. PICK x \in Seq(S) : x = given[h]
    OBVIOUS
  <2>4. Passes(gr0, gr, o, h, x)
    BY <2>3 DEF Exact
  <2>5. Passes(gr0, hr, o \o l, h, x \o e)
    BY <2>2, <2>4, PassesTwice
  <2>6. given1[h] = x \o e
    BY Zenon, <2>1, <2>3 DEF AddsTo
  <2> QED BY <2>5, <2>6
<1>4. InUse(hr)
  <2> SUFFICES ASSUME LaterCounts, NEW h \in Known(hr) PROVE \E i \in 1 .. Len(chain) : hr[h][i].holds
    BY DEF InUse
  <2>1. CASE h = g
    <3>1. v # Absent
      BY <1>2, <2>1 DEF Known
    <3> QED BY <1>2, <2>1, <3>1 DEF InOrder
  <2>2. CASE h # g
    <3>1. h \in Known(gr) /\ hr[h] = gr[h]
      BY <1>2, <2>2 DEF Known
    <3> QED BY <3>1 DEF Exact, InUse
  <2> QED BY <2>1, <2>2
<1>5. ASSUME vd PROVE GoodGroups(T, tr, hr) /\ GoodOut(T, tr, o \o l)
  <2>1. GoodGroups(T, tr, hr)
    <3> SUFFICES ASSUME NEW h \in Known(hr), NEW i \in 1 .. Len(chain) PROVE Good(T, tr, hr[h][i])
      BY DEF GoodGroups
    <3>1. CASE h = g
      <4>1. v # Absent
        BY <1>2, <3>1 DEF Known
      <4> QED BY <1>2, <1>5, <3>1, <4>1 DEF InOrder
    <3>2. CASE h # g
      <4>1. h \in Known(gr) /\ hr[h] = gr[h]
        BY <1>2, <3>2 DEF Known
      <4> QED BY <1>5, <4>1 DEF Exact, GoodGroups
    <3> QED BY <3>1, <3>2
  <2>2. GoodOut(T, tr, l)
    <3>1. GoodOut(T, tr, p)
      BY <1>2, <1>5 DEF InOrder
    <3> QED BY <1>1, <3>1, GoodLabelled
  <2>3. GoodOut(T, tr, o)
    BY <1>5 DEF Exact
  <2>4. GoodOut(T, tr, o \o l)
    BY <2>2, <2>3, GoodOutConcat
  <2> QED BY <2>1, <2>4
<1>6. Exact(gr0, given1, vd, T, tr, hr, o \o l)
  BY <1>3, <1>4, <1>5 DEF Exact
<1> QED BY <1>1, <1>6

TypedFor(S, gr0, gr, hr, o, p, given, given1, g, d, vd) ==
    /\ S \subseteq Nat /\ gr0 \in GroupsOver(S) /\ gr \in GroupsOver(S) /\ hr \in GroupsOver(S)
    /\ o \in Seq(LabelledOver(S)) /\ p \in Seq(OutputOver(S)) /\ given \in [Groups -> Seq(S)]
    /\ given1 \in [Groups -> Seq(S)] /\ g \in Groups /\ d \in Seq(S) /\ vd \in BOOLEAN

LEMMA ExactMoreTyped ==
  ASSUME chain \in Chains, NEW S, NEW gr0, NEW gr, NEW hr, NEW o, NEW p, NEW given, NEW given1, NEW g, NEW d,
         NEW vd, NEW T, NEW tr, TypedFor(S, gr0, gr, hr, o, p, given, given1, g, d, vd),
         Exact(gr0, given, vd, T, tr, gr, o), Turns(gr, hr, g, d, p, vd, T, tr), AddsTo(given, given1, g, d)
  PROVE  Exact(gr0, given1, vd, T, tr, hr, o \o Labelled(g, p))
<1>1. /\ S \subseteq Nat /\ gr0 \in GroupsOver(S) /\ gr \in GroupsOver(S) /\ hr \in GroupsOver(S)
      /\ o \in Seq(LabelledOver(S)) /\ p \in Seq(OutputOver(S)) /\ given \in [Groups -> Seq(S)]
      /\ given1 \in [Groups -> Seq(S)] /\ g \in Groups /\ d \in Seq(S) /\ vd \in BOOLEAN
  BY Zenon DEF TypedFor
<1> QED BY ZenonT(60), <1>1, ExactMore

\* A run that was given an event, from the windows of the group or the default group.
LEMMA SettleExact ==
  ASSUME chain \in Chains, NEW S, S \subseteq Nat, NEW gr0 \in GroupsOver(S), NEW acc \in Dispatches(S),
         NEW given \in [Groups -> Seq(S)], NEW vd \in BOOLEAN, NEW T, NEW tr,
         AllBlank(acc.dflt), Exact(gr0, given, vd, T, tr, acc.groups, acc.out),
         NEW g \in Groups, NEW ws0, ws0 = (IF acc.groups[g] = Absent THEN acc.dflt ELSE acc.groups[g]),
         NEW event \in EventOver(S), NEW r \in Runs(S, 1), Ran(ws0, 1, event, r), vd => AllGood(T, tr, r),
         NEW given1 \in [Groups -> Seq(S)],
         AddsTo(given, given1, g, event.data),
         NEW s, s = Settle(acc, g, r), ~s.failed
  PROVE  AllBlank(s.dflt) /\ Exact(gr0, given1, vd, T, tr, s.groups, s.out)
<1>1. PICK gr \in GroupsOver(S), o \in Seq(LabelledOver(S)) : gr = acc.groups /\ o = acc.out
  BY DEF Dispatches
<1>2. PICK p \in Seq(OutputOver(S)), ws1 \in WindowsOver(S) : p = r.out /\ ws1 = r.ws /\ r.failed \in BOOLEAN
  BY RunFields
<1>3. PICK d \in Seq(S) : d = event.data
  BY DEF EventOver
<1>4. Handled(ws0, ws1, p, d)
  <2> SUFFICES ASSUME NEW i \in 1 .. Len(chain)
               PROVE  Level(p, i) \o ws1[i].data = ws0[i].data \o (IF i = 1 THEN d ELSE Level(p, i - 1))
    BY DEF Handled
  <2>1. Level(p, i) \o ws1[i].data = ws0[i].data \o GivenTo(ws0, 1, event, p, i)
    BY <1>2 DEF Ran, Moved
  <2>2. GivenTo(ws0, 1, event, p, i) = IF i = 1 THEN d ELSE Level(p, i - 1)
    BY <1>3 DEF GivenTo, Prev
  <2> QED BY <2>1, <2>2
<1>5. HoldsAs(gr[g], ws0)
  <2>1. CASE gr[g] = Absent
    BY <1>1, <2>1, HoldsNothing
  <2>2. CASE gr[g] # Absent
    <3>1. gr[g] \in WindowsOver(S) /\ ws0 = gr[g]
      BY <1>1, <2>2 DEF GroupsOver
    <3> QED BY <3>1, HoldsItself
  <2> QED BY <2>1, <2>2
<1>6. r.late = {} => AllBlank(ws1)
  BY <1>2 DEF Ran, Cleared, AllBlank
<1>7. LaterCounts /\ r.late # {} => \E i \in 1 .. Len(chain) : ws1[i].holds
  <2>1. Prev(ws0, 1, event).had
    BY DEF Prev, EventOver
  <2> QED BY <1>2, <2>1 DEF Ran, Kept
<1>8. vd => GoodOut(T, tr, p) /\ \A i \in 1 .. Len(chain) : Good(T, tr, ws1[i])
  BY <1>2 DEF AllGood, GoodOut
<1>9. Settled(acc, g, r, s)
  BY <1>2, SettleIs
<1>10. s.out = o \o Labelled(g, p)
  BY <1>1, <1>2, <1>9 DEF Settled
<1>11. ASSUME NEW v \in {Absent} \union WindowsOver(S), HoldsAs(v, ws1),
              LaterCounts /\ v # Absent => \E i \in 1 .. Len(chain) : v[i].holds,
              vd /\ v # Absent => \A i \in 1 .. Len(chain) : Good(T, tr, v[i])
       PROVE  Exact(gr0, given1, vd, T, tr, [gr EXCEPT ![g] = v], o \o Labelled(g, p))
  <2>1. PICK hr \in GroupsOver(S) : hr = [gr EXCEPT ![g] = v]
    BY <1>1 DEF GroupsOver
  <2>2. Exact(gr0, given, vd, T, tr, gr, o)
    BY <1>1
  <2>3. AddsTo(given, given1, g, d)
    BY <1>3
  <2>4. InOrder(v, p, vd, T, tr)
    BY <1>8, <1>11 DEF InOrder
  <2>5. Exact(gr0, given1, vd, T, tr, hr, o \o Labelled(g, p))
    <3>1. hr[g] = v /\ \A h \in Groups : h # g => hr[h] = gr[h]
      BY <2>1 DEF GroupsOver
    <3>2. Turns(gr, hr, g, d, p, vd, T, tr)
      BY <1>4, <1>5, <1>11, <2>4, <3>1 DEF Turns
    <3>3. TypedFor(S, gr0, gr, hr, o, p, given, given1, g, d, vd)
      BY Zenon DEF TypedFor
    <3> QED BY <2>1, <2>2, <2>3, <3>2, <3>3, ExactMoreTyped
  <2> QED BY <2>1, <2>5
<1>12. CASE r.late = {}
  <2>1. HoldsAs(Absent, ws1)
    BY <1>6, <1>12, HoldsNothing
  <2>2. Exact(gr0, given1, vd, T, tr, [gr EXCEPT ![g] = Absent], o \o Labelled(g, p))
    BY <1>11, <2>1
  <2>3. CASE gr[g] = Absent
    <3>1. [gr EXCEPT ![g] = Absent] = gr
      BY <2>3 DEF GroupsOver
    <3>2. s.groups = gr /\ s.dflt = ws1
      BY <1>1, <1>2, <1>9, <1>12, <2>3 DEF Settled
    <3> QED BY <1>6, <1>10, <1>12, <2>2, <3>1, <3>2
  <2>4. CASE gr[g] # Absent
    <3>1. s.groups = [gr EXCEPT ![g] = Absent] /\ s.dflt = acc.dflt
      BY <1>1, <1>2, <1>9, <1>12, <2>4 DEF Settled
    <3> QED BY <1>10, <2>2, <3>1
  <2> QED BY <2>3, <2>4
<1>13. CASE r.late # {}
  <2>1. HoldsAs(ws1, ws1)
    BY HoldsItself
  <2>2. Exact(gr0, given1, vd, T, tr, [gr EXCEPT ![g] = ws1], o \o Labelled(g, p))
    BY <1>7, <1>8, <1>11, <1>13, <2>1
  <2>3. s.groups = [gr EXCEPT ![g] = ws1] /\ (s.dflt = acc.dflt \/ s.dflt = ResetGroup(ws1))
    BY <1>1, <1>2, <1>9, <1>13 DEF Settled
  <2>4. AllBlank(ResetGroup(ws1))
    BY ResetGroupFacts DEF AllBlank
  <2> QED BY <1>10, <2>2, <2>3, <2>4
<1> QED BY <1>12, <1>13

\* The windows of a group, or the default group's.
HasRun(S, acc, g, e, tx, t, err, s) ==
    \E ws0 \in WindowsOver(S), ctx \in ContextOver(S), event \in EventOver(S), r \in Runs(S, 1) :
        /\ ws0 = (IF acc.groups[g] = Absent THEN acc.dflt ELSE acc.groups[g])
        /\ ctx = [ids |-> {e}, tx |-> tx] /\ event = [had |-> TRUE, data |-> <<e>>]
        /\ r = RunWindows(Start(ws0, ctx), 1, t, err, event)
        /\ s = Settle(acc, g, r)

LEMMA DispatchRun ==
  ASSUME chain \in Chains, NEW S, S \subseteq Nat, NEW acc \in Dispatches(S), NEW g \in Groups, NEW e \in S,
         NEW tx \in BOOLEAN, NEW t \in Nat, NEW err, ~acc.failed, NEW s, s = Dispatch(acc, g, e, tx, t, err)
  PROVE  HasRun(S, acc, g, e, tx, t, err, s)
<1>1. PICK ws0 \in WindowsOver(S) : ws0 = IF acc.groups[g] = Absent THEN acc.dflt ELSE acc.groups[g]
  BY DEF Dispatches, GroupsOver
<1>2. PICK ctx \in ContextOver(S) : ctx = [ids |-> {e}, tx |-> tx]
  BY DEF ContextOver
<1>3. PICK event \in EventOver(S) : event = [had |-> TRUE, data |-> <<e>>]
  <2>1. <<e>> \in Seq(S)
    OBVIOUS
  <2> QED BY <2>1 DEF EventOver
<1>4. PICK start \in Runs(S, 1) : start = Start(ws0, ctx)
  <2>1. Start(ws0, ctx) \in Runs(S, 1)
    BY FullStart
  <2> QED BY <2>1
<1>5. PICK f : RunOf(f, start, 1, t, err, event)
  BY RunExists
<1>6. PICK r \in Runs(S, 1) : r = RunWindows(start, 1, t, err, event)
  BY <1>5, RunTyped
<1>7. s = Settle(acc, g, r)
  BY Zenon, <1>1, <1>2, <1>3, <1>4, <1>6 DEF Dispatch
<1> QED BY Zenon, <1>1, <1>2, <1>3, <1>4, <1>6, <1>7 DEF HasRun

\* One group of the event, whatever fails.
LEMMA DispatchTyped ==
  ASSUME chain \in Chains, NEW S, S \subseteq Nat, NEW acc \in Dispatches(S), Bounded(acc.groups),
         NEW g \in Groups, NEW e \in S, NEW tx \in BOOLEAN, NEW t \in Nat, NEW err,
         NEW s, s = Dispatch(acc, g, e, tx, t, err)
  PROVE  s \in Dispatches(S) /\ Bounded(s.groups)
<1>1. CASE acc.failed
  <2>1. s = acc
    BY Zenon, <1>1 DEF Dispatch
  <2> QED BY <2>1
<1>2. CASE ~acc.failed
  <2>1. PICK r \in Runs(S, 1) : s = Settle(acc, g, r)
    <3>1. HasRun(S, acc, g, e, tx, t, err, s)
      BY <1>2, DispatchRun
    <3> QED BY <3>1 DEF HasRun
  <2> QED BY <2>1, SettleTyped
<1> QED BY <1>1, <1>2

\* The event e is given to the group g.
LEMMA DispatchExact ==
  ASSUME chain \in Chains, NEW S, S \subseteq Nat, NEW gr0 \in GroupsOver(S), NEW acc \in Dispatches(S),
         NEW given \in [Groups -> Seq(S)], NEW vd \in BOOLEAN, NEW T, NEW tr,
         AllBlank(acc.dflt), Exact(gr0, given, vd, T, tr, acc.groups, acc.out),
         NEW g \in Groups, NEW e \in S, NEW tx \in BOOLEAN, NEW t \in Nat,
         vd => AllCount /\ (tx <=> e \in T), ~acc.failed,
         NEW given1 \in [Groups -> Seq(S)], AddsTo(given, given1, g, <<e>>),
         NEW s, s = Dispatch(acc, g, e, tx, t, NoError), ~s.failed
  PROVE  AllBlank(s.dflt) /\ Exact(gr0, given1, vd, T, tr, s.groups, s.out)
<1>1. PICK ws0 \in WindowsOver(S), ctx \in ContextOver(S), event \in EventOver(S), r \in Runs(S, 1) :
            /\ ws0 = (IF acc.groups[g] = Absent THEN acc.dflt ELSE acc.groups[g])
            /\ ctx = [ids |-> {e}, tx |-> tx] /\ event = [had |-> TRUE, data |-> <<e>>]
            /\ r = RunWindows(Start(ws0, ctx), 1, t, NoError, event)
            /\ s = Settle(acc, g, r)
  <2>1. HasRun(S, acc, g, e, tx, t, NoError, s)
    BY DispatchRun
  <2> QED BY <2>1 DEF HasRun
<1>2. event.data = <<e>> /\ ctx.ids = {e} /\ ctx.tx = tx
  BY <1>1
<1>3. ToSet(event.data) = {e}
  BY <1>2 DEF ToSet
<1>4. vd => GoodGiven(T, tr, ctx, event)
  BY <1>2, <1>3 DEF GoodGiven
<1>5. vd => \A j \in 1 .. Len(chain) : Good(T, tr, ws0[j])
  <2> SUFFICES ASSUME vd, NEW j \in 1 .. Len(chain) PROVE Good(T, tr, ws0[j])
    OBVIOUS
  <2>1. CASE acc.groups[g] = Absent
    <3>1. Blank(ws0[j])
      BY <1>1, <2>1 DEF AllBlank
    <3> QED BY <3>1, BlankGood
  <2>2. CASE acc.groups[g] # Absent
    <3>1. g \in Known(acc.groups) /\ ws0 = acc.groups[g]
      BY <1>1, <2>2 DEF Known
    <3> QED BY <3>1 DEF Exact, GoodGroups
  <2> QED BY <2>1, <2>2
<1>6. Ran(ws0, 1, event, r) /\ (vd => AllGood(T, tr, r))
  <2>1. vd => /\ 1 = 1 /\ AllCount /\ GoodGiven(T, tr, ctx, event)
              /\ \A j \in 1 .. Len(chain) : Good(T, tr, ws0[j])
    BY <1>4, <1>5
  <2>2. r = RunWindows(Start(ws0, ctx), 1, t, NoError, event)
    BY <1>1
  <2> QED BY <2>1, <2>2, RunExact
<1>7. AddsTo(given, given1, g, event.data)
  BY <1>2
<1>8. ws0 = (IF acc.groups[g] = Absent THEN acc.dflt ELSE acc.groups[g]) /\ s = Settle(acc, g, r)
  BY <1>1
<1> QED BY ZenonT(30), <1>6, <1>7, <1>8, SettleExact

\* The groups of one event, one after the other.
DispatchOf(f, gs, t, tx, err) ==
    /\ f[0] = [groups |-> groups, dflt |-> dflt, out |-> <<>>, failed |-> FALSE]
    /\ \A k \in 1 .. Len(gs) : f[k] = Dispatch(f[k - 1], gs[k], events + 1, tx, t, err)
    /\ Dispatched(gs, t, tx, err) = f[Len(gs)]

WithinBounds(S) == {acc \in Dispatches(S) : Bounded(acc.groups)}

\* The recursive function of Dispatched exists.
LEMMA DispatchExists ==
  ASSUME chain \in Chains, NEW S, S \subseteq Nat, groups \in GroupsOver(S), Bounded(groups),
         dflt \in WindowsOver(S), events + 1 \in S, NEW gs \in Seq(Groups), NEW tx \in BOOLEAN, NEW t \in Nat,
         NEW err
  PROVE  \E f : DispatchOf(f, gs, t, tx, err) /\ \A k \in 0 .. Len(gs) : f[k] \in WithinBounds(S)
<1>0. PICK lo \in Int, n \in Int : lo = 0 /\ n = Len(gs) /\ lo <= n /\ lo + 1 = 1
  <2>1. Len(gs) \in Int /\ 0 <= Len(gs)
    OBVIOUS
  <2> QED BY <2>1
<1> DEFINE start == [groups |-> groups, dflt |-> dflt, out |-> <<>>, failed |-> FALSE]
           Is(f) == f = [k \in 0 .. Len(gs) |->
                            IF k = 0 THEN [groups |-> groups, dflt |-> dflt, out |-> <<>>, failed |-> FALSE]
                            ELSE Dispatch(f[k - 1], gs[k], events + 1, tx, t, err)]
           F == [k \in lo + 1 .. n |-> [acc \in WithinBounds(S) |-> Dispatch(acc, gs[k], events + 1, tx, t, err)]]
<1>1. Len(gs) \in Nat /\ \A k \in 1 .. Len(gs) : gs[k] \in Groups
  BY <1>0
<1>2. start \in WithinBounds(S)
  <2>1. <<>> \in Seq(LabelledOver(S))
    OBVIOUS
  <2>2. PICK o \in Seq(LabelledOver(S)) : o = <<>>
    BY <2>1
  <2>3. [groups |-> groups, dflt |-> dflt, out |-> o, failed |-> FALSE] \in Dispatches(S)
    BY DEF Dispatches
  <2>4. start = [groups |-> groups, dflt |-> dflt, out |-> o, failed |-> FALSE] /\ start.groups = groups
    BY <2>2
  <2> QED BY <2>3, <2>4 DEF WithinBounds
<1>3. F \in [lo + 1 .. n -> [WithinBounds(S) -> WithinBounds(S)]]
  <2>1. ASSUME NEW k \in 1 .. Len(gs), NEW acc \in WithinBounds(S)
        PROVE  Dispatch(acc, gs[k], events + 1, tx, t, err) \in WithinBounds(S)
    <3>1. acc \in Dispatches(S) /\ Bounded(acc.groups) /\ gs[k] \in Groups
      BY <1>1 DEF WithinBounds
    <3>2. PICK s : s = Dispatch(acc, gs[k], events + 1, tx, t, err)
      OBVIOUS
    <3>3. PICK g \in Groups, e \in S : g = gs[k] /\ e = events + 1
      BY <3>1
    <3>4. s = Dispatch(acc, g, e, tx, t, err)
      BY <3>2, <3>3
    <3>5. s \in Dispatches(S) /\ Bounded(s.groups)
      BY ZenonT(60), <3>1, <3>3, <3>4, DispatchTyped
    <3> QED BY <3>2, <3>5 DEF WithinBounds
  <2> QED BY <1>0, <1>1, <2>1
<1>4. PICK g \in [lo .. n -> WithinBounds(S)] : Iterates(g, lo, n, start, F)
  <2> HIDE DEF start, F
  <2> QED BY <1>0, <1>2, <1>3, IteratesExists
<1>5. Is(g)
  <2>1. \A k \in 0 .. Len(gs) : k # 0 => F[k][g[k - 1]] = Dispatch(g[k - 1], gs[k], events + 1, tx, t, err)
    <3> SUFFICES ASSUME NEW k \in 0 .. Len(gs), k # 0
                 PROVE  F[k][g[k - 1]] = Dispatch(g[k - 1], gs[k], events + 1, tx, t, err)
      OBVIOUS
    <3>1. k \in lo + 1 .. n /\ k - 1 \in lo .. n
      BY <1>0, <1>1
    <3>2. g[k - 1] \in WithinBounds(S)
      BY <1>4, <3>1
    <3> QED BY <3>1, <3>2
  <2>2. g = [k \in 0 .. Len(gs) |-> IF k = 0 THEN start ELSE F[k][g[k - 1]]]
    BY <1>0, <1>4 DEF Iterates
  <2> HIDE DEF F, start
  <2>3. g = [k \in 0 .. Len(gs) |-> IF k = 0 THEN start ELSE Dispatch(g[k - 1], gs[k], events + 1, tx, t, err)]
    BY <2>1, <2>2
  <2> QED BY Zenon, <2>3 DEF start
<1>6. PICK f : f = CHOOSE h : Is(h)
  OBVIOUS
<1>7. Is(f)
  <2> HIDE DEF Is
  <2> QED BY Zenon, <1>5, <1>6
<1>8. Dispatched(gs, t, tx, err) = f[Len(gs)]
  BY Zenon, <1>6 DEF Dispatched
<1>9. f[0] = start
  <2>1. 0 \in 0 .. Len(gs)
    BY <1>1
  <2> QED BY <1>7, <2>1
<1>10. \A k \in 1 .. Len(gs) : f[k] = Dispatch(f[k - 1], gs[k], events + 1, tx, t, err)
  <2> SUFFICES ASSUME NEW k \in 1 .. Len(gs) PROVE f[k] = Dispatch(f[k - 1], gs[k], events + 1, tx, t, err)
    OBVIOUS
  <2>1. k \in 0 .. Len(gs) /\ k # 0
    BY <1>1
  <2> QED BY <1>7, <2>1
<1>11. DispatchOf(f, gs, t, tx, err)
  BY <1>8, <1>9, <1>10 DEF DispatchOf
<1> HIDE DEF start, Is, F
<1>12. \A k \in 0 .. Len(gs) : f[k] \in WithinBounds(S)
  <2>1. PICK A : A = [k \in lo .. n |-> WithinBounds(S)]
    OBVIOUS
  <2>2. f[lo] \in A[lo]
    BY <1>0, <1>1, <1>2, <1>9, <2>1
  <2>3. \A k \in lo + 1 .. n : f[k - 1] \in A[k - 1] => f[k] \in A[k]
    <3> SUFFICES ASSUME NEW k \in lo + 1 .. n, f[k - 1] \in A[k - 1] PROVE f[k] \in A[k]
      OBVIOUS
    <3>1. k \in 1 .. Len(gs) /\ k \in lo .. n /\ k - 1 \in lo .. n
      BY <1>0, <1>1
    <3>2. f[k - 1] \in WithinBounds(S)
      BY <2>1, <3>1
    <3>3. PICK h : h = F[k]
      OBVIOUS
    <3>4. h \in [WithinBounds(S) -> WithinBounds(S)]
      BY <1>3, <3>3
    <3>5. h[f[k - 1]] = Dispatch(f[k - 1], gs[k], events + 1, tx, t, err)
      BY <3>1, <3>2, <3>3 DEF F
    <3> QED BY <1>10, <2>1, <3>1, <3>2, <3>4, <3>5
  <2>4. \A k \in lo .. n : f[k] \in A[k]
    BY <1>0, <2>2, <2>3, Inductive
  <2> QED BY <1>0, <2>1, <2>4
<1> QED BY <1>11, <1>12

-----------------------------------------------------------------------------
(* The groups of an event                                                  *)

\* The first k groups of gs are given e.
GivenUpTo(gs, k, e) == [g \in Groups |-> IF \E j \in 1 .. k : gs[j] = g THEN <<e>> ELSE <<>>]

LEMMA GivenTyped ==
  ASSUME NEW S, NEW e \in S, NEW gs, NEW k
  PROVE  GivenUpTo(gs, k, e) \in [Groups -> Seq(S)]
<1>1. <<e>> \in Seq(S) /\ <<>> \in Seq(S)
  OBVIOUS
<1> QED BY <1>1 DEF GivenUpTo

\* One more group is given the event.
LEMMA GivenMore ==
  ASSUME NEW gs \in Seq(Groups), IsInjective(gs), NEW k \in 1 .. Len(gs), NEW e
  PROVE  AddsTo(GivenUpTo(gs, k - 1, e), GivenUpTo(gs, k, e), gs[k], <<e>>)
<1> SUFFICES ASSUME NEW h \in Groups
             PROVE  GivenUpTo(gs, k, e)[h] = GivenUpTo(gs, k - 1, e)[h] \o (IF h = gs[k] THEN <<e>> ELSE <<>>)
  BY DEF AddsTo
<1>0. <<e>> \in Seq({e}) /\ <<>> \in Seq({e})
  OBVIOUS
<1>1. <<>> \o <<e>> = <<e>> /\ <<e>> \o <<>> = <<e>> /\ <<>> \o <<>> = <<>>
  BY <1>0, ConcatEmpty
<1>2. /\ GivenUpTo(gs, k, e)[h] = IF \E j \in 1 .. k : gs[j] = h THEN <<e>> ELSE <<>>
      /\ GivenUpTo(gs, k - 1, e)[h] = IF \E j \in 1 .. k - 1 : gs[j] = h THEN <<e>> ELSE <<>>
  BY DEF GivenUpTo
<1>3. (\E j \in 1 .. k : gs[j] = h) <=> (\E j \in 1 .. k - 1 : gs[j] = h) \/ h = gs[k]
  OBVIOUS
<1>4. h = gs[k] => ~\E j \in 1 .. k - 1 : gs[j] = h
  BY DEF IsInjective
<1>5. CASE h = gs[k]
  BY <1>1, <1>2, <1>3, <1>4, <1>5
<1>6. CASE h # gs[k]
  BY <1>1, <1>2, <1>3, <1>6
<1> QED BY <1>5, <1>6

\* Nothing happened yet.
LEMMA ExactStart ==
  ASSUME chain \in Chains, NEW S, NEW gr \in GroupsOver(S), InUse(gr), NEW vd \in BOOLEAN, NEW T, NEW tr,
         vd => GoodGroups(T, tr, gr), NEW given, \A g \in Groups : given[g] = <<>>
  PROVE  Exact(gr, given, vd, T, tr, gr, <<>>)
<1>1. ASSUME NEW g \in Groups PROVE Passes(gr, gr, <<>>, g, given[g])
  <2> SUFFICES ASSUME NEW i \in 1 .. Len(chain)
               PROVE  OutOf(<<>>, g, i) \o HeldIn(gr, g, i) =
                        HeldIn(gr, g, i) \o (IF i = 1 THEN given[g] ELSE OutOf(<<>>, g, i - 1))
    BY DEF Passes
  <2>1. OutOf(<<>>, g, i) = <<>> /\ OutOf(<<>>, g, i - 1) = <<>>
    BY OutOfEmpty
  <2>2. HeldIn(gr, g, i) \in Seq(S)
    BY HeldTyped
  <2>3. (IF i = 1 THEN given[g] ELSE OutOf(<<>>, g, i - 1)) = <<>>
    BY <2>1
  <2> QED BY <2>1, <2>2, <2>3, ConcatEmpty
<1>2. GoodOut(T, tr, <<>>)
  BY DEF GoodOut
<1> QED BY <1>1, <1>2 DEF Exact

\* The state once the first k groups had the event.
Ready(gr0, gs, k, e, vd, T, tr, acc) ==
    ~acc.failed => AllBlank(acc.dflt) /\ Exact(gr0, GivenUpTo(gs, k, e), vd, T, tr, acc.groups, acc.out)

\* One more group of the event.
LEMMA DispatchNext ==
  ASSUME chain \in Chains, NEW S, S \subseteq Nat, NEW gr0 \in GroupsOver(S), NEW acc \in Dispatches(S),
         NEW gs \in Seq(Groups), IsInjective(gs), NEW k \in 1 .. Len(gs), NEW e \in S, NEW tx \in BOOLEAN,
         NEW t \in Nat, NEW vd \in BOOLEAN, NEW T, NEW tr, vd => AllCount /\ (tx <=> e \in T),
         NEW l, l = k - 1, Ready(gr0, gs, l, e, vd, T, tr, acc),
         NEW s, s = Dispatch(acc, gs[k], e, tx, t, NoError)
  PROVE  Ready(gr0, gs, k, e, vd, T, tr, s)
<1> SUFFICES ASSUME ~s.failed
             PROVE  AllBlank(s.dflt) /\ Exact(gr0, GivenUpTo(gs, k, e), vd, T, tr, s.groups, s.out)
  BY DEF Ready
<1>1. ~acc.failed
  <2> SUFFICES ASSUME acc.failed PROVE FALSE
    OBVIOUS
  <2>1. s = acc
    BY Zenon DEF Dispatch
  <2> QED BY <2>1
<1>2. PICK g \in Groups : g = gs[k]
  OBVIOUS
<1>3. PICK given \in [Groups -> Seq(S)], given1 \in [Groups -> Seq(S)] :
        given = GivenUpTo(gs, l, e) /\ given1 = GivenUpTo(gs, k, e)
  BY GivenTyped
<1>4. AddsTo(given, given1, g, <<e>>)
  BY <1>2, <1>3, GivenMore
<1>5. AllBlank(acc.dflt) /\ Exact(gr0, given, vd, T, tr, acc.groups, acc.out)
  BY <1>1, <1>3 DEF Ready
<1>6. s = Dispatch(acc, g, e, tx, t, NoError)
  BY <1>2
<1>7. AllBlank(s.dflt) /\ Exact(gr0, given1, vd, T, tr, s.groups, s.out)
  BY ZenonT(30), <1>1, <1>4, <1>5, <1>6, DispatchExact
<1> QED BY <1>3, <1>7

\* All the groups of the event.
LEMMA DispatchedExact ==
  ASSUME chain \in Chains, NEW S, S \subseteq Nat, groups \in GroupsOver(S), Bounded(groups),
         dflt \in WindowsOver(S), NEW e \in S, e = events + 1, NEW gs \in Seq(Groups), IsInjective(gs),
         NEW tx \in BOOLEAN, NEW t \in Nat, AllBlank(dflt), InUse(groups), NEW vd \in BOOLEAN, NEW T, NEW tr,
         vd => AllCount /\ (tx <=> e \in T) /\ GoodGroups(T, tr, groups),
         NEW r, r = Dispatched(gs, t, tx, NoError), ~r.failed
  PROVE  AllBlank(r.dflt) /\ Exact(groups, GivenUpTo(gs, Len(gs), e), vd, T, tr, r.groups, r.out)
<1>0. PICK lo \in Int, n \in Int : lo = 0 /\ n = Len(gs) /\ lo <= n /\ lo + 1 = 1
  <2>1. Len(gs) \in Int /\ 0 <= Len(gs)
    OBVIOUS
  <2> QED BY <2>1
<1>1. PICK f : DispatchOf(f, gs, t, tx, NoError) /\ \A k \in 0 .. Len(gs) : f[k] \in WithinBounds(S)
  BY DispatchExists
<1>2. PICK A : A = [k \in lo .. n |-> {acc \in WithinBounds(S) : Ready(groups, gs, k, e, vd, T, tr, acc)}]
  OBVIOUS
<1>3. f[lo] \in A[lo]
  <2>1. f[0].groups = groups /\ f[0].dflt = dflt /\ f[0].out = <<>>
    BY <1>1 DEF DispatchOf
  <2>2. \A g \in Groups : GivenUpTo(gs, 0, e)[g] = <<>>
    BY DEF GivenUpTo
  <2>3. Exact(groups, GivenUpTo(gs, 0, e), vd, T, tr, groups, <<>>)
    BY <2>2, ExactStart
  <2>4. Ready(groups, gs, 0, e, vd, T, tr, f[0])
    BY <2>1, <2>3 DEF Ready
  <2>5. f[0] \in WithinBounds(S)
    BY <1>0, <1>1
  <2> QED BY <1>0, <1>2, <2>4, <2>5
<1>4. \A k \in lo + 1 .. n : f[k - 1] \in A[k - 1] => f[k] \in A[k]
  <2> SUFFICES ASSUME NEW k \in lo + 1 .. n, f[k - 1] \in A[k - 1] PROVE f[k] \in A[k]
    OBVIOUS
  <2>1. k \in 1 .. Len(gs) /\ k \in lo .. n /\ k - 1 \in lo .. n /\ k \in 0 .. Len(gs)
    BY <1>0
  <2>2. f[k] \in WithinBounds(S) /\ f[k] = Dispatch(f[k - 1], gs[k], e, tx, t, NoError)
    BY <1>1, <2>1 DEF DispatchOf
  <2>3. PICK acc \in Dispatches(S) : acc = f[k - 1] /\ Ready(groups, gs, k - 1, e, vd, T, tr, acc)
    BY <1>2, <2>1 DEF WithinBounds
  <2>4. PICK s : s = f[k] /\ s = Dispatch(acc, gs[k], e, tx, t, NoError)
    BY <2>2, <2>3
  <2>5. Ready(groups, gs, k, e, vd, T, tr, s)
    <3>1. vd => AllCount /\ (tx <=> e \in T)
      OBVIOUS
    <3>2. PICK l : l = k - 1
      OBVIOUS
    <3>3. Ready(groups, gs, l, e, vd, T, tr, acc)
      BY <2>3, <3>2
    <3> QED BY ZenonT(60), <2>1, <2>4, <3>1, <3>2, <3>3, DispatchNext
  <2> QED BY <1>2, <2>1, <2>2, <2>4, <2>5
<1>5. \A k \in lo .. n : f[k] \in A[k]
  <2> QED BY <1>0, <1>3, <1>4, Inductive
<1>6. Ready(groups, gs, n, e, vd, T, tr, f[n])
  <2>1. n \in lo .. n
    BY <1>0
  <2> QED BY <1>2, <1>5, <2>1
<1>7. r = f[n]
  BY <1>0, <1>1 DEF DispatchOf
<1> QED BY <1>0, <1>6, <1>7 DEF Ready

-----------------------------------------------------------------------------
(* Ticks                                                                   *)

Ticked(S) == [ws : WindowsOver(S), out : Seq(OutputOver(S)), remove : BOOLEAN, failed : BOOLEAN]

\* The first window gets a new id and a new position.
Touched(ws, here, p) ==
    /\ here = [ws EXCEPT ![1] = [ws[1] EXCEPT !.ids = {}, !.pos = p]]

\* A tick that leaves the windows where they are, and one that closes the first.
TickStays(here, w, failed) == w = [ws |-> here, out |-> <<>>, remove |-> FALSE, failed |-> failed]
TickCloses(here, t, err, w) ==
    w = Closed(here[1], RunWindows(Start(here, [ids |-> {}, tx |-> here[1].tx]), 2, t, err, Absent))

LEMMA TouchedFacts ==
  ASSUME chain \in Chains, NEW S, NEW ws \in WindowsOver(S), NEW p \in Nat, NEW here, Touched(ws, here, p)
  PROVE  /\ here \in WindowsOver(S)
         /\ \A j \in 1 .. Len(chain) : /\ here[j].data = ws[j].data /\ here[j].tx = ws[j].tx
                                       /\ here[j].holds = ws[j].holds
<1>1. 1 \in 1 .. Len(chain) /\ ws[1] \in WindowOver(S) /\ DOMAIN ws = 1 .. Len(chain)
  BY ChainFacts DEF WindowsOver
<1>2. PICK w \in WindowOver(S) : w = ws[1]
  BY <1>1
<1>3. PICK u : u = [w EXCEPT !.ids = {}]
  OBVIOUS
<1>4. u \in WindowOver(S) /\ u.data = w.data /\ u.tx = w.tx /\ u.holds = w.holds
  BY <1>3, ClearedFacts
<1>5. PICK v : v = [u EXCEPT !.pos = p]
  OBVIOUS
<1>6. v \in WindowOver(S) /\ v.data = u.data /\ v.tx = u.tx /\ v.holds = u.holds
  BY <1>4, <1>5, MovedFacts
<1>7. [w EXCEPT !.ids = {}, !.pos = p] = v
  BY <1>3, <1>5 DEF WindowOver
<1>8. here = [ws EXCEPT ![1] = v]
  BY <1>2, <1>7 DEF Touched
<1>9. here \in WindowsOver(S) /\ here[1] = v /\ \A j \in 1 .. Len(chain) : j # 1 => here[j] = ws[j]
  BY <1>1, <1>6, <1>8 DEF WindowsOver
<1> QED BY <1>2, <1>4, <1>6, <1>9

\* What a tick does, by the first window.
TickDone(S, ws, t, err, w) ==
    \E p \in Nat, here \in WindowsOver(S) :
        /\ Touched(ws, here, p)
        /\ \/ ~(here[1].holds /\ err = 1) /\ TickStays(here, w, FALSE)
           \/ here[1].holds /\ err = 1 /\ \E f \in BOOLEAN : TickStays(here, w, f)
           \/ ~(here[1].holds /\ err = 1) /\ chain[1].kind = "time" /\ TickCloses(here, t, err, w)

\* A tick leaves the windows alone or closes the first one.
LEMMA TickIs ==
  ASSUME chain \in Chains, NEW S, NEW ws \in WindowsOver(S), NEW t \in Nat, NEW err,
         NEW w, w = TickWindows(ws, t, err)
  PROVE  TickDone(S, ws, t, err, w)
<1> DEFINE a == IF chain[1].kind = "count" THEN [emit |-> FALSE, pos |-> ws[1].pos]
                ELSE WindowEvent(chain[1], ws[1].pos, t)
           first == [ws[1] EXCEPT !.ids = {}, !.pos = a.pos]
           here == [ws EXCEPT ![1] = first]
           fails == first.holds /\ err = 1
<1>1. w = IF ~a.emit \/ fails
          THEN [ws |-> here, out |-> <<>>, remove |-> FALSE, failed |-> a.emit /\ fails]
          ELSE Closed(first, RunWindows(Start(here, [ids |-> {}, tx |-> first.tx]), 2, t, err, Absent))
  BY Zenon DEF TickWindows
<1>2. a.emit \in BOOLEAN /\ a.pos \in Nat /\ (a.emit => chain[1].kind = "time")
  <2>1. 1 \in 1 .. Len(chain) /\ ws[1].pos \in Nat
    <3>1. 1 \in 1 .. Len(chain)
      BY ChainFacts
    <3>2. ws[1] \in WindowOver(S)
      BY <3>1 DEF WindowsOver
    <3> QED BY <3>1, <3>2, WindowFields
  <2>2. chain[1].kind \in {"count", "time"} /\ chain[1].size \in Nat
    BY <2>1, ChainFacts
  <2>3. CASE chain[1].kind = "count"
    BY <2>1, <2>3
  <2>4. CASE chain[1].kind = "time"
    <3>1. PICK b : b = WindowEvent(chain[1], ws[1].pos, t)
      OBVIOUS
    <3>2. b.pos \in Nat /\ b.emit \in BOOLEAN
      BY <2>1, <2>2, <3>1, WindowEventFacts
    <3> QED BY <2>4, <3>1, <3>2
  <2> QED BY <2>2, <2>3, <2>4
<1>3. PICK p \in Nat, emit \in BOOLEAN : p = a.pos /\ emit = a.emit
  BY <1>2
<1> HIDE DEF a
<1>4. PICK h : h = here
  OBVIOUS
<1>5. Touched(ws, h, p)
  BY Zenon, <1>3, <1>4 DEF Touched
<1>6. h \in WindowsOver(S)
  BY <1>5, TouchedFacts
<1>7. h[1] = first
  <2>1. 1 \in DOMAIN ws
    BY ChainFacts DEF WindowsOver
  <2> QED BY <1>4, <2>1
<1>8. PICK f : f = first
  OBVIOUS
<1>9. fails <=> h[1].holds /\ err = 1
  BY Zenon, <1>7
<1>10. PICK x \in BOOLEAN : x = (a.emit /\ fails)
  BY Zenon
<1> HIDE DEF fails
<1>11. CASE ~a.emit \/ fails
  <2>1. w = [ws |-> h, out |-> <<>>, remove |-> FALSE, failed |-> x]
    BY Zenon, <1>1, <1>4, <1>10, <1>11
  <2>2. TickStays(h, w, x)
    BY <2>1 DEF TickStays
  <2>3. ~fails => x = FALSE
    BY Zenon, <1>10
  <2> QED BY <1>5, <1>6, <1>9, <2>2, <2>3 DEF TickDone
<1>12. CASE ~(~a.emit \/ fails)
  <2>1. w = Closed(first, RunWindows(Start(here, [ids |-> {}, tx |-> first.tx]), 2, t, err, Absent))
    BY Zenon, <1>1, <1>12
  <2>2. TickCloses(h, t, err, w)
    BY Zenon, <1>4, <1>7, <2>1 DEF TickCloses
  <2>3. ~(h[1].holds /\ err = 1) /\ chain[1].kind = "time"
    BY <1>2, <1>9, <1>12
  <2> QED BY <1>5, <1>6, <2>2, <2>3 DEF TickDone
<1> QED BY <1>11, <1>12

\* What the first window emits when a tick closes it.
FirstOut(first) ==
    IF first.holds THEN <<[level |-> 1, data |-> first.data, ids |-> {}, tx |-> first.tx]>> ELSE <<>>

LEMMA FirstOutFacts ==
  ASSUME chain \in Chains, NEW S, S \subseteq Nat, NEW first \in WindowOver(S), NEW o, o = FirstOut(first)
  PROVE  /\ o \in Seq(OutputOver(S)) /\ Level(o, 1) = first.data
         /\ \A j \in 1 .. Len(chain) : j # 1 => Level(o, j) = <<>>
<1>1. first.data \in Seq(S) /\ first.tx \in BOOLEAN /\ (first.holds \/ first.data = <<>>) /\ 1 \in 1 .. Len(chain)
  BY WindowFields, ChainFacts
<1>2. CASE first.holds
  <2>1. PICK x : x = [level |-> 1, data |-> first.data, ids |-> {}, tx |-> first.tx]
    OBVIOUS
  <2>2. x \in OutputOver(S)
    BY <1>1, <2>1 DEF OutputOver
  <2>3. x.level = 1 /\ x.data = first.data
    BY <2>1
  <2>4. o = <<x>>
    BY Zenon, <1>2, <2>1 DEF FirstOut
  <2>5. x \in OutputOver(Nat)
    <3>1. first.data \in Seq(Nat)
      BY <1>1, SequenceOver
    <3> QED BY <1>1, <2>1, <3>1 DEF OutputOver
  <2>6. HasData(OutputOver(S), S)
    BY OutputData
  <2>7. x \in AtLevel(1) /\ \A j \in 1 .. Len(chain) : j # 1 => x \notin AtLevel(j)
    BY <2>3, <2>5 DEF AtLevel
  <2>8. Level(o, 1) = first.data
    BY <2>2, <2>3, <2>4, <2>6, <2>7, DataOne DEF Level
  <2>9. \A j \in 1 .. Len(chain) : j # 1 => Level(o, j) = <<>>
    BY <2>2, <2>4, <2>6, <2>7, DataOne DEF Level
  <2>10. o \in Seq(OutputOver(S))
    BY <2>2, <2>4
  <2> QED BY <2>8, <2>9, <2>10
<1>3. CASE ~first.holds
  <2>1. o = <<>> /\ first.data = <<>>
    BY <1>1, <1>3 DEF FirstOut
  <2>2. <<>> \in Seq(OutputOver(S))
    OBVIOUS
  <2>3. \A j \in 1 .. Len(chain) : Level(o, j) = <<>>
    BY <2>1, LevelEmpty
  <2> QED BY <1>1, <2>1, <2>2, <2>3
<1> QED BY <1>2, <1>3

\* The result of a tick that closed the first window.
ClosedAs(first, r, w) ==
    /\ (w.failed <=> r.failed) /\ (w.remove <=> r.late = {})
    /\ w.out = FirstOut(first) \o r.out
    /\ ~r.failed => Blank(w.ws[1]) /\ \A j \in 1 .. Len(chain) : j # 1 => w.ws[j] = r.ws[j]

\* What closing the first window leaves, part by part.
LEMMA ClosedFacts ==
  ASSUME chain \in Chains, NEW S, S \subseteq Nat, NEW first \in WindowOver(S), NEW r \in Runs(S, 2),
         NEW w, w = Closed(first, r)
  PROVE  w \in Ticked(S) /\ ClosedAs(first, r, w)
<1>1. r.ws \in WindowsOver(S) /\ r.out \in Seq(OutputOver(S)) /\ r.failed \in BOOLEAN
  BY RunFields
<1>2. PICK ws, rm, x :
        /\ ws = (IF r.failed THEN r.ws ELSE [r.ws EXCEPT ![1] = Reset(@)])
        /\ rm = CanRemove(r) /\ x = r.failed
  BY Zenon
<1>3. rm \in BOOLEAN
  BY Zenon, <1>2 DEF CanRemove
<1>4. PICK o : o = FirstOut(first) \o r.out
  OBVIOUS
<1>5. w = [ws |-> ws, out |-> o, remove |-> rm, failed |-> x]
  BY Zenon, <1>2, <1>4 DEF Closed, FirstOut
<1>6. w.ws = ws /\ w.out = o /\ w.remove = rm /\ w.failed = x
  BY <1>5
<1>7. o \in Seq(OutputOver(S))
  <2>1. FirstOut(first) \in Seq(OutputOver(S))
    BY FirstOutFacts
  <2> QED BY <1>1, <1>4, <2>1, ConcatIn
<1>8. /\ ws \in WindowsOver(S)
      /\ ~r.failed => Blank(ws[1]) /\ \A j \in 1 .. Len(chain) : j # 1 => ws[j] = r.ws[j]
  <2>1. 1 \in 1 .. Len(chain) /\ r.ws[1] \in WindowOver(S) /\ DOMAIN r.ws = 1 .. Len(chain)
    BY <1>1, ChainFacts DEF WindowsOver
  <2>2. PICK u : u = Reset(r.ws[1])
    OBVIOUS
  <2>3. u \in WindowOver(S) /\ Blank(u)
    <3>1. PICK v \in WindowOver(S) : v = r.ws[1]
      BY <2>1
    <3>2. u = Reset(v)
      BY <2>2, <3>1
    <3> QED BY <3>2, ResetFacts DEF Blank
  <2>4. ~r.failed => ws = [r.ws EXCEPT ![1] = u]
    BY <1>2, <2>2
  <2>5. CASE r.failed
    BY <1>1, <1>2, <2>5
  <2>6. CASE ~r.failed
    <3>1. ws = [r.ws EXCEPT ![1] = u]
      BY <2>4, <2>6
    <3>2. ws \in WindowsOver(S)
      BY <1>1, <2>1, <2>3, <3>1 DEF WindowsOver
    <3>3. ws[1] = u /\ \A j \in 1 .. Len(chain) : j # 1 => ws[j] = r.ws[j]
      BY <2>1, <3>1
    <3> QED BY <2>3, <3>2, <3>3
  <2> QED BY <2>5, <2>6
<1>9. w \in Ticked(S)
  BY <1>1, <1>2, <1>5, <1>7, <1>8, <1>3 DEF Ticked
<1>10. rm <=> r.late = {}
  BY Zenon, <1>2 DEF CanRemove
<1> QED BY <1>2, <1>4, <1>6, <1>8, <1>9, <1>10 DEF ClosedAs

\* The run of the windows after the first.
LEMMA TickRun ==
  ASSUME chain \in Chains, NEW S, NEW here \in WindowsOver(S), NEW t \in Nat, NEW err, NEW w,
         TickCloses(here, t, err, w)
  PROVE  \E r \in Runs(S, 2), ctx \in ContextOver(S) :
            w = Closed(here[1], r) /\ r = RunWindows(Start(here, ctx), 2, t, err, Absent)
<1>1. here[1] \in WindowOver(S)
  BY ChainFacts DEF WindowsOver
<1>2. PICK ctx \in ContextOver(S) : ctx = [ids |-> {}, tx |-> here[1].tx]
  BY <1>1, WindowFields DEF ContextOver
<1>3. PICK start \in Runs(S, 2) : start = Start(here, ctx)
  <2>1. Start(here, ctx) \in Runs(S, 2)
    BY FullStart
  <2> QED BY <2>1
<1>4. PICK f : RunOf(f, start, 2, t, err, Absent)
  BY RunExists
<1>5. PICK r \in Runs(S, 2) : r = RunWindows(start, 2, t, err, Absent)
  BY <1>4, RunTyped
<1>6. w = Closed(here[1], r)
  BY Zenon, <1>2, <1>3, <1>5 DEF TickCloses
<1> QED BY Zenon, <1>3, <1>5, <1>6

\* A tick leaves windows, whatever fails.
LEMMA TickTyped ==
  ASSUME chain \in Chains, NEW S, S \subseteq Nat, NEW ws \in WindowsOver(S), NEW t \in Nat, NEW err,
         NEW w, w = TickWindows(ws, t, err)
  PROVE  w \in Ticked(S)
<1>1. TickDone(S, ws, t, err, w)
  BY TickIs
<1>2. PICK here \in WindowsOver(S) :
        (\E f \in BOOLEAN : TickStays(here, w, f)) \/ TickCloses(here, t, err, w)
  BY <1>1 DEF TickDone
<1>3. ASSUME NEW f \in BOOLEAN, TickStays(here, w, f) PROVE w \in Ticked(S)
  <2>1. <<>> \in Seq(OutputOver(S))
    OBVIOUS
  <2>2. PICK o \in Seq(OutputOver(S)) : o = <<>>
    BY <2>1
  <2>3. w = [ws |-> here, out |-> o, remove |-> FALSE, failed |-> f]
    BY <1>3, <2>2 DEF TickStays
  <2> QED BY <2>3 DEF Ticked
<1>4. CASE TickCloses(here, t, err, w)
  <2>1. PICK r \in Runs(S, 2) : w = Closed(here[1], r)
    BY <1>4, TickRun
  <2>2. here[1] \in WindowOver(S)
    BY ChainFacts DEF WindowsOver
  <2> QED BY <2>1, <2>2, ClosedFacts
<1> QED BY <1>2, <1>3, <1>4

\* A tick without an error: nothing is lost, a group that goes holds nothing,
\* one that stays holds something if it did; count based windows keep what they hold.
TickKeeps(ws, w) ==
    /\ ~w.failed /\ Handled(ws, w.ws, w.out, <<>>)
    /\ w.remove => AllBlank(w.ws)
    /\ LaterCounts /\ ~w.remove /\ (\E i \in 1 .. Len(chain) : ws[i].holds) =>
          \E i \in 1 .. Len(chain) : w.ws[i].holds
    /\ AllCount => /\ w.out = <<>> /\ ~w.remove
                   /\ \A i \in 1 .. Len(chain) : w.ws[i].data = ws[i].data /\ w.ws[i].tx = ws[i].tx

\* A first window that stays open keeps what it holds.
LEMMA StaysKeeps ==
  ASSUME chain \in Chains, NEW S, NEW ws \in WindowsOver(S), NEW here \in WindowsOver(S),
         \A j \in 1 .. Len(chain) : /\ here[j].data = ws[j].data /\ here[j].tx = ws[j].tx
                                    /\ here[j].holds = ws[j].holds,
         NEW w, TickStays(here, w, FALSE)
  PROVE  TickKeeps(ws, w)
<1>1. w.ws = here /\ w.out = <<>> /\ w.remove = FALSE /\ w.failed = FALSE
  BY DEF TickStays
<1>2. Handled(ws, w.ws, w.out, <<>>)
  <2> SUFFICES ASSUME NEW i \in 1 .. Len(chain)
               PROVE  Level(<<>>, i) \o here[i].data = ws[i].data \o (IF i = 1 THEN <<>> ELSE Level(<<>>, i - 1))
    BY <1>1 DEF Handled
  <2>1. Level(<<>>, i) = <<>> /\ (IF i = 1 THEN <<>> ELSE Level(<<>>, i - 1)) = <<>>
    BY LevelEmpty
  <2>2. ws[i].data \in Seq(S)
    <3>1. ws[i] \in WindowOver(S)
      BY DEF WindowsOver
    <3> QED BY <3>1, WindowFields
  <2> QED BY <2>1, <2>2, ConcatEmpty
<1> QED BY <1>1, <1>2 DEF TickKeeps

\* A first window that is closed hands on what it held.
LEMMA ClosesKeeps ==
  ASSUME chain \in Chains, NEW S, S \subseteq Nat, NEW ws \in WindowsOver(S), NEW here \in WindowsOver(S),
         \A j \in 1 .. Len(chain) : /\ here[j].data = ws[j].data /\ here[j].tx = ws[j].tx
                                    /\ here[j].holds = ws[j].holds,
         chain[1].kind = "time", NEW t \in Nat, NEW w, TickCloses(here, t, NoError, w)
  PROVE  TickKeeps(ws, w)
<1>0. 1 \in 1 .. Len(chain) /\ Len(chain) \in Nat
  BY ChainFacts
<1>1. ~AllCount
  BY <1>0 DEF AllCount
<1>2. PICK r \in Runs(S, 2), ctx \in ContextOver(S) :
        w = Closed(here[1], r) /\ r = RunWindows(Start(here, ctx), 2, t, NoError, Absent)
  BY TickRun
<1>3. Ran(here, 2, Absent, r)
  <2>1. PICK from \in {1, 2}, vd \in BOOLEAN : from = 2 /\ vd = FALSE
    OBVIOUS
  <2>2. PICK event : event = Absent
    OBVIOUS
  <2>3. r = RunWindows(Start(here, ctx), from, t, NoError, event) /\ (from = 1 => event \in EventOver(S))
    BY <1>2, <2>1, <2>2
  <2>4. Ran(here, from, event, r)
    BY <2>1, <2>3, RunExact
  <2> QED BY <2>1, <2>2, <2>4
<1>4. PICK first \in WindowOver(S) : first = here[1]
  BY <1>0 DEF WindowsOver
<1>5. /\ w.failed <=> r.failed
      /\ w.remove <=> r.late = {}
      /\ w.out = FirstOut(first) \o r.out
      /\ ~r.failed => Blank(w.ws[1]) /\ \A j \in 1 .. Len(chain) : j # 1 => w.ws[j] = r.ws[j]
  <2>1. ClosedAs(first, r, w)
    BY <1>2, <1>4, ClosedFacts
  <2> QED BY <2>1 DEF ClosedAs
<1>6. ~r.failed
  BY <1>3 DEF Ran
<1>7. PICK p \in Seq(OutputOver(S)), o \in Seq(OutputOver(S)) :
        /\ p = FirstOut(first) /\ o = r.out /\ Level(p, 1) = first.data
        /\ \A j \in 1 .. Len(chain) : j # 1 => Level(p, j) = <<>>
  BY RunFields, FirstOutFacts
<1>8. w.out = p \o o
  BY <1>5, <1>7
<1>9. \A j \in 1 .. Len(chain) : Level(o, j) \in Seq(S) /\ first.data \in Seq(S) /\ ws[j].data \in Seq(S)
  <2> SUFFICES ASSUME NEW j \in 1 .. Len(chain)
               PROVE  Level(o, j) \in Seq(S) /\ first.data \in Seq(S) /\ ws[j].data \in Seq(S)
    BY <1>0
  <2>1. ws[j] \in WindowOver(S)
    BY DEF WindowsOver
  <2> QED BY <2>1, LevelTyped, WindowFields
<1>10. Level(w.out, 1) = ws[1].data
  <2>1. Level(o, 1) = <<>>
    BY <1>0, <1>3, <1>7 DEF Ran, Alone
  <2>2. Level(w.out, 1) = first.data \o <<>>
    <3>1. Level(p \o o, 1) = Level(p, 1) \o Level(o, 1)
      BY LevelConcat
    <3> QED BY <1>7, <1>8, <2>1, <3>1
  <2> QED BY <1>0, <1>4, <1>9, <2>2, ConcatEmpty
<1>11. \A j \in 1 .. Len(chain) : j # 1 => Level(w.out, j) = Level(o, j)
  <2> SUFFICES ASSUME NEW j \in 1 .. Len(chain), j # 1 PROVE Level(w.out, j) = Level(o, j)
    OBVIOUS
  <2>1. Level(w.out, j) = <<>> \o Level(o, j)
    <3>1. Level(p \o o, j) = Level(p, j) \o Level(o, j)
      BY LevelConcat
    <3> QED BY <1>7, <1>8, <3>1
  <2> QED BY <1>9, <2>1, ConcatEmpty
<1>12. Handled(ws, w.ws, w.out, <<>>)
  <2> SUFFICES ASSUME NEW i \in 1 .. Len(chain)
               PROVE  Level(w.out, i) \o w.ws[i].data = ws[i].data \o (IF i = 1 THEN <<>> ELSE Level(w.out, i - 1))
    BY DEF Handled
  <2>1. CASE i = 1
    <3>1. w.ws[1].data = <<>>
      BY <1>5, <1>6 DEF Blank
    <3> QED BY <1>10, <2>1, <3>1
  <2>2. CASE i # 1
    <3>1. i \in 2 .. Len(chain) /\ i - 1 \in 1 .. Len(chain)
      BY <1>0, <2>2
    <3>2. Level(o, i) \o r.ws[i].data = here[i].data \o GivenTo(here, 2, Absent, o, i)
      BY <1>3, <1>7, <3>1 DEF Ran, Moved
    <3>3. GivenTo(here, 2, Absent, o, i) = Level(w.out, i - 1)
      <4>1. CASE i = 2
        <5>1. GivenTo(here, 2, Absent, o, i) = here[1].data
          BY <4>1 DEF GivenTo, Prev
        <5> QED BY <1>0, <1>10, <4>1, <5>1
      <4>2. CASE i # 2
        <5>1. i - 1 # 1
          BY <3>1, <4>2
        <5> QED BY <1>11, <3>1, <4>2, <5>1 DEF GivenTo
      <4> QED BY <4>1, <4>2
    <3>4. w.ws[i] = r.ws[i] /\ Level(w.out, i) = Level(o, i) /\ here[i].data = ws[i].data
      BY <1>5, <1>6, <1>11, <2>2
    <3> QED BY Zenon, <2>2, <3>2, <3>3, <3>4
  <2> QED BY <2>1, <2>2
<1>13. w.remove => AllBlank(w.ws)
  <2> SUFFICES ASSUME w.remove, NEW i \in 1 .. Len(chain) PROVE Blank(w.ws[i])
    BY DEF AllBlank
  <2>1. CASE i = 1
    BY <1>5, <1>6, <2>1
  <2>2. CASE i # 1
    <3>1. i \in 2 .. Len(chain)
      BY <1>0, <2>2
    <3>2. Blank(r.ws[i])
      BY <1>3, <1>5, <3>1 DEF Ran, Cleared
    <3> QED BY <1>5, <1>6, <2>2, <3>2
  <2> QED BY <2>1, <2>2
<1>14. ASSUME LaterCounts, ~w.remove, NEW i \in 1 .. Len(chain), ws[i].holds
       PROVE  \E j \in 1 .. Len(chain) : w.ws[j].holds
  <2>1. Prev(here, 2, Absent).had \/ \E j \in 2 .. Len(chain) : here[j].holds
    <3>1. CASE i = 1
      BY <1>14, <3>1 DEF Prev
    <3>2. CASE i # 1
      BY <1>0, <1>14, <3>2
    <3> QED BY <3>1, <3>2
  <2>2. PICK j \in 2 .. Len(chain) : r.ws[j].holds
    BY <1>3, <1>5, <1>14, <2>1 DEF Ran, Kept
  <2>3. j \in 1 .. Len(chain) /\ j # 1
    BY <1>0
  <2> QED BY <1>5, <1>6, <2>2, <2>3
<1> QED BY <1>1, <1>5, <1>6, <1>12, <1>13, <1>14 DEF TickKeeps

\* What a tick does to one group that is in use.
LEMMA TickExact ==
  ASSUME chain \in Chains, NEW S, S \subseteq Nat, NEW ws \in WindowsOver(S), NEW t \in Nat,
         NEW w, w = TickWindows(ws, t, NoError)
  PROVE  TickKeeps(ws, w)
<1>1. TickDone(S, ws, t, NoError, w)
  BY TickIs
<1>2. NoError # 1
  BY DEF NoError
<1>3. PICK p \in Nat, here \in WindowsOver(S) :
        /\ Touched(ws, here, p)
        /\ TickStays(here, w, FALSE) \/ (chain[1].kind = "time" /\ TickCloses(here, t, NoError, w))
  BY <1>1, <1>2 DEF TickDone
<1>4. \A j \in 1 .. Len(chain) : /\ here[j].data = ws[j].data /\ here[j].tx = ws[j].tx
                                 /\ here[j].holds = ws[j].holds
  BY <1>3, TouchedFacts
<1>5. CASE TickStays(here, w, FALSE)
  BY <1>4, <1>5, StaysKeeps
<1>6. CASE chain[1].kind = "time" /\ TickCloses(here, t, NoError, w)
  BY <1>4, <1>6, ClosesKeeps
<1> QED BY <1>3, <1>5, <1>6

-----------------------------------------------------------------------------
(* The groups of a tick                                                    *)

Visits(S) ==
    [groups : GroupsOver(S), out : Seq(LabelledOver(S)), gone : SUBSET Groups, failed : BOOLEAN]

\* A tick visits the groups that are known and leaves them in the map.
Visiting(S) == {acc \in Visits(S) : Bounded(acc.groups) /\ Known(acc.groups) = Known(groups)}

\* The groups once those in gone are removed.
Without(gr, gone) == [g \in Groups |-> IF g \in gone THEN Absent ELSE gr[g]]

\* Removing groups keeps the map within max_groups.
LEMMA WithoutFacts ==
  ASSUME chain \in Chains, NEW S, NEW gr \in GroupsOver(S), Bounded(gr), NEW gone
  PROVE  Without(gr, gone) \in GroupsOver(S) /\ Bounded(Without(gr, gone))
<1>1. PICK hr : hr = Without(gr, gone)
  OBVIOUS
<1>2. hr \in GroupsOver(S)
  BY <1>1 DEF Without, GroupsOver
<1>3. Known(hr) \subseteq Known(gr)
  BY <1>1 DEF Without, Known
<1>4. IsFiniteSet(Known(gr)) /\ Cardinality(Known(gr)) <= MaxGroups /\ MaxGroups \in Nat
      /\ Cardinality(Known(gr)) \in Nat
  BY MaxGroupsIs, FS_CardinalityType DEF Bounded
<1>5. IsFiniteSet(Known(hr)) /\ Cardinality(Known(hr)) <= Cardinality(Known(gr))
  BY <1>3, <1>4, FS_Subset
<1>6. Cardinality(Known(hr)) \in Nat
  BY <1>5, FS_CardinalityType
<1>7. Bounded(hr)
  BY <1>4, <1>5, <1>6 DEF Bounded
<1> QED BY <1>1, <1>2, <1>7

\* The parts of what a visit leaves.
VisitedAs(acc, g, r, s) ==
    /\ s.groups = [acc.groups EXCEPT ![g] = r.ws] /\ s.out = acc.out \o Labelled(g, r.out)
    /\ s.gone = (IF r.remove THEN acc.gone \union {g} ELSE acc.gone) /\ s.failed = r.failed

LEMMA VisitedFacts ==
  ASSUME chain \in Chains, NEW S, S \subseteq Nat, NEW acc \in Visiting(S), NEW g \in Known(groups),
         NEW r \in Ticked(S), NEW s, s = Visited(acc, g, r)
  PROVE  s \in Visiting(S) /\ VisitedAs(acc, g, r, s)
<1>1. acc.groups \in GroupsOver(S) /\ acc.out \in Seq(LabelledOver(S)) /\ acc.gone \in SUBSET Groups
      /\ Bounded(acc.groups) /\ Known(acc.groups) = Known(groups) /\ g \in Groups
  BY DEF Visiting, Visits, Known
<1>2. r.ws \in WindowsOver(S) /\ r.out \in Seq(OutputOver(S)) /\ r.failed \in BOOLEAN
  BY DEF Ticked
<1>3. PICK hr, o, gn, x : /\ hr = [acc.groups EXCEPT ![g] = r.ws] /\ o = acc.out \o Labelled(g, r.out)
                          /\ gn = (IF r.remove THEN acc.gone \union {g} ELSE acc.gone) /\ x = r.failed
  OBVIOUS
<1>4. s = [groups |-> hr, out |-> o, gone |-> gn, failed |-> x]
  BY Zenon, <1>3 DEF Visited
<1>5. s.groups = hr /\ s.out = o /\ s.gone = gn /\ s.failed = x
  BY <1>4
<1>6. VisitedAs(acc, g, r, s)
  BY Zenon, <1>3, <1>5 DEF VisitedAs
<1>7. hr \in GroupsOver(S)
  BY <1>1, <1>2, <1>3 DEF GroupsOver
<1>8. o \in Seq(LabelledOver(S))
  <2>1. Labelled(g, r.out) \in Seq(LabelledOver(S))
    BY <1>1, <1>2, LabelledFacts
  <2> QED BY <1>1, <1>3, <2>1, ConcatIn
<1>9. gn \in SUBSET Groups
  BY <1>1, <1>3
<1>10. DOMAIN acc.groups = Groups /\ acc.groups[g] # Absent /\ r.ws # Absent
  <2>1. r.ws # Absent
    BY <1>2, AbsentFacts
  <2>2. g \in Known(acc.groups)
    BY <1>1
  <2>3. acc.groups[g] # Absent
    BY <2>2 DEF Known
  <2> QED BY <1>1, <2>1, <2>3 DEF GroupsOver
<1>11. Bounded(hr)
  <2>1. PICK v : v = r.ws
    OBVIOUS
  <2> QED BY <1>1, <1>3, <1>10, <2>1, BoundedWith
<1>12. Known(hr) = Known(acc.groups)
  BY <1>1, <1>3, <1>10 DEF Known
<1>13. s \in Visits(S)
  BY <1>2, <1>3, <1>4, <1>7, <1>8, <1>9 DEF Visits
<1> QED BY <1>1, <1>5, <1>6, <1>11, <1>12, <1>13 DEF Visiting

LEMMA KnownWindows ==
  ASSUME NEW S, groups \in GroupsOver(S), NEW g \in Known(groups)
  PROVE  groups[g] \in WindowsOver(S) /\ g \in Groups
BY DEF Known, GroupsOver

\* One known group of a tick, whatever fails.
LEMMA VisitTyped ==
  ASSUME chain \in Chains, NEW S, S \subseteq Nat, groups \in GroupsOver(S), NEW acc \in Visiting(S),
         NEW g \in Known(groups), NEW t \in Nat, NEW err
  PROVE  Visit(acc, g, t, err) \in Visiting(S)
<1>1. CASE acc.failed
  <2>1. Visit(acc, g, t, err) = acc
    BY Zenon, <1>1 DEF Visit
  <2> QED BY <2>1
<1>2. CASE ~acc.failed
  <2>1. PICK ws \in WindowsOver(S) : ws = groups[g]
    BY KnownWindows
  <2>2. PICK r \in Ticked(S) : r = TickWindows(ws, t, err)
    BY TickTyped
  <2>3. PICK s : s = Visited(acc, g, r)
    OBVIOUS
  <2>4. s \in Visiting(S)
    BY <2>3, VisitedFacts
  <2>5. Visit(acc, g, t, err) = s
    BY Zenon, <1>2, <2>1, <2>2, <2>3 DEF Visit
  <2> QED BY <2>4, <2>5
<1> QED BY <1>1, <1>2

Nothing == [g \in Groups |-> <<>>]

\* A group is visited, and goes or stays.
LEMMA VisitExact ==
  ASSUME chain \in Chains, NEW S, S \subseteq Nat, groups \in GroupsOver(S), InUse(groups), NEW acc \in Visiting(S),
         NEW vd \in BOOLEAN, NEW T, NEW tr, ~tr, vd => AllCount /\ GoodGroups(T, tr, groups),
         Exact(groups, Nothing, vd, T, tr, Without(acc.groups, acc.gone), acc.out),
         NEW g \in Known(groups), acc.groups[g] = groups[g], g \notin acc.gone,
         NEW t \in Nat, ~acc.failed, NEW s, s = Visit(acc, g, t, NoError)
  PROVE  ~s.failed /\ Exact(groups, Nothing, vd, T, tr, Without(s.groups, s.gone), s.out)
<1>1. PICK ws \in WindowsOver(S) : ws = groups[g] /\ g \in Groups
  BY KnownWindows
<1>2. PICK r \in Ticked(S) : r = TickWindows(ws, t, NoError)
  BY TickTyped
<1>3. TickKeeps(ws, r)
  BY <1>2, TickExact
<1>4. s = Visited(acc, g, r)
  BY Zenon, <1>1, <1>2 DEF Visit
<1>5. VisitedAs(acc, g, r, s) /\ s \in Visiting(S)
  BY <1>4, VisitedFacts
<1>6. ~s.failed
  BY <1>3, <1>5 DEF TickKeeps, VisitedAs
<1>7. acc.groups \in GroupsOver(S) /\ s.groups \in GroupsOver(S) /\ Bounded(acc.groups) /\ Bounded(s.groups)
      /\ acc.out \in Seq(LabelledOver(S))
  BY <1>5 DEF Visiting, Visits
<1>8. PICK gr \in GroupsOver(S), hr \in GroupsOver(S) :
        gr = Without(acc.groups, acc.gone) /\ hr = Without(s.groups, s.gone)
  BY <1>7, WithoutFacts
<1>9. PICK p \in Seq(OutputOver(S)), ws1 \in WindowsOver(S), o \in Seq(LabelledOver(S)) :
        p = r.out /\ ws1 = r.ws /\ o = acc.out
  BY <1>7 DEF Ticked
<1>10. PICK d \in Seq(S) : d = <<>>
  <2>1. <<>> \in Seq(S)
    OBVIOUS
  <2> QED BY <2>1
<1>11. gr[g] = ws
  BY <1>1, <1>8 DEF Without
<1>12. hr[g] = IF r.remove THEN Absent ELSE ws1
  <2>1. s.groups[g] = ws1
    BY <1>1, <1>5, <1>7, <1>9 DEF VisitedAs, GroupsOver
  <2>2. g \in s.gone <=> r.remove
    BY <1>5 DEF VisitedAs
  <2> QED BY <1>1, <1>8, <2>1, <2>2 DEF Without
<1>13. \A h \in Groups : h # g => hr[h] = gr[h]
  <2> SUFFICES ASSUME NEW h \in Groups, h # g PROVE hr[h] = gr[h]
    OBVIOUS
  <2>1. s.groups[h] = acc.groups[h]
    BY <1>5, <1>7 DEF VisitedAs, GroupsOver
  <2>2. h \in s.gone <=> h \in acc.gone
    BY <1>5 DEF VisitedAs
  <2> QED BY <1>8, <2>1, <2>2 DEF Without
<1>14. HoldsAs(gr[g], ws) /\ HoldsAs(hr[g], ws1)
  <2>1. HoldsAs(ws, ws) /\ HoldsAs(ws1, ws1)
    BY HoldsItself
  <2>2. r.remove => HoldsAs(Absent, ws1)
    BY <1>3, <1>9, HoldsNothing DEF TickKeeps
  <2> QED BY <1>11, <1>12, <2>1, <2>2
<1>15. Handled(ws, ws1, p, d)
  BY <1>3, <1>9, <1>10 DEF TickKeeps
<1>16. InOrder(hr[g], p, vd, T, tr)
  <2>1. ASSUME LaterCounts, hr[g] # Absent PROVE \E i \in 1 .. Len(chain) : hr[g][i].holds
    <3>1. ~r.remove /\ hr[g] = ws1
      BY <1>12, <2>1
    <3>2. \E i \in 1 .. Len(chain) : ws[i].holds
      BY <1>1, <2>1 DEF InUse
    <3> QED BY <1>3, <1>9, <2>1, <3>1, <3>2 DEF TickKeeps
  <2>2. ASSUME vd PROVE GoodOut(T, tr, p)
    <3>1. p = <<>>
      BY <1>3, <1>9, <2>2 DEF TickKeeps
    <3> QED BY <3>1 DEF GoodOut
  <2>3. ASSUME vd, hr[g] # Absent, NEW i \in 1 .. Len(chain) PROVE Good(T, tr, hr[g][i])
    <3>1. hr[g] = ws1 /\ ws1[i].data = ws[i].data /\ ws1[i].tx = ws[i].tx
      BY <1>3, <1>9, <1>12, <2>3 DEF TickKeeps
    <3>2. Good(T, tr, ws[i])
      BY <1>1, <2>3 DEF GoodGroups
    <3> QED BY <3>1, <3>2 DEF Good
  <2> QED BY <2>1, <2>2, <2>3 DEF InOrder
<1>17. Turns(gr, hr, g, d, p, vd, T, tr)
  BY <1>13, <1>14, <1>15, <1>16 DEF Turns
<1>18. AddsTo(Nothing, Nothing, g, d)
  <2>1. <<>> \o <<>> = <<>>
    OBVIOUS
  <2>2. \A h \in Groups : Nothing[h] = <<>> /\ (IF h = g THEN d ELSE <<>>) = <<>>
    BY <1>10 DEF Nothing
  <2> QED BY <2>1, <2>2 DEF AddsTo
<1>19. s.out = o \o Labelled(g, p)
  BY <1>5, <1>9 DEF VisitedAs
<1>20. Exact(groups, Nothing, vd, T, tr, hr, s.out)
  <2>1. Exact(groups, Nothing, vd, T, tr, gr, o)
    BY <1>8, <1>9
  <2>2. Exact(groups, Nothing, vd, T, tr, hr, o \o Labelled(g, p))
    <3>1. TypedFor(S, groups, gr, hr, o, p, Nothing, Nothing, g, d, vd)
      <4>1. Nothing \in [Groups -> Seq(S)]
        BY <1>10 DEF Nothing
      <4> QED BY Zenon, <1>1, <4>1 DEF TypedFor
    <3> QED BY <1>17, <1>18, <2>1, <3>1, ExactMoreTyped
  <2> QED BY <1>19, <2>2
<1> QED BY <1>6, <1>8, <1>20

\* The known groups, one after the other.
TickOf(f, t, order, bad, err) ==
    /\ f[0] = [groups |-> groups, out |-> <<>>, gone |-> {}, failed |-> FALSE]
    /\ \A k \in 1 .. Len(order) : f[k] = Visit(f[k - 1], order[k], t, IF order[k] = bad THEN err ELSE NoError)
    /\ TickGroups(t, order, bad, err) = f[Len(order)]

LEMMA TickStart ==
  ASSUME NEW S, groups \in GroupsOver(S), Bounded(groups)
  PROVE  [groups |-> groups, out |-> <<>>, gone |-> {}, failed |-> FALSE] \in Visiting(S)
<1>1. <<>> \in Seq(LabelledOver(S))
  OBVIOUS
<1>2. PICK o \in Seq(LabelledOver(S)) : o = <<>>
  BY <1>1
<1>3. PICK gn \in SUBSET Groups : gn = {}
  OBVIOUS
<1>4. PICK a : a = [groups |-> groups, out |-> o, gone |-> gn, failed |-> FALSE]
  OBVIOUS
<1>5. a \in Visits(S) /\ a.groups = groups
  BY <1>4 DEF Visits
<1>6. a = [groups |-> groups, out |-> <<>>, gone |-> {}, failed |-> FALSE]
  BY Zenon, <1>2, <1>3, <1>4
<1> QED BY <1>5, <1>6 DEF Visiting

\* The recursive function of TickGroups exists.
LEMMA TickExists ==
  ASSUME chain \in Chains, NEW S, S \subseteq Nat, groups \in GroupsOver(S), Bounded(groups),
         NEW order \in Seq(Known(groups)), NEW t \in Nat, NEW bad, NEW err
  PROVE  \E f : TickOf(f, t, order, bad, err) /\ \A k \in 0 .. Len(order) : f[k] \in Visiting(S)
<1>0. PICK lo \in Int, n \in Int : lo = 0 /\ n = Len(order) /\ lo <= n /\ lo + 1 = 1
  <2>1. Len(order) \in Int /\ 0 <= Len(order)
    OBVIOUS
  <2> QED BY <2>1
<1> DEFINE start == [groups |-> groups, out |-> <<>>, gone |-> {}, failed |-> FALSE]
           Is(f) == f = [k \in 0 .. Len(order) |->
                            IF k = 0 THEN [groups |-> groups, out |-> <<>>, gone |-> {}, failed |-> FALSE]
                            ELSE Visit(f[k - 1], order[k], t, IF order[k] = bad THEN err ELSE NoError)]
           F == [k \in lo + 1 .. n |-> [acc \in Visiting(S) |->
                    Visit(acc, order[k], t, IF order[k] = bad THEN err ELSE NoError)]]
<1>1. Len(order) \in Nat /\ \A k \in 1 .. Len(order) : order[k] \in Known(groups)
  OBVIOUS
<1>2. start \in Visiting(S)
  BY TickStart
<1>3. F \in [lo + 1 .. n -> [Visiting(S) -> Visiting(S)]]
  <2>1. ASSUME NEW k \in 1 .. Len(order), NEW acc \in Visiting(S)
        PROVE  Visit(acc, order[k], t, IF order[k] = bad THEN err ELSE NoError) \in Visiting(S)
    <3>1. PICK g \in Known(groups) : g = order[k]
      BY <1>1
    <3>2. PICK er : er = IF order[k] = bad THEN err ELSE NoError
      OBVIOUS
    <3>3. Visit(acc, g, t, er) \in Visiting(S)
      BY VisitTyped
    <3> QED BY <3>1, <3>2, <3>3
  <2> QED BY <1>0, <1>1, <2>1
<1>4. PICK g \in [lo .. n -> Visiting(S)] : Iterates(g, lo, n, start, F)
  <2> HIDE DEF start, F
  <2> QED BY <1>0, <1>2, <1>3, IteratesExists
<1>5. Is(g)
  <2>1. \A k \in 0 .. Len(order) : k # 0 => F[k][g[k - 1]] = Visit(g[k - 1], order[k], t, IF order[k] = bad THEN err ELSE NoError)
    <3> SUFFICES ASSUME NEW k \in 0 .. Len(order), k # 0
                 PROVE  F[k][g[k - 1]] = Visit(g[k - 1], order[k], t, IF order[k] = bad THEN err ELSE NoError)
      OBVIOUS
    <3>1. k \in lo + 1 .. n /\ k - 1 \in lo .. n
      BY <1>0, <1>1
    <3>2. g[k - 1] \in Visiting(S)
      BY <1>4, <3>1
    <3> QED BY <3>1, <3>2
  <2>2. g = [k \in 0 .. Len(order) |-> IF k = 0 THEN start ELSE F[k][g[k - 1]]]
    BY <1>0, <1>4 DEF Iterates
  <2> HIDE DEF F, start
  <2>3. g = [k \in 0 .. Len(order) |-> IF k = 0 THEN start
                ELSE Visit(g[k - 1], order[k], t, IF order[k] = bad THEN err ELSE NoError)]
    BY <2>1, <2>2
  <2> QED BY Zenon, <2>3 DEF start
<1>6. PICK f : f = CHOOSE h : Is(h)
  OBVIOUS
<1>7. Is(f)
  <2> HIDE DEF Is
  <2> QED BY Zenon, <1>5, <1>6
<1>8. TickGroups(t, order, bad, err) = f[Len(order)]
  BY Zenon, <1>6 DEF TickGroups
<1>9. f[0] = start
  <2>1. 0 \in 0 .. Len(order)
    BY <1>1
  <2> QED BY <1>7, <2>1
<1>10. \A k \in 1 .. Len(order) : f[k] = Visit(f[k - 1], order[k], t, IF order[k] = bad THEN err ELSE NoError)
  <2> SUFFICES ASSUME NEW k \in 1 .. Len(order)
               PROVE f[k] = Visit(f[k - 1], order[k], t, IF order[k] = bad THEN err ELSE NoError)
    OBVIOUS
  <2>1. k \in 0 .. Len(order) /\ k # 0
    BY <1>1
  <2> QED BY <1>7, <2>1
<1>11. TickOf(f, t, order, bad, err)
  BY <1>8, <1>9, <1>10 DEF TickOf
<1> HIDE DEF start, Is, F
<1>12. \A k \in 0 .. Len(order) : f[k] \in Visiting(S)
  <2>1. PICK A : A = [k \in lo .. n |-> Visiting(S)]
    OBVIOUS
  <2>2. f[lo] \in A[lo]
    BY <1>0, <1>1, <1>2, <1>9, <2>1
  <2>3. \A k \in lo + 1 .. n : f[k - 1] \in A[k - 1] => f[k] \in A[k]
    <3> SUFFICES ASSUME NEW k \in lo + 1 .. n, f[k - 1] \in A[k - 1] PROVE f[k] \in A[k]
      OBVIOUS
    <3>1. k \in 1 .. Len(order) /\ k \in lo .. n /\ k - 1 \in lo .. n
      BY <1>0, <1>1
    <3>2. f[k - 1] \in Visiting(S)
      BY <2>1, <3>1
    <3>3. PICK h : h = F[k]
      OBVIOUS
    <3>4. h \in [Visiting(S) -> Visiting(S)]
      BY <1>3, <3>3
    <3>5. h[f[k - 1]] = Visit(f[k - 1], order[k], t, IF order[k] = bad THEN err ELSE NoError)
      BY <3>1, <3>2, <3>3 DEF F
    <3> QED BY <1>10, <2>1, <3>1, <3>2, <3>4, <3>5
  <2>4. \A k \in lo .. n : f[k] \in A[k]
    BY <1>0, <2>2, <2>3, Inductive
  <2> QED BY <1>0, <2>1, <2>4
<1> QED BY <1>11, <1>12

\* The state once the first k groups were visited.
Halfway(order, k, vd, T, tr, acc) ==
    /\ ~acc.failed
    /\ Exact(groups, Nothing, vd, T, tr, Without(acc.groups, acc.gone), acc.out)
    /\ \A j \in k + 1 .. Len(order) : acc.groups[order[j]] = groups[order[j]] /\ order[j] \notin acc.gone

\* All known groups of a tick, in any order.
LEMMA TickGroupsExact ==
  ASSUME chain \in Chains, NEW S, S \subseteq Nat, groups \in GroupsOver(S), Bounded(groups), InUse(groups),
         NEW order \in Seq(Known(groups)), IsInjective(order), NEW t \in Nat, NEW bad,
         NEW vd \in BOOLEAN, NEW T, NEW tr, ~tr, vd => AllCount /\ GoodGroups(T, tr, groups),
         NEW r, r = TickGroups(t, order, bad, NoError)
  PROVE  Exact(groups, Nothing, vd, T, tr, Without(r.groups, r.gone), r.out)
<1>0. PICK lo \in Int, n \in Int : lo = 0 /\ n = Len(order) /\ lo <= n /\ lo + 1 = 1
  <2>1. Len(order) \in Int /\ 0 <= Len(order)
    OBVIOUS
  <2> QED BY <2>1
<1>1. PICK f : TickOf(f, t, order, bad, NoError) /\ \A k \in 0 .. Len(order) : f[k] \in Visiting(S)
  BY TickExists
<1>2. PICK A : A = [k \in lo .. n |-> {acc \in Visiting(S) : Halfway(order, k, vd, T, tr, acc)}]
  OBVIOUS
<1>3. f[lo] \in A[lo]
  <2>1. f[0].groups = groups /\ f[0].gone = {} /\ f[0].out = <<>> /\ f[0].failed = FALSE
    BY <1>1 DEF TickOf
  <2>2. Without(groups, {}) = groups
    BY DEF Without, GroupsOver
  <2>3. Exact(groups, Nothing, vd, T, tr, groups, <<>>)
    <3>1. \A g \in Groups : Nothing[g] = <<>>
      BY DEF Nothing
    <3> QED BY <3>1, ExactStart
  <2>4. Halfway(order, 0, vd, T, tr, f[0])
    BY <2>1, <2>2, <2>3 DEF Halfway
  <2>5. f[0] \in Visiting(S)
    BY <1>0, <1>1
  <2> QED BY <1>0, <1>2, <2>4, <2>5
<1>4. \A k \in lo + 1 .. n : f[k - 1] \in A[k - 1] => f[k] \in A[k]
  <2> SUFFICES ASSUME NEW k \in lo + 1 .. n, f[k - 1] \in A[k - 1] PROVE f[k] \in A[k]
    OBVIOUS
  <2>1. k \in 1 .. Len(order) /\ k \in lo .. n /\ k - 1 \in lo .. n /\ k \in 0 .. Len(order)
    BY <1>0
  <2>2. PICK acc \in Visiting(S) : acc = f[k - 1] /\ Halfway(order, k - 1, vd, T, tr, acc)
    BY <1>2, <2>1
  <2>3. PICK g \in Known(groups) : g = order[k]
    BY <2>1
  <2>4. PICK s \in Visiting(S) : s = f[k] /\ s = Visit(acc, g, t, NoError)
    <3>1. f[k] \in Visiting(S) /\ f[k] = Visit(f[k - 1], order[k], t, IF order[k] = bad THEN NoError ELSE NoError)
      BY <1>1, <2>1 DEF TickOf
    <3> QED BY <2>2, <2>3, <3>1
  <2>5. ~acc.failed /\ acc.groups[g] = groups[g] /\ g \notin acc.gone
        /\ Exact(groups, Nothing, vd, T, tr, Without(acc.groups, acc.gone), acc.out)
    <3>1. k \in (k - 1) + 1 .. Len(order)
      BY <2>1
    <3> QED BY <2>2, <2>3, <3>1 DEF Halfway
  <2>6. ~s.failed /\ Exact(groups, Nothing, vd, T, tr, Without(s.groups, s.gone), s.out)
    BY <2>4, <2>5, VisitExact
  <2>7. \A j \in k + 1 .. Len(order) : s.groups[order[j]] = groups[order[j]] /\ order[j] \notin s.gone
    <3> SUFFICES ASSUME NEW j \in k + 1 .. Len(order)
                 PROVE  s.groups[order[j]] = groups[order[j]] /\ order[j] \notin s.gone
      OBVIOUS
    <3>1. j \in (k - 1) + 1 .. Len(order) /\ j \in 1 .. Len(order) /\ j # k
      BY <2>1
    <3>2. acc.groups[order[j]] = groups[order[j]] /\ order[j] \notin acc.gone
      BY <2>2, <3>1 DEF Halfway
    <3>3. order[j] # g
      BY <2>1, <2>3, <3>1 DEF IsInjective
    <3>4. PICK ws \in WindowsOver(S) : ws = groups[g]
      BY KnownWindows
    <3>5. PICK r0 \in Ticked(S) : r0 = TickWindows(ws, t, NoError)
      BY TickTyped
    <3>6. s = Visited(acc, g, r0)
      BY Zenon, <2>4, <2>5, <3>4, <3>5 DEF Visit
    <3>7. VisitedAs(acc, g, r0, s)
      BY <3>6, VisitedFacts
    <3>8. s.groups[order[j]] = acc.groups[order[j]]
      BY <3>3, <3>7 DEF VisitedAs, Visiting, Visits, GroupsOver
    <3>9. order[j] \notin s.gone
      BY <3>2, <3>3, <3>7 DEF VisitedAs
    <3> QED BY <3>2, <3>8, <3>9
  <2>8. Halfway(order, k, vd, T, tr, s)
    BY <2>6, <2>7 DEF Halfway
  <2> QED BY <1>2, <2>1, <2>4, <2>8
<1>5. \A k \in lo .. n : f[k] \in A[k]
  BY <1>0, <1>3, <1>4, Inductive
<1>6. Halfway(order, n, vd, T, tr, f[n])
  <2>1. n \in lo .. n
    BY <1>0
  <2> QED BY <1>2, <1>5, <2>1
<1>7. r = f[n]
  BY <1>0, <1>1 DEF TickOf
<1> QED BY <1>6, <1>7 DEF Halfway

-----------------------------------------------------------------------------
(* The inductive invariant                                                 *)

NoGroups == [g \in Groups |-> Absent]

\* The data are the events so far, and without an error what the windows hold
\* and emitted is what the groups were given.
SelectTyped ==
    /\ chain \in Chains /\ events \in 0 .. MaxEvents /\ ticks \in 0 .. MaxTicks /\ errors \in 0 .. MaxErrors
    /\ groups \in GroupsOver(1 .. events) /\ dflt \in WindowsOver(1 .. events)
    /\ out \in Seq(LabelledOver(1 .. events))
    /\ recorded \in [Groups -> Seq(1 .. events)] /\ txs \subseteq 1 .. events
    /\ Bounded(groups)
SelectExact ==
    errors = 0 => AllBlank(dflt) /\ Exact(NoGroups, recorded, AllCount, txs, ticks = 0, groups, out)
SelectInv == SelectTyped /\ SelectExact

\* y is x and z, group by group; T and T1 agree on S.
Joins(x, z, y) == \A g \in Groups : y[g] = x[g] \o z[g]
Agree(S, T, T1) == \A e \in S : e \in T <=> e \in T1

\* One part of the history after another.
TypedTwice(S, a, b, c, o, p, x, y) ==
    /\ a \in GroupsOver(S) /\ b \in GroupsOver(S) /\ c \in GroupsOver(S)
    /\ o \in Seq(LabelledOver(S)) /\ p \in Seq(LabelledOver(S))
    /\ x \in [Groups -> Seq(S)] /\ y \in [Groups -> Seq(S)]

\* From a to b and on to c.
LEMMA ExactTwice ==
  ASSUME chain \in Chains, NEW S, NEW a, NEW b, NEW c, NEW o, NEW p, NEW x, NEW y,
         TypedTwice(S, a, b, c, o, p, x, y), NEW vd \in BOOLEAN, NEW T, NEW tr,
         Exact(a, x, vd, T, tr, b, o), Exact(b, y, vd, T, tr, c, p),
         NEW z, Joins(x, y, z)
  PROVE  Exact(a, z, vd, T, tr, c, o \o p)
<1>0. /\ a \in GroupsOver(S) /\ b \in GroupsOver(S) /\ c \in GroupsOver(S)
      /\ o \in Seq(LabelledOver(S)) /\ p \in Seq(LabelledOver(S))
      /\ x \in [Groups -> Seq(S)] /\ y \in [Groups -> Seq(S)]
  BY Zenon DEF TypedTwice
<1>1. ASSUME NEW g \in Groups PROVE Passes(a, c, o \o p, g, z[g])
  <2>1. Passes(a, b, o, g, x[g]) /\ Passes(b, c, p, g, y[g])
    BY DEF Exact
  <2>2. PICK d \in Seq(S), e \in Seq(S) : d = x[g] /\ e = y[g]
    BY <1>0
  <2>3. Passes(a, c, o \o p, g, d \o e)
    BY <1>0, <2>1, <2>2, PassesTwice
  <2>4. z[g] = d \o e
    BY <2>2 DEF Joins
  <2> QED BY <2>3, <2>4
<1>2. InUse(c)
  BY DEF Exact
<1>3. vd => GoodGroups(T, tr, c) /\ GoodOut(T, tr, o \o p)
  <2>1. vd => GoodOut(T, tr, o) /\ GoodOut(T, tr, p) /\ GoodGroups(T, tr, c)
    BY DEF Exact
  <2> QED BY <1>0, <2>1, GoodOutConcat
<1> QED BY <1>1, <1>2, <1>3 DEF Exact

\* A later event changes nothing for what is there.
LEMMA GoodLater ==
  ASSUME NEW S, NEW x, x.data \in Seq(S), NEW T, NEW T1, Agree(S, T, T1),
         NEW tr, Good(T, tr, x), NEW tr1, tr1 => tr
  PROVE  Good(T1, tr1, x)
<1>1. ToSet(x.data) \subseteq S
  BY DEF ToSet
<1>2. x.tx <=> \E e \in ToSet(x.data) : e \in T
  BY DEF Good
<1>3. x.tx <=> \E e \in ToSet(x.data) : e \in T1
  BY <1>1, <1>2 DEF Agree
<1>4. tr1 => ToSet(x.data) \subseteq x.ids
  BY DEF Good
<1> QED BY <1>3, <1>4 DEF Good

\* Later transactions are of later events.
LEMMA ExactLater ==
  ASSUME chain \in Chains, NEW S, NEW a, NEW b \in GroupsOver(S), NEW o \in Seq(LabelledOver(S)), NEW x,
         NEW vd \in BOOLEAN, NEW T, NEW T1, Agree(S, T, T1), NEW tr, NEW tr1, tr1 => tr,
         Exact(a, x, vd, T, tr, b, o)
  PROVE  Exact(a, x, vd, T1, tr1, b, o)
<1>1. vd => GoodGroups(T1, tr1, b)
  <2> SUFFICES ASSUME vd, NEW g \in Known(b), NEW i \in 1 .. Len(chain) PROVE Good(T1, tr1, b[g][i])
    BY DEF GoodGroups
  <2>1. Good(T, tr, b[g][i])
    BY DEF Exact, GoodGroups
  <2>2. b[g] \in WindowsOver(S)
    BY DEF Known, GroupsOver
  <2>3. b[g][i] \in WindowOver(S)
    BY <2>2 DEF WindowsOver
  <2>4. PICK w : w = b[g][i]
    OBVIOUS
  <2>5. w.data \in Seq(S) /\ Good(T, tr, w)
    BY <2>1, <2>3, <2>4, WindowFields
  <2>6. Good(T1, tr1, w)
    BY <2>5, GoodLater
  <2> QED BY <2>4, <2>6
<1>2. vd => GoodOut(T1, tr1, o)
  <2> SUFFICES ASSUME vd, NEW k \in DOMAIN o PROVE Good(T1, tr1, o[k])
    BY DEF GoodOut
  <2>1. Good(T, tr, o[k])
    BY DEF Exact, GoodOut
  <2>2. o[k] \in LabelledOver(S)
    OBVIOUS
  <2>3. PICK w : w = o[k]
    OBVIOUS
  <2>4. w.data \in Seq(S) /\ Good(T, tr, w)
    BY <2>1, <2>2, <2>3 DEF LabelledOver
  <2>5. Good(T1, tr1, w)
    BY <2>4, GoodLater
  <2> QED BY <2>3, <2>5
<1> QED BY <1>1, <1>2 DEF Exact

\* More events.
LEMMA WindowWider ==
  ASSUME NEW S, NEW T, S \subseteq T, NEW w \in WindowOver(S)
  PROVE  w \in WindowOver(T)
<1>1. w.data \in Seq(T) /\ w.ids \in SUBSET T
  BY WindowFields, SequenceOver
<1> QED BY <1>1 DEF WindowOver

\* Windows over more events.
LEMMA WindowsWider ==
  ASSUME NEW S, NEW T, S \subseteq T
  PROVE  WindowsOver(S) \subseteq WindowsOver(T)
<1>1. WindowOver(S) \subseteq WindowOver(T)
  BY WindowWider
<1> QED BY <1>1 DEF WindowsOver

LEMMA GroupsWider ==
  ASSUME NEW S, NEW T, S \subseteq T
  PROVE  GroupsOver(S) \subseteq GroupsOver(T)
<1>1. WindowsOver(S) \subseteq WindowsOver(T)
  BY WindowsWider
<1> QED BY <1>1 DEF GroupsOver

LEMMA LabelledWider ==
  ASSUME NEW S, NEW T, S \subseteq T
  PROVE  LabelledOver(S) \subseteq LabelledOver(T)
<1> SUFFICES ASSUME NEW x \in LabelledOver(S) PROVE x \in LabelledOver(T)
  OBVIOUS
<1>1. x.data \in Seq(S) /\ x.ids \in SUBSET T
  BY DEF LabelledOver
<1>2. x.data \in Seq(T)
  BY <1>1, SequenceOver
<1> QED BY <1>1, <1>2 DEF LabelledOver
-----------------------------------------------------------------------------
(* The chain stays, so what is said of it stays                            *)

LEMMA WindowsStay ==
  ASSUME chain' = chain, NEW S
  PROVE  WindowsOver(S)' = WindowsOver(S)
BY DEF WindowsOver, WindowOver

LEMMA GroupsStay ==
  ASSUME chain' = chain, NEW S
  PROVE  GroupsOver(S)' = GroupsOver(S)
BY WindowsStay DEF GroupsOver

LEMMA LabelledStay ==
  ASSUME chain' = chain, NEW S
  PROVE  LabelledOver(S)' = LabelledOver(S)
BY DEF LabelledOver

LEMMA OutStays ==
  ASSUME chain' = chain, NEW o, NEW g, NEW j
  PROVE  OutOf(o, g, j)' = OutOf(o, g, j)
<1>1. AtGroup(g, j)' = AtGroup(g, j)
  BY LabelledStay DEF AtGroup
<1>2. PICK X : X = AtGroup(g, j) /\ X = AtGroup(g, j)'
  BY <1>1
<1> QED BY <1>2 DEF OutOf, DataOf, Chosen

LEMMA PassesStay ==
  ASSUME chain' = chain, NEW gr, NEW hr, NEW o, NEW g, NEW d, Passes(gr, hr, o, g, d)
  PROVE  Passes(gr, hr, o, g, d)'
<1>1. \A i : HeldIn(gr, g, i)' = HeldIn(gr, g, i) /\ HeldIn(hr, g, i)' = HeldIn(hr, g, i)
  BY DEF HeldIn, Absent
<1>2. \A i : OutOf(o, g, i)' = OutOf(o, g, i)
  BY OutStays
<1>3. ASSUME NEW i \in 1 .. Len(chain)
      PROVE  OutOf(o, g, i)' \o HeldIn(hr, g, i)' =
                HeldIn(gr, g, i)' \o (IF i = 1 THEN d ELSE OutOf(o, g, i - 1)')
  BY <1>1, <1>2 DEF Passes
<1> QED BY <1>3 DEF Passes

LEMMA BoundedStays ==
  ASSUME chain' = chain, NEW gr, Bounded(gr)
  PROVE  Bounded(gr)'
BY DEF Bounded, MaxGroups, Known, Absent

LEMMA CountsStay ==
  ASSUME chain' = chain
  PROVE  AllCount' <=> AllCount
BY DEF AllCount

LEMMA BlankStays ==
  ASSUME chain' = chain, NEW ws, AllBlank(ws)
  PROVE  AllBlank(ws)'
BY DEF AllBlank, Blank

\* Exact speaks of the chain only, which no step changes.
LEMMA ExactStays ==
  ASSUME chain' = chain, NEW gr0, NEW x, NEW vd, NEW T, NEW tr, NEW gr, NEW o, Exact(gr0, x, vd, T, tr, gr, o)
  PROVE  Exact(gr0, x, vd, T, tr, gr, o)'
<1>1. \A g \in Groups : Passes(gr0, gr, o, g, x[g])'
  <2> SUFFICES ASSUME NEW g \in Groups PROVE Passes(gr0, gr, o, g, x[g])'
    OBVIOUS
  <2>1. PICK d : d = x[g]
    OBVIOUS
  <2>2. Passes(gr0, gr, o, g, d)
    BY <2>1 DEF Exact
  <2>3. Passes(gr0, gr, o, g, d)'
    BY <2>2, PassesStay
  <2> QED BY <2>1, <2>3
<1>2. InUse(gr)'
  BY DEF Exact, InUse, LaterCounts, Known, Absent
<1>3. vd => GoodGroups(T, tr, gr)' /\ GoodOut(T, tr, o)'
  BY DEF Exact, GoodGroups, GoodOut, Good, Known, Absent
<1> QED BY <1>1, <1>2, <1>3 DEF Exact

-----------------------------------------------------------------------------
(* Every step keeps the invariant                                          *)

\* The next state, written down part by part.
Becomes(n, gr, d, o, x, T) ==
    /\ events' = n /\ groups' = gr /\ dflt' = d /\ out' = o /\ recorded' = x /\ txs' = T
    /\ n \in 0 .. MaxEvents /\ ticks' \in 0 .. MaxTicks /\ errors' \in 0 .. MaxErrors
    /\ gr \in GroupsOver(1 .. n) /\ Bounded(gr) /\ d \in WindowsOver(1 .. n)
    /\ o \in Seq(LabelledOver(1 .. n)) /\ x \in [Groups -> Seq(1 .. n)] /\ T \in SUBSET (1 .. n)

\* The invariant holds in the next state when it holds of its parts.
LEMMA InvNext ==
  ASSUME chain \in Chains, chain' = chain, NEW n, NEW gr, NEW d, NEW o, NEW x, NEW T,
         Becomes(n, gr, d, o, x, T), NEW vd \in BOOLEAN, vd <=> AllCount,
         NEW tr \in BOOLEAN, tr <=> ticks' = 0,
         errors' = 0 => AllBlank(d) /\ Exact(NoGroups, x, vd, T, tr, gr, o)
  PROVE  SelectInv'
<1>0. /\ events' = n /\ groups' = gr /\ dflt' = d /\ out' = o /\ recorded' = x /\ txs' = T
      /\ n \in 0 .. MaxEvents /\ ticks' \in 0 .. MaxTicks /\ errors' \in 0 .. MaxErrors
      /\ gr \in GroupsOver(1 .. n) /\ Bounded(gr) /\ d \in WindowsOver(1 .. n)
      /\ o \in Seq(LabelledOver(1 .. n)) /\ x \in [Groups -> Seq(1 .. n)] /\ T \in SUBSET (1 .. n)
  BY Zenon DEF Becomes
<1>1. chain' \in Chains
  OBVIOUS
<1>2. gr \in GroupsOver(1 .. n)'
  BY <1>0, GroupsStay
<1>3. d \in WindowsOver(1 .. n)'
  BY <1>0, WindowsStay
<1>4. o \in Seq(LabelledOver(1 .. n)')
  BY <1>0, LabelledStay
<1>5. Bounded(gr)'
  BY <1>0, BoundedStays
<1>6. SelectTyped'
  BY <1>0, <1>1, <1>2, <1>3, <1>4, <1>5 DEF SelectTyped
<1>7. SelectExact'
  <2> SUFFICES ASSUME errors' = 0
               PROVE  AllBlank(dflt)' /\ Exact(NoGroups, recorded, AllCount, txs, ticks = 0, groups, out)'
    BY DEF SelectExact
  <2>1. AllBlank(d)'
    BY BlankStays
  <2>2. PICK g0 : g0 = NoGroups
    OBVIOUS
  <2>3. Exact(g0, x, vd, T, tr, gr, o)'
    <3>1. Exact(g0, x, vd, T, tr, gr, o)
      BY <2>2
    <3> QED BY <3>1, ExactStays
  <2>4. g0 = NoGroups'
    BY <2>2 DEF NoGroups, Absent
  <2>5. vd = AllCount'
    <3>1. AllCount' <=> AllCount
      BY CountsStay
    <3>2. AllCount' \in BOOLEAN
      BY DEF AllCount
    <3> HIDE DEF AllCount
    <3> QED BY Zenon, <3>1, <3>2
  <2>6. tr = (ticks' = 0)
    BY Zenon
  <2> QED BY <1>0, <2>1, <2>3, <2>4, <2>5, <2>6
<1> QED BY <1>6, <1>7 DEF SelectInv

NowExact(vd, tr) ==
    /\ vd \in BOOLEAN /\ (vd <=> AllCount) /\ tr \in BOOLEAN /\ (tr <=> ticks = 0)
    /\ errors = 0 => AllBlank(dflt) /\ Exact(NoGroups, recorded, vd, txs, tr, groups, out)

\* The invariant, with names for its Boolean values.
LEMMA InvNow ==
  ASSUME SelectInv
  PROVE  \E vd, tr : NowExact(vd, tr)
<1>1. PICK vd, tr : vd = AllCount /\ tr = (ticks = 0)
  OBVIOUS
<1>2. vd \in BOOLEAN /\ (vd <=> AllCount)
  <2>1. AllCount \in BOOLEAN
    BY DEF AllCount
  <2> QED BY Zenon, <1>1, <2>1
<1>3. tr \in BOOLEAN /\ (tr <=> ticks = 0)
  BY Zenon, <1>1
<1>4. errors = 0 => AllBlank(dflt) /\ Exact(NoGroups, recorded, vd, txs, tr, groups, out)
  BY Zenon, <1>1 DEF SelectInv, SelectExact
<1> QED BY <1>2, <1>3, <1>4 DEF NowExact

LEMMA NoGroupsTyped ==
  ASSUME NEW S
  PROVE  NoGroups \in GroupsOver(S)
BY DEF NoGroups, GroupsOver

LEMMA GroupListFacts ==
  ASSUME NEW gs \in GroupLists
  PROVE  gs \in Seq(Groups)
<1>1. \A g, h \in Groups : <<g>> \in Seq(Groups) /\ <<g, h>> \in Seq(Groups)
  OBVIOUS
<1>2. (\E g \in Groups : gs = <<g>>) \/ (\E g, h \in Groups : gs = <<g, h>>)
  BY DEF GroupLists
<1> QED BY <1>1, <1>2

\* What the histories become.
RecordedWith(x, gs, e) == [g \in Groups |-> IF g \in ToSet(gs) THEN Append(x[g], e) ELSE x[g]]

LEMMA RecordedNext ==
  ASSUME NEW S, NEW x \in [Groups -> Seq(S)], NEW e \in S, NEW gs \in Seq(Groups),
         NEW y, y = RecordedWith(x, gs, e)
  PROVE  y \in [Groups -> Seq(S)] /\ Joins(x, GivenUpTo(gs, Len(gs), e), y)
<1>1. ASSUME NEW g \in Groups
      PROVE  y[g] \in Seq(S) /\ y[g] = x[g] \o GivenUpTo(gs, Len(gs), e)[g]
  <2>1. (\E j \in 1 .. Len(gs) : gs[j] = g) <=> g \in ToSet(gs)
    BY DEF ToSet
  <2>2. GivenUpTo(gs, Len(gs), e)[g] = IF g \in ToSet(gs) THEN <<e>> ELSE <<>>
    BY <2>1 DEF GivenUpTo
  <2>3. PICK s \in Seq(S) : s = x[g]
    OBVIOUS
  <2>4. CASE g \in ToSet(gs)
    <3>1. y[g] = Append(s, e)
      BY <2>3, <2>4 DEF RecordedWith
    <3>2. Append(s, e) \in Seq(S) /\ Append(s, e) = s \o <<e>>
      OBVIOUS
    <3> QED BY <2>2, <2>3, <2>4, <3>1, <3>2
  <2>5. CASE g \notin ToSet(gs)
    <3>1. y[g] = s /\ s \o <<>> = s
      BY <2>3, <2>5, ConcatEmpty DEF RecordedWith
    <3> QED BY <2>2, <2>3, <2>5, <3>1
  <2> QED BY <2>4, <2>5
<1>2. y = [g \in Groups |-> y[g]]
  BY DEF RecordedWith
<1> QED BY <1>1, <1>2 DEF Joins

\* The parts of the state over one event more.
LEMMA InvWider ==
  ASSUME SelectInv, NEW e, e = events + 1
  PROVE  /\ e \in Nat /\ e \notin 1 .. events /\ 1 .. events \subseteq 1 .. e /\ e \in 1 .. e
         /\ groups \in GroupsOver(1 .. e) /\ dflt \in WindowsOver(1 .. e)
         /\ out \in Seq(LabelledOver(1 .. e)) /\ recorded \in [Groups -> Seq(1 .. e)]
         /\ txs \subseteq 1 .. e /\ events \in Nat
<1>1. events \in Nat /\ e \in Nat /\ e \notin 1 .. events /\ 1 .. events \subseteq 1 .. e /\ e \in 1 .. e
  BY SelectAssumption DEF SelectInv, SelectTyped
<1>2. groups \in GroupsOver(1 .. e)
  BY <1>1, GroupsWider DEF SelectInv, SelectTyped
<1>3. dflt \in WindowsOver(1 .. e)
  BY <1>1, WindowsWider DEF SelectInv, SelectTyped
<1>4. out \in Seq(LabelledOver(1 .. e))
  <2>1. LabelledOver(1 .. events) \subseteq LabelledOver(1 .. e)
    BY <1>1, LabelledWider
  <2> QED BY <2>1, SequenceOver DEF SelectInv, SelectTyped
<1>5. recorded \in [Groups -> Seq(1 .. e)]
  <2>1. \A s \in Seq(1 .. events) : s \in Seq(1 .. e)
    BY <1>1, SequenceOver
  <2> QED BY <2>1 DEF SelectInv, SelectTyped
<1>6. txs \subseteq 1 .. e
  BY <1>1 DEF SelectInv, SelectTyped
<1> QED BY <1>1, <1>2, <1>3, <1>4, <1>5, <1>6

\* An event keeps the invariant.
LEMMA EventKeeps ==
  ASSUME SelectInv, NEW gs \in GroupLists, NEW t \in Times, NEW tx \in BOOLEAN, NEW err, IsInjective(gs),
         OnEvent(gs, t, tx, err)
  PROVE  SelectInv'
<1>1. PICK e : e = events + 1
  OBVIOUS
<1>2. PICK S : S = 1 .. e
  OBVIOUS
<1>3. /\ e \in S /\ S \subseteq Nat /\ e \notin 1 .. events /\ 1 .. events \subseteq S
      /\ groups \in GroupsOver(S) /\ dflt \in WindowsOver(S) /\ out \in Seq(LabelledOver(S))
      /\ recorded \in [Groups -> Seq(S)] /\ txs \subseteq S
  BY <1>1, <1>2, InvWider
<1>4. chain \in Chains /\ Bounded(groups) /\ txs \subseteq 1 .. events /\ ticks \in 0 .. MaxTicks
      /\ errors \in 0 .. MaxErrors
  BY DEF SelectInv, SelectTyped
<1>5. t \in Nat /\ gs \in Seq(Groups)
  BY SelectAssumption, GroupListFacts
<1>6. PICK r : /\ r = Dispatched(gs, t, tx, err)
               /\ r.failed => errors < MaxErrors
               /\ err # NoError => r.failed
               /\ groups' = r.groups /\ dflt' = r.dflt
               /\ errors' = IF r.failed THEN errors + 1 ELSE errors
               /\ out' = IF r.failed THEN out ELSE out \o r.out
               /\ recorded' = [g \in Groups |-> IF g \in ToSet(gs) /\ ~r.failed
                                                THEN Append(recorded[g], events + 1) ELSE recorded[g]]
  BY Zenon DEF OnEvent
<1>7. /\ e \in 0 .. MaxEvents /\ events' = e /\ chain' = chain /\ ticks' = ticks
      /\ txs' = IF tx THEN txs \union {e} ELSE txs
  BY <1>1, SelectAssumption DEF OnEvent, SelectInv, SelectTyped
<1>8. r \in Dispatches(S) /\ Bounded(r.groups)
  <2>1. PICK f : DispatchOf(f, gs, t, tx, err) /\ \A k \in 0 .. Len(gs) : f[k] \in WithinBounds(S)
    BY <1>1, <1>3, <1>4, <1>5, DispatchExists
  <2>2. Len(gs) \in 0 .. Len(gs)
    BY <1>5
  <2>3. r \in WithinBounds(S)
    BY <1>6, <2>1, <2>2 DEF DispatchOf
  <2> QED BY <2>3 DEF WithinBounds
<1>9. r.groups \in GroupsOver(S) /\ r.dflt \in WindowsOver(S) /\ r.out \in Seq(LabelledOver(S)) /\ r.failed \in BOOLEAN
  BY <1>8 DEF Dispatches
<1>10. PICK o \in Seq(LabelledOver(S)) : o = out'
  <2>1. out \o r.out \in Seq(LabelledOver(S))
    BY <1>3, <1>9, ConcatIn
  <2> QED BY <1>3, <1>6, <2>1
<1>11. PICK T \in SUBSET S : T = txs' /\ (tx <=> e \in T) /\ Agree(1 .. events, txs, T)
  BY <1>3, <1>4, <1>7 DEF Agree
<1>12. PICK x \in [Groups -> Seq(S)] :
         x = recorded' /\ (~r.failed => Joins(recorded, GivenUpTo(gs, Len(gs), e), x))
  <2>1. CASE r.failed
    <3>1. recorded' = recorded
      BY <1>3, <1>6, <2>1
    <3> QED BY <1>3, <2>1, <3>1
  <2>2. CASE ~r.failed
    <3>1. recorded' = RecordedWith(recorded, gs, e)
      BY <1>1, <1>6, <2>2 DEF RecordedWith
    <3>2. PICK x0 \in [Groups -> Seq(S)] : x0 = recorded
      BY <1>3
    <3>3. PICK y : y = RecordedWith(x0, gs, e)
      OBVIOUS
    <3>4. y \in [Groups -> Seq(S)] /\ Joins(x0, GivenUpTo(gs, Len(gs), e), y)
      BY <1>3, <1>5, <3>3, RecordedNext
    <3> QED BY <3>1, <3>2, <3>3, <3>4
  <2> QED BY <2>1, <2>2
<1>13. PICK vd, tr : NowExact(vd, tr)
  BY InvNow
<1>14. vd \in BOOLEAN /\ (vd <=> AllCount) /\ tr \in BOOLEAN /\ (tr <=> ticks = 0)
  BY <1>13 DEF NowExact
<1>15. ASSUME errors' = 0
       PROVE  AllBlank(r.dflt) /\ Exact(NoGroups, x, vd, T, tr, r.groups, o)
  <2>1. errors = 0 /\ ~r.failed /\ err = NoError
    BY <1>4, <1>6, <1>9, <1>15, SelectAssumption
  <2>2. AllBlank(dflt) /\ Exact(NoGroups, recorded, vd, txs, tr, groups, out)
    BY <1>13, <2>1 DEF NowExact
  <2>3. Exact(NoGroups, recorded, vd, T, tr, groups, out)
    <3>1. PICK S0 : S0 = 1 .. events
      OBVIOUS
    <3>2. groups \in GroupsOver(S0) /\ out \in Seq(LabelledOver(S0)) /\ Agree(S0, txs, T)
      BY <1>11, <3>1 DEF SelectInv, SelectTyped
    <3> QED BY <1>4, <1>14, <2>2, <3>2, ExactLater
  <2>4. InUse(groups) /\ (vd => AllCount /\ (tx <=> e \in T) /\ GoodGroups(T, tr, groups))
    BY <1>11, <1>14, <2>3 DEF Exact
  <2>5. AllBlank(r.dflt) /\ Exact(groups, GivenUpTo(gs, Len(gs), e), vd, T, tr, r.groups, r.out)
    <3>1. r = Dispatched(gs, t, tx, NoError)
      BY <1>6, <2>1
    <3> QED BY ZenonT(60), <1>1, <1>3, <1>4, <1>5, <1>14, <2>1, <2>2, <2>4, <3>1, DispatchedExact
  <2>6. GivenUpTo(gs, Len(gs), e) \in [Groups -> Seq(S)] /\ NoGroups \in GroupsOver(S)
    BY <1>3, GivenTyped, NoGroupsTyped
  <2>7. Joins(recorded, GivenUpTo(gs, Len(gs), e), x)
    BY <1>12, <2>1
  <2>8. Exact(NoGroups, x, vd, T, tr, r.groups, out \o r.out)
    <3>1. TypedTwice(S, NoGroups, groups, r.groups, out, r.out, recorded, GivenUpTo(gs, Len(gs), e))
      BY <1>3, <1>9, <2>6 DEF TypedTwice
    <3> QED BY <1>4, <1>14, <2>3, <2>5, <2>7, <3>1, ExactTwice
  <2>9. o = out \o r.out
    BY <1>6, <1>10, <2>1
  <2> QED BY <2>5, <2>8, <2>9
<1>16. errors' \in 0 .. MaxErrors
  BY <1>4, <1>6, <1>9, SelectAssumption
<1>17. PICK gr, d : gr = r.groups /\ d = r.dflt
  OBVIOUS
<1>18. Becomes(e, gr, d, o, x, T)
  BY <1>2, <1>4, <1>6, <1>7, <1>8, <1>9, <1>10, <1>11, <1>12, <1>16, <1>17 DEF Becomes
<1>19. errors' = 0 => AllBlank(d) /\ Exact(NoGroups, x, vd, T, tr, gr, o)
  BY <1>15, <1>17
<1>20. tr <=> ticks' = 0
  BY <1>7, <1>14
<1> QED BY <1>4, <1>7, <1>14, <1>18, <1>19, <1>20, InvNext

\* The orders in which a tick can visit the known groups.
LEMMA OrderFacts ==
  ASSUME NEW gr, Bounded(gr), NEW order \in SetToSeqs(Known(gr))
  PROVE  order \in Seq(Known(gr)) /\ IsInjective(order)
<1>1. Cardinality(Known(gr)) \in Nat
  BY FS_CardinalityType DEF Bounded
<1>2. PICK n \in Nat : n = Cardinality(Known(gr))
  BY <1>1
<1>3. order \in [1 .. n -> Known(gr)] /\ \A i, j \in 1 .. n : i # j => order[i] # order[j]
  BY <1>2 DEF SetToSeqs
<1>4. order \in Seq(Known(gr))
  BY <1>3
<1>5. DOMAIN order = 1 .. n
  BY <1>3
<1> QED BY <1>3, <1>4, <1>5 DEF IsInjective

LEMMA JoinsNothing ==
  ASSUME NEW S, NEW x \in [Groups -> Seq(S)]
  PROVE  Nothing \in [Groups -> Seq(S)] /\ Joins(x, Nothing, x)
<1>1. <<>> \in Seq(S)
  OBVIOUS
<1>2. Nothing \in [Groups -> Seq(S)]
  BY <1>1 DEF Nothing
<1>3. ASSUME NEW g \in Groups PROVE x[g] = x[g] \o Nothing[g]
  <2>1. x[g] \in Seq(S) /\ Nothing[g] = <<>>
    BY DEF Nothing
  <2> QED BY <2>1, ConcatEmpty
<1> QED BY <1>2, <1>3 DEF Joins

\* A tick keeps the invariant.
LEMMA TickKeepsInv ==
  ASSUME SelectInv, NEW t \in Times, NEW order \in SetToSeqs(Known(groups)), NEW bad, NEW err,
         Tick(t, order, bad, err)
  PROVE  SelectInv'
<1>1. PICK S : S = 1 .. events
  OBVIOUS
<1>2. /\ chain \in Chains /\ events \in 0 .. MaxEvents /\ ticks \in 0 .. MaxTicks /\ errors \in 0 .. MaxErrors
      /\ groups \in GroupsOver(S) /\ dflt \in WindowsOver(S) /\ out \in Seq(LabelledOver(S))
      /\ recorded \in [Groups -> Seq(S)] /\ txs \in SUBSET S /\ Bounded(groups)
  BY <1>1 DEF SelectInv, SelectTyped
<1>3. S \subseteq Nat /\ t \in Nat /\ order \in Seq(Known(groups)) /\ IsInjective(order)
  BY <1>1, <1>2, SelectAssumption, OrderFacts
<1>4. PICK r : /\ r = TickGroups(t, order, bad, err)
               /\ r.failed => errors < MaxErrors
               /\ err # NoError <=> r.failed
               /\ errors' = IF r.failed THEN errors + 1 ELSE errors
               /\ groups' = [g \in Groups |-> IF g \in r.gone /\ ~r.failed THEN Absent ELSE r.groups[g]]
               /\ out' = IF r.failed THEN out ELSE out \o r.out
  BY Zenon DEF Tick
<1>5. /\ chain' = chain /\ dflt' = dflt /\ recorded' = recorded /\ txs' = txs /\ events' = events
      /\ ticks < MaxTicks /\ ticks' = ticks + 1
  BY Zenon DEF Tick
<1>6. ticks' \in 0 .. MaxTicks /\ ticks' # 0
  BY <1>2, <1>5, SelectAssumption
<1>7. r \in Visiting(S)
  <2>1. PICK f : TickOf(f, t, order, bad, err) /\ \A k \in 0 .. Len(order) : f[k] \in Visiting(S)
    BY <1>2, <1>3, TickExists
  <2>2. Len(order) \in 0 .. Len(order)
    BY <1>3
  <2> QED BY <1>4, <2>1, <2>2 DEF TickOf
<1>8. r.groups \in GroupsOver(S) /\ r.out \in Seq(LabelledOver(S)) /\ r.failed \in BOOLEAN /\ Bounded(r.groups)
  BY <1>7 DEF Visiting, Visits
<1>9. PICK gone : gone = IF r.failed THEN {} ELSE r.gone
  OBVIOUS
<1>10. PICK gr : gr = Without(r.groups, gone) /\ gr = groups' /\ gr \in GroupsOver(S) /\ Bounded(gr)
  <2>1. groups' = Without(r.groups, gone)
    BY <1>4, <1>8, <1>9 DEF Without
  <2>2. PICK q : q = r.groups
    OBVIOUS
  <2>3. Without(q, gone) \in GroupsOver(S) /\ Bounded(Without(q, gone))
    BY <1>2, <1>8, <2>2, WithoutFacts
  <2> QED BY <2>1, <2>2, <2>3
<1>11. PICK o \in Seq(LabelledOver(S)) : o = out'
  <2>1. out \o r.out \in Seq(LabelledOver(S))
    BY <1>2, <1>8, ConcatIn
  <2> QED BY <1>2, <1>4, <2>1
<1>12. PICK vd, tr : NowExact(vd, tr)
  BY InvNow
<1>13. vd \in BOOLEAN /\ (vd <=> AllCount) /\ tr \in BOOLEAN
  BY <1>12 DEF NowExact
<1>14. PICK tr1 \in BOOLEAN : ~tr1
  OBVIOUS
<1>15. ASSUME errors' = 0
       PROVE  AllBlank(dflt) /\ Exact(NoGroups, recorded, vd, txs, tr1, gr, o)
  <2>1. errors = 0 /\ ~r.failed /\ err = NoError
    BY <1>2, <1>4, <1>8, <1>15, SelectAssumption
  <2>2. AllBlank(dflt) /\ Exact(NoGroups, recorded, vd, txs, tr, groups, out)
    BY <1>12, <2>1 DEF NowExact
  <2>3. Exact(NoGroups, recorded, vd, txs, tr1, groups, out)
    <3>1. Agree(S, txs, txs) /\ (tr1 => tr)
      BY <1>14 DEF Agree
    <3> QED BY <1>2, <1>13, <2>2, <3>1, ExactLater
  <2>4. InUse(groups) /\ (vd => AllCount /\ GoodGroups(txs, tr1, groups))
    BY <1>13, <2>3 DEF Exact
  <2>5. r = TickGroups(t, order, bad, NoError)
    BY <1>4, <2>1
  <2>6. Exact(groups, Nothing, vd, txs, tr1, Without(r.groups, r.gone), r.out)
    BY <1>2, <1>3, <1>13, <1>14, <2>4, <2>5, TickGroupsExact
  <2>7. Exact(groups, Nothing, vd, txs, tr1, gr, r.out)
    BY <1>9, <1>10, <2>1, <2>6
  <2>8. Nothing \in [Groups -> Seq(S)] /\ Joins(recorded, Nothing, recorded)
    BY <1>2, JoinsNothing
  <2>9. TypedTwice(S, NoGroups, groups, gr, out, r.out, recorded, Nothing)
    BY <1>2, <1>8, <1>10, <2>8, NoGroupsTyped DEF TypedTwice
  <2>10. Exact(NoGroups, recorded, vd, txs, tr1, gr, out \o r.out)
    BY <1>2, <1>13, <2>3, <2>7, <2>8, <2>9, ExactTwice
  <2>11. o = out \o r.out
    BY <1>4, <1>11, <2>1
  <2> QED BY <2>2, <2>10, <2>11
<1>16. errors' \in 0 .. MaxErrors
  BY <1>2, <1>4, <1>8, SelectAssumption
<1>17. PICK n, d, x, T : n = events /\ d = dflt /\ x = recorded /\ T = txs
  OBVIOUS
<1>18. Becomes(n, gr, d, o, x, T)
  BY <1>1, <1>2, <1>5, <1>6, <1>10, <1>11, <1>16, <1>17 DEF Becomes
<1>19. errors' = 0 => AllBlank(d) /\ Exact(NoGroups, x, vd, T, tr1, gr, o)
  BY <1>15, <1>17
<1>20. tr1 <=> ticks' = 0
  BY <1>6, <1>14
<1> QED BY <1>2, <1>5, <1>13, <1>14, <1>18, <1>19, <1>20, InvNext

\* So does a step that changes nothing.
LEMMA NothingKeepsInv ==
  ASSUME SelectInv, UNCHANGED vars
  PROVE  SelectInv'
<1>1. PICK n, gr, d, o, x, T : n = events /\ gr = groups /\ d = dflt /\ o = out /\ x = recorded /\ T = txs
  OBVIOUS
<1>2. /\ chain' = chain /\ groups' = groups /\ dflt' = dflt /\ out' = out /\ recorded' = recorded /\ txs' = txs
      /\ events' = events /\ ticks' = ticks /\ errors' = errors
  BY DEF vars
<1>3. chain \in Chains
  BY DEF SelectInv, SelectTyped
<1>4. Becomes(n, gr, d, o, x, T)
  BY <1>1, <1>2 DEF Becomes, SelectInv, SelectTyped
<1>5. PICK vd, tr : NowExact(vd, tr)
  BY InvNow
<1>6. vd \in BOOLEAN /\ (vd <=> AllCount) /\ tr \in BOOLEAN /\ (tr <=> ticks' = 0)
      /\ (errors' = 0 => AllBlank(d) /\ Exact(NoGroups, x, vd, T, tr, gr, o))
  BY <1>1, <1>2, <1>5 DEF NowExact
<1> QED BY <1>2, <1>3, <1>4, <1>6, InvNext

\* At first no group is known and nothing was given.
LEMMA InvStart ==
  ASSUME Init
  PROVE  SelectInv
<1>1. chain \in Chains /\ groups = NoGroups /\ out = <<>> /\ recorded = Nothing /\ txs = {}
      /\ events = 0 /\ ticks = 0 /\ errors = 0 /\ dflt = FromWindows(chain)
  BY DEF Init, NoGroups, Nothing
<1>2. PICK S : S = 1 .. events
  OBVIOUS
<1>3. DOMAIN chain = 1 .. Len(chain)
  BY <1>1, SelectAssumption
<1>4. EmptyWindow \in WindowOver(S) /\ Blank(EmptyWindow)
  <2>1. <<>> \in Seq(S) /\ {} \in SUBSET S
    OBVIOUS
  <2> QED BY <2>1 DEF EmptyWindow, WindowOver, Blank
<1>5. dflt \in WindowsOver(S) /\ AllBlank(dflt)
  <2> HIDE DEF EmptyWindow
  <2>1. dflt = [i \in 1 .. Len(chain) |-> EmptyWindow]
    BY <1>1, <1>3 DEF FromWindows
  <2> QED BY <1>4, <2>1 DEF WindowsOver, AllBlank
<1>6. groups \in GroupsOver(S) /\ Known(groups) = {}
  BY <1>1, NoGroupsTyped DEF NoGroups, Known
<1>7. Bounded(groups)
  BY <1>1, <1>6, MaxGroupsIs, FS_EmptySet DEF Bounded
<1>8. out \in Seq(LabelledOver(S)) /\ recorded \in [Groups -> Seq(S)]
  <2>1. <<>> \in Seq(LabelledOver(S)) /\ <<>> \in Seq(S)
    OBVIOUS
  <2> QED BY <1>1, <2>1 DEF Nothing
<1>9. SelectTyped
  BY <1>1, <1>2, <1>5, <1>6, <1>7, <1>8, SelectAssumption DEF SelectTyped
<1>10. Exact(NoGroups, recorded, AllCount, txs, ticks = 0, groups, out)
  <2>1. InUse(groups)
    BY <1>6 DEF InUse
  <2>2. PICK vd, tr : vd = AllCount /\ tr = (ticks = 0)
    OBVIOUS
  <2>3. vd \in BOOLEAN
    <3>1. AllCount \in BOOLEAN
      BY DEF AllCount
    <3> QED BY Zenon, <2>2, <3>1
  <2>4. GoodGroups(txs, tr, groups)
    BY <1>6 DEF GoodGroups
  <2>5. \A g \in Groups : recorded[g] = <<>>
    BY <1>1 DEF Nothing
  <2>6. Exact(groups, recorded, vd, txs, tr, groups, <<>>)
    BY <1>1, <1>6, <2>1, <2>3, <2>4, <2>5, ExactStart
  <2> QED BY Zenon, <1>1, <2>2, <2>6
<1> QED BY <1>5, <1>9, <1>10 DEF SelectInv, SelectExact

\* Every step keeps the invariant.
LEMMA InvStep ==
  ASSUME SelectInv, [Next]_vars
  PROVE  SelectInv'
<1>1. CASE UNCHANGED vars
  BY <1>1, NothingKeepsInv
<1>2. CASE \E gs \in GroupLists, t \in Times, tx \in BOOLEAN, err \in -1 .. Len(chain) :
             IsInjective(gs) /\ OnEvent(gs, t, tx, err)
  <2>1. PICK gs \in GroupLists, t \in Times, tx \in BOOLEAN, err \in -1 .. Len(chain) :
          IsInjective(gs) /\ OnEvent(gs, t, tx, err)
    BY Zenon, <1>2
  <2> QED BY <2>1, EventKeeps
<1>3. CASE \E t \in Times, order \in SetToSeqs(Known(groups)), err \in 0 .. Len(chain) :
             /\ Known(groups) # {}
             /\ \E bad \in IF err = NoError THEN {order[1]} ELSE ToSet(order) : Tick(t, order, bad, err)
  <2>1. PICK t \in Times, order \in SetToSeqs(Known(groups)), err \in 0 .. Len(chain) :
          \E bad : Tick(t, order, bad, err)
    BY Zenon, <1>3
  <2>2. PICK bad : Tick(t, order, bad, err)
    BY <2>1
  <2> QED BY <2>1, <2>2, TickKeepsInv
<1> QED BY Zenon, <1>1, <1>2, <1>3 DEF Next

-----------------------------------------------------------------------------
(* What the invariant says                                                 *)

LEMMA WindowIsWindow ==
  ASSUME NEW S, S \subseteq Nat, NEW w \in WindowOver(S)
  PROVE  w \in Window
<1>1. w.data \in Seq(Nat) /\ w.ids \in SUBSET Nat
  BY WindowFields, SequenceOver
<1> QED BY <1>1 DEF WindowOver, Window

LEMMA InvTypeOK ==
  ASSUME SelectInv
  PROVE  TypeOK
<1>1. PICK S : S = 1 .. events
  OBVIOUS
<1>2. /\ chain \in Chains /\ events \in 0 .. MaxEvents /\ ticks \in 0 .. MaxTicks /\ errors \in 0 .. MaxErrors
      /\ groups \in GroupsOver(S) /\ dflt \in WindowsOver(S) /\ txs \subseteq 1 .. events /\ Bounded(groups)
  BY <1>1 DEF SelectInv, SelectTyped
<1>3. S \subseteq Nat /\ DOMAIN chain = 1 .. Len(chain)
  BY <1>1, <1>2, SelectAssumption
<1>4. \A ws \in WindowsOver(S) : \A i \in DOMAIN chain : ws[i] \in Window
  BY <1>3, WindowIsWindow DEF WindowsOver
<1>5. \A g \in Groups : groups[g] = Absent \/ \A i \in DOMAIN chain : groups[g][i] \in Window
  BY <1>2, <1>4 DEF GroupsOver
<1>6. \A i \in DOMAIN chain : dflt[i] \in Window
  BY <1>2, <1>4
<1> QED BY <1>2, <1>5, <1>6 DEF TypeOK, Bounded

\* What the properties call emitted is what the proof does.
LEMMA EmittedIs ==
  ASSUME chain \in Chains, NEW S, S \subseteq Nat, out \in Seq(LabelledOver(S)), NEW g, NEW i
  PROVE  Emitted(g, i) = OutOf(out, g, i)
<1>1. ASSUME NEW k \in DOMAIN out
      PROVE  out[k] \in AtGroup(g, i) <=> out[k].group = g /\ out[k].level = i
  <2>1. out[k] \in LabelledOver(S)
    OBVIOUS
  <2>2. out[k] \in LabelledOver(Nat)
    BY <2>1, LabelledWider
  <2> QED BY <2>2 DEF AtGroup
<1>2. Chosen(out, AtGroup(g, i)) =
        [k \in DOMAIN out |-> IF out[k].group = g /\ out[k].level = i THEN out[k].data ELSE <<>>]
  BY <1>1 DEF Chosen
<1> QED BY Zenon, <1>2 DEF Emitted, OutOf, DataOf

\* Counted from the empty map: emitted and held is what was given.
LEMMA InvPartition ==
  ASSUME SelectInv
  PROVE  WindowsPartitionTheEvents
<1> SUFFICES ASSUME errors = 0, NEW g \in Groups, NEW i \in DOMAIN chain
             PROVE  Emitted(g, i) \o Held(g, i) = IF i = 1 THEN recorded[g] ELSE Emitted(g, i - 1)
  BY DEF WindowsPartitionTheEvents
<1>1. PICK S : S = 1 .. events
  OBVIOUS
<1>2. chain \in Chains /\ out \in Seq(LabelledOver(S)) /\ S \subseteq Nat /\ recorded \in [Groups -> Seq(S)]
  BY <1>1 DEF SelectInv, SelectTyped
<1>3. i \in 1 .. Len(chain)
  BY <1>2, SelectAssumption
<1>4. Emitted(g, i) = OutOf(out, g, i) /\ Emitted(g, i - 1) = OutOf(out, g, i - 1)
  BY <1>2, EmittedIs
<1>5. Held(g, i) = HeldIn(groups, g, i) /\ HeldIn(NoGroups, g, i) = <<>>
  BY DEF Held, HeldIn, NoGroups
<1>6. PICK d \in Seq(S) : d = recorded[g] /\ Passes(NoGroups, groups, out, g, d)
  BY <1>2 DEF SelectInv, SelectExact, Exact
<1>7. PICK y \in Seq(S) : y = IF i = 1 THEN d ELSE OutOf(out, g, i - 1)
  BY <1>2, OutOfTyped
<1>8. OutOf(out, g, i) \o HeldIn(groups, g, i) = HeldIn(NoGroups, g, i) \o y
  BY <1>3, <1>6, <1>7 DEF Passes
<1>9. <<>> \o y = y
  BY ConcatEmpty
<1> QED BY Zenon, <1>4, <1>5, <1>6, <1>7, <1>8, <1>9

\* A group that is kept is in use.
LEMMA InvKept ==
  ASSUME SelectInv
  PROVE  KeptGroupsHoldData
<1> SUFFICES ASSUME errors = 0, \A i \in DOMAIN chain : i > 1 => chain[i].kind = "count", NEW g \in Known(groups)
             PROVE  \E i \in DOMAIN chain : groups[g][i].holds
  BY DEF KeptGroupsHoldData
<1>1. DOMAIN chain = 1 .. Len(chain) /\ Len(chain) \in Nat
  BY SelectAssumption DEF SelectInv, SelectTyped
<1>2. LaterCounts
  BY <1>1 DEF LaterCounts
<1>3. InUse(groups)
  BY DEF SelectInv, SelectExact, Exact
<1> QED BY <1>1, <1>2, <1>3 DEF InUse

\* The ids and the flag of what was emitted.
LEMMA InvVerdicts ==
  ASSUME SelectInv
  PROVE  VerdictsComeBack
<1>1. DOMAIN chain = 1 .. Len(chain) /\ Len(chain) \in Nat
  BY SelectAssumption DEF SelectInv, SelectTyped
<1>2. OnlyCounts => AllCount
  BY <1>1 DEF OnlyCounts, AllCount
<1>3. PICK vd, tr : NowExact(vd, tr)
  BY InvNow
<1>4. ASSUME errors = 0, OnlyCounts, NEW i \in DOMAIN out
      PROVE  /\ out[i].tx <=> \E e \in ToSet(out[i].data) : e \in txs
             /\ ticks = 0 => ToSet(out[i].data) \subseteq out[i].ids
  <2>1. Good(txs, tr, out[i]) /\ (tr <=> ticks = 0)
    BY <1>2, <1>3, <1>4 DEF NowExact, Exact, GoodOut
  <2> QED BY <2>1 DEF Good
<1> QED BY <1>4 DEF VerdictsComeBack, TransactionalKept, CountWindowsTrack

\* The windows of a group partition the events it was given, in order, and no
\* group outlives its data: for every number of groups, every window chain and
\* every order of events, ticks and failures (select.rs:195-441,
\* window.rs:200-330).
THEOREM WindowsAreExact == Spec => []WindowsExact
<1>1. Init => SelectInv
  BY InvStart
<1>2. SelectInv /\ [Next]_vars => SelectInv'
  BY InvStep
<1>3. SelectInv => WindowsExact
  BY InvTypeOK, InvPartition, InvKept DEF WindowsExact
<1> QED BY <1>1, <1>2, <1>3, PTL DEF Spec

\* The verdict of a sink on what a count based window emitted comes back and
\* reaches every event in it (window.rs:200-330).
THEOREM VerdictsReachTheEvents == Spec => []VerdictsComeBack
<1>1. Init => SelectInv
  BY InvStart
<1>2. SelectInv /\ [Next]_vars => SelectInv'
  BY InvStep
<1>3. SelectInv => VerdictsComeBack
  BY InvVerdicts
<1> QED BY <1>1, <1>2, <1>3, PTL DEF Spec
============================================================================
