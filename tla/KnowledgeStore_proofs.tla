----------------------- MODULE KnowledgeStore_proofs -----------------------
(***************************************************************************)
(* For any commands, command lines, crashes and edits, the five promises   *)
(* of KnowledgeStore hold.                                                 *)
(*                                                                         *)
(* FactsInv carries the two that hold whatever runs at the same time.  A   *)
(* list of operations is sound when each of them speaks only of files that *)
(* are on disk or that an operation before it puts there.  A step keeps    *)
(* its own list sound, and no step removes a file another list speaks of.  *)
(*                                                                         *)
(* OrderInv carries the three that need commands to run one after the      *)
(* other.  What a command has read, at the head of its list, still holds   *)
(* of the files, because nothing else has run since; further down, an      *)
(* announcement hangs on the index before it and a promotion on its        *)
(* document.                                                               *)
(***************************************************************************)
EXTENDS KnowledgeStore, Lists_proofs

\* What is on disk of what an event, or a working state, may speak of.
Facts == {<<"artifact", id>> : id \in DOMAIN artifacts}
         \cup {<<"session", s>> : s \in DOMAIN sessions}
         \cup {<<"doc", path>> : path \in DOMAIN docs}
         \cup {<<"line", line.texts>> : line \in admitted}

\* What an event says is on disk.
Claims(e) ==
    {<<"artifact", id>> :
        id \in IF e.type \in {"session.materialize", "artifact.review", "harness.capture"}
               THEN e.names ELSE {}}
    \cup {<<"session", s>> : s \in IF e.type = "memory.wrap" THEN {e.session} ELSE {}}
    \cup {<<"doc", path>> : path \in e.paths}
    \cup {<<"line", texts>> : texts \in IF e.type = "security.admission" THEN {e.names} ELSE {}}

\* What an operation speaks of, and what it puts on disk.
Needs(op) ==
    CASE op.do \in {"event", "append"}     -> Claims(op.event)
      [] op.do \in {"current", "registry"} -> {<<"session", op.state.session>>}
      [] op.do \in {"refresh", "rewrite"}  -> {<<"doc", op.path>>}
      [] OTHER -> {}
Yields(op) ==
    CASE op.do = "persist"   -> {<<"artifact", op.id>>}
      [] op.do = "session"   -> {<<"session", op.session>>}
      [] op.do = "admission" -> {<<"line", op.line.texts>>}
      [] OTHER -> {}
Gains(s, n) == UNION {Yields(s[j]) : j \in 1..n}
Sound(s, facts) == \A i \in 1..Len(s) : Needs(s[i]) \subseteq facts \cup Gains(s, i - 1)

\* What a command starts with, and the operations that come of a read, which are
\* at the head of a list.
Planned == {"admission", "event", "transcript", "persist", "review", "session", "current",
            "registry", "doc", "refresh", "reconcile", "announce"}
Halves == {"gather", "append", "create", "rewrite", "index"}
Proper(op) ==
    /\ op.do \in Planned \cup Halves
    /\ op.do \in {"current", "registry"} => \A l \in op.state.loops : l.status # "closed"
    /\ op.do = "session" => op.session \in Nat
    /\ op.do = "announce" => op.type \in {"memory.promote", "harness.promote"}
    /\ op.do = "gather" =>
         /\ op.c.kind \in {"memory.promote", "harness.promote"}
         /\ IsList(op.refs) /\ IsList(op.ready)
         /\ op.c.kind = "memory.promote" => IsList(op.c.candidates)
\* What may stand anywhere in a list, and what may be a list.
Part(s, facts) ==
    /\ IsList(s) /\ Sound(s, facts)
    /\ \A i \in 1..Len(s) : Proper(s[i]) /\ s[i].do \in Planned
Valid(s, facts) ==
    /\ IsList(s) /\ Sound(s, facts)
    /\ \A i \in 1..Len(s) : Proper(s[i])
    /\ \A i \in 2..Len(s) : s[i].do \in Planned
    /\ s # <<>> /\ Head(s).do = "gather" => Len(s) = 1

\* A working state names a session that is on disk, and open loops.
Anchored(state) ==
    state # NoRecord =>
        <<"session", state.session>> \in Facts /\ \A l \in state.loops : l.status # "closed"

\* The inductive invariant of whatever runs at the same time: what is pending is
\* sound, what a command has created and what the ledger claims is on disk, and one
\* of the sessions sorts last.
TodoIsSound == DOMAIN todo = Procs /\ \A p \in Procs : Valid(todo[p], Facts)
MadeExists == DOMAIN made = Procs /\ \A p \in Procs : made[p] \subseteq DOMAIN docs
LedgerIsTrue == IsList(ledger) /\ \A i \in 1..Len(ledger) : Claims(ledger[i]) \subseteq Facts
SessionsAreSorted ==
    /\ DOMAIN sessions \subseteq Nat
    /\ sessions # <<>> => \E s \in DOMAIN sessions : \A t \in DOMAIN sessions : t <= s
FactsInv ==
    /\ TodoIsSound /\ MadeExists /\ LedgerIsTrue
    /\ Anchored(current) /\ Anchored(registry)
    /\ SessionsAreSorted /\ IsFiniteSet(DOMAIN docs)

\* An announcement hangs on the index, or on the reconciliation that found nothing
\* to index; a promotion on its own document.
IsPromotion(op) == op.do = "persist" /\ op.record.status = "promoted"
IsCapture(op) == op.do = "persist" /\ op.record.status = "captured"
Loose(op) == op.do # "announce" /\ ~ IsPromotion(op)
Link(prev, op) ==
    \/ /\ op.do = "announce"
       /\ prev.do = "index" \/ (prev.do = "reconcile" /\ prev.needed)
    \/ /\ IsPromotion(op)
       /\ prev.do \in {"doc", "create"} /\ prev.source = op.id
       /\ prev.path = FixedPath(op.id, op.record)
Chained(s) == \A i \in 2..Len(s) : Loose(s[i]) \/ Link(s[i - 1], s[i])
\* No command both captures and promotes.
Pure(s) == \/ \A i \in 1..Len(s) : ~ IsPromotion(s[i])
           \/ \A i \in 1..Len(s) : ~ IsCapture(s[i])

\* What a list may rely on: listed is what the index lists, ok what has been
\* reviewed since it was captured, files the documents, log the ledger and mine what
\* the command has created.
Indexed == {e.path : e \in index}
Lawful(s, ok, listed) ==
    \A i \in 1..Len(s) :
        /\ s[i].do \in {"event", "append"} => s[i].event.paths \subseteq listed
        /\ IsPromotion(s[i]) => s[i].id \in ok
\* An artifact that may be promoted, with its document.
Backed(id, record, ok, files) ==
    /\ id \in ok /\ FixedPath(id, record) \in DOMAIN files
    /\ files[FixedPath(id, record)].source = id
\* What the operation at the head has read still holds.
Fresh(op, mine, ok, listed, files, log) ==
    /\ op.do = "append" => \A i \in 1..Len(log) : log[i] # op.event
    /\ op.do = "create" => op.path \notin DOMAIN files
    /\ op.do = "index" => {e.path : e \in op.entries} = DOMAIN files
    /\ op.do = "rewrite" => op.doc.source = files[op.path].source
    /\ op.do = "announce" => mine \subseteq listed
    /\ IsPromotion(op) => Backed(op.id, op.record, ok, files)
    /\ op.do = "gather" /\ op.c.kind = "harness.promote" =>
         \A i \in 1..Len(op.ready) : op.ready[i].id \in ok
Current(s, mine, ok, listed, files, log) ==
    /\ Chained(s) /\ Pure(s) /\ Lawful(s, ok, listed)
    /\ s # <<>> => Fresh(Head(s), mine, ok, listed, files, log)

\* The inductive invariant of commands that run one after the other.
Alone == \A p, q \in Procs : ~ Idle(p) /\ ~ Idle(q) => p = q
TodoIsCurrent == \A p \in Procs : Current(todo[p], made[p], approved, Indexed, docs, ledger)
LedgerIsUnique == \A i, j \in 1..Len(ledger) : ledger[i] = ledger[j] => i = j
LedgerIsIndexed == \A i \in 1..Len(ledger) : ledger[i].paths \subseteq Indexed
ArtifactsAreBacked ==
    \A id \in DOMAIN artifacts :
        /\ artifacts[id].status \in {"reviewed", "promoted"} => id \in approved
        /\ artifacts[id].status = "promoted" => Backed(id, artifacts[id], approved, docs)
OrderInv ==
    ~ overlapped =>
        /\ Alone /\ TodoIsCurrent /\ LedgerIsUnique /\ LedgerIsIndexed
        /\ Indexed \subseteq DOMAIN docs
        /\ ArtifactsAreBacked
-----------------------------------------------------------------------------
(* Lists *)

\* The pairs of a flattened list come in turn.
LEMMA PairsInTurn ==
  ASSUME NEW n \in Nat, NEW pairs, IsList(pairs), Len(pairs) = n,
         \A i \in 1..n : IsList(pairs[i]) /\ Len(pairs[i]) = 2
  PROVE  LET s == FlattenSeq(pairs)
         IN  /\ IsList(s) /\ Len(s) = 2 * n
             /\ \A i \in 1..n : s[2 * i - 1] = pairs[i][1] /\ s[2 * i] = pairs[i][2]
<1> DEFINE half(j) == (j + 1) \div 2
           a == [i \in 1..n |-> pairs[i][1]]
           b == [i \in 1..n |-> pairs[i][2]]
           g == [k \in 1..n |->
                   [j \in 1..(2 * k) |-> IF j = 2 * half(j) THEN b[half(j)] ELSE a[half(j)]]]
           Flattens(f) == f = [i \in 1..n |-> IF i = 1 THEN pairs[i] ELSE f[i - 1] \o pairs[i]]
           flatten == CHOOSE f : Flattens(f)
<1>0. IsList(pairs) /\ Len(pairs) = n
  OBVIOUS
<1>12. \A i \in 1..n : a[i] = pairs[i][1] /\ b[i] = pairs[i][2]
  OBVIOUS
<1> HIDE DEF a, b
<1>1. ASSUME NEW k \in 1..n
      PROVE  IsList(g[k]) /\ Len(g[k]) = 2 * k
  <2> DEFINE s == g[k]
  <2>1. s = [j \in 1..(2 * k) |-> s[j]] /\ 2 * k \in Nat
    OBVIOUS
  <2> HIDE DEF s
  <2>2. IsList(s) /\ Len(s) = 2 * k
    BY <2>1, ListMap
  <2>3. QED
    BY <2>2 DEF s
<1>11. ASSUME NEW k \in 1..n
       PROVE  IsList(pairs[k]) /\ Len(pairs[k]) = 2 /\ pairs[k][1] = a[k] /\ pairs[k][2] = b[k]
  BY <1>12
<1>2. ASSUME NEW k \in 1..n
      PROVE  \A i \in 1..k : g[k][2 * i - 1] = a[i] /\ g[k][2 * i] = b[i]
  <2>1. SUFFICES ASSUME NEW i \in 1..k PROVE g[k][2 * i - 1] = a[i] /\ g[k][2 * i] = b[i]
    OBVIOUS
  <2>2. half(2 * i - 1) = i /\ half(2 * i) = i
    OBVIOUS
  <2>3. 2 * i - 1 \in 1..(2 * k) /\ 2 * i \in 1..(2 * k) /\ 2 * i - 1 # 2 * i
    OBVIOUS
  <2> HIDE DEF half
  <2>4. QED
    BY <2>2, <2>3
<1>3. ASSUME NEW k \in 1..n, NEW x, NEW y, IsList(x), Len(x) = 2 * k,
             IsList(y), Len(y) = 2 * k,
             \A i \in 1..k : x[2 * i - 1] = y[2 * i - 1] /\ x[2 * i] = y[2 * i]
      PROVE  x = y
  <2>1. ASSUME NEW j \in 1..(2 * k) PROVE x[j] = y[j]
    <3>1. half(j) \in 1..k /\ (j = 2 * half(j) \/ j = 2 * half(j) - 1)
      OBVIOUS
    <3> HIDE DEF half
    <3>2. QED
      BY <3>1, <1>3
  <2>2. x \in Seq(ToSet(x) \cup ToSet(y)) /\ y \in Seq(ToSet(x) \cup ToSet(y))
    BY <1>3, SeqMonotonic DEF IsList
  <2>3. QED
    BY <1>3, <2>1, <2>2, SeqEqual
<1>4. Flattens(g)
  <2> HIDE DEF half
  <2>1. ASSUME NEW k \in 1..n PROVE g[k] = IF k = 1 THEN pairs[k] ELSE g[k - 1] \o pairs[k]
    <3>1. IsList(pairs[k]) /\ Len(pairs[k]) = 2 /\ pairs[k][1] = a[k] /\ pairs[k][2] = b[k]
      BY <1>11
    <3> HIDE DEF g
    <3>2. CASE k = 1
      <4>1. \A i \in 1..k : g[k][2 * i - 1] = pairs[k][2 * i - 1] /\ g[k][2 * i] = pairs[k][2 * i]
        BY <1>2, <3>1, <3>2
      <4>5. IsList(g[k]) /\ Len(g[k]) = 2 * k
        BY <1>1
      <4>6. 2 * k = 2
        BY <3>2
      <4>2. IsList(g[k]) /\ Len(g[k]) = 2 * k /\ Len(pairs[k]) = 2 * k
        BY <3>1, <4>5, <4>6
      <4>3. g[k] = pairs[k]
        BY <1>3, <3>1, <4>1, <4>2
      <4>4. QED
        BY <3>2, <4>3
    <3>3. CASE k # 1
      <4>0. k - 1 \in 1..n
        BY <3>3
      <4>1. IsList(g[k - 1]) /\ Len(g[k - 1]) = 2 * (k - 1)
        BY <1>1, <4>0
      <4> DEFINE y == g[k - 1] \o pairs[k]
      <4>7. /\ IsList(y) /\ Len(y) = Len(g[k - 1]) + Len(pairs[k])
            /\ \A i \in 1..(Len(g[k - 1]) + Len(pairs[k])) :
                   y[i] = IF i <= Len(g[k - 1]) THEN g[k - 1][i]
                          ELSE pairs[k][i - Len(g[k - 1])]
        BY <3>1, <4>1, ListJoin
      <4> HIDE DEF y
      <4>2. /\ IsList(y) /\ Len(y) = 2 * k
            /\ \A i \in 1..(2 * k) : y[i] = IF i <= 2 * (k - 1) THEN g[k - 1][i]
                                            ELSE pairs[k][i - 2 * (k - 1)]
        BY <3>1, <4>1, <4>7
      <4> HIDE DEF y
      <4>3. ASSUME NEW i \in 1..k PROVE y[2 * i - 1] = a[i] /\ y[2 * i] = b[i]
        <5>1. CASE i = k
          <6>1. /\ 2 * i - 1 \in 1..(2 * k) /\ 2 * i \in 1..(2 * k)
                /\ ~ (2 * i - 1 <= 2 * (k - 1)) /\ ~ (2 * i <= 2 * (k - 1))
                /\ 2 * i - 1 - 2 * (k - 1) = 1 /\ 2 * i - 2 * (k - 1) = 2
            BY <5>1
          <6>2. QED
            BY <3>1, <4>2, <5>1, <6>1
        <5>2. CASE i # k
          <6>1. i \in 1..(k - 1) /\ 2 * i <= 2 * (k - 1)
            BY <5>2
          <6>2. g[k - 1][2 * i - 1] = a[i] /\ g[k - 1][2 * i] = b[i]
            BY <1>2, <4>0, <6>1
          <6>3. QED
            BY <4>2, <6>1, <6>2
        <5>3. QED
          BY <5>1, <5>2
      <4>4. g[k] = y
        <5>1. \A i \in 1..k : g[k][2 * i - 1] = y[2 * i - 1] /\ g[k][2 * i] = y[2 * i]
          BY <1>2, <4>3
        <5>2. IsList(g[k]) /\ Len(g[k]) = 2 * k
          BY <1>1
        <5>3. QED
          BY <1>3, <4>2, <5>1, <5>2
      <4>5. QED
        BY <3>3, <4>4 DEF y
    <3>4. QED
      BY <3>2, <3>3
  <2>2. g = [k \in 1..n |-> g[k]]
    OBVIOUS
  <2> HIDE DEF g
  <2>3. QED
    BY <2>1, <2>2
<1> HIDE DEF g
<1>5. Flattens(flatten)
  BY <1>4
<1> HIDE DEF flatten
<1>6. ASSUME NEW k \in 1..n PROVE flatten[k] = g[k]
  <2> DEFINE Wrong == {m \in 1..n : flatten[m] # g[m]}
  <2>1. SUFFICES ASSUME Wrong # {} PROVE FALSE
    OBVIOUS
  <2>2. PICK m \in Wrong : \A l \in Wrong : m <= l
    <3>1. Wrong \subseteq Nat
      OBVIOUS
    <3> HIDE DEF Wrong
    <3>2. QED
      BY <2>1, <3>1, Least
  <2>3. flatten[m] = IF m = 1 THEN pairs[m] ELSE flatten[m - 1] \o pairs[m]
    BY <1>5
  <2>4. g[m] = IF m = 1 THEN pairs[m] ELSE g[m - 1] \o pairs[m]
    BY <1>4
  <2>5. m # 1 => m - 1 \in 1..n /\ m - 1 \notin Wrong
    BY <2>2
  <2>6. QED
    BY <2>2, <2>3, <2>4, <2>5
<1>7. FlattenSeq(pairs) = IF n = 0 THEN pairs ELSE flatten[n]
  BY <1>0 DEF FlattenSeq, flatten
<1>8. CASE n = 0
  BY <1>0, <1>7, <1>8
<1>9. CASE n # 0
  <2>1. n \in 1..n /\ FlattenSeq(pairs) = g[n]
    BY <1>6, <1>7, <1>9
  <2>2. QED
    BY <1>1, <1>2, <1>12, <2>1
<1>10. QED
  BY <1>8, <1>9
-----------------------------------------------------------------------------
(* Lists of operations *)

\* More on disk never hurts.
LEMMA SoundGrows ==
  ASSUME NEW s, NEW F, NEW G, F \subseteq G, Sound(s, F)
  PROVE  Sound(s, G)
BY DEF Sound

\* What two lists put on disk, one after the other.
LEMMA GainsJoin ==
  ASSUME NEW s, NEW t, IsList(s), IsList(t)
  PROVE  /\ \A i \in 1..Len(s) : (s \o t)[i] = s[i] /\ Gains(s \o t, i - 1) = Gains(s, i - 1)
         /\ \A i \in 1..Len(t) :
              /\ (s \o t)[Len(s) + i] = t[i]
              /\ Gains(s \o t, Len(s) + i - 1) = Gains(s, Len(s)) \cup Gains(t, i - 1)
         /\ Gains(s \o t, Len(s) + Len(t)) = Gains(s, Len(s)) \cup Gains(t, Len(t))
<1> DEFINE st == s \o t
<1>1. /\ Len(s) \in Nat /\ Len(t) \in Nat
      /\ \A i \in 1..(Len(s) + Len(t)) : st[i] = IF i <= Len(s) THEN s[i] ELSE t[i - Len(s)]
  BY ListJoin, ListFacts
<1> HIDE DEF st
<1>2. \A i \in 1..Len(s) : st[i] = s[i]
  BY <1>1
<1>3. \A i \in 1..Len(t) : st[Len(s) + i] = t[i]
  BY <1>1
<1>4. ASSUME NEW i \in 1..Len(s) PROVE Gains(st, i - 1) = Gains(s, i - 1)
  <2>1. \A j \in 1..(i - 1) : st[j] = s[j]
    BY <1>1, <1>2
  <2>2. QED
    BY <2>1 DEF Gains
<1>5. ASSUME NEW n \in 0..Len(t)
      PROVE  Gains(st, Len(s) + n) = Gains(s, Len(s)) \cup Gains(t, n)
  <2>1. ASSUME NEW x, x \in Gains(st, Len(s) + n)
        PROVE  x \in Gains(s, Len(s)) \cup Gains(t, n)
    <3>1. PICK j \in 1..(Len(s) + n) : x \in Yields(st[j])
      BY <2>1 DEF Gains
    <3>2. CASE j <= Len(s)
      <4>1. j \in 1..Len(s) /\ st[j] = s[j]
        BY <1>1, <1>2, <3>2
      <4>2. QED
        BY <3>1, <4>1 DEF Gains
    <3>3. CASE ~ (j <= Len(s))
      <4>1. j - Len(s) \in 1..n /\ st[j] = t[j - Len(s)]
        BY <1>1, <3>3
      <4>2. QED
        BY <3>1, <4>1 DEF Gains
    <3>4. QED
      BY <3>2, <3>3
  <2>2. ASSUME NEW x, x \in Gains(s, Len(s)) PROVE x \in Gains(st, Len(s) + n)
    <3>1. PICK j \in 1..Len(s) : x \in Yields(s[j])
      BY <2>2 DEF Gains
    <3>2. j \in 1..(Len(s) + n) /\ st[j] = s[j]
      BY <1>1, <1>2
    <3>3. QED
      BY <3>1, <3>2 DEF Gains
  <2>3. ASSUME NEW x, x \in Gains(t, n) PROVE x \in Gains(st, Len(s) + n)
    <3>1. PICK j \in 1..n : x \in Yields(t[j])
      BY <2>3 DEF Gains
    <3>2. Len(s) + j \in 1..(Len(s) + n) /\ st[Len(s) + j] = t[j]
      BY <1>1, <1>3
    <3>3. QED
      BY <3>1, <3>2 DEF Gains
  <2>4. QED
    BY <2>1, <2>2, <2>3
<1>6. \A i \in 1..Len(t) : Gains(st, Len(s) + i - 1) = Gains(s, Len(s)) \cup Gains(t, i - 1)
  <2>1. SUFFICES ASSUME NEW i \in 1..Len(t)
                 PROVE  Gains(st, Len(s) + i - 1) = Gains(s, Len(s)) \cup Gains(t, i - 1)
    OBVIOUS
  <2>2. i - 1 \in 0..Len(t) /\ Len(s) + i - 1 = Len(s) + (i - 1)
    BY <1>1
  <2>3. QED
    BY <1>5, <2>2
<1>7. Len(t) \in 0..Len(t)
  BY <1>1
<1>8. QED
  BY <1>2, <1>3, <1>4, <1>5, <1>6, <1>7 DEF st

\* The second list may rely on what the first one puts on disk.
LEMMA SoundJoin ==
  ASSUME NEW s, NEW t, IsList(s), IsList(t), NEW F,
         Sound(s, F), Sound(t, F \cup Gains(s, Len(s)))
  PROVE  Sound(s \o t, F)
<1> DEFINE st == s \o t
<1>1. /\ Len(s) \in Nat /\ Len(t) \in Nat /\ Len(st) = Len(s) + Len(t)
  BY ListJoin, ListFacts
<1>2. /\ \A i \in 1..Len(s) : st[i] = s[i] /\ Gains(st, i - 1) = Gains(s, i - 1)
      /\ \A i \in 1..Len(t) :
              /\ st[Len(s) + i] = t[i]
              /\ Gains(st, Len(s) + i - 1) = Gains(s, Len(s)) \cup Gains(t, i - 1)
  BY GainsJoin
<1> HIDE DEF st
<1>3. ASSUME NEW i \in 1..Len(st) PROVE Needs(st[i]) \subseteq F \cup Gains(st, i - 1)
  <2>1. CASE i <= Len(s)
    <3>1. i \in 1..Len(s)
      BY <1>1, <2>1
    <3>2. Needs(s[i]) \subseteq F \cup Gains(s, i - 1)
      BY <3>1 DEF Sound
    <3>3. QED
      BY <1>2, <3>1, <3>2
  <2>2. CASE ~ (i <= Len(s))
    <3> DEFINE j == i - Len(s)
    <3>1. j \in 1..Len(t) /\ i = Len(s) + j
      BY <1>1, <2>2
    <3> HIDE DEF j
    <3>2. Needs(t[j]) \subseteq F \cup Gains(s, Len(s)) \cup Gains(t, j - 1)
      BY <3>1 DEF Sound
    <3>3. st[i] = t[j] /\ Gains(st, i - 1) = Gains(s, Len(s)) \cup Gains(t, j - 1)
      BY <1>2, <3>1
    <3>4. QED
      BY <3>2, <3>3
  <2>3. QED
    BY <2>1, <2>2
<1>4. QED
  BY <1>3 DEF Sound, st

\* The head is done: what it put on disk is there.
LEMMA SoundTail ==
  ASSUME NEW s, IsList(s), s # <<>>, NEW F, NEW G, Sound(s, F),
         F \cup Yields(Head(s)) \subseteq G
  PROVE  Sound(Tail(s), G)
<1> DEFINE t == Tail(s)
<1>1. /\ Len(t) = Len(s) - 1 /\ Len(s) \in Nat \ {0}
      /\ \A i \in 1..Len(t) : t[i] = s[i + 1]
      /\ Head(s) = s[1]
  BY ListTail
<1> HIDE DEF t
<1>2. ASSUME NEW i \in 1..Len(t) PROVE Needs(t[i]) \subseteq G \cup Gains(t, i - 1)
  <2>1. i + 1 \in 1..Len(s) /\ t[i] = s[i + 1] /\ i + 1 - 1 = i
    BY <1>1
  <2>2. Needs(t[i]) \subseteq F \cup Gains(s, i)
    BY <2>1 DEF Sound
  <2>3. ASSUME NEW x, x \in Gains(s, i) PROVE x \in G \cup Gains(t, i - 1)
    <3>1. PICK j \in 1..i : x \in Yields(s[j])
      BY <2>3 DEF Gains
    <3>2. CASE j = 1
      BY <1>1, <3>1, <3>2
    <3>3. CASE j # 1
      <4>1. j - 1 \in 1..Len(t) /\ j - 1 \in 1..(i - 1) /\ j - 1 + 1 = j
        BY <1>1, <3>3
      <4>2. t[j - 1] = s[j]
        BY <1>1, <4>1
      <4>3. QED
        BY <3>1, <4>1, <4>2 DEF Gains
    <3>4. QED
      BY <3>2, <3>3
  <2>4. QED
    BY <2>2, <2>3
<1>3. QED
  BY <1>2 DEF Sound, t

\* Parts of a list, one after the other.
LEMMA PartJoin ==
  ASSUME NEW s, NEW t, NEW F, Part(s, F), Part(t, F \cup Gains(s, Len(s)))
  PROVE  /\ Part(s \o t, F)
         /\ Gains(s \o t, Len(s \o t)) = Gains(s, Len(s)) \cup Gains(t, Len(t))
<1> DEFINE st == s \o t
<1>1. IsList(s) /\ IsList(t)
  BY DEF Part
<1>2. /\ Len(s) \in Nat /\ Len(t) \in Nat /\ IsList(st) /\ Len(st) = Len(s) + Len(t)
      /\ \A i \in 1..(Len(s) + Len(t)) : st[i] = IF i <= Len(s) THEN s[i] ELSE t[i - Len(s)]
  BY <1>1, ListJoin, ListFacts
<1>3. Gains(st, Len(st)) = Gains(s, Len(s)) \cup Gains(t, Len(t))
  BY <1>1, <1>2, GainsJoin
<1>4. Sound(st, F)
  BY <1>1, SoundJoin DEF Part
<1> HIDE DEF st
<1>5. ASSUME NEW i \in 1..Len(st) PROVE Proper(st[i]) /\ st[i].do \in Planned
  <2>1. CASE i <= Len(s)
    BY <1>2, <2>1 DEF Part
  <2>2. CASE ~ (i <= Len(s))
    <3>1. i - Len(s) \in 1..Len(t) /\ st[i] = t[i - Len(s)]
      BY <1>2, <2>2
    <3>2. QED
      BY <3>1 DEF Part
  <2>3. QED
    BY <2>1, <2>2
<1>6. QED
  BY <1>2, <1>3, <1>4, <1>5 DEF Part, st

\* A part is a list a command may have.
LEMMA PartIsValid ==
  ASSUME NEW s, NEW F, Part(s, F)
  PROVE  Valid(s, F)
<1>1. IsList(s)
  BY DEF Part
<1>2. \A i \in 2..Len(s) : i \in 1..Len(s)
  BY <1>1, ListFacts
<1>3. s # <<>> => 1 \in 1..Len(s) /\ Head(s) = s[1]
  BY <1>1, ListTail
<1>4. s # <<>> => Head(s).do # "gather"
  BY <1>3 DEF Part, Planned
<1>5. QED
  BY <1>1, <1>2, <1>4 DEF Part, Valid

\* More on disk never hurts a command.
LEMMA ValidGrows ==
  ASSUME NEW s, NEW F, NEW G, F \subseteq G, Valid(s, F)
  PROVE  Valid(s, G)
BY SoundGrows DEF Valid

\* A command that has done its head goes on with a part.
LEMMA ValidTail ==
  ASSUME NEW s, NEW F, NEW G, Valid(s, F), s # <<>>, F \cup Yields(Head(s)) \subseteq G
  PROVE  Part(Tail(s), G)
<1> DEFINE t == Tail(s)
<1>1. /\ IsList(s) /\ IsList(t)
      /\ Len(t) = Len(s) - 1 /\ Len(s) \in Nat \ {0}
      /\ \A i \in 1..Len(t) : t[i] = s[i + 1]
  BY ListTail DEF Valid
<1>2. Sound(t, G)
  BY <1>1, SoundTail DEF Valid
<1> HIDE DEF t
<1>3. ASSUME NEW i \in 1..Len(t) PROVE Proper(t[i]) /\ t[i].do \in Planned
  <2>1. i + 1 \in 1..Len(s) /\ i + 1 \in 2..Len(s) /\ t[i] = s[i + 1]
    BY <1>1
  <2>2. QED
    BY <2>1 DEF Valid
<1>4. QED
  BY <1>1, <1>2, <1>3 DEF Part, t

\* The head of a list is replaced by other operations.
LEMMA ValidBecomes ==
  ASSUME NEW s, NEW ops, NEW F, NEW G, Valid(s, F), s # <<>>,
         F \cup Yields(Head(s)) \subseteq G, Valid(ops, G),
         ops # <<>> /\ Head(ops).do = "gather" => Len(s) = 1
  PROVE  Valid(ops \o Tail(s), G)
<1> DEFINE t == Tail(s)
           r == ops \o t
<1>1. Part(t, G)
  BY ValidTail
<1>2. IsList(s) /\ IsList(ops) /\ IsList(t) /\ Len(t) = Len(s) - 1
  BY ListTail DEF Valid
<1> HIDE DEF t
<1>3. /\ Len(ops) \in Nat /\ Len(t) \in Nat /\ IsList(r) /\ Len(r) = Len(ops) + Len(t)
      /\ \A i \in 1..(Len(ops) + Len(t)) :
             r[i] = IF i <= Len(ops) THEN ops[i] ELSE t[i - Len(ops)]
  BY <1>2, ListJoin, ListFacts
<1>4. Sound(t, G \cup Gains(ops, Len(ops)))
  BY <1>1, SoundGrows DEF Part
<1>5. Sound(r, G)
  BY <1>2, <1>4, SoundJoin DEF Valid
<1> HIDE DEF r
<1>6. ASSUME NEW i \in 1..Len(r)
      PROVE  Proper(r[i]) /\ (i # 1 => r[i].do \in Planned)
  <2>1. CASE i <= Len(ops)
    <3>1. i \in 1..Len(ops) /\ (i # 1 => i \in 2..Len(ops)) /\ r[i] = ops[i]
      BY <1>3, <2>1
    <3>2. QED
      BY <3>1 DEF Valid
  <2>2. CASE ~ (i <= Len(ops))
    <3>1. i - Len(ops) \in 1..Len(t) /\ r[i] = t[i - Len(ops)]
      BY <1>3, <2>2
    <3>2. QED
      BY <1>1, <3>1 DEF Part
  <2>3. QED
    BY <2>1, <2>2
<1>7. ASSUME r # <<>>, Head(r).do = "gather" PROVE Len(r) = 1
  <2>1. Len(r) # 0 /\ Head(r) = r[1]
    BY <1>3, <1>7, ListTail, ListFacts
  <2>2. CASE ops = <<>>
    <3>1. Len(ops) = 0
      BY <2>2, ListEmpty
    <3>2. 1 \in 1..Len(t) /\ r[1] = t[1]
      BY <1>3, <2>1, <3>1
    <3>3. t[1].do \in Planned
      BY <1>1, <3>2 DEF Part
    <3>4. QED
      BY <1>7, <2>1, <3>2, <3>3 DEF Planned
  <2>3. CASE ops # <<>>
    <3>1. Len(ops) # 0 /\ Head(ops) = ops[1]
      BY <1>2, <2>3, ListTail, ListFacts
    <3>2. r[1] = ops[1]
      BY <1>3, <3>1
    <3>3. Len(s) = 1 /\ Len(ops) = 1
      BY <1>7, <2>1, <2>3, <3>1, <3>2 DEF Valid
    <3>4. QED
      BY <1>2, <1>3, <3>3
  <2>4. QED
    BY <2>2, <2>3
<1>8. \A i \in 2..Len(r) : i \in 1..Len(r) /\ i # 1
  BY <1>3
<1>9. QED
  BY <1>3, <1>5, <1>6, <1>7, <1>8 DEF Valid, r, t
-----------------------------------------------------------------------------
(* What the commands start with *)

\* Transcripts, reviews, new documents and refreshes, of what is on disk.
LEMMA PartNeedsNothing ==
  ASSUME NEW s, NEW F, IsList(s),
         \A i \in 1..Len(s) : /\ s[i].do \in {"transcript", "review", "doc", "refresh"}
                              /\ Needs(s[i]) \subseteq F
  PROVE  Part(s, F)
<1>1. ASSUME NEW i \in 1..Len(s)
      PROVE  Proper(s[i]) /\ s[i].do \in Planned
  BY <1>1 DEF Proper, Planned
<1>2. Sound(s, F)
  BY DEF Sound
<1>3. QED
  BY <1>1, <1>2 DEF Part

\* Nothing to do.
LEMMA PartEmpty ==
  ASSUME NEW F
  PROVE  Part(<<>>, F) /\ Gains(<<>>, Len(<<>>)) = {}
<1>1. Sound(<<>>, F)
  BY ListEmpty DEF Sound
<1>2. QED
  BY <1>1, ListEmpty DEF Part, Gains

\* An event that stands alone in a list must be about facts.
LEMMA PartEvent ==
  ASSUME NEW e, NEW F, Claims(e) \subseteq F
  PROVE  Part(<<[do |-> "event", event |-> e]>>, F)
<1> DEFINE op == [do |-> "event", event |-> e]
           s == <<op>>
<1>1. IsList(s) /\ Len(s) = 1 /\ s[1] = op
  BY ListOne
<1>2. Needs(op) = Claims(e)
  BY DEF Needs
<1>3. Proper(op) /\ op.do \in Planned
  BY DEF Proper, Planned
<1> HIDE DEF op, s
<1>4. \A i \in 1..Len(s) : s[i] = op
  BY <1>1
<1>5. Sound(s, F)
  BY <1>2, <1>4 DEF Sound
<1>6. Part(s, F)
  BY <1>1, <1>3, <1>4, <1>5 DEF Part
<1>7. QED
  BY <1>6 DEF s, op

\* What admission appends: the line comes before the event that counts it.
LEMMA AdmissionPart ==
  ASSUME NEW surface, NEW session, NEW texts, NEW at, NEW F
  PROVE  Part(AdmissionWrites(surface, session, texts, at), F)
<1>1. CASE Flagged(texts) = {}
  BY <1>1, PartEmpty DEF AdmissionWrites
<1>2. CASE Flagged(texts) # {}
  <2> DEFINE line == [surface |-> surface, texts |-> Flagged(texts)]
             e == Event("security.admission", session, Flagged(texts), {}, at)
             a == [do |-> "admission", line |-> line]
             b == [do |-> "event", event |-> e]
             s == <<a, b>>
  <2>1. AdmissionWrites(surface, session, texts, at) = s
    BY <1>2 DEF AdmissionWrites
  <2>2. IsList(s) /\ Len(s) = 2 /\ s[1] = a /\ s[2] = b
    BY ListTwo
  <2>3. Claims(e) = {<<"line", Flagged(texts)>>}
    BY DEF Claims, Event
  <2>4. Yields(a) = {<<"line", Flagged(texts)>>} /\ Needs(a) = {}
    BY DEF Yields, Needs
  <2>5. Needs(b) = Claims(e)
    BY DEF Needs
  <2>6. Proper(a) /\ a.do \in Planned /\ Proper(b) /\ b.do \in Planned
    BY DEF Proper, Planned
  <2> HIDE DEF line, e, a, b, s
  <2>7. \A i \in 1..Len(s) : i = 1 \/ i = 2
    BY <2>2
  <2>8. Gains(s, 2 - 1) = Yields(a)
    BY <2>2 DEF Gains
  <2>9. Sound(s, F)
    BY <2>2, <2>3, <2>4, <2>5, <2>7, <2>8 DEF Sound
  <2>10. Part(s, F)
    BY <2>2, <2>6, <2>7, <2>9 DEF Part
  <2>11. QED
    BY <2>1, <2>10
<1>3. QED
  BY <1>1, <1>2

\* Captured artifacts need nothing and are all on disk at the end.
LEMMA CapturesPart ==
  ASSUME NEW ids, IsFiniteSet(ids), NEW F
  PROVE  /\ Part(Captures(ids), F)
         /\ Gains(Captures(ids), Len(Captures(ids))) = {<<"artifact", id>> : id \in ids}
         /\ \A i \in 1..Len(Captures(ids)) :
              /\ Captures(ids)[i].do = "persist"
              /\ Captures(ids)[i].record.status = "captured"
<1> DEFINE order == SetToSeq(ids)
           n == Cardinality(ids)
           s == Captures(ids)
<1>1. /\ IsList(order) /\ DOMAIN order = 1..n /\ n \in Nat
      /\ \A i \in 1..n : order[i] \in ids
      /\ \A x \in ids : \E i \in 1..n : order[i] = x
  BY SetToSeqLists
<1>2. s = [i \in 1..n |-> Persist(order[i], Captured(Admitted(order[i].title)))]
  BY <1>1 DEF Captures
<1> HIDE DEF n, order
<1>3. IsList(s) /\ Len(s) = n
  <2>1. s = [i \in 1..n |-> s[i]]
    BY <1>2
  <2> HIDE DEF s
  <2>2. QED
    BY <1>1, <2>1, ListMap
<1>4. ASSUME NEW i \in 1..n
      PROVE  /\ s[i].do = "persist" /\ s[i].id = order[i] /\ s[i].record.status = "captured"
  BY <1>2 DEF Persist, Captured
<1> HIDE DEF s
<1>5. ASSUME NEW i \in 1..n
      PROVE  /\ Needs(s[i]) = {} /\ Yields(s[i]) = {<<"artifact", order[i]>>}
             /\ Proper(s[i]) /\ s[i].do \in Planned
  <2>1. s[i].do = "persist" /\ s[i].id = order[i]
    BY <1>4
  <2>2. QED
    BY <2>1 DEF Needs, Yields, Proper, Planned
<1>6. Sound(s, F)
  BY <1>3, <1>5 DEF Sound
<1>7. Gains(s, Len(s)) = {<<"artifact", id>> : id \in ids}
  BY <1>1, <1>3, <1>5 DEF Gains
<1>8. QED
  BY <1>3, <1>4, <1>5, <1>6, <1>7 DEF Part, s

\* A turn has finitely many marks,
LEMMA TurnMarksFinite ==
  ASSUME NEW turn, IsFiniteSet(turn.marks)
  PROVE  IsFiniteSet(TurnMarks(turn))
<1>1. IsFiniteSet({"openLoop"})
  BY FS_Singleton
<1>2. {k \in turn.marks : k = "feedback" => turn.role = "user"} \in SUBSET turn.marks
  OBVIOUS
<1>3. IsFiniteSet({k \in turn.marks : k = "feedback" => turn.role = "user"})
  BY <1>2, FS_Subset
<1>4. QED
  BY <1>1, <1>3 DEF TurnMarks

\* so that a session gives finitely many artifacts.
LEMMA SessionArtifactsFinite ==
  ASSUME NEW c \in Commands, c.kind = "materialize"
  PROVE  IsFiniteSet(SessionArtifacts(c))
<1> DEFINE turns == ToSet(c.turns)
           ids(t) == {SessionId(k, c.goal, Admitted(t.text)) : k \in TurnMarks(t)}
           all == {ids(t) : t \in turns}
<1>1. IsFiniteSet(turns) /\ \A t \in turns : IsFiniteSet(t.marks)
  BY CommandAssumption, ListIsFinite DEF ToSet
<1>2. ASSUME NEW t \in turns PROVE IsFiniteSet(ids(t))
  <2> DEFINE g == [k \in TurnMarks(t) |-> SessionId(k, c.goal, Admitted(t.text))]
             T == ids(t)
  <2>1. IsFiniteSet(TurnMarks(t))
    BY <1>1, TurnMarksFinite
  <2>2. g = [k \in TurnMarks(t) |-> g[k]] /\ T = {g[k] : k \in TurnMarks(t)}
    OBVIOUS
  <2> HIDE DEF g, T
  <2>3. IsFiniteSet(T)
    BY <2>1, <2>2, FiniteImage
  <2>4. QED
    BY <2>3 DEF T
<1>3. IsFiniteSet(all)
  <2> DEFINE f == [t \in turns |-> ids(t)]
  <2>1. f = [t \in turns |-> f[t]] /\ all = {f[t] : t \in turns}
    OBVIOUS
  <2> HIDE DEF f, all
  <2>2. QED
    BY <1>1, <2>1, FiniteImage
<1>4. \A x \in all : IsFiniteSet(x)
  BY <1>2
<1>5. SessionArtifacts(c) = UNION all
  BY DEF SessionArtifacts
<1> HIDE DEF all
<1>6. QED
  BY <1>3, <1>4, <1>5, FS_UNION

\* session materialize: the artifacts come before the event that names them.
LEMMA MaterializePart ==
  ASSUME NEW c \in Commands, c.kind = "materialize", NEW F
  PROVE  Part(MaterializeWrites(c), F)
<1> DEFINE A == AdmissionWrites("session", c.session, {t.text : t \in ToSet(c.turns)}, c.at)
           T == [i \in DOMAIN c.turns |-> [do |-> "transcript", session |-> c.session,
                                           line |-> Admitted(c.turns[i].text)]]
           C == Captures(SessionArtifacts(c))
           e == Event("session.materialize", c.session, SessionArtifacts(c), {}, c.at)
           E == <<[do |-> "event", event |-> e]>>
           ids == SessionArtifacts(c)
<1>1. Part(A, F)
  BY AdmissionPart
<1>2. ASSUME NEW G PROVE Part(T, G)
  <2> DEFINE n == Len(c.turns)
  <2>1. n \in Nat /\ DOMAIN c.turns = 1..n
    BY CommandAssumption, ListFacts
  <2>2. T = [i \in 1..n |-> T[i]]
    BY <2>1
  <2>3. \A i \in 1..n : T[i].do = "transcript"
    BY <2>1
  <2> HIDE DEF T, n
  <2>4. IsList(T) /\ Len(T) = n
    BY <2>1, <2>2, ListMap
  <2>5. \A i \in 1..Len(T) : Needs(T[i]) = {}
    BY <2>3, <2>4 DEF Needs
  <2>6. QED
    BY <2>3, <2>4, <2>5, PartNeedsNothing
<1>3. ASSUME NEW G
      PROVE  Part(C, G) /\ Gains(C, Len(C)) = {<<"artifact", id>> : id \in ids}
  BY SessionArtifactsFinite, CapturesPart
<1>4. Claims(e) = {<<"artifact", id>> : id \in ids}
  BY DEF Claims, Event
<1>5. ASSUME NEW G, Claims(e) \subseteq G PROVE Part(E, G)
  BY <1>5, PartEvent
<1>6. MaterializeWrites(c) = A \o T \o C \o E
  BY DEF MaterializeWrites
<1> HIDE DEF A, T, C, E, e, ids
<1>7. Part(A \o T, F)
  BY <1>1, <1>2, PartJoin
<1>8. /\ Part(A \o T \o C, F)
      /\ Gains(C, Len(C)) \subseteq Gains(A \o T \o C, Len(A \o T \o C))
  BY <1>3, <1>7, PartJoin
<1>9. Part(A \o T \o C \o E, F)
  <2> DEFINE s == A \o T \o C
  <2>1. Claims(e) \subseteq F \cup Gains(s, Len(s))
    BY <1>3, <1>4, <1>8
  <2> HIDE DEF s
  <2>2. Part(E, F \cup Gains(s, Len(s)))
    BY <1>5, <2>1
  <2>3. Part(s, F)
    BY <1>8 DEF s
  <2>4. Part(s \o E, F)
    BY <2>2, <2>3, PartJoin
  <2>5. QED
    BY <2>4 DEF s
<1>10. QED
  BY <1>6, <1>9

\* artifact review.
LEMMA ReviewPart ==
  ASSUME NEW c \in Commands, c.kind = "review", NEW at, NEW F
  PROVE  Part(ReviewWrites(c, at), F)
<1> DEFINE T == ReviewWrites(c, at)
           n == Len(c.updates)
<1>1. n \in Nat /\ DOMAIN c.updates = 1..n
  BY CommandAssumption, ListFacts
<1>2. T = [i \in 1..n |-> T[i]]
  BY <1>1 DEF ReviewWrites
<1>3. \A i \in 1..n : T[i].do = "review"
  BY <1>1 DEF ReviewWrites
<1> HIDE DEF T, n
<1>4. IsList(T) /\ Len(T) = n
  BY <1>1, <1>2, ListMap
<1>5. \A i \in 1..Len(T) : Needs(T[i]) = {}
  BY <1>3, <1>4 DEF Needs
<1>6. Part(T, F)
  BY <1>3, <1>4, <1>5, PartNeedsNothing
<1>7. QED
  BY <1>6 DEF T

\* memory wrap: the session file comes before everything that names the session.
LEMMA WrapPart ==
  ASSUME NEW c \in Commands, c.kind = "wrap", NEW F
  PROVE  Part(WrapWrites(c), F)
<1> DEFINE A == AdmissionWrites("memory.wrap", c.session, {c.goal}, c.at)
           state == WorkingState(c)
           e == Event("memory.wrap", c.session, ActiveLoops(c.loops), {}, c.at)
           o1 == [do |-> "session", session |-> c.session, record |-> [loops |-> c.loops]]
           o2 == [do |-> "current", state |-> state]
           o3 == [do |-> "registry", state |-> state]
           o4 == [do |-> "event", event |-> e]
           s == <<o1, o2, o3, o4>>
           fact == {<<"session", c.session>>}
<1>1. Part(A, F)
  BY AdmissionPart
<1>2. WrapWrites(c) = A \o s
  BY DEF WrapWrites
<1>3. IsList(s) /\ Len(s) = 4 /\ s[1] = o1 /\ s[2] = o2 /\ s[3] = o3 /\ s[4] = o4
  BY ListFour
<1>4. Claims(e) = fact
  BY DEF Claims, Event
<1>5. state.session = c.session /\ \A l \in state.loops : l.status # "closed"
  BY DEF WorkingState, ActiveLoops
<1>6. c.session \in Nat
  BY CommandAssumption
<1> HIDE DEF state, e
<1>7. /\ Yields(o1) = fact /\ Needs(o1) = {} /\ Needs(o2) = fact
      /\ Needs(o3) = fact /\ Needs(o4) = fact
  BY <1>4, <1>5 DEF Yields, Needs
<1>8. /\ Proper(o1) /\ o1.do \in Planned
      /\ Proper(o2) /\ o2.do \in Planned
  BY <1>5, <1>6 DEF Proper, Planned
<1>9. /\ Proper(o3) /\ o3.do \in Planned
      /\ Proper(o4) /\ o4.do \in Planned
  BY <1>5 DEF Proper, Planned
<1> HIDE DEF A, o1, o2, o3, o4, s, fact
<1>10. \A i \in 1..Len(s) : i = 1 \/ i = 2 \/ i = 3 \/ i = 4
  BY <1>3
<1>11. \A i \in 2..4 : fact \subseteq Gains(s, i - 1)
  <2>1. \A i \in 2..4 : 1 \in 1..(i - 1)
    OBVIOUS
  <2>2. QED
    BY <1>3, <1>7, <2>1 DEF Gains
<1>12. ASSUME NEW G PROVE Part(s, G)
  <2>1. ASSUME NEW i \in 1..Len(s) PROVE Needs(s[i]) \subseteq G \cup Gains(s, i - 1)
    <3>1. CASE i = 1
      BY <1>3, <1>7, <3>1
    <3>2. CASE i # 1
      <4>1. i \in 2..4 /\ Needs(s[i]) = fact
        BY <1>3, <1>7, <1>10, <3>2
      <4>2. QED
        BY <1>11, <4>1
    <3>3. QED
      BY <3>1, <3>2
  <2>2. Sound(s, G)
    BY <2>1 DEF Sound
  <2>3. \A i \in 1..Len(s) : Proper(s[i]) /\ s[i].do \in Planned
    BY <1>3, <1>8, <1>9, <1>10
  <2>4. QED
    BY <1>3, <2>2, <2>3 DEF Part
<1>13. Part(A \o s, F)
  BY <1>1, <1>12, PartJoin
<1>14. QED
  BY <1>2, <1>13

\* What harness capture captures is finite.
LEMMA CaptureIdsFinite ==
  ASSUME NEW c \in Commands, c.kind = "capture"
  PROVE  IsFiniteSet(HarnessIds(c)) /\ IsFiniteSet(OwnSuite(c))
<1>1. IsFiniteSet(HarnessIds(c))
  <2> DEFINE f == [r \in c.resources |-> HarnessId(r.kind, c.goal, r.title)]
             T == HarnessIds(c)
  <2>1. IsFiniteSet(c.resources)
    BY CommandAssumption
  <2>2. f = [r \in c.resources |-> f[r]] /\ T = {f[r] : r \in c.resources}
    BY DEF HarnessIds
  <2> HIDE DEF f, T
  <2>3. IsFiniteSet(T)
    BY <2>1, <2>2, FiniteImage
  <2>4. QED
    BY <2>3 DEF T
<1>2. IsFiniteSet(OwnSuite(c))
  <2>1. OwnSuite(c) = {} \/ OwnSuite(c) = {HarnessId("suite", c.goal, SuiteTitle[c.goal])}
    BY DEF OwnSuite
  <2>2. QED
    BY <2>1, FS_EmptySet, FS_Singleton
<1>3. QED
  BY <1>1, <1>2

\* harness capture: the artifacts come before the event that names them.
LEMMA CapturePart ==
  ASSUME NEW c \in Commands, c.kind = "capture", NEW at, NEW F
  PROVE  Part(CaptureWrites(c, at), F)
<1> DEFINE H == HarnessIds(c)
           O == OwnSuite(c)
           C == Captures(H)
           D == Captures(O)
           A == AdmissionWrites("harness.capture", NoRecord,
                                {c.goal} \cup {r.title : r \in c.resources}, at)
           e == Event("harness.capture", NoRecord, H \cup O, {}, at)
           E == <<[do |-> "event", event |-> e]>>
<1>1. IsFiniteSet(H)
  BY CaptureIdsFinite
<1>2. IsFiniteSet(O)
  BY CaptureIdsFinite
<1>3. ASSUME NEW G PROVE Part(C, G) /\ Gains(C, Len(C)) = {<<"artifact", id>> : id \in H}
  BY <1>1, CapturesPart
<1>4. ASSUME NEW G PROVE Part(D, G) /\ Gains(D, Len(D)) = {<<"artifact", id>> : id \in O}
  BY <1>2, CapturesPart
<1>5. ASSUME NEW G PROVE Part(A, G)
  BY AdmissionPart
<1>6. Claims(e) = {<<"artifact", id>> : id \in H \cup O}
  BY DEF Claims, Event
<1>7. ASSUME NEW G, Claims(e) \subseteq G PROVE Part(E, G)
  BY <1>7, PartEvent
<1>8. CaptureWrites(c, at) = C \o D \o A \o E
  BY DEF CaptureWrites
<1> HIDE DEF H, O, C, D, A, E, e
<1> DEFINE s == C \o D
           t == s \o A
<1>9. Part(s, F) /\ Gains(s, Len(s)) = Gains(C, Len(C)) \cup Gains(D, Len(D))
  BY <1>3, <1>4, PartJoin
<1> HIDE DEF s
<1>10. Part(t, F) /\ Gains(t, Len(t)) = Gains(s, Len(s)) \cup Gains(A, Len(A))
  <2>1. Part(A, F \cup Gains(s, Len(s)))
    BY <1>5
  <2>2. QED
    BY <1>9, <2>1, PartJoin
<1> HIDE DEF t
<1>11. Claims(e) \subseteq F \cup Gains(t, Len(t))
  BY <1>3, <1>4, <1>6, <1>9, <1>10
<1>12. Part(E, F \cup Gains(t, Len(t)))
  BY <1>7, <1>11
<1>13. Part(t \o E, F)
  BY <1>10, <1>12, PartJoin
<1>14. QED
  BY <1>8, <1>13 DEF s, t

\* The end of a promotion.
LEMMA ConcludePart ==
  ASSUME NEW surface \in {"memory.promote", "harness.promote"}, NEW refs, NEW texts, NEW at, NEW F
  PROVE  Part(Conclude(surface, refs, texts, at), F)
<1> DEFINE A == AdmissionWrites(surface, NoRecord, texts, at)
           a == [do |-> "reconcile", needed |-> TRUE]
           b == [do |-> "announce", type |-> surface, refs |-> refs, at |-> at]
           s == <<a, b>>
<1>1. Part(A, F)
  BY AdmissionPart
<1>2. Conclude(surface, refs, texts, at) = A \o s
  BY DEF Conclude
<1>3. IsList(s) /\ Len(s) = 2 /\ s[1] = a /\ s[2] = b
  BY ListTwo
<1>4. Needs(a) = {} /\ Needs(b) = {}
  BY DEF Needs
<1>5. Proper(a) /\ a.do \in Planned /\ Proper(b) /\ b.do \in Planned
  BY DEF Proper, Planned
<1> HIDE DEF A, a, b, s
<1>6. \A i \in 1..Len(s) : i = 1 \/ i = 2
  BY <1>3
<1>7. ASSUME NEW G PROVE Part(s, G)
  BY <1>3, <1>4, <1>5, <1>6 DEF Part, Sound
<1>8. QED
  BY <1>1, <1>2, <1>7, PartJoin

\* memory promote, once it knows what it promotes.
LEMMA MemoryPromotionPart ==
  ASSUME NEW c, IsList(c.candidates), NEW ready, IsList(ready), NEW at, NEW F
  PROVE  Part(MemoryPromotion(c, ready, at), F)
<1> DEFINE all == c.candidates \o ready
           n == Len(all)
           T == [i \in DOMAIN all |-> MemoryDocument(all[i])]
           C == Conclude("memory.promote", ToSet(c.refs), {all[i].title : i \in DOMAIN all}, at)
<1>1. MemoryPromotion(c, ready, at) = T \o C
  BY DEF MemoryPromotion
<1>2. ASSUME NEW G PROVE Part(C, G)
  BY ConcludePart
<1>3. n \in Nat /\ DOMAIN all = 1..n
  BY ListJoin, ListFacts
<1> HIDE DEF C, all
<1>4. T = [i \in 1..n |-> T[i]]
  BY <1>3
<1>5. \A i \in 1..n : T[i].do = "doc"
  BY <1>3 DEF MemoryDocument
<1> HIDE DEF T, n
<1>6. IsList(T) /\ Len(T) = n
  BY <1>3, <1>4, ListMap
<1>7. \A i \in 1..Len(T) : Needs(T[i]) = {}
  BY <1>5, <1>6 DEF Needs
<1>8. Part(T, F)
  BY <1>5, <1>6, <1>7, PartNeedsNothing
<1>9. QED
  BY <1>1, <1>2, <1>8, PartJoin

\* What promoteHarness writes for each artifact.
LEMMA Promotions ==
  ASSUME NEW ready, IsList(ready)
  PROVE  LET n == Len(ready)
             s == FlattenSeq([i \in DOMAIN ready |->
                     <<[do |-> "doc", blocked |-> FALSE, source |-> ready[i].id,
                        path |-> FixedPath(ready[i].id, ready[i].record)],
                       Persist(ready[i].id, Promoted(ready[i].record))>>])
         IN  /\ n \in Nat /\ IsList(s) /\ Len(s) = 2 * n
             /\ \A i \in 1..n :
                  /\ s[2 * i - 1] = [do |-> "doc", blocked |-> FALSE, source |-> ready[i].id,
                                     path |-> FixedPath(ready[i].id, ready[i].record)]
                  /\ s[2 * i] = Persist(ready[i].id, Promoted(ready[i].record))
<1> DEFINE n == Len(ready)
           a(i) == [do |-> "doc", blocked |-> FALSE, source |-> ready[i].id,
                    path |-> FixedPath(ready[i].id, ready[i].record)]
           b(i) == Persist(ready[i].id, Promoted(ready[i].record))
           pairs == [i \in DOMAIN ready |-> <<a(i), b(i)>>]
<1>1. n \in Nat /\ DOMAIN ready = 1..n
  BY ListFacts
<1> HIDE DEF n, a, b
<1>2. pairs = [i \in 1..n |-> pairs[i]] /\ \A i \in 1..n : pairs[i] = <<a(i), b(i)>>
  BY <1>1
<1> HIDE DEF pairs
<1>3. IsList(pairs) /\ Len(pairs) = n
  BY <1>1, <1>2, ListMap
<1>4. ASSUME NEW i \in 1..n
      PROVE  IsList(pairs[i]) /\ Len(pairs[i]) = 2 /\ pairs[i][1] = a(i) /\ pairs[i][2] = b(i)
  <2> DEFINE x == a(i)
             y == b(i)
             z == pairs[i]
  <2>1. z = <<x, y>>
    BY <1>2
  <2> HIDE DEF x, y, z
  <2>2. IsList(z) /\ Len(z) = 2 /\ z[1] = x /\ z[2] = y
    BY <2>1, ListTwo
  <2>3. QED
    BY <2>2 DEF x, y, z
<1> DEFINE s == FlattenSeq(pairs)
<1>5. IsList(s) /\ Len(s) = 2 * n /\ \A i \in 1..n : s[2 * i - 1] = a(i) /\ s[2 * i] = b(i)
  BY <1>1, <1>3, <1>4, PairsInTurn
<1>6. QED
  BY <1>1, <1>5 DEF n, a, b, pairs

\* harness promote, once it knows what it promotes.
LEMMA HarnessPromotionPart ==
  ASSUME NEW c, NEW ready, IsList(ready), NEW at, NEW F
  PROVE  Part(HarnessPromotion(c, ready, at), F)
<1> DEFINE n == Len(ready)
           s == FlattenSeq([i \in DOMAIN ready |->
                     <<[do |-> "doc", blocked |-> FALSE, source |-> ready[i].id,
                        path |-> FixedPath(ready[i].id, ready[i].record)],
                       Persist(ready[i].id, Promoted(ready[i].record))>>])
           C == Conclude("harness.promote", ToSet(c.refs),
                         {ready[i].record.title : i \in DOMAIN ready}, at)
<1>1. HarnessPromotion(c, ready, at) = s \o C
  BY DEF HarnessPromotion
<1>2. ASSUME NEW G PROVE Part(C, G)
  BY ConcludePart
<1>3. /\ n \in Nat /\ IsList(s) /\ Len(s) = 2 * n
      /\ \A i \in 1..n :
           /\ s[2 * i - 1] = [do |-> "doc", blocked |-> FALSE, source |-> ready[i].id,
                                     path |-> FixedPath(ready[i].id, ready[i].record)]
           /\ s[2 * i] = Persist(ready[i].id, Promoted(ready[i].record))
  BY Promotions
<1> HIDE DEF n, s, C
<1>4. ASSUME NEW i \in 1..n PROVE s[2 * i - 1].do = "doc" /\ s[2 * i].do = "persist"
  <2>4. s[2 * i - 1] = [do |-> "doc", blocked |-> FALSE, source |-> ready[i].id,
                        path |-> FixedPath(ready[i].id, ready[i].record)]
    BY <1>3
  <2>1. s[2 * i - 1].do = "doc"
    BY <2>4
  <2>2. s[2 * i] = Persist(ready[i].id, Promoted(ready[i].record))
    BY <1>3
  <2>3. QED
    BY <2>1, <2>2 DEF Persist
<1>5. \A j \in 1..(2 * n) : \E i \in 1..n : j = 2 * i - 1 \/ j = 2 * i
  <2>1. SUFFICES ASSUME NEW j \in 1..(2 * n)
                 PROVE  \E i \in 1..n : j = 2 * i - 1 \/ j = 2 * i
    OBVIOUS
  <2> DEFINE i == (j + 1) \div 2
  <2>2. i \in 1..n /\ (j = 2 * i - 1 \/ j = 2 * i)
    BY <1>3
  <2>3. QED
    BY <2>2
<1>6. ASSUME NEW j \in 1..Len(s) PROVE s[j].do = "doc" \/ s[j].do = "persist"
  <2>1. PICK i \in 1..n : j = 2 * i - 1 \/ j = 2 * i
    BY <1>3, <1>5
  <2>2. s[2 * i - 1].do = "doc" /\ s[2 * i].do = "persist"
    BY <1>4
  <2>3. QED
    BY <2>1, <2>2
<1>7. \A j \in 1..Len(s) : Needs(s[j]) = {} /\ Proper(s[j]) /\ s[j].do \in Planned
  BY <1>6 DEF Needs, Proper, Planned
<1>8. Part(s, F)
  BY <1>3, <1>7 DEF Part, Sound
<1>9. QED
  BY <1>1, <1>2, <1>8, PartJoin

\* docs refresh, of documents that exist.
LEMMA RefreshPart ==
  ASSUME IsFiniteSet(DOMAIN docs), NEW F, \A path \in DOMAIN docs : <<"doc", path>> \in F
  PROVE  Part(RefreshWrites, F)
<1> DEFINE order == SetToSeq(DOMAIN docs)
           n == Cardinality(DOMAIN docs)
           T == [i \in DOMAIN order |-> [do |-> "refresh", path |-> order[i]]]
           op == [do |-> "reconcile", needed |-> FALSE]
           s == <<op>>
<1>1. /\ DOMAIN order = 1..n /\ n \in Nat /\ \A i \in 1..n : order[i] \in DOMAIN docs
  BY SetToSeqLists
<1>2. RefreshWrites = T \o s
  BY DEF RefreshWrites
<1> HIDE DEF order, n
<1>3. T = [i \in 1..n |-> T[i]]
  BY <1>1
<1>4. \A i \in 1..n : T[i].do = "refresh" /\ T[i].path \in DOMAIN docs
  BY <1>1
<1> HIDE DEF T
<1>5. IsList(T) /\ Len(T) = n
  BY <1>1, <1>3, ListMap
<1>6. \A i \in 1..Len(T) : Needs(T[i]) \subseteq F
  BY <1>4, <1>5 DEF Needs
<1>7. Part(T, F)
  BY <1>4, <1>5, <1>6, PartNeedsNothing
<1>8. IsList(s) /\ Len(s) = 1 /\ s[1] = op
  BY ListOne
<1>9. Needs(op) = {} /\ Proper(op) /\ op.do \in Planned
  BY DEF Needs, Proper, Planned
<1> HIDE DEF op, s
<1>10. \A i \in 1..Len(s) : s[i] = op
  BY <1>8
<1>11. ASSUME NEW G PROVE Part(s, G)
  BY <1>8, <1>9, <1>10 DEF Part, Sound
<1>12. QED
  BY <1>2, <1>7, <1>11, PartJoin

\* A promotion before it knows what it promotes.
LEMMA GatherValid ==
  ASSUME NEW c \in Commands, c.kind \in {"memory.promote", "harness.promote"}, NEW at, NEW F
  PROVE  Valid(Gather(c, at), F)
<1> DEFINE op == [do |-> "gather", c |-> c, refs |-> c.refs, ready |-> <<>>, at |-> at]
           s == <<op>>
<1>1. IsList(s) /\ Len(s) = 1 /\ s[1] = op
  BY ListOne
<1>2. Proper(op)
  BY CommandAssumption, ListEmpty DEF Proper, Planned, Halves
<1>3. Needs(op) = {}
  BY DEF Needs
<1>4. Gather(c, at) = s
  BY DEF Gather
<1> HIDE DEF op, s
<1>5. (\A i \in 1..Len(s) : s[i] = op) /\ 2..Len(s) = {}
  BY <1>1
<1>6. Sound(s, F)
  BY <1>3, <1>5 DEF Sound
<1>7. QED
  BY <1>1, <1>2, <1>4, <1>5, <1>6 DEF Valid

\* Every command starts with a list in which what an operation speaks of is on
\* disk or written by an operation before it.
LEMMA PlanValid ==
  ASSUME IsFiniteSet(DOMAIN docs), NEW c \in Commands, NEW at
  PROVE  Valid(Plan(c, at), Facts)
<1>1. c.kind \in {"materialize", "review", "wrap", "capture", "memory.promote",
                       "harness.promote", "refresh"}
  BY CommandAssumption
<1>2. CASE c.kind = "materialize"
  <2>1. Plan(c, at) = MaterializeWrites(c)
    BY <1>2 DEF Plan
  <2>2. QED
    BY <1>2, <2>1, MaterializePart, PartIsValid
<1>3. CASE c.kind = "review"
  <2>1. Plan(c, at) = ReviewWrites(c, at)
    BY <1>3 DEF Plan
  <2>2. QED
    BY <1>3, <2>1, ReviewPart, PartIsValid
<1>4. CASE c.kind = "wrap"
  <2>1. Plan(c, at) = WrapWrites(c)
    BY <1>4 DEF Plan
  <2>2. QED
    BY <1>4, <2>1, WrapPart, PartIsValid
<1>5. CASE c.kind = "capture"
  <2>1. Plan(c, at) = CaptureWrites(c, at)
    BY <1>5 DEF Plan
  <2>2. QED
    BY <1>5, <2>1, CapturePart, PartIsValid
<1>6. CASE c.kind \in {"memory.promote", "harness.promote"}
  <2>1. Plan(c, at) = Gather(c, at)
    BY <1>6 DEF Plan
  <2>2. QED
    BY <1>6, <2>1, GatherValid
<1>7. CASE c.kind = "refresh"
  <2>1. Plan(c, at) = RefreshWrites
    BY <1>7 DEF Plan
  <2>2. \A path \in DOMAIN docs : <<"doc", path>> \in Facts
    BY DEF Facts
  <2>3. QED
    BY <2>1, <2>2, RefreshPart, PartIsValid
<1>8. QED
  BY <1>1, <1>2, <1>3, <1>4, <1>5, <1>6, <1>7
-----------------------------------------------------------------------------
(* Facts: one step *)

\* No file but the ledger is ever shortened.
LEMMA FactsGrow ==
  ASSUME DOMAIN artifacts \subseteq DOMAIN artifacts', DOMAIN sessions \subseteq DOMAIN sessions',
         DOMAIN docs \subseteq DOMAIN docs', admitted \subseteq admitted'
  PROVE  Facts \subseteq Facts'
BY DEF Facts

\* What is known of the operation a command does next.
LEMMA HeadFacts ==
  ASSUME FactsInv, NEW p \in Procs, ~ Idle(p)
  PROVE  /\ IsList(todo[p]) /\ Len(todo[p]) \in Nat \ {0} /\ Arg(p) = todo[p][1]
         /\ Proper(Arg(p)) /\ Needs(Arg(p)) \subseteq Facts
         /\ Valid(todo[p], Facts) /\ todo[p] # <<>>
<1>1. Valid(todo[p], Facts) /\ todo[p] # <<>>
  BY DEF FactsInv, TodoIsSound, Idle
<1>2. IsList(todo[p]) /\ Len(todo[p]) \in Nat \ {0} /\ Arg(p) = todo[p][1]
  BY <1>1, ListTail DEF Valid, Arg
<1>3. 1 \in 1..Len(todo[p]) /\ Gains(todo[p], 1 - 1) = {}
  BY <1>2 DEF Gains
<1>4. QED
  BY <1>1, <1>2, <1>3 DEF Valid, Sound

\* One command goes on: the others rely on no less than before.
LEMMA TodoStep ==
  ASSUME TodoIsSound, NEW p \in Procs, NEW x, todo' = [todo EXCEPT ![p] = x],
         Valid(x, Facts'), Facts \subseteq Facts'
  PROVE  TodoIsSound'
<1>1. DOMAIN todo' = Procs
  BY DEF TodoIsSound
<1>2. ASSUME NEW q \in Procs PROVE Valid(todo'[q], Facts')
  <2>1. CASE q = p
    BY <2>1 DEF TodoIsSound
  <2>2. CASE q # p
    <3>1. todo'[q] = todo[q] /\ Valid(todo[q], Facts)
      BY <2>2 DEF TodoIsSound
    <3>2. QED
      BY <3>1, ValidGrows
  <2>3. QED
    BY <2>1, <2>2
<1>3. QED
  BY <1>1, <1>2 DEF TodoIsSound

\* The next operation of a command is done.
LEMMA DoneStep ==
  ASSUME FactsInv, NEW p \in Procs, ~ Idle(p), Done(p), Facts \cup Yields(Arg(p)) \subseteq Facts'
  PROVE  TodoIsSound'
<1>1. Valid(todo[p], Facts) /\ todo[p] # <<>>
  BY HeadFacts
<1>2. Part(Tail(todo[p]), Facts')
  BY <1>1, ValidTail DEF Arg
<1>3. Valid(Tail(todo[p]), Facts')
  BY <1>2, PartIsValid
<1>4. todo' = [todo EXCEPT ![p] = Tail(todo[p])] /\ Facts \subseteq Facts'
  BY DEF Done
<1>5. QED
  BY <1>3, <1>4, TodoStep DEF FactsInv

\* The next operation of a command becomes others.
LEMMA BecomesStep ==
  ASSUME FactsInv, NEW p \in Procs, ~ Idle(p), NEW ops, Becomes(p, ops),
         Facts \cup Yields(Arg(p)) \subseteq Facts', Valid(ops, Facts'),
         ops # <<>> /\ Head(ops).do = "gather" => Len(todo[p]) = 1
  PROVE  TodoIsSound'
<1>1. Valid(todo[p], Facts) /\ todo[p] # <<>>
  BY HeadFacts
<1>2. Valid(ops \o Tail(todo[p]), Facts')
  BY <1>1, ValidBecomes DEF Arg
<1>3. todo' = [todo EXCEPT ![p] = ops \o Tail(todo[p])] /\ Facts \subseteq Facts'
  BY DEF Becomes
<1>4. QED
  BY <1>2, <1>3, TodoStep DEF FactsInv

\* A command drops what it still had to do.
LEMMA FailStep ==
  ASSUME FactsInv, NEW p \in Procs, Fail(p), Facts \subseteq Facts'
  PROVE  TodoIsSound'
<1>1. Valid(<<>>, Facts')
  BY PartEmpty, PartIsValid
<1>2. todo' = [todo EXCEPT ![p] = <<>>]
  BY DEF Fail
<1>3. QED
  BY <1>1, <1>2, TodoStep DEF FactsInv

\* The parts of the invariant a step does not touch.
LEMMA LedgerKept ==
  ASSUME FactsInv, UNCHANGED ledger, Facts \subseteq Facts'
  PROVE  LedgerIsTrue'
BY DEF FactsInv, LedgerIsTrue

\* The working state is not written.
LEMMA MemoryKept ==
  ASSUME FactsInv, UNCHANGED memory, Facts \subseteq Facts'
  PROVE  Anchored(current)' /\ Anchored(registry)' /\ SessionsAreSorted'
<1>1. UNCHANGED sessions /\ UNCHANGED current /\ UNCHANGED registry
  BY DEF memory
<1>2. Anchored(current)'
  BY <1>1 DEF FactsInv, Anchored
<1>3. Anchored(registry)'
  BY <1>1 DEF FactsInv, Anchored
<1>4. SessionsAreSorted'
  BY <1>1 DEF FactsInv, SessionsAreSorted
<1>5. QED
  BY <1>2, <1>3, <1>4

\* No document is written.
LEMMA DocsKept ==
  ASSUME FactsInv, UNCHANGED <<docs, made>>
  PROVE  MadeExists' /\ IsFiniteSet(DOMAIN docs)'
BY DEF FactsInv, MadeExists

\* A step that writes no file but changes what a command has to do.
LEMMA NoFileStep ==
  ASSUME FactsInv, TodoIsSound',
         UNCHANGED <<artifacts, sessions, current, registry, docs, ledger, admitted, made>>
  PROVE  FactsInv'
<1>1. Facts' = Facts
  BY DEF Facts
<1>2. QED
  BY <1>1, LedgerKept, MemoryKept, DocsKept DEF FactsInv, memory

\* No file an event may speak of is written.
LEMMA SameFacts ==
  ASSUME UNCHANGED <<artifacts, sessions, docs, admitted>>
  PROVE  Facts' = Facts
BY DEF Facts

\* A list of one operation.
LEMMA OneValid ==
  ASSUME NEW op, Proper(op), NEW F, Needs(op) \subseteq F
  PROVE  Valid(<<op>>, F)
<1> DEFINE s == <<op>>
<1>1. IsList(s) /\ Len(s) = 1 /\ s[1] = op
  BY ListOne
<1> HIDE DEF s
<1>2. (\A i \in 1..Len(s) : s[i] = op) /\ 2..Len(s) = {}
  BY <1>1
<1>3. Sound(s, F)
  BY <1>2 DEF Sound
<1>4. Valid(s, F)
  BY <1>1, <1>2, <1>3 DEF Valid
<1>5. QED
  BY <1>4 DEF s

\* Its head.
LEMMA HeadOfOne ==
  ASSUME NEW op
  PROVE  <<op>> # <<>> /\ Head(<<op>>) = op
OBVIOUS

\* One operation takes the place of the head.
LEMMA ReplaceStep ==
  ASSUME FactsInv, NEW p \in Procs, ~ Idle(p), NEW op, Becomes(p, <<op>>),
         Yields(Arg(p)) = {}, Facts \subseteq Facts', Proper(op), Needs(op) \subseteq Facts',
         op.do # "gather"
  PROVE  TodoIsSound'
<1>1. Valid(<<op>>, Facts')
  BY OneValid
<1> DEFINE ops == <<op>>
<1>2. Head(ops).do # "gather"
  BY HeadOfOne
<1> HIDE DEF ops
<1>3. Becomes(p, ops) /\ Valid(ops, Facts')
  BY <1>1 DEF ops
<1>4. Facts \cup Yields(Arg(p)) \subseteq Facts'
  OBVIOUS
<1>5. QED
  BY <1>2, <1>3, <1>4, BecomesStep
-----------------------------------------------------------------------------
(* Facts: every action *)

\* An initialised store.
LEMMA FactsInit == ASSUME Init PROVE FactsInv
<1>1. /\ DOMAIN todo = Procs /\ DOMAIN made = Procs /\ DOMAIN sessions = {} /\ DOMAIN docs = {}
      /\ \A p \in Procs : todo[p] = <<>> /\ made[p] = {}
  <2>1. DOMAIN <<>> = {}
    OBVIOUS
  <2>2. QED
    BY <2>1 DEF Init
<1>2. TodoIsSound
  <2>1. Valid(<<>>, Facts)
    BY PartEmpty, PartIsValid
  <2>2. QED
    BY <1>1, <2>1 DEF TodoIsSound
<1>3. MadeExists
  BY <1>1 DEF MadeExists
<1>4. LedgerIsTrue
  <2>1. ledger = <<>>
    BY DEF Init
  <2>2. 1..Len(ledger) = {} /\ IsList(ledger)
    BY <2>1, ListEmpty
  <2>3. QED
    BY <2>2 DEF LedgerIsTrue
<1>5. Anchored(current) /\ Anchored(registry)
  BY DEF Init, Anchored
<1>6. SessionsAreSorted
  <2>1. sessions = <<>>
    BY DEF Init
  <2>2. QED
    BY <1>1, <2>1 DEF SessionsAreSorted
<1>7. IsFiniteSet(DOMAIN docs)
  BY <1>1, FS_EmptySet
<1>8. QED
  BY <1>2, <1>3, <1>4, <1>5, <1>6, <1>7 DEF FactsInv

\* A command starts with what is on disk.
LEMMA FactsStart ==
  ASSUME FactsInv, NEW p \in Procs, NEW c \in Commands, Start(p, c)
  PROVE  FactsInv'
<1>1. /\ todo' = [todo EXCEPT ![p] = Plan(c, started)] /\ made' = [made EXCEPT ![p] = {}]
      /\ UNCHANGED <<artifacts, memory, docs, ledger, admitted>>
  BY DEF Start, authority
<1>2. Facts' = Facts
  BY <1>1, SameFacts DEF memory
<1>3. Valid(Plan(c, started), Facts)
  BY PlanValid DEF FactsInv
<1>4. TodoIsSound'
  BY <1>1, <1>2, <1>3, TodoStep DEF FactsInv
<1>5. MadeExists'
  <2>1. ASSUME NEW q \in Procs PROVE made'[q] \subseteq DOMAIN docs'
    <3>1. made'[q] = {} \/ made'[q] = made[q]
      BY <1>1 DEF FactsInv, MadeExists
    <3>2. QED
      BY <1>1, <3>1 DEF FactsInv, MadeExists
  <2>2. QED
    BY <1>1, <2>1 DEF FactsInv, MadeExists
<1>6. IsFiniteSet(DOMAIN docs)'
  BY <1>1 DEF FactsInv
<1>7. LedgerIsTrue'
  BY <1>1, <1>2, LedgerKept
<1>8. QED
  BY <1>1, <1>2, <1>4, <1>5, <1>6, <1>7, MemoryKept DEF FactsInv

\* appendAdmission.
LEMMA FactsAdmission ==
  ASSUME FactsInv, NEW p \in Procs, AppendAdmission(p)
  PROVE  FactsInv'
<1>1. /\ ~ Idle(p) /\ Arg(p).do = "admission" /\ Done(p)
      /\ admitted' = admitted \cup {Arg(p).line}
      /\ UNCHANGED <<artifacts, memory, docs, ledger, made>>
  BY DEF AppendAdmission, Op, Arg, authority
<1>2. Facts \subseteq Facts'
  BY <1>1, FactsGrow DEF memory
<1>3. Yields(Arg(p)) = {<<"line", Arg(p).line.texts>>}
  BY <1>1 DEF Yields
<1>4. <<"line", Arg(p).line.texts>> \in Facts'
  BY <1>1 DEF Facts
<1>5. TodoIsSound'
  BY <1>1, <1>2, <1>3, <1>4, DoneStep
<1>6. LedgerIsTrue'
  BY <1>1, <1>2, LedgerKept
<1>7. QED
  BY <1>1, <1>2, <1>5, <1>6, MemoryKept, DocsKept DEF FactsInv

\* The event a command is about to append is about facts.
LEMMA FactsLookUpEvent ==
  ASSUME FactsInv, NEW p \in Procs, LookUpEvent(p)
  PROVE  FactsInv'
<1> DEFINE op == [do |-> "append", event |-> Arg(p).event]
<1>1. /\ ~ Idle(p) /\ Arg(p).do = "event" /\ (Done(p) \/ Becomes(p, <<op>>))
      /\ UNCHANGED <<artifacts, sessions, current, registry, docs, ledger, admitted, made>>
  BY DEF LookUpEvent, Op, Arg, authority, memory
<1>2. Facts' = Facts
  BY <1>1, SameFacts
<1>3. Yields(Arg(p)) = {} /\ Needs(Arg(p)) = Claims(Arg(p).event)
  BY <1>1 DEF Yields, Needs
<1>4. Needs(Arg(p)) \subseteq Facts
  BY <1>1, HeadFacts
<1>5. Proper(op) /\ op.do # "gather" /\ Needs(op) = Claims(Arg(p).event)
  BY DEF Proper, Needs, Planned, Halves
<1> HIDE DEF op
<1>6. CASE Done(p)
  <2>1. TodoIsSound'
    BY <1>1, <1>2, <1>3, <1>6, DoneStep
  <2>2. QED
    BY <1>1, <2>1, NoFileStep
<1>7. CASE Becomes(p, <<op>>)
  <2>1. TodoIsSound'
    BY <1>1, <1>2, <1>3, <1>4, <1>5, <1>7, ReplaceStep
  <2>2. QED
    BY <1>1, <2>1, NoFileStep
<1>8. QED
  BY <1>1, <1>6, <1>7

\* appendLedgerEvent appends it.
LEMMA FactsAppendEvent ==
  ASSUME FactsInv, NEW p \in Procs, AppendEvent(p)
  PROVE  FactsInv'
<1>1. /\ ~ Idle(p) /\ Arg(p).do = "append" /\ Done(p)
      /\ ledger' = Append(ledger, Arg(p).event)
      /\ UNCHANGED <<artifacts, memory, sessions, docs, admitted, made>>
  BY DEF AppendEvent, Op, Arg, authority, memory
<1>2. Facts' = Facts
  BY <1>1, SameFacts
<1>3. Yields(Arg(p)) = {} /\ Needs(Arg(p)) = Claims(Arg(p).event)
  BY <1>1 DEF Yields, Needs
<1>4. Claims(Arg(p).event) \subseteq Facts
  BY <1>1, <1>3, HeadFacts
<1>5. TodoIsSound'
  BY <1>1, <1>2, <1>3, DoneStep
<1>6. LedgerIsTrue'
  <2> DEFINE e == Arg(p).event
             l == Append(ledger, e)
  <2>1. IsList(ledger) /\ Len(ledger) \in Nat
    BY ListFacts DEF FactsInv, LedgerIsTrue
  <2>2. /\ IsList(l) /\ Len(l) = Len(ledger) + 1 /\ l[Len(ledger) + 1] = e
        /\ \A i \in 1..Len(ledger) : l[i] = ledger[i]
    BY <2>1, ListAppend
  <2>3. Claims(e) \subseteq Facts
    BY <1>4
  <2>4. ledger' = l
    BY <1>1
  <2> HIDE DEF e, l
  <2>5. ASSUME NEW i \in 1..Len(l) PROVE Claims(l[i]) \subseteq Facts
    <3>1. CASE i = Len(ledger) + 1
      BY <2>2, <2>3, <3>1
    <3>2. CASE i # Len(ledger) + 1
      <4>1. i \in 1..Len(ledger)
        BY <2>1, <2>2, <3>2
      <4>2. QED
        BY <2>2, <4>1 DEF FactsInv, LedgerIsTrue
    <3>3. QED
      BY <3>1, <3>2
  <2>6. QED
    BY <1>2, <2>2, <2>4, <2>5 DEF LedgerIsTrue
<1>7. QED
  BY <1>1, <1>2, <1>5, <1>6, MemoryKept, DocsKept DEF FactsInv

\* The transcript.
LEMMA FactsAppendTurn ==
  ASSUME FactsInv, NEW p \in Procs, AppendTurn(p)
  PROVE  FactsInv'
<1>1. /\ ~ Idle(p) /\ Arg(p).do = "transcript" /\ Done(p)
      /\ UNCHANGED <<artifacts, sessions, current, registry, docs, ledger, admitted, made>>
  BY DEF AppendTurn, Op, Arg, authority, memory
<1>2. Facts' = Facts /\ Yields(Arg(p)) = {}
  BY <1>1, SameFacts DEF Yields
<1>3. TodoIsSound'
  BY <1>1, <1>2, DoneStep
<1>4. QED
  BY <1>1, <1>3, NoFileStep

\* An artifact is written.
LEMMA FactsPersist ==
  ASSUME FactsInv, NEW p \in Procs, PersistArtifact(p)
  PROVE  FactsInv'
<1>1. /\ ~ Idle(p) /\ Arg(p).do = "persist" /\ Done(p)
      /\ artifacts' = Put(artifacts, Arg(p).id, Arg(p).record)
      /\ UNCHANGED <<memory, docs, ledger, admitted, made>>
  BY DEF PersistArtifact, Op, Arg, authority
<1>2. DOMAIN artifacts' = DOMAIN artifacts \cup {Arg(p).id}
  BY <1>1 DEF Put
<1>3. Facts \subseteq Facts'
  BY <1>1, <1>2, FactsGrow DEF memory
<1>4. Yields(Arg(p)) = {<<"artifact", Arg(p).id>>}
  BY <1>1 DEF Yields
<1>5. <<"artifact", Arg(p).id>> \in Facts'
  BY <1>2 DEF Facts
<1>6. TodoIsSound'
  BY <1>1, <1>3, <1>4, <1>5, DoneStep
<1>7. LedgerIsTrue'
  BY <1>1, <1>3, LedgerKept
<1>8. QED
  BY <1>1, <1>3, <1>6, <1>7, MemoryKept, DocsKept DEF FactsInv

\* A review writes the artifact before the event that names it.
LEMMA FactsReview ==
  ASSUME FactsInv, NEW p \in Procs, Review(p)
  PROVE  FactsInv'
<1> DEFINE u == Arg(p).update
           old == artifacts[u.id]
           a == Persist(u.id, [status |-> u.next, tier |-> old.tier,
                               title |-> old.title, supersedes |-> u.supersedes])
           e == Event("artifact.review", NoRecord, {u.id}, {}, Arg(p).at)
           b == [do |-> "event", event |-> e]
           ops == <<a, b>>
<1>1. /\ ~ Idle(p) /\ Arg(p).do = "review" /\ (Done(p) \/ Becomes(p, ops))
      /\ UNCHANGED <<artifacts, sessions, current, registry, docs, ledger, admitted, made>>
  BY DEF Review, Op, Arg, authority, memory
<1>2. Facts' = Facts /\ Yields(Arg(p)) = {}
  BY <1>1, SameFacts DEF Yields
<1>3. CASE Done(p)
  <2>1. TodoIsSound'
    BY <1>1, <1>2, <1>3, DoneStep
  <2>2. QED
    BY <1>1, <2>1, NoFileStep
<1>4. CASE Becomes(p, ops)
  <2>1. IsList(ops) /\ Len(ops) = 2 /\ ops[1] = a /\ ops[2] = b
    BY ListTwo
  <2>2. Claims(e) = {<<"artifact", u.id>>}
    BY DEF Claims, Event
  <2>3. a.do = "persist" /\ a.id = u.id
    BY DEF Persist
  <2> HIDE DEF a
  <2>4. Needs(a) = {} /\ Yields(a) = {<<"artifact", u.id>>} /\ Proper(a) /\ a.do \in Planned
    BY <2>3 DEF Needs, Yields, Proper, Planned
  <2> HIDE DEF e
  <2>5. Needs(b) = Claims(e) /\ Proper(b) /\ b.do \in Planned
    BY DEF Needs, Proper, Planned
  <2> HIDE DEF b, ops, u
  <2>6. Gains(ops, 2 - 1) = Yields(a) /\ \A i \in 1..Len(ops) : i = 1 \/ i = 2
    BY <2>1 DEF Gains
  <2>7. Part(ops, Facts)
    BY <2>1, <2>2, <2>4, <2>5, <2>6 DEF Part, Sound
  <2>8. Valid(ops, Facts')
    BY <1>2, <2>7, PartIsValid
  <2>9. Head(ops).do # "gather"
    BY <2>1, <2>3, ListTail, ListFacts
  <2>10. TodoIsSound'
    BY <1>1, <1>2, <1>4, <2>8, <2>9, BecomesStep
  <2>11. QED
    BY <1>1, <2>10, NoFileStep
<1>5. QED
  BY <1>1, <1>3, <1>4

\* The session file; the highest name is still one of a session.
LEMMA FactsSession ==
  ASSUME FactsInv, NEW p \in Procs, WriteSession(p)
  PROVE  FactsInv'
<1> DEFINE s == Arg(p).session
<1>1. /\ ~ Idle(p) /\ Arg(p).do = "session" /\ Done(p)
      /\ sessions' = Put(sessions, s, Arg(p).record)
      /\ UNCHANGED <<artifacts, current, registry, docs, ledger, admitted, made>>
  BY DEF WriteSession, Op, Arg, authority
<1>2. DOMAIN sessions' = DOMAIN sessions \cup {s}
  BY <1>1 DEF Put
<1>3. Facts \subseteq Facts'
  BY <1>1, <1>2, FactsGrow
<1>4. Yields(Arg(p)) = {<<"session", s>>}
  BY <1>1 DEF Yields
<1>5. <<"session", s>> \in Facts'
  BY <1>2 DEF Facts
<1>6. TodoIsSound'
  BY <1>1, <1>3, <1>4, <1>5, DoneStep
<1>7. LedgerIsTrue'
  BY <1>1, <1>3, LedgerKept
<1>8. Anchored(current)' /\ Anchored(registry)'
  <2>1. current' = current /\ registry' = registry
    BY <1>1
  <2>2. QED
    BY <1>3, <2>1 DEF FactsInv, Anchored
<1>9. s \in Nat
  <2>1. Proper(Arg(p))
    BY <1>1, HeadFacts
  <2>2. QED
    BY <1>1, <2>1 DEF Proper
<1> HIDE DEF s
<1>10. SessionsAreSorted'
  <2>1. DOMAIN sessions' \subseteq Nat
    BY <1>2, <1>9 DEF FactsInv, SessionsAreSorted
  <2>2. \E m \in DOMAIN sessions' : \A t \in DOMAIN sessions' : t <= m
    <3>1. CASE sessions = <<>>
      <4>1. DOMAIN sessions' = {s}
        BY <1>2, <3>1
      <4>2. QED
        BY <1>9, <4>1
    <3>2. CASE sessions # <<>>
      <4>1. PICK m \in DOMAIN sessions : \A t \in DOMAIN sessions : t <= m
        BY <3>2 DEF FactsInv, SessionsAreSorted
      <4>2. m \in Nat /\ DOMAIN sessions \subseteq Nat
        BY DEF FactsInv, SessionsAreSorted
      <4>3. CASE s <= m
        <5>1. \A t \in DOMAIN sessions' : t <= m
          BY <1>2, <4>1, <4>3
        <5>2. QED
          BY <1>2, <5>1
      <4>4. CASE m < s
        <5>1. \A t \in DOMAIN sessions' : t <= s
          BY <1>2, <1>9, <4>1, <4>2, <4>4
        <5>2. QED
          BY <1>2, <5>1
      <4>5. QED
        BY <1>9, <4>2, <4>3, <4>4
    <3>3. QED
      BY <3>1, <3>2
  <2>3. QED
    BY <2>1, <2>2 DEF SessionsAreSorted
<1>11. QED
  BY <1>1, <1>6, <1>7, <1>8, <1>10, DocsKept DEF FactsInv

\* current.json and open-loops.json name a session that is on disk.
LEMMA FactsState ==
  ASSUME FactsInv, NEW p \in Procs, WriteCurrent(p) \/ WriteRegistry(p)
  PROVE  FactsInv'
<1> DEFINE state == Arg(p).state
<1>1. /\ ~ Idle(p) /\ Arg(p).do \in {"current", "registry"} /\ Done(p)
      /\ current' = current \/ current' = state
      /\ registry' = registry \/ registry' = state
      /\ UNCHANGED <<artifacts, sessions, docs, ledger, admitted, made>>
  BY DEF WriteCurrent, WriteRegistry, Op, Arg, authority
<1>2. Facts' = Facts /\ Yields(Arg(p)) = {}
  BY <1>1, SameFacts DEF Yields
<1>3. TodoIsSound'
  BY <1>1, <1>2, DoneStep
<1>4. Anchored(state)
  <2>1. Proper(Arg(p)) /\ Needs(Arg(p)) \subseteq Facts
    BY <1>1, HeadFacts
  <2>2. Needs(Arg(p)) = {<<"session", state.session>>}
    BY <1>1 DEF Needs
  <2>3. QED
    BY <1>1, <2>1, <2>2 DEF Proper, Anchored
<1> HIDE DEF state
<1>5. Anchored(current)'
  BY <1>1, <1>2, <1>4 DEF FactsInv, Anchored
<1>6. Anchored(registry)'
  BY <1>1, <1>2, <1>4 DEF FactsInv, Anchored
<1>7. SessionsAreSorted'
  BY <1>1 DEF FactsInv, SessionsAreSorted
<1>8. LedgerIsTrue'
  BY <1>1, <1>2, LedgerKept
<1>9. QED
  BY <1>1, <1>3, <1>5, <1>6, <1>7, <1>8, DocsKept DEF FactsInv

\* A promotion loads its references, then knows its writes.
LEMMA FactsGathers ==
  ASSUME FactsInv, NEW p \in Procs, Gathers(p)
  PROVE  FactsInv'
<1> DEFINE op == Arg(p)
           ref == Head(op.refs)
           Loaded(ready) == [do |-> "gather", c |-> op.c, refs |-> Tail(op.refs),
                             ready |-> op.ready \o ready, at |-> op.at]
           one == <<[id |-> ref, record |-> artifacts[ref]]>>
<1>1. /\ ~ Idle(p) /\ op.do = "gather"
      /\ UNCHANGED <<artifacts, sessions, current, registry, docs, ledger, admitted, made>>
  BY DEF Gathers, Op, Arg, authority, memory
<1>2. Facts' = Facts /\ Yields(op) = {}
  BY <1>1, SameFacts DEF Yields
<1>3. /\ op.c.kind \in {"memory.promote", "harness.promote"}
      /\ IsList(op.refs) /\ IsList(op.ready)
      /\ op.c.kind = "memory.promote" => IsList(op.c.candidates)
  <2>1. Proper(op)
    BY <1>1, HeadFacts
  <2>2. QED
    BY <1>1, <2>1 DEF Proper
<1>4. \/ op.refs = <<>> /\ op.c.kind = "memory.promote"
         /\ Becomes(p, MemoryPromotion(op.c, op.ready, op.at))
      \/ op.refs = <<>> /\ op.c.kind = "harness.promote"
         /\ Becomes(p, HarnessPromotion(op.c, op.ready, op.at))
      \/ op.refs # <<>> /\ Becomes(p, <<Loaded(CandidateOf(ref))>>)
      \/ op.refs # <<>> /\ Becomes(p, <<Loaded(<<>>)>>)
      \/ op.refs # <<>> /\ Becomes(p, <<Loaded(one)>>)
      \/ Fail(p)
  BY <1>3 DEF Gathers
<1>5. Len(todo[p]) = 1
  BY <1>1, HeadFacts DEF Valid, Arg
<1>6. ASSUME NEW ready, IsList(ready), op.refs # <<>>
      PROVE  Valid(<<Loaded(ready)>>, Facts')
  <2>1. IsList(Tail(op.refs)) /\ IsList(op.ready \o ready)
    BY <1>3, <1>6, ListTail, ListJoin
  <2> DEFINE new == Loaded(ready)
  <2>2. Proper(new)
    BY <1>3, <2>1 DEF Proper, Planned, Halves
  <2>3. Needs(new) = {}
    BY DEF Needs
  <2> HIDE DEF new
  <2>4. Valid(<<new>>, Facts')
    BY <2>2, <2>3, OneValid
  <2>5. QED
    BY <2>4 DEF new
<1>7. ASSUME NEW ops, Becomes(p, ops), Valid(ops, Facts') PROVE FactsInv'
  <2>1. TodoIsSound'
    BY <1>1, <1>2, <1>5, <1>7, BecomesStep
  <2>2. QED
    BY <1>1, <2>1, NoFileStep
<1>8. IsList(CandidateOf(ref))
  BY ListOne, ListEmpty DEF CandidateOf
<1>9. IsList(one)
  BY ListOne
<1> HIDE DEF op, ref, Loaded, one
<1>10. CASE op.c.kind = "memory.promote" /\ Becomes(p, MemoryPromotion(op.c, op.ready, op.at))
  <2>1. Valid(MemoryPromotion(op.c, op.ready, op.at), Facts')
    BY <1>3, <1>10, MemoryPromotionPart, PartIsValid
  <2>2. QED
    BY <1>7, <1>10, <2>1
<1>11. CASE op.c.kind = "harness.promote" /\ Becomes(p, HarnessPromotion(op.c, op.ready, op.at))
  <2>1. Valid(HarnessPromotion(op.c, op.ready, op.at), Facts')
    BY <1>3, <1>11, HarnessPromotionPart, PartIsValid
  <2>2. QED
    BY <1>7, <1>11, <2>1
<1>12. ASSUME NEW ready, IsList(ready), op.refs # <<>>, Becomes(p, <<Loaded(ready)>>)
       PROVE  FactsInv'
  <2>1. Valid(<<Loaded(ready)>>, Facts')
    BY <1>6, <1>12
  <2>2. QED
    BY <1>7, <1>12, <2>1
<1>13. IsList(<<>>)
  BY ListEmpty
<1>14. CASE Fail(p)
  <2>1. TodoIsSound'
    BY <1>2, <1>14, FailStep
  <2>2. QED
    BY <1>1, <2>1, NoFileStep
<1>15. QED
  BY <1>4, <1>8, <1>9, <1>10, <1>11, <1>12, <1>13, <1>14

\* createDoc looks up the path.
LEMMA FactsResolveDoc ==
  ASSUME FactsInv, NEW p \in Procs, ResolveDoc(p)
  PROVE  FactsInv'
<1> DEFINE d == Arg(p)
           path == IF d.path.n = 0 THEN FreePath(d.path.folder, d.path.title) ELSE d.path
           op == [do |-> "create", path |-> path, source |-> d.source]
<1>1. /\ ~ Idle(p) /\ Arg(p).do = "doc" /\ (Fail(p) \/ Becomes(p, <<op>>))
      /\ UNCHANGED <<artifacts, sessions, current, registry, docs, ledger, admitted, made>>
  BY DEF ResolveDoc, Op, Arg, authority, memory
<1>2. Facts' = Facts /\ Yields(Arg(p)) = {}
  BY <1>1, SameFacts DEF Yields
<1>3. Proper(op) /\ op.do # "gather" /\ Needs(op) = {}
  BY DEF Proper, Needs, Planned, Halves
<1> HIDE DEF op
<1>4. TodoIsSound'
  <2>1. CASE Fail(p)
    BY <1>2, <2>1, FailStep
  <2>2. CASE Becomes(p, <<op>>)
    BY <1>1, <1>2, <1>3, <2>2, ReplaceStep
  <2>3. QED
    BY <1>1, <2>1, <2>2
<1>5. QED
  BY <1>1, <1>4, NoFileStep

\* A document is written under its path, and the others stay.
LEMMA DocsPut ==
  ASSUME FactsInv, NEW path, NEW doc, docs' = Put(docs, path, doc),
         UNCHANGED <<artifacts, sessions, current, registry, ledger, admitted>>,
         DOMAIN made' = Procs, \A q \in Procs : made'[q] \subseteq made[q] \cup {path},
         Facts \subseteq Facts' => TodoIsSound'
  PROVE  FactsInv'
<1>1. DOMAIN docs' = DOMAIN docs \cup {path}
  BY DEF Put
<1>2. Facts \subseteq Facts'
  BY <1>1, FactsGrow
<1>3. IsFiniteSet(DOMAIN docs')
  BY <1>1, FS_AddElement DEF FactsInv
<1>4. MadeExists'
  BY <1>1 DEF FactsInv, MadeExists
<1>5. LedgerIsTrue'
  BY <1>2, LedgerKept
<1>6. QED
  BY <1>2, <1>3, <1>4, <1>5, MemoryKept DEF FactsInv, memory

\* createDoc writes the document.
LEMMA FactsCreateDoc ==
  ASSUME FactsInv, NEW p \in Procs, CreateDoc(p)
  PROVE  FactsInv'
<1>1. /\ ~ Idle(p) /\ Arg(p).do = "create" /\ Done(p)
      /\ docs' = Put(docs, Arg(p).path, Document(Arg(p).source, TRUE, 0))
      /\ made' = [made EXCEPT ![p] = made[p] \cup {Arg(p).path}]
      /\ UNCHANGED <<artifacts, sessions, current, registry, ledger, admitted>>
  BY DEF CreateDoc, Op, Arg, memory
<1>2. Yields(Arg(p)) = {}
  BY <1>1 DEF Yields
<1>3. ASSUME Facts \subseteq Facts' PROVE TodoIsSound'
  BY <1>1, <1>2, <1>3, DoneStep
<1>4. DOMAIN made' = Procs /\ \A q \in Procs : made'[q] \subseteq made[q] \cup {Arg(p).path}
  BY <1>1 DEF FactsInv, MadeExists
<1>5. QED
  BY <1>1, <1>3, <1>4, DocsPut

\* refreshDocs reads a document.
LEMMA FactsReadForRefresh ==
  ASSUME FactsInv, NEW p \in Procs, ReadForRefresh(p)
  PROVE  FactsInv'
<1> DEFINE doc == docs[Arg(p).path]
           op == [do |-> "rewrite", path |-> Arg(p).path,
                  doc |-> Document(doc.source, TRUE, doc.rev)]
<1>1. /\ ~ Idle(p) /\ Arg(p).do = "refresh" /\ (Done(p) \/ Becomes(p, <<op>>))
      /\ UNCHANGED <<artifacts, sessions, current, registry, docs, ledger, admitted, made>>
  BY DEF ReadForRefresh, Op, Arg, authority, memory
<1>2. Facts' = Facts /\ Yields(Arg(p)) = {}
  BY <1>1, SameFacts DEF Yields
<1>3. Proper(op) /\ op.do # "gather" /\ Needs(op) = {<<"doc", Arg(p).path>>}
  BY DEF Proper, Needs, Planned, Halves
<1>4. Needs(Arg(p)) = {<<"doc", Arg(p).path>>} /\ Needs(Arg(p)) \subseteq Facts
  BY <1>1, HeadFacts DEF Needs
<1> HIDE DEF op
<1>5. TodoIsSound'
  <2>1. CASE Done(p)
    BY <1>1, <1>2, <2>1, DoneStep
  <2>2. CASE Becomes(p, <<op>>)
    BY <1>1, <1>2, <1>3, <1>4, <2>2, ReplaceStep
  <2>3. QED
    BY <1>1, <2>1, <2>2
<1>6. QED
  BY <1>1, <1>5, NoFileStep

\* refreshDocs writes it back.
LEMMA FactsRewrite ==
  ASSUME FactsInv, NEW p \in Procs, Rewrite(p)
  PROVE  FactsInv'
<1>1. /\ ~ Idle(p) /\ Arg(p).do = "rewrite" /\ Done(p)
      /\ docs' = Put(docs, Arg(p).path, Arg(p).doc)
      /\ UNCHANGED <<artifacts, sessions, current, registry, ledger, admitted, made>>
  BY DEF Rewrite, Op, Arg, memory
<1>2. Yields(Arg(p)) = {}
  BY <1>1 DEF Yields
<1>3. ASSUME Facts \subseteq Facts' PROVE TodoIsSound'
  BY <1>1, <1>2, <1>3, DoneStep
<1>4. DOMAIN made' = Procs /\ \A q \in Procs : made'[q] \subseteq made[q] \cup {Arg(p).path}
  BY <1>1 DEF FactsInv, MadeExists
<1>5. QED
  BY <1>1, <1>3, <1>4, DocsPut

\* reconcileDocs reads every document.
LEMMA FactsBuildIndex ==
  ASSUME FactsInv, NEW p \in Procs, BuildAuthorityIndex(p)
  PROVE  FactsInv'
<1> DEFINE op == [do |-> "index", entries |->
                    {[path |-> path, wellFormed |-> docs[path].wellFormed] : path \in DOMAIN docs}]
<1>1. /\ ~ Idle(p) /\ Arg(p).do = "reconcile" /\ (Done(p) \/ Becomes(p, <<op>>))
      /\ UNCHANGED <<artifacts, sessions, current, registry, docs, ledger, admitted, made>>
  BY DEF BuildAuthorityIndex, Op, Arg, authority, memory
<1>2. Facts' = Facts /\ Yields(Arg(p)) = {}
  BY <1>1, SameFacts DEF Yields
<1>3. Proper(op) /\ op.do # "gather" /\ Needs(op) = {}
  BY DEF Proper, Needs, Planned, Halves
<1> HIDE DEF op
<1>4. TodoIsSound'
  <2>1. CASE Done(p)
    BY <1>1, <1>2, <2>1, DoneStep
  <2>2. CASE Becomes(p, <<op>>)
    BY <1>1, <1>2, <1>3, <2>2, ReplaceStep
  <2>3. QED
    BY <1>1, <2>1, <2>2
<1>5. QED
  BY <1>1, <1>4, NoFileStep

\* reconcileDocs writes the index.
LEMMA FactsWriteIndex ==
  ASSUME FactsInv, NEW p \in Procs, WriteAuthorityIndex(p)
  PROVE  FactsInv'
<1>1. /\ ~ Idle(p) /\ Arg(p).do = "index" /\ Done(p)
      /\ UNCHANGED <<artifacts, sessions, current, registry, docs, ledger, admitted, made>>
  BY DEF WriteAuthorityIndex, Op, Arg, memory
<1>2. Facts' = Facts /\ Yields(Arg(p)) = {}
  BY <1>1, SameFacts DEF Yields
<1>3. TodoIsSound'
  BY <1>1, <1>2, DoneStep
<1>4. QED
  BY <1>1, <1>3, NoFileStep

\* A promotion announces documents it has created.
LEMMA FactsAnnounce ==
  ASSUME FactsInv, NEW p \in Procs, Announce(p)
  PROVE  FactsInv'
<1> DEFINE e == Event(Arg(p).type, NoRecord, Arg(p).refs, made[p],
                      IF Arg(p).type = "memory.promote" THEN Arg(p).at ELSE 0)
           op == [do |-> "event", event |-> e]
<1>1. /\ ~ Idle(p) /\ Arg(p).do = "announce" /\ (Done(p) \/ Becomes(p, <<op>>))
      /\ UNCHANGED <<artifacts, sessions, current, registry, docs, ledger, admitted, made>>
  BY DEF Announce, Op, Arg, authority, memory
<1>2. Facts' = Facts /\ Yields(Arg(p)) = {}
  BY <1>1, SameFacts DEF Yields
<1>3. Claims(e) \subseteq Facts
  <2>1. Arg(p).type \in {"memory.promote", "harness.promote"}
    BY <1>1, HeadFacts DEF Proper
  <2>2. e.type = Arg(p).type /\ e.paths = made[p]
    BY DEF Event
  <2> HIDE DEF e
  <2>3. Claims(e) = {<<"doc", path>> : path \in made[p]}
    BY <2>1, <2>2 DEF Claims
  <2>4. made[p] \subseteq DOMAIN docs
    BY DEF FactsInv, MadeExists
  <2>5. QED
    BY <2>3, <2>4 DEF Facts
<1> HIDE DEF e
<1>4. Proper(op) /\ op.do # "gather" /\ Needs(op) = Claims(e)
  BY DEF Proper, Needs, Planned, Halves
<1> HIDE DEF op
<1>5. TodoIsSound'
  <2>1. CASE Done(p)
    BY <1>1, <1>2, <2>1, DoneStep
  <2>2. CASE Becomes(p, <<op>>)
    BY <1>1, <1>2, <1>3, <1>4, <2>2, ReplaceStep
  <2>3. QED
    BY <1>1, <2>1, <2>2
<1>6. QED
  BY <1>1, <1>5, NoFileStep

\* A crash leaves what is on disk.
LEMMA FactsCrash ==
  ASSUME FactsInv, NEW p \in Procs, Crash(p)
  PROVE  FactsInv'
<1>1. /\ Fail(p)
      /\ UNCHANGED <<artifacts, sessions, current, registry, docs, ledger, admitted, made>>
  BY DEF Crash, authority, memory
<1>2. Facts' = Facts
  BY <1>1, SameFacts
<1>3. TodoIsSound'
  BY <1>1, <1>2, FailStep
<1>4. QED
  BY <1>1, <1>3, NoFileStep

\* A user edits a document; it stays where it was.
LEMMA FactsEdit ==
  ASSUME FactsInv, NEW path \in DOMAIN docs, EditDoc(path)
  PROVE  FactsInv'
<1>1. /\ docs' = Put(docs, path, Document(docs[path].source, FALSE, docs[path].rev + 1))
      /\ UNCHANGED <<artifacts, sessions, current, registry, ledger, admitted, todo, made>>
  BY DEF EditDoc, memory
<1>2. ASSUME Facts \subseteq Facts' PROVE TodoIsSound'
  BY <1>1, <1>2, ValidGrows DEF FactsInv, TodoIsSound
<1>3. DOMAIN made' = Procs /\ \A q \in Procs : made'[q] \subseteq made[q] \cup {path}
  BY <1>1 DEF FactsInv, MadeExists
<1>4. QED
  BY <1>1, <1>2, <1>3, DocsPut

\* Every step.
LEMMA FactsStep ==
  ASSUME FactsInv, [Next]_vars
  PROVE  FactsInv'
<1>1. CASE UNCHANGED vars
  <2>1. /\ UNCHANGED <<artifacts, sessions, current, registry, docs, ledger, admitted, made>>
        /\ UNCHANGED todo
    BY <1>1 DEF vars, memory, authority
  <2>2. Facts' = Facts
    BY <2>1, SameFacts
  <2>3. TodoIsSound'
    BY <2>1, <2>2 DEF FactsInv, TodoIsSound
  <2>4. QED
    BY <2>1, <2>3, NoFileStep
<1>2. CASE \E path \in DOMAIN docs : EditDoc(path)
  BY <1>2, FactsEdit
<1>3. ASSUME NEW p \in Procs, NEW c \in Commands, Start(p, c) PROVE FactsInv'
  BY <1>3, FactsStart
<1>4. ASSUME NEW p \in Procs,
             \/ AppendAdmission(p) \/ LookUpEvent(p) \/ AppendEvent(p)
             \/ AppendTurn(p) \/ PersistArtifact(p) \/ Review(p)
             \/ WriteSession(p) \/ WriteCurrent(p) \/ WriteRegistry(p)
             \/ Gathers(p) \/ ResolveDoc(p) \/ CreateDoc(p)
             \/ ReadForRefresh(p) \/ Rewrite(p)
             \/ BuildAuthorityIndex(p) \/ WriteAuthorityIndex(p) \/ Announce(p)
             \/ Crash(p)
      PROVE  FactsInv'
  BY <1>4, FactsAdmission, FactsLookUpEvent, FactsAppendEvent, FactsAppendTurn, FactsPersist,
     FactsReview, FactsSession, FactsState, FactsGathers, FactsResolveDoc, FactsCreateDoc,
     FactsReadForRefresh, FactsRewrite, FactsBuildIndex, FactsWriteIndex, FactsAnnounce, FactsCrash
<1>5. QED
  BY <1>1, <1>2, <1>3, <1>4 DEF Next
-----------------------------------------------------------------------------
(* Facts: the invariant and what follows *)

\* A fact is a file.
LEMMA FactsAreFacts ==
  /\ \A id : <<"artifact", id>> \in Facts => id \in DOMAIN artifacts
  /\ \A s : <<"session", s>> \in Facts => s \in DOMAIN sessions
  /\ \A path : <<"doc", path>> \in Facts => path \in DOMAIN docs
  /\ \A texts : <<"line", texts>> \in Facts => \E line \in admitted : line.texts = texts
BY DEF Facts

\* An event claims no more than there is.
LEMMA FactsFollow == FactsInv => EventsFollowFacts
<1> SUFFICES ASSUME FactsInv, NEW i \in DOMAIN ledger
             PROVE  LET e == ledger[i]
                    IN  /\ e.type \in {"session.materialize", "artifact.review", "harness.capture"} =>
                             e.names \subseteq DOMAIN artifacts
                        /\ e.type = "memory.wrap" => e.session \in DOMAIN sessions
                        /\ e.paths \subseteq DOMAIN docs
                        /\ e.type = "security.admission" =>
                             \E line \in admitted : line.texts = e.names
  BY DEF EventsFollowFacts
<1> DEFINE e == ledger[i]
<1>1. i \in 1..Len(ledger)
  BY ListFacts DEF FactsInv, LedgerIsTrue
<1>2. Claims(e) \subseteq Facts
  BY <1>1 DEF FactsInv, LedgerIsTrue
<1> HIDE DEF e
<1>3. ASSUME e.type \in {"session.materialize", "artifact.review", "harness.capture"}
      PROVE  e.names \subseteq DOMAIN artifacts
  <2>1. \A id \in e.names : <<"artifact", id>> \in Claims(e)
    BY <1>3 DEF Claims
  <2>2. QED
    BY <1>2, <2>1, FactsAreFacts
<1>4. ASSUME e.type = "memory.wrap" PROVE e.session \in DOMAIN sessions
  <2>1. <<"session", e.session>> \in Claims(e)
    BY <1>4 DEF Claims
  <2>2. QED
    BY <1>2, <2>1, FactsAreFacts
<1>5. e.paths \subseteq DOMAIN docs
  <2>1. \A path \in e.paths : <<"doc", path>> \in Claims(e)
    BY DEF Claims
  <2>2. QED
    BY <1>2, <2>1, FactsAreFacts
<1>6. ASSUME e.type = "security.admission" PROVE \E line \in admitted : line.texts = e.names
  <2>1. <<"line", e.names>> \in Claims(e)
    BY <1>6 DEF Claims
  <2>2. QED
    BY <1>2, <2>1, FactsAreFacts
<1>7. QED
  BY <1>3, <1>4, <1>5, <1>6 DEF e

\* A working state names a session that is on disk and open loops only.
LEMMA FactsAnchor == FactsInv => RecallIsAnchored
<1> SUFFICES ASSUME FactsInv PROVE RecallIsAnchored
  OBVIOUS
<1>1. registry # NoRecord => registry.session \in DOMAIN sessions
  BY FactsAreFacts DEF FactsInv, Anchored
<1>2. CASE current # NoRecord
  <2>1. RecallLoops = current.loops /\ RecallSession = current.session
    BY <1>2 DEF RecallLoops, RecallSession
  <2>2. current.session \in DOMAIN sessions /\ \A l \in current.loops : l.status # "closed"
    BY <1>2, FactsAreFacts DEF FactsInv, Anchored
  <2>3. QED
    BY <1>1, <2>1, <2>2 DEF RecallIsAnchored
<1>3. CASE current = NoRecord /\ sessions # <<>>
  <2>1. RecallLoops = ActiveLoops(sessions[LatestSession].loops) /\ RecallSession = LatestSession
    BY <1>3 DEF RecallLoops, RecallSession
  <2>2. \E s \in DOMAIN sessions : \A t \in DOMAIN sessions : t <= s
    BY <1>3 DEF FactsInv, SessionsAreSorted
  <2>3. LatestSession \in DOMAIN sessions
    BY <2>2 DEF LatestSession
  <2>4. \A l \in RecallLoops : l.status # "closed"
    BY <2>1 DEF ActiveLoops
  <2>5. QED
    BY <1>1, <2>1, <2>3, <2>4 DEF RecallIsAnchored
<1>4. CASE current = NoRecord /\ sessions = <<>>
  <2>1. RecallLoops = {} /\ RecallSession = NoRecord
    BY <1>4 DEF RecallLoops, RecallSession
  <2>2. QED
    BY <1>1, <2>1 DEF RecallIsAnchored
<1>5. QED
  BY <1>2, <1>3, <1>4

\* Whatever an event, a working state or a pending operation speaks of is on disk
\* when it is written, however the commands of artifacts.ts, memory.ts, harness.ts and
\* doc-authority.ts interleave and crash.
THEOREM FactsInvariance == Spec => []FactsInv
<1>1. QED
  BY FactsInit, FactsStep, PTL DEF Spec

\* Whatever the ledger of event-ledger.ts says has happened is on disk: the artifacts an
\* event names, the session it wraps, the documents it announces, the admission it counts.
THEOREM FactsFirst == Spec => []EventsFollowFacts
<1>1. QED
  BY FactsInvariance, FactsFollow, PTL

\* memory recall names a session that is on disk and shows no closed loop as open,
\* wherever a wrap was cut short or met another one.
THEOREM AnchoredRecall == Spec => []RecallIsAnchored
<1>1. QED
  BY FactsInvariance, FactsAnchor, PTL
-----------------------------------------------------------------------------
(* Order: what the commands start with *)

\* What a list of a command looks like at the start: nothing in it has been done.
Starts(s) == s # <<>> => Loose(s[1])
Opening(s) ==
    /\ IsList(s) /\ Chained(s) /\ Starts(s)
    /\ \A i \in 1..Len(s) : s[i].do # "append" /\ (s[i].do = "event" => s[i].event.paths = {})
RoutineOp(op) ==
    \/ op.do \in {"admission", "transcript", "review", "doc", "refresh", "session", "current",
                  "registry", "reconcile", "gather"}
    \/ op.do = "persist" /\ op.record.status = "captured"
    \/ op.do = "event" /\ op.event.paths = {}
Routine(s) == IsList(s) /\ \A i \in 1..Len(s) : RoutineOp(s[i])

\* A routine operation relies on no operation before it.
LEMMA RoutineIsLoose ==
  ASSUME NEW op, RoutineOp(op)
  PROVE  /\ Loose(op) /\ op.do # "append" /\ (op.do = "event" => op.event.paths = {})
BY DEF RoutineOp, Loose, IsPromotion

\* Routine lists can be started with whatever is on disk.
LEMMA RoutineIsOpening ==
  ASSUME NEW s, Routine(s)
  PROVE  Opening(s) /\ \A i \in 1..Len(s) : ~ IsPromotion(s[i])
<1>1. IsList(s) /\ Len(s) \in Nat /\ (s # <<>> <=> Len(s) # 0)
  BY ListFacts DEF Routine
<1>2. \A i \in 1..Len(s) : /\ Loose(s[i]) /\ s[i].do # "append"
                           /\ (s[i].do = "event" => s[i].event.paths = {})
  BY RoutineIsLoose DEF Routine
<1>3. Chained(s)
  <2>1. \A i \in 2..Len(s) : i \in 1..Len(s)
    BY <1>1
  <2>2. QED
    BY <1>2, <2>1 DEF Chained
<1>4. Starts(s)
  <2>1. s # <<>> => 1 \in 1..Len(s)
    BY <1>1
  <2>2. QED
    BY <1>2, <2>1 DEF Starts
<1>5. \A i \in 1..Len(s) : ~ IsPromotion(s[i])
  BY <1>2 DEF Loose
<1>6. QED
  BY <1>1, <1>2, <1>3, <1>4, <1>5 DEF Opening

\* An element of two lists is one of theirs.
LEMMA JoinElements ==
  ASSUME NEW s, NEW t, IsList(s), IsList(t), NEW i \in 1..Len(s \o t)
  PROVE  \/ \E j \in 1..Len(s) : (s \o t)[i] = s[j]
         \/ \E j \in 1..Len(t) : (s \o t)[i] = t[j]
<1>1. /\ Len(s \o t) = Len(s) + Len(t) /\ Len(s) \in Nat /\ Len(t) \in Nat
      /\ \A k \in 1..(Len(s) + Len(t)) : (s \o t)[k] = IF k <= Len(s) THEN s[k] ELSE t[k - Len(s)]
  BY ListJoin, ListFacts
<1>2. CASE i <= Len(s)
  BY <1>1, <1>2
<1>3. CASE ~ (i <= Len(s))
  <2>1. i - Len(s) \in 1..Len(t) /\ (s \o t)[i] = t[i - Len(s)]
    BY <1>1, <1>3
  <2>2. QED
    BY <2>1
<1>4. QED
  BY <1>2, <1>3

\* Routine lists, one after the other.
LEMMA RoutineJoin ==
  ASSUME NEW s, NEW t, Routine(s), Routine(t)
  PROVE  Routine(s \o t)
<1>1. IsList(s) /\ IsList(t) /\ IsList(s \o t)
  BY ListJoin DEF Routine
<1>2. ASSUME NEW i \in 1..Len(s \o t) PROVE RoutineOp((s \o t)[i])
  BY <1>1, JoinElements DEF Routine
<1>3. QED
  BY <1>1, <1>2 DEF Routine

\* A chain goes on in a list whose first operation hangs on nothing, or on the
\* last one of the list before.
LEMMA ChainedJoin ==
  ASSUME NEW s, NEW t, IsList(s), IsList(t), Chained(s), Chained(t),
         s # <<>> /\ t # <<>> => Loose(t[1]) \/ Link(s[Len(s)], t[1])
  PROVE  Chained(s \o t)
<1> DEFINE st == s \o t
<1>1. /\ Len(st) = Len(s) + Len(t) /\ Len(s) \in Nat /\ Len(t) \in Nat
      /\ \A k \in 1..(Len(s) + Len(t)) : st[k] = IF k <= Len(s) THEN s[k] ELSE t[k - Len(s)]
      /\ (s # <<>> <=> Len(s) # 0) /\ (t # <<>> <=> Len(t) # 0)
  BY ListJoin, ListFacts
<1> HIDE DEF st
<1>2. ASSUME NEW i \in 2..Len(st) PROVE Loose(st[i]) \/ Link(st[i - 1], st[i])
  <2>1. CASE i <= Len(s)
    <3>1. i \in 2..Len(s) /\ st[i] = s[i] /\ st[i - 1] = s[i - 1]
      BY <1>1, <2>1
    <3>2. QED
      BY <3>1 DEF Chained
  <2>2. CASE i = Len(s) + 1
    <3>1. st[i] = t[1] /\ st[i - 1] = s[Len(s)] /\ s # <<>> /\ t # <<>>
      <4>1. Len(s) # 0 /\ Len(t) # 0 /\ i - Len(s) = 1 /\ i - 1 = Len(s) /\ ~ (i <= Len(s))
        BY <1>1, <2>2
      <4>2. QED
        BY <1>1, <4>1
    <3>2. QED
      BY <3>1
  <2>3. CASE i > Len(s) + 1
    <3>1. i - Len(s) \in 2..Len(t) /\ st[i] = t[i - Len(s)] /\ st[i - 1] = t[i - Len(s) - 1]
      BY <1>1, <2>3
    <3>2. QED
      BY <3>1 DEF Chained
  <2>4. QED
    BY <1>1, <2>1, <2>2, <2>3
<1>3. QED
  BY <1>2 DEF Chained, st

\* Lists that can be started, one after the other.
LEMMA OpeningJoin ==
  ASSUME NEW s, NEW t, Opening(s), Opening(t)
  PROVE  Opening(s \o t)
<1>1. IsList(s) /\ IsList(t) /\ IsList(s \o t)
  BY ListJoin DEF Opening
<1>2. Chained(s \o t)
  BY <1>1, ChainedJoin DEF Opening, Starts
<1>3. ASSUME s \o t # <<>> PROVE Loose((s \o t)[1])
  <2>1. /\ Len(s \o t) = Len(s) + Len(t) /\ Len(s) \in Nat /\ Len(t) \in Nat
        /\ \A k \in 1..(Len(s) + Len(t)) :
               (s \o t)[k] = IF k <= Len(s) THEN s[k] ELSE t[k - Len(s)]
        /\ (s # <<>> <=> Len(s) # 0) /\ (t # <<>> <=> Len(t) # 0) /\ Len(s \o t) # 0
    BY <1>1, <1>3, ListJoin, ListFacts
  <2>2. CASE s = <<>>
    <3>1. Len(s) = 0 /\ t # <<>> /\ (s \o t)[1] = t[1]
      BY <2>1, <2>2
    <3>2. QED
      BY <3>1 DEF Opening, Starts
  <2>3. CASE s # <<>>
    <3>1. (s \o t)[1] = s[1]
      BY <2>1, <2>3
    <3>2. QED
      BY <2>3, <3>1 DEF Opening, Starts
  <2>4. QED
    BY <2>2, <2>3
<1>4. \A i \in 1..Len(s \o t) : /\ (s \o t)[i].do # "append"
                               /\ (s \o t)[i].do = "event" => (s \o t)[i].event.paths = {}
  <2>1. SUFFICES ASSUME NEW i \in 1..Len(s \o t)
                 PROVE  /\ (s \o t)[i].do # "append"
                        /\ (s \o t)[i].do = "event" => (s \o t)[i].event.paths = {}
    OBVIOUS
  <2>2. \/ \E j \in 1..Len(s) : (s \o t)[i] = s[j]
        \/ \E j \in 1..Len(t) : (s \o t)[i] = t[j]
    BY <1>1, JoinElements
  <2>3. QED
    BY <2>2 DEF Opening
<1>5. QED
  BY <1>1, <1>2, <1>3, <1>4 DEF Opening, Starts

\* Two routine operations,
LEMMA RoutineTwo ==
  ASSUME NEW a, NEW b, RoutineOp(a), RoutineOp(b)
  PROVE  Routine(<<a, b>>)
<1> DEFINE s == <<a, b>>
<1>1. IsList(s) /\ Len(s) = 2 /\ s[1] = a /\ s[2] = b
  BY ListTwo
<1> HIDE DEF s
<1>2. \A i \in 1..Len(s) : i = 1 \/ i = 2
  BY <1>1
<1>3. Routine(s)
  BY <1>1, <1>2 DEF Routine
<1>4. QED
  BY <1>3 DEF s

\* one,
LEMMA RoutineOne ==
  ASSUME NEW a, RoutineOp(a)
  PROVE  Routine(<<a>>)
<1> DEFINE s == <<a>>
<1>1. IsList(s) /\ Len(s) = 1 /\ s[1] = a
  BY ListOne
<1> HIDE DEF s
<1>2. \A i \in 1..Len(s) : i = 1
  BY <1>1
<1>3. Routine(s)
  BY <1>1, <1>2 DEF Routine
<1>4. QED
  BY <1>3 DEF s

\* or none.
LEMMA RoutineEmpty == Routine(<<>>)
BY ListEmpty DEF Routine

\* An event that announces no document.
LEMMA RoutineEvent ==
  ASSUME NEW e, e.paths = {}
  PROVE  Routine(<<[do |-> "event", event |-> e]>>)
<1> DEFINE op == [do |-> "event", event |-> e]
<1>1. RoutineOp(op)
  BY DEF RoutineOp
<1> HIDE DEF op
<1>2. Routine(<<op>>)
  BY <1>1, RoutineOne
<1>3. QED
  BY <1>2 DEF op

\* What admission appends.
LEMMA AdmissionRoutine ==
  ASSUME NEW surface, NEW session, NEW texts, NEW at
  PROVE  Routine(AdmissionWrites(surface, session, texts, at))
<1>1. CASE Flagged(texts) = {}
  BY <1>1, RoutineEmpty DEF AdmissionWrites
<1>2. CASE Flagged(texts) # {}
  <2> DEFINE e == Event("security.admission", session, Flagged(texts), {}, at)
             a == [do |-> "admission", line |-> [surface |-> surface, texts |-> Flagged(texts)]]
             b == [do |-> "event", event |-> e]
  <2>1. AdmissionWrites(surface, session, texts, at) = <<a, b>>
    BY <1>2 DEF AdmissionWrites
  <2>2. e.paths = {}
    BY DEF Event
  <2> HIDE DEF e
  <2>3. RoutineOp(a) /\ RoutineOp(b)
    BY <2>2 DEF RoutineOp
  <2> HIDE DEF a, b
  <2>4. QED
    BY <2>1, <2>3, RoutineTwo
<1>3. QED
  BY <1>1, <1>2

\* Captures.
LEMMA CapturesRoutine ==
  ASSUME NEW ids, IsFiniteSet(ids)
  PROVE  Routine(Captures(ids))
<1>1. Part(Captures(ids), {}) /\ \A i \in 1..Len(Captures(ids)) :
              /\ Captures(ids)[i].do = "persist"
              /\ Captures(ids)[i].record.status = "captured"
  BY CapturesPart
<1>2. QED
  BY <1>1 DEF Part, Routine, RoutineOp

\* Transcripts, reviews, new documents and refreshes.
LEMMA MapRoutine ==
  ASSUME NEW n \in Nat, NEW s, s = [i \in 1..n |-> s[i]],
         \A i \in 1..n : s[i].do \in {"transcript", "review", "doc", "refresh"}
  PROVE  Routine(s)
<1>1. IsList(s) /\ Len(s) = n
  BY ListMap
<1>2. QED
  BY <1>1 DEF Routine, RoutineOp

\* session materialize.
LEMMA MaterializeRoutine ==
  ASSUME NEW c \in Commands, c.kind = "materialize"
  PROVE  Routine(MaterializeWrites(c))
<1> DEFINE A == AdmissionWrites("session", c.session, {t.text : t \in ToSet(c.turns)}, c.at)
           T == [i \in DOMAIN c.turns |-> [do |-> "transcript", session |-> c.session,
                                           line |-> Admitted(c.turns[i].text)]]
           C == Captures(SessionArtifacts(c))
           e == Event("session.materialize", c.session, SessionArtifacts(c), {}, c.at)
           E == <<[do |-> "event", event |-> e]>>
<1>1. Routine(A)
  BY AdmissionRoutine
<1>2. Routine(T)
  <2> DEFINE n == Len(c.turns)
  <2>1. n \in Nat /\ DOMAIN c.turns = 1..n
    BY CommandAssumption, ListFacts
  <2>2. T = [i \in 1..n |-> T[i]]
    BY <2>1
  <2>3. \A i \in 1..n : T[i].do = "transcript"
    BY <2>1
  <2> HIDE DEF T, n
  <2>4. QED
    BY <2>1, <2>2, <2>3, MapRoutine
<1>3. Routine(C)
  BY SessionArtifactsFinite, CapturesRoutine
<1>4. e.paths = {}
  BY DEF Event
<1> HIDE DEF e
<1>5. Routine(E)
  BY <1>4, RoutineEvent
<1>6. MaterializeWrites(c) = A \o T \o C \o E
  BY DEF MaterializeWrites, e
<1> HIDE DEF A, T, C, E
<1>7. QED
  BY <1>1, <1>2, <1>3, <1>5, <1>6, RoutineJoin

\* artifact review.
LEMMA ReviewRoutine ==
  ASSUME NEW c \in Commands, c.kind = "review", NEW at
  PROVE  Routine(ReviewWrites(c, at))
<1> DEFINE T == ReviewWrites(c, at)
           n == Len(c.updates)
<1>1. n \in Nat /\ DOMAIN c.updates = 1..n
  BY CommandAssumption, ListFacts
<1>2. T = [i \in 1..n |-> T[i]]
  BY <1>1 DEF ReviewWrites
<1>3. \A i \in 1..n : T[i].do = "review"
  BY <1>1 DEF ReviewWrites
<1> HIDE DEF T, n
<1>4. Routine(T)
  BY <1>1, <1>2, <1>3, MapRoutine
<1>5. QED
  BY <1>4 DEF T

\* memory wrap.
LEMMA WrapRoutine ==
  ASSUME NEW c \in Commands, c.kind = "wrap"
  PROVE  Routine(WrapWrites(c))
<1> DEFINE A == AdmissionWrites("memory.wrap", c.session, {c.goal}, c.at)
           e == Event("memory.wrap", c.session, ActiveLoops(c.loops), {}, c.at)
           o1 == [do |-> "session", session |-> c.session, record |-> [loops |-> c.loops]]
           o2 == [do |-> "current", state |-> WorkingState(c)]
           o3 == [do |-> "registry", state |-> WorkingState(c)]
           o4 == [do |-> "event", event |-> e]
           s == <<o1, o2, o3, o4>>
<1>1. Routine(A)
  BY AdmissionRoutine
<1>2. WrapWrites(c) = A \o s
  BY DEF WrapWrites
<1>3. IsList(s) /\ Len(s) = 4 /\ s[1] = o1 /\ s[2] = o2 /\ s[3] = o3 /\ s[4] = o4
  BY ListFour
<1>4. e.paths = {}
  BY DEF Event
<1> HIDE DEF e
<1>5. RoutineOp(o1) /\ RoutineOp(o2) /\ RoutineOp(o3) /\ RoutineOp(o4)
  BY <1>4 DEF RoutineOp
<1> HIDE DEF A, o1, o2, o3, o4, s
<1>6. \A i \in 1..Len(s) : i = 1 \/ i = 2 \/ i = 3 \/ i = 4
  BY <1>3
<1>7. Routine(s)
  BY <1>3, <1>5, <1>6 DEF Routine
<1>8. QED
  BY <1>1, <1>2, <1>7, RoutineJoin

\* harness capture.
LEMMA CaptureRoutine ==
  ASSUME NEW c \in Commands, c.kind = "capture", NEW at
  PROVE  Routine(CaptureWrites(c, at))
<1> DEFINE C == Captures(HarnessIds(c))
           D == Captures(OwnSuite(c))
           A == AdmissionWrites("harness.capture", NoRecord,
                                {c.goal} \cup {r.title : r \in c.resources}, at)
           e == Event("harness.capture", NoRecord, HarnessIds(c) \cup OwnSuite(c), {}, at)
           E == <<[do |-> "event", event |-> e]>>
<1>1. Routine(C) /\ Routine(D)
  BY CaptureIdsFinite, CapturesRoutine
<1>2. Routine(A)
  BY AdmissionRoutine
<1>3. e.paths = {}
  BY DEF Event
<1> HIDE DEF e
<1>4. Routine(E)
  BY <1>3, RoutineEvent
<1>5. CaptureWrites(c, at) = C \o D \o A \o E
  BY DEF CaptureWrites, e
<1> HIDE DEF A, C, D, E
<1>6. QED
  BY <1>1, <1>2, <1>4, <1>5, RoutineJoin

\* docs refresh.
LEMMA RefreshRoutine ==
  ASSUME IsFiniteSet(DOMAIN docs)
  PROVE  Routine(RefreshWrites)
<1> DEFINE order == SetToSeq(DOMAIN docs)
           n == Cardinality(DOMAIN docs)
           T == [i \in DOMAIN order |-> [do |-> "refresh", path |-> order[i]]]
           op == [do |-> "reconcile", needed |-> FALSE]
<1>1. DOMAIN order = 1..n /\ n \in Nat
  BY SetToSeqLists
<1>2. RefreshWrites = T \o <<op>>
  BY DEF RefreshWrites
<1> HIDE DEF order, n
<1>3. T = [i \in 1..n |-> T[i]]
  BY <1>1
<1>4. \A i \in 1..n : T[i].do = "refresh"
  BY <1>1
<1> HIDE DEF T
<1>5. Routine(T)
  BY <1>1, <1>3, <1>4, MapRoutine
<1>6. RoutineOp(op)
  BY DEF RoutineOp
<1> HIDE DEF op
<1>7. QED
  BY <1>2, <1>5, <1>6, RoutineOne, RoutineJoin

\* The end of a promotion: the announcement hangs on the index.
LEMMA ConcludeOpening ==
  ASSUME NEW surface, NEW refs, NEW texts, NEW at
  PROVE  LET s == Conclude(surface, refs, texts, at)
         IN  Opening(s) /\ \A i \in 1..Len(s) : s[i].do # "persist"
<1> DEFINE A == AdmissionWrites(surface, NoRecord, texts, at)
           a == [do |-> "reconcile", needed |-> TRUE]
           b == [do |-> "announce", type |-> surface, refs |-> refs, at |-> at]
           s == <<a, b>>
           c == Conclude(surface, refs, texts, at)
<1>1. Opening(A)
  BY AdmissionRoutine, RoutineIsOpening
<1>2. c = A \o s
  BY DEF Conclude
<1>3. IsList(s) /\ Len(s) = 2 /\ s[1] = a /\ s[2] = b
  BY ListTwo
<1>4. Loose(a) /\ Link(a, b)
  BY DEF Loose, Link, IsPromotion
<1>5. a.do = "reconcile" /\ b.do = "announce"
  OBVIOUS
<1>6. \A i \in 1..Len(A) : A[i].do # "persist"
  <2>1. CASE Flagged(texts) = {}
    <3>1. A = <<>>
      BY <2>1 DEF AdmissionWrites
    <3>2. 1..Len(A) = {}
      BY <3>1, ListEmpty
    <3>3. QED
      BY <3>2
  <2>2. CASE Flagged(texts) # {}
    <3> DEFINE x == [do |-> "admission", line |-> [surface |-> surface, texts |-> Flagged(texts)]]
               y == [do |-> "event", event |->
                       Event("security.admission", NoRecord, Flagged(texts), {}, at)]
    <3>1. A = <<x, y>>
      BY <2>2 DEF AdmissionWrites
    <3>2. x.do # "persist" /\ y.do # "persist"
      OBVIOUS
    <3> HIDE DEF A, x, y
    <3>3. Len(A) = 2 /\ A[1] = x /\ A[2] = y
      BY <3>1, ListTwo
    <3>4. \A i \in 1..Len(A) : i = 1 \/ i = 2
      BY <3>3
    <3>5. QED
      BY <3>2, <3>3, <3>4
  <2>3. QED
    BY <2>1, <2>2
<1> HIDE DEF A, a, b, s, c
<1>7. (\A i \in 1..Len(s) : i = 1 \/ i = 2) /\ (\A i \in 2..Len(s) : i = 2 /\ i - 1 = 1)
  BY <1>3
<1>8. Chained(s) /\ Starts(s)
  BY <1>3, <1>4, <1>7 DEF Chained, Starts
<1>9. \A i \in 1..Len(s) : s[i].do # "append" /\ s[i].do # "event" /\ s[i].do # "persist"
  BY <1>3, <1>5, <1>7
<1>10. Opening(s)
  BY <1>3, <1>8, <1>9 DEF Opening
<1>11. Opening(c)
  BY <1>1, <1>2, <1>10, OpeningJoin
<1>12. \A i \in 1..Len(c) : c[i].do # "persist"
  <2>1. IsList(A) /\ IsList(s)
    BY <1>1, <1>3 DEF Opening
  <2>2. QED
    BY <1>2, <1>6, <1>9, <2>1, JoinElements
<1>13. QED
  BY <1>11, <1>12 DEF c

\* memory promote writes no artifact.
LEMMA MemoryPromotionOpening ==
  ASSUME NEW c, IsList(c.candidates), NEW ready, IsList(ready), NEW at
  PROVE  LET s == MemoryPromotion(c, ready, at)
         IN  Opening(s) /\ \A i \in 1..Len(s) : s[i].do # "persist"
<1> DEFINE all == c.candidates \o ready
           n == Len(all)
           T == [i \in DOMAIN all |-> MemoryDocument(all[i])]
           C == Conclude("memory.promote", ToSet(c.refs), {all[i].title : i \in DOMAIN all}, at)
<1>1. MemoryPromotion(c, ready, at) = T \o C
  BY DEF MemoryPromotion
<1>2. Opening(C) /\ \A i \in 1..Len(C) : C[i].do # "persist"
  BY ConcludeOpening
<1>3. n \in Nat /\ DOMAIN all = 1..n
  BY ListJoin, ListFacts
<1> HIDE DEF C, all
<1>4. T = [i \in 1..n |-> T[i]]
  BY <1>3
<1>5. \A i \in 1..n : T[i].do = "doc"
  BY <1>3 DEF MemoryDocument
<1> HIDE DEF T, n
<1>6. IsList(T) /\ Len(T) = n
  BY <1>3, <1>4, ListMap
<1>7. Opening(T)
  BY <1>3, <1>4, <1>5, MapRoutine, RoutineIsOpening
<1>8. Opening(T \o C)
  BY <1>2, <1>7, OpeningJoin
<1>9. \A i \in 1..Len(T \o C) : (T \o C)[i].do # "persist"
  <2>1. IsList(C) /\ \A i \in 1..Len(T) : T[i].do # "persist"
    BY <1>2, <1>5, <1>6 DEF Opening
  <2>2. QED
    BY <1>2, <1>6, <2>1, JoinElements
<1>10. QED
  BY <1>1, <1>8, <1>9

\* harness promote: the artifact is promoted right after its document was created,
\* and only when it has been gathered.
LEMMA HarnessPromotionOpening ==
  ASSUME NEW c, NEW ready, IsList(ready), NEW at
  PROVE  LET s == HarnessPromotion(c, ready, at)
         IN  /\ Opening(s)
             /\ \A i \in 1..Len(s) :
                  /\ ~ IsCapture(s[i])
                  /\ IsPromotion(s[i]) => \E j \in 1..Len(ready) : s[i].id = ready[j].id
<1> DEFINE n == Len(ready)
           s == FlattenSeq([i \in DOMAIN ready |->
                     <<[do |-> "doc", blocked |-> FALSE, source |-> ready[i].id,
                        path |-> FixedPath(ready[i].id, ready[i].record)],
                       Persist(ready[i].id, Promoted(ready[i].record))>>])
           C == Conclude("harness.promote", ToSet(c.refs),
                         {ready[i].record.title : i \in DOMAIN ready}, at)
           r == s \o C
<1>1. HarnessPromotion(c, ready, at) = r
  BY DEF HarnessPromotion
<1>2. Opening(C) /\ \A i \in 1..Len(C) : C[i].do # "persist"
  BY ConcludeOpening
<1>3. /\ n \in Nat /\ IsList(s) /\ Len(s) = 2 * n
      /\ \A i \in 1..n :
           /\ s[2 * i - 1] = [do |-> "doc", blocked |-> FALSE, source |-> ready[i].id,
                                     path |-> FixedPath(ready[i].id, ready[i].record)]
           /\ s[2 * i] = Persist(ready[i].id, Promoted(ready[i].record))
  BY Promotions
<1> HIDE DEF s, C
<1>4. ASSUME NEW i \in 1..n
      PROVE  /\ s[2 * i - 1].do = "doc" /\ s[2 * i - 1].source = ready[i].id
             /\ s[2 * i - 1].path = FixedPath(ready[i].id, ready[i].record)
  <2>1. s[2 * i - 1] = [do |-> "doc", blocked |-> FALSE, source |-> ready[i].id,
                        path |-> FixedPath(ready[i].id, ready[i].record)]
    BY <1>3
  <2>2. QED
    BY <2>1
<1>5. ASSUME NEW i \in 1..n
      PROVE  /\ s[2 * i].do = "persist" /\ s[2 * i].id = ready[i].id
             /\ s[2 * i].record = Promoted(ready[i].record)
  <2>1. s[2 * i] = Persist(ready[i].id, Promoted(ready[i].record))
    BY <1>3
  <2>2. QED
    BY <2>1 DEF Persist
<1> HIDE DEF n
<1>6. ASSUME NEW j \in 1..Len(s)
      PROVE  \E i \in 1..n : j = 2 * i - 1 \/ j = 2 * i
  <2> DEFINE i == (j + 1) \div 2
  <2>1. i \in 1..n /\ (j = 2 * i - 1 \/ j = 2 * i)
    BY <1>3
  <2>2. QED
    BY <2>1
<1>7. ASSUME NEW i \in 1..n PROVE Link(s[2 * i - 1], s[2 * i]) /\ ~ IsCapture(s[2 * i])
  <2>1. /\ Promoted(ready[i].record).status = "promoted"
        /\ Promoted(ready[i].record).title = ready[i].record.title
    BY DEF Promoted
  <2>2. FixedPath(ready[i].id, ready[i].record) = FixedPath(ready[i].id, Promoted(ready[i].record))
    BY <2>1 DEF FixedPath
  <2>3. QED
    BY <1>4, <1>5, <2>1, <2>2 DEF Link, IsPromotion, IsCapture
<1>8. ASSUME NEW i \in 1..n PROVE Loose(s[2 * i - 1]) /\ ~ IsCapture(s[2 * i - 1])
  BY <1>4 DEF Loose, IsPromotion, IsCapture
<1>9. Chained(s)
  <2>1. ASSUME NEW j \in 2..Len(s) PROVE Loose(s[j]) \/ Link(s[j - 1], s[j])
    <3>0. j \in 1..Len(s)
      BY <1>3
    <3>1. PICK i \in 1..n : j = 2 * i - 1 \/ j = 2 * i
      BY <1>6, <3>0
    <3>2. QED
      BY <1>7, <1>8, <3>1
  <2>2. QED
    BY <2>1 DEF Chained
<1>10. Starts(s)
  <2>1. ASSUME s # <<>> PROVE Loose(s[1])
    <3>1. Len(s) # 0
      BY <1>3, <2>1, ListFacts
    <3>2. 1 \in 1..n /\ 2 * 1 - 1 = 1
      BY <1>3, <3>1
    <3>3. QED
      BY <1>8, <3>2
  <2>2. QED
    BY <2>1 DEF Starts
<1>11. ASSUME NEW j \in 1..Len(s)
       PROVE  /\ s[j].do \in {"doc", "persist"} /\ ~ IsCapture(s[j])
              /\ IsPromotion(s[j]) => \E i \in 1..n : s[j].id = ready[i].id
  <2>1. PICK i \in 1..n : j = 2 * i - 1 \/ j = 2 * i
    BY <1>6
  <2>2. CASE j = 2 * i - 1
    BY <1>4, <1>8, <2>2 DEF IsPromotion
  <2>3. CASE j = 2 * i
    BY <1>5, <1>7, <2>3
  <2>4. QED
    BY <2>1, <2>2, <2>3
<1>12. Opening(s)
  BY <1>3, <1>9, <1>10, <1>11 DEF Opening
<1>13. Opening(r)
  BY <1>2, <1>12, OpeningJoin
<1>14. ASSUME NEW i \in 1..Len(r)
       PROVE  /\ ~ IsCapture(r[i])
              /\ IsPromotion(r[i]) => \E j \in 1..n : r[i].id = ready[j].id
  <2>1. IsList(s) /\ IsList(C)
    BY <1>2, <1>3 DEF Opening
  <2>2. \/ \E j \in 1..Len(s) : r[i] = s[j]
        \/ \E j \in 1..Len(C) : r[i] = C[j]
    BY <2>1, JoinElements
  <2> HIDE DEF r
  <2>3. CASE \E j \in 1..Len(s) : r[i] = s[j]
    BY <1>11, <2>3
  <2>4. CASE \E j \in 1..Len(C) : r[i] = C[j]
    BY <1>2, <2>4 DEF IsCapture, IsPromotion
  <2>5. QED
    BY <2>2, <2>3, <2>4
<1> HIDE DEF r
<1>15. QED
  BY <1>1, <1>13, <1>14 DEF n

\* A list at its start is in order whatever is on disk.
LEMMA OpeningIsCurrent ==
  ASSUME NEW s, Opening(s), Pure(s), NEW mine, NEW ok, NEW listed, NEW files, NEW log,
         \A i \in 1..Len(s) : s[i].do \in Planned,
         \A i \in 1..Len(s) : IsPromotion(s[i]) => s[i].id \in ok
  PROVE  Current(s, mine, ok, listed, files, log)
<1>1. IsList(s) /\ Chained(s)
  BY DEF Opening
<1>2. Lawful(s, ok, listed)
  BY DEF Opening, Lawful
<1>3. ASSUME s # <<>> PROVE Fresh(Head(s), mine, ok, listed, files, log)
  <2>1. Head(s) = s[1] /\ Loose(s[1]) /\ s[1].do \in Planned
    BY <1>1, <1>3, ListTail, ListFacts DEF Opening, Starts
  <2>2. s[1].do \notin {"gather", "append", "create", "rewrite", "index"}
    BY <2>1 DEF Planned
  <2>3. QED
    BY <2>1, <2>2 DEF Fresh, Loose
<1>4. QED
  BY <1>1, <1>2, <1>3 DEF Current

\* A routine list is in order whatever is on disk.
LEMMA RoutineIsCurrent ==
  ASSUME NEW s, Routine(s), NEW F, Part(s, F), NEW mine, NEW ok, NEW listed, NEW files, NEW log
  PROVE  Current(s, mine, ok, listed, files, log)
<1>1. Opening(s) /\ \A i \in 1..Len(s) : ~ IsPromotion(s[i])
  BY RoutineIsOpening
<1>2. \A i \in 1..Len(s) : s[i].do \in Planned
  BY DEF Part
<1>3. QED
  BY <1>1, <1>2, OpeningIsCurrent DEF Pure

\* One operation that is in order.
LEMMA OneIsCurrent ==
  ASSUME NEW op, Loose(op), NEW mine, NEW ok, NEW listed, NEW files, NEW log,
         op.do \in {"event", "append"} => op.event.paths \subseteq listed,
         Fresh(op, mine, ok, listed, files, log)
  PROVE  Current(<<op>>, mine, ok, listed, files, log)
<1> DEFINE s == <<op>>
<1>1. IsList(s) /\ Len(s) = 1 /\ s[1] = op /\ Head(s) = op
  BY ListOne
<1> HIDE DEF s
<1>2. (\A i \in 1..Len(s) : s[i] = op) /\ 2..Len(s) = {}
  BY <1>1
<1>3. Chained(s)
  BY <1>2 DEF Chained
<1>4. ~ IsPromotion(op)
  BY DEF Loose
<1>5. Pure(s) /\ Lawful(s, ok, listed)
  BY <1>2, <1>4 DEF Pure, Lawful
<1>6. Current(s, mine, ok, listed, files, log)
  BY <1>1, <1>3, <1>5 DEF Current
<1>7. QED
  BY <1>6 DEF s

\* A promotion that gathers what has been reviewed.
LEMMA GatherIsCurrent ==
  ASSUME NEW op, op.do = "gather", NEW mine, NEW ok, NEW listed, NEW files, NEW log,
         op.c.kind = "harness.promote" => \A i \in 1..Len(op.ready) : op.ready[i].id \in ok
  PROVE  Current(<<op>>, mine, ok, listed, files, log)
<1>1. Loose(op) /\ ~ IsPromotion(op)
  BY DEF Loose, IsPromotion
<1>2. Fresh(op, mine, ok, listed, files, log)
  BY <1>1 DEF Fresh
<1>3. QED
  BY <1>1, <1>2, OneIsCurrent

\* Nothing to do.
LEMMA EmptyIsCurrent ==
  ASSUME NEW mine, NEW ok, NEW listed, NEW files, NEW log
  PROVE  Current(<<>>, mine, ok, listed, files, log)
<1>1. 1..Len(<<>>) = {} /\ 2..Len(<<>>) = {}
  BY ListEmpty
<1>2. QED
  BY <1>1 DEF Current, Chained, Pure, Lawful

\* Every command starts in order.
LEMMA PlanIsCurrent ==
  ASSUME IsFiniteSet(DOMAIN docs), NEW c \in Commands, NEW at,
         NEW mine, NEW ok, NEW listed, NEW files, NEW log
  PROVE  Current(Plan(c, at), mine, ok, listed, files, log)
<1>1. c.kind \in {"materialize", "review", "wrap", "capture", "memory.promote",
                       "harness.promote", "refresh"}
  BY CommandAssumption
<1>2. CASE c.kind = "materialize"
  <2>1. Plan(c, at) = MaterializeWrites(c)
    BY <1>2 DEF Plan
  <2>2. QED
    BY <1>2, <2>1, MaterializePart, MaterializeRoutine, RoutineIsCurrent
<1>3. CASE c.kind = "review"
  <2>1. Plan(c, at) = ReviewWrites(c, at)
    BY <1>3 DEF Plan
  <2>2. QED
    BY <1>3, <2>1, ReviewPart, ReviewRoutine, RoutineIsCurrent
<1>4. CASE c.kind = "wrap"
  <2>1. Plan(c, at) = WrapWrites(c)
    BY <1>4 DEF Plan
  <2>2. QED
    BY <1>4, <2>1, WrapPart, WrapRoutine, RoutineIsCurrent
<1>5. CASE c.kind = "capture"
  <2>1. Plan(c, at) = CaptureWrites(c, at)
    BY <1>5 DEF Plan
  <2>2. QED
    BY <1>5, <2>1, CapturePart, CaptureRoutine, RoutineIsCurrent
<1>6. CASE c.kind \in {"memory.promote", "harness.promote"}
  <2> DEFINE op == [do |-> "gather", c |-> c, refs |-> c.refs, ready |-> <<>>, at |-> at]
  <2>1. Plan(c, at) = <<op>>
    BY <1>6 DEF Plan, Gather
  <2>2. op.do = "gather" /\ op.ready = <<>>
    OBVIOUS
  <2> HIDE DEF op
  <2>3. 1..Len(op.ready) = {}
    BY <2>2, ListEmpty
  <2>4. QED
    BY <2>1, <2>2, <2>3, GatherIsCurrent
<1>7. CASE c.kind = "refresh"
  <2>1. Plan(c, at) = RefreshWrites
    BY <1>7 DEF Plan
  <2>2. \A path \in DOMAIN docs : <<"doc", path>> \in Facts
    BY DEF Facts
  <2>3. QED
    BY <2>1, <2>2, RefreshPart, RefreshRoutine, RoutineIsCurrent
<1>8. QED
  BY <1>1, <1>2, <1>3, <1>4, <1>5, <1>6, <1>7
-----------------------------------------------------------------------------
(* Order: one step *)

\* What the operation after a finished one relies on.
Follows(op, mine, ok, listed, files) ==
    /\ op.do = "announce" => mine \subseteq listed
    /\ IsPromotion(op) /\ op.id \in ok => Backed(op.id, op.record, ok, files)

\* What hangs together still does without the head.
LEMMA ChainedTail ==
  ASSUME NEW s, IsList(s), s # <<>>, Chained(s)
  PROVE  Chained(Tail(s))
<1> DEFINE t == Tail(s)
<1>1. /\ Len(t) = Len(s) - 1 /\ Len(s) \in Nat \ {0}
      /\ \A i \in 1..Len(t) : t[i] = s[i + 1]
  BY ListTail
<1> HIDE DEF t
<1>2. ASSUME NEW i \in 2..Len(t) PROVE Loose(t[i]) \/ Link(t[i - 1], t[i])
  <2>1. i + 1 \in 2..Len(s) /\ t[i] = s[i + 1] /\ t[i - 1] = s[i] /\ i + 1 - 1 = i
    BY <1>1
  <2>2. Loose(s[i + 1]) \/ Link(s[i + 1 - 1], s[i + 1])
    BY <2>1 DEF Chained
  <2>3. QED
    BY <2>1, <2>2
<1>3. QED
  BY <1>2 DEF Chained, t

\* The head of a list is done.
LEMMA TailIsCurrent ==
  ASSUME NEW s, s # <<>>, NEW F, Valid(s, F),
         NEW mine, NEW ok, NEW listed, NEW files, NEW log,
         NEW mine2, NEW ok2, NEW listed2, NEW files2, NEW log2,
         Current(s, mine, ok, listed, files, log),
         listed \subseteq listed2, ok \subseteq ok2 \/ IsCapture(Head(s)),
         \A op : Link(Head(s), op) => Follows(op, mine2, ok2, listed2, files2)
  PROVE  Current(Tail(s), mine2, ok2, listed2, files2, log2)
<1> DEFINE t == Tail(s)
<1>1. /\ IsList(t) /\ Len(t) = Len(s) - 1 /\ Len(s) \in Nat \ {0}
      /\ \A i \in 1..Len(t) : t[i] = s[i + 1]
      /\ Head(s) = s[1]
  BY ListTail DEF Valid
<1>2. t # <<>> => Head(t) = t[1] /\ Len(t) # 0
  BY <1>1, ListTail, ListFacts
<1> HIDE DEF t
<1>3. \A i \in 1..Len(t) : i + 1 \in 1..Len(s) /\ i + 1 \in 2..Len(s)
  BY <1>1
<1>4. Chained(t)
  BY ChainedTail DEF Current, Valid, t
<1>5. Pure(t)
  BY <1>1, <1>3 DEF Current, Pure
<1>6. Lawful(t, ok2, listed2)
  <2>1. ASSUME NEW i \in 1..Len(t)
        PROVE  /\ t[i].do \in {"event", "append"} => t[i].event.paths \subseteq listed2
               /\ IsPromotion(t[i]) => t[i].id \in ok2
    <3>1. i + 1 \in 1..Len(s) /\ t[i] = s[i + 1] /\ 1 \in 1..Len(s)
      BY <1>1, <1>3
    <3>2. CASE ok \subseteq ok2
      BY <3>1, <3>2 DEF Current, Lawful
    <3>3. CASE IsCapture(Head(s))
      <4>1. ~ IsPromotion(t[i])
        BY <1>1, <3>1, <3>3 DEF Current, Pure
      <4>2. QED
        BY <3>1, <4>1 DEF Current, Lawful
    <3>4. QED
      BY <3>2, <3>3
  <2>2. QED
    BY <2>1 DEF Lawful
<1>7. ASSUME t # <<>> PROVE Fresh(Head(t), mine2, ok2, listed2, files2, log2)
  <2>1. 2 \in 2..Len(s) /\ 1 \in 1..Len(t) /\ t[1] = s[2] /\ Head(t) = s[2]
    <3>1. Len(t) # 0 /\ Len(t) = Len(s) - 1 /\ Len(s) \in Nat \ {0}
      BY <1>1, <1>2, <1>7
    <3>2. 2 \in 2..Len(s) /\ 1 \in 1..Len(t)
      BY <3>1
    <3>3. QED
      BY <1>1, <1>2, <1>7, <3>2
  <2>2. s[2].do \in Planned
    BY <2>1 DEF Valid
  <2>3. s[2].do \notin {"gather", "append", "create", "rewrite", "index"}
    BY <2>2 DEF Planned
  <2>4. Loose(s[2]) \/ Link(s[1], s[2])
    <3>1. 2 - 1 = 1
      OBVIOUS
    <3>2. QED
      BY <2>1, <3>1 DEF Current, Chained
  <2>5. IsPromotion(s[2]) => s[2].id \in ok2
    BY <1>6, <2>1 DEF Lawful
  <2>6. CASE Loose(s[2])
    BY <2>1, <2>3, <2>6 DEF Fresh, Loose
  <2>7. CASE Link(s[1], s[2])
    <3>1. Follows(s[2], mine2, ok2, listed2, files2)
      BY <1>1, <2>7
    <3>2. QED
      BY <2>1, <2>3, <2>5, <3>1 DEF Fresh, Follows
  <2>8. QED
    BY <2>4, <2>6, <2>7
<1>8. QED
  BY <1>4, <1>5, <1>6, <1>7 DEF Current, t

\* The head of a list is replaced by operations that are in order themselves.
LEMMA JoinIsCurrent ==
  ASSUME NEW s, s # <<>>, IsList(s), NEW ops, ops # <<>>, IsList(ops),
         NEW mine, NEW ok, NEW listed, NEW files, NEW log,
         Current(s, mine, ok, listed, files, log),
         Current(ops, mine, ok, listed, files, log),
         \A i \in 1..Len(ops) : ~ IsPromotion(ops[i]) /\ ~ IsCapture(ops[i]),
         \A op : Link(Head(s), op) => Link(ops[Len(ops)], op)
  PROVE  Current(ops \o Tail(s), mine, ok, listed, files, log)
<1> DEFINE t == Tail(s)
           r == ops \o t
<1>1. /\ IsList(t) /\ Len(t) = Len(s) - 1 /\ Len(s) \in Nat \ {0}
      /\ \A i \in 1..Len(t) : t[i] = s[i + 1]
      /\ Head(s) = s[1]
  BY ListTail
<1>2. /\ Len(ops) \in Nat \ {0} /\ Head(ops) = ops[1] /\ IsList(r) /\ Len(r) = Len(ops) + Len(t)
      /\ \A i \in 1..(Len(ops) + Len(t)) :
             r[i] = IF i <= Len(ops) THEN ops[i] ELSE t[i - Len(ops)]
  BY <1>1, ListJoin, ListTail
<1>3. ASSUME NEW i \in 1..Len(r)
      PROVE  (\E j \in 1..Len(ops) : r[i] = ops[j]) \/ (\E j \in 1..Len(t) : r[i] = t[j])
  <2>1. IsList(t)
    BY <1>1
  <2> HIDE DEF t
  <2>2. QED
    BY <2>1, JoinElements
<1> HIDE DEF t
<1>4. Chained(t)
  BY ChainedTail DEF Current, Valid, t
<1>5. ASSUME t # <<>> PROVE Loose(t[1]) \/ Link(ops[Len(ops)], t[1])
  <2>1. Len(t) # 0
    BY <1>1, <1>5, ListFacts
  <2>2. 2 \in 2..Len(s) /\ 1 \in 1..Len(t) /\ t[1] = s[2] /\ 2 - 1 = 1
    <3>1. 2 \in 2..Len(s) /\ 1 \in 1..Len(t) /\ 1 + 1 = 2
      BY <1>1, <2>1
    <3>2. QED
      BY <1>1, <3>1
  <2>3. Loose(s[2]) \/ Link(s[1], s[2])
    BY <2>2 DEF Current, Chained
  <2>4. QED
    BY <1>1, <2>2, <2>3
<1>6. Chained(r)
  BY <1>1, <1>4, <1>5, ChainedJoin DEF Current
<1> HIDE DEF r
<1>7. \A i \in 1..Len(t) : i + 1 \in 1..Len(s)
  BY <1>1
<1>8. Pure(r)
  <2>1. CASE \A i \in 1..Len(s) : ~ IsPromotion(s[i])
    <3>1. \A i \in 1..Len(t) : ~ IsPromotion(t[i])
      BY <1>1, <1>7, <2>1
    <3>2. QED
      BY <1>3, <3>1 DEF Pure
  <2>2. CASE \A i \in 1..Len(s) : ~ IsCapture(s[i])
    <3>1. \A i \in 1..Len(t) : ~ IsCapture(t[i])
      BY <1>1, <1>7, <2>2
    <3>2. QED
      BY <1>3, <3>1 DEF Pure
  <2>3. QED
    BY <2>1, <2>2 DEF Current, Pure
<1>9. Lawful(r, ok, listed)
  <2>1. Lawful(t, ok, listed)
    BY <1>1, <1>7 DEF Current, Lawful
  <2>2. Lawful(ops, ok, listed)
    BY DEF Current
  <2>3. QED
    BY <1>3, <2>1, <2>2 DEF Lawful
<1>10. r # <<>> /\ Head(r) = Head(ops)
  <2>1. Len(r) # 0 /\ r[1] = ops[1]
    BY <1>1, <1>2
  <2>2. r # <<>> /\ Head(r) = r[1]
    BY <1>2, <2>1, ListTail, ListFacts
  <2>3. QED
    BY <1>2, <2>1, <2>2
<1>11. Fresh(Head(r), mine, ok, listed, files, log)
  BY <1>10 DEF Current
<1>12. QED
  BY <1>6, <1>8, <1>9, <1>11 DEF Current, r, t

\* A list of one operation is replaced by another list.
LEMMA TailOfOne ==
  ASSUME NEW s, IsList(s), Len(s) = 1, NEW ops, IsList(ops)
  PROVE  ops \o Tail(s) = ops
<1> DEFINE t == Tail(s)
<1>1. IsList(t) /\ Len(t) = 0
  BY ListTail, ListFacts
<1>2. t = <<>>
  BY <1>1, ListFacts
<1>3. ops \in Seq(ToSet(ops))
  BY DEF IsList
<1> HIDE DEF t
<1>4. ops \o <<>> = ops
  BY <1>3, ConcatEmptySeq
<1>5. QED
  BY <1>2, <1>4 DEF t

\* createDoc's numbered paths do not run out: there are more numbers than documents.
LEMMA FreePathIsFree ==
  ASSUME IsFiniteSet(DOMAIN docs), NEW folder, NEW title
  PROVE  FreePath(folder, title) \notin DOMAIN docs
<1> DEFINE D == DOMAIN docs
           c == Cardinality(D)
           N == 1..(c + 1)
           path(n) == [folder |-> folder, title |-> title, n |-> n]
           Taken(n) == path(n) \in D
           n0 == CHOOSE n \in N : ~Taken(n) /\ \A m \in 1..(n - 1) : Taken(m)
<1>1. c \in Nat
  BY FS_CardinalityType
<1>2. IsFiniteSet(N) /\ Cardinality(N) = c + 1
  <2> DEFINE b == c + 1
  <2>1. b \in Nat /\ 1 \in Int /\ b \in Int /\ ~ (1 > b) /\ b - 1 + 1 = c + 1
    BY <1>1
  <2> HIDE DEF b
  <2>2. IsFiniteSet(1..b) /\ Cardinality(1..b) = IF 1 > b THEN 0 ELSE b - 1 + 1
    BY <2>1, FS_Interval
  <2>3. QED
    BY <2>1, <2>2 DEF b
<1>3. FreePath(folder, title) = path(n0)
  BY DEF FreePath
<1>4. \A n, m : path(n) = path(m) => n = m
  <2>1. \A n : path(n).n = n
    OBVIOUS
  <2> HIDE DEF path
  <2>2. QED
    BY <2>1
<1> HIDE DEF c, path
<1>5. \E n \in N : ~ Taken(n)
  <2>1. SUFFICES ASSUME \A n \in N : path(n) \in D PROVE FALSE
    OBVIOUS
  <2> DEFINE f == [n \in N |-> path(n)]
  <2>2. f \in Injection(N, D)
    BY <1>4, <2>1 DEF Injection, IsInjective
  <2>3. Cardinality(N) <= Cardinality(D)
    BY <2>2, FS_Injection
  <2>4. QED
    BY <1>1, <1>2, <2>3 DEF c
<1>6. \E n \in N : ~ Taken(n) /\ \A m \in 1..(n - 1) : Taken(m)
  <2> DEFINE Free == {n \in N : ~ Taken(n)}
  <2>1. Free \subseteq Nat /\ Free # {}
    BY <1>5
  <2> HIDE DEF Free
  <2>2. PICK n \in Free : \A m \in Free : n <= m
    BY <2>1, Least
  <2> USE DEF Free
  <2>3. ASSUME NEW m \in 1..(n - 1) PROVE Taken(m)
    <3>1. m \in N /\ ~ (n <= m)
      BY <1>1, <2>2
    <3>2. QED
      BY <2>2, <3>1
  <2>4. QED
    BY <2>2, <2>3
<1>7. ~ Taken(n0)
  BY <1>6
<1>8. QED
  BY <1>3, <1>7

\* The command that runs is alone: nothing else has anything to do.
LEMMA AloneStep ==
  ASSUME FactsInv, OrderInv, ~ overlapped, NEW p \in Procs, ~ Idle(p), NEW x,
         todo' = [todo EXCEPT ![p] = x],
         Current(x, made'[p], approved', Indexed', docs', ledger')
  PROVE  Alone' /\ TodoIsCurrent'
<1>1. DOMAIN todo = Procs /\ \A q \in Procs : q # p => todo[q] = <<>>
  BY DEF FactsInv, TodoIsSound, OrderInv, Alone, Idle
<1>2. todo'[p] = x /\ \A q \in Procs : q # p => todo'[q] = <<>>
  BY <1>1
<1>3. Alone'
  BY <1>2 DEF Alone, Idle
<1>4. ASSUME NEW q \in Procs
      PROVE  Current(todo'[q], made'[q], approved', Indexed', docs', ledger')
  <2>1. CASE q = p
    BY <1>2, <2>1
  <2>2. CASE q # p
    BY <1>2, <2>2, EmptyIsCurrent
  <2>3. QED
    BY <2>1, <2>2
<1>5. TodoIsCurrent'
  BY <1>4 DEF TodoIsCurrent
<1>6. QED
  BY <1>3, <1>5

\* What is known of the operation a command does next, when it is alone.
LEMMA OrderHead ==
  ASSUME FactsInv, OrderInv, ~ overlapped, NEW p \in Procs, ~ Idle(p)
  PROVE  /\ Current(todo[p], made[p], approved, Indexed, docs, ledger)
         /\ Lawful(todo[p], approved, Indexed)
         /\ Fresh(Arg(p), made[p], approved, Indexed, docs, ledger)
         /\ Arg(p).do \in {"event", "append"} => Arg(p).event.paths \subseteq Indexed
         /\ IsPromotion(Arg(p)) => Arg(p).id \in approved
<1>1. Current(todo[p], made[p], approved, Indexed, docs, ledger) /\ todo[p] # <<>>
  BY DEF OrderInv, TodoIsCurrent, Idle
<1>2. Len(todo[p]) \in Nat \ {0} /\ Arg(p) = todo[p][1] /\ Arg(p) = Head(todo[p])
  BY HeadFacts DEF Arg
<1>3. 1 \in 1..Len(todo[p])
  BY <1>2
<1>4. QED
  BY <1>1, <1>2, <1>3 DEF Current, Lawful

\* The next operation of the command is done.
LEMMA OrderDone ==
  ASSUME FactsInv, OrderInv, ~ overlapped, NEW p \in Procs, ~ Idle(p), Done(p),
         Indexed \subseteq Indexed', approved \subseteq approved' \/ IsCapture(Arg(p)),
         \A op : Link(Arg(p), op) => Follows(op, made'[p], approved', Indexed', docs')
  PROVE  Alone' /\ TodoIsCurrent'
<1>1. Valid(todo[p], Facts) /\ todo[p] # <<>> /\ Arg(p) = Head(todo[p])
  BY HeadFacts DEF Arg
<1>2. Current(todo[p], made[p], approved, Indexed, docs, ledger)
  BY OrderHead
<1>3. Current(Tail(todo[p]), made'[p], approved', Indexed', docs', ledger')
  BY <1>1, <1>2, TailIsCurrent
<1>4. todo' = [todo EXCEPT ![p] = Tail(todo[p])]
  BY DEF Done
<1>5. QED
  BY <1>3, <1>4, AloneStep

\* Most operations are followed by nothing that relies on them.
LEMMA OrderPlainDone ==
  ASSUME FactsInv, OrderInv, ~ overlapped, NEW p \in Procs, ~ Idle(p), Done(p),
         Indexed \subseteq Indexed', approved \subseteq approved' \/ IsCapture(Arg(p)),
         Arg(p).do \notin {"index", "reconcile", "doc", "create"}
  PROVE  Alone' /\ TodoIsCurrent'
<1>1. \A op : ~ Link(Arg(p), op)
  BY DEF Link
<1>2. QED
  BY <1>1, OrderDone

\* The step replaces the head and touches nothing the order is about.
OrderSame == UNCHANGED <<artifacts, docs, index, ledger, approved, made, overlapped>>

\* What the index lists is the index's.
LEMMA SameIndexed == ASSUME UNCHANGED index PROVE Indexed' = Indexed
BY DEF Indexed

\* The command drops what it still had to do.
LEMMA OrderFail ==
  ASSUME FactsInv, OrderInv, ~ overlapped, NEW p \in Procs, ~ Idle(p), Fail(p)
  PROVE  Alone' /\ TodoIsCurrent'
<1>1. todo' = [todo EXCEPT ![p] = <<>>]
  BY DEF Fail
<1>2. QED
  BY <1>1, EmptyIsCurrent, AloneStep

\* The next operation of the command becomes others.
LEMMA OrderBecomes ==
  ASSUME FactsInv, OrderInv, ~ overlapped, NEW p \in Procs, ~ Idle(p), OrderSame,
         NEW ops, ops # <<>>, IsList(ops), Becomes(p, ops),
         Current(ops, made[p], approved, Indexed, docs, ledger),
         \A i \in 1..Len(ops) : ~ IsPromotion(ops[i]) /\ ~ IsCapture(ops[i]),
         \A op : Link(Arg(p), op) => Link(ops[Len(ops)], op)
  PROVE  Alone' /\ TodoIsCurrent'
<1>1. IsList(todo[p]) /\ todo[p] # <<>> /\ Arg(p) = Head(todo[p])
  BY HeadFacts DEF Arg
<1>2. Current(todo[p], made[p], approved, Indexed, docs, ledger)
  BY OrderHead
<1>3. Current(ops \o Tail(todo[p]), made[p], approved, Indexed, docs, ledger)
  BY <1>1, <1>2, JoinIsCurrent
<1>4. todo' = [todo EXCEPT ![p] = ops \o Tail(todo[p])]
  BY DEF Becomes
<1>5. made' = made /\ approved' = approved /\ Indexed' = Indexed /\ docs' = docs /\ ledger' = ledger
  BY SameIndexed DEF OrderSame
<1>6. QED
  BY <1>3, <1>4, <1>5, AloneStep

\* The next operation of the command becomes another one.
LEMMA OrderReplace ==
  ASSUME FactsInv, OrderInv, ~ overlapped, NEW p \in Procs, ~ Idle(p), OrderSame,
         NEW op, Becomes(p, <<op>>), Loose(op), op.do # "persist",
         op.do \in {"event", "append"} => op.event.paths \subseteq Indexed,
         Fresh(op, made[p], approved, Indexed, docs, ledger),
         \A next : Link(Arg(p), next) => Link(op, next)
  PROVE  Alone' /\ TodoIsCurrent'
<1> DEFINE ops == <<op>>
<1>1. IsList(ops) /\ Len(ops) = 1 /\ ops[1] = op /\ ops # <<>>
  BY ListOne
<1>2. Current(ops, made[p], approved, Indexed, docs, ledger)
  BY OneIsCurrent
<1>3. Becomes(p, ops)
  OBVIOUS
<1> HIDE DEF ops
<1>4. ~ IsPromotion(op) /\ ~ IsCapture(op) /\ \A i \in 1..Len(ops) : ops[i] = op
  BY <1>1 DEF IsPromotion, IsCapture
<1>5. QED
  BY <1>1, <1>2, <1>3, <1>4, OrderBecomes

\* What the order says of the files stays when they do.
LEMMA OrderKept ==
  ASSUME OrderInv, ~ overlapped, OrderSame, Alone' /\ TodoIsCurrent'
  PROVE  OrderInv'
<1>1. Indexed' = Indexed
  BY SameIndexed DEF OrderSame
<1>2. LedgerIsUnique' /\ LedgerIsIndexed'
  BY <1>1 DEF OrderInv, OrderSame, LedgerIsUnique, LedgerIsIndexed
<1>3. (Indexed \subseteq DOMAIN docs)'
  BY <1>1 DEF OrderInv, OrderSame
<1>4. ArtifactsAreBacked'
  BY DEF OrderInv, OrderSame, ArtifactsAreBacked
<1>5. QED
  BY <1>2, <1>3, <1>4 DEF OrderInv
-----------------------------------------------------------------------------
(* Order: every action *)

\* An initialised store.
LEMMA OrderInit == ASSUME Init PROVE OrderInv
<1>1. /\ ledger = <<>> /\ index = {} /\ \A p \in Procs : todo[p] = <<>>
      /\ artifacts = [id \in Reviewed |-> [status |-> "reviewed", tier |-> "candidate",
                                           title |-> id.title, supersedes |-> {}]]
      /\ approved = Reviewed
  BY DEF Init
<1>2. Alone
  BY <1>1 DEF Alone, Idle
<1>3. TodoIsCurrent
  BY <1>1, EmptyIsCurrent DEF TodoIsCurrent
<1>4. 1..Len(ledger) = {}
  BY <1>1, ListEmpty
<1>5. LedgerIsUnique /\ LedgerIsIndexed
  BY <1>4 DEF LedgerIsUnique, LedgerIsIndexed
<1>6. Indexed \subseteq DOMAIN docs
  BY <1>1 DEF Indexed
<1>7. ArtifactsAreBacked
  BY <1>1 DEF ArtifactsAreBacked
<1>8. QED
  BY <1>2, <1>3, <1>5, <1>6, <1>7 DEF OrderInv

\* A command starts alone when none is running.
LEMMA OrderStart ==
  ASSUME FactsInv, OrderInv, ~ overlapped', NEW p \in Procs, NEW c \in Commands, Start(p, c)
  PROVE  OrderInv'
<1>1. /\ todo' = [todo EXCEPT ![p] = Plan(c, started)]
      /\ UNCHANGED <<artifacts, docs, index, ledger, approved>>
      /\ ~ overlapped /\ \A q \in Procs : todo[q] = <<>>
  BY DEF Start, authority, Idle
<1>2. DOMAIN todo = Procs /\ IsFiniteSet(DOMAIN docs)
  BY DEF FactsInv, TodoIsSound
<1>3. todo'[p] = Plan(c, started) /\ \A q \in Procs : q # p => todo'[q] = <<>>
  BY <1>1, <1>2
<1>4. Alone'
  BY <1>3 DEF Alone, Idle
<1>5. ASSUME NEW q \in Procs
      PROVE  Current(todo'[q], made'[q], approved', Indexed', docs', ledger')
  <2>1. CASE q = p
    BY <1>2, <1>3, <2>1, PlanIsCurrent
  <2>2. CASE q # p
    BY <1>3, <2>2, EmptyIsCurrent
  <2>3. QED
    BY <2>1, <2>2
<1>6. TodoIsCurrent'
  BY <1>5 DEF TodoIsCurrent
<1>7. Indexed' = Indexed
  BY <1>1, SameIndexed
<1>8. LedgerIsUnique' /\ LedgerIsIndexed'
  BY <1>1, <1>7 DEF OrderInv, LedgerIsUnique, LedgerIsIndexed
<1>9. (Indexed \subseteq DOMAIN docs)'
  BY <1>1, <1>7 DEF OrderInv
<1>10. ArtifactsAreBacked'
  BY <1>1 DEF OrderInv, ArtifactsAreBacked
<1>11. QED
  BY <1>4, <1>6, <1>8, <1>9, <1>10 DEF OrderInv

\* Admission lines, transcripts and the working state.
LEMMA OrderPlain ==
  ASSUME FactsInv, OrderInv, ~ overlapped, NEW p \in Procs,
         \/ AppendAdmission(p) \/ AppendTurn(p)
         \/ WriteSession(p) \/ WriteCurrent(p) \/ WriteRegistry(p)
  PROVE  OrderInv'
<1>1. /\ ~ Idle(p) /\ Done(p) /\ OrderSame
      /\ Arg(p).do \in {"admission", "transcript", "session", "current", "registry"}
  BY DEF AppendAdmission, AppendTurn, WriteSession, WriteCurrent, WriteRegistry, Op, Arg,
         OrderSame, authority
<1>2. Indexed' = Indexed /\ approved' = approved
  BY <1>1, SameIndexed DEF OrderSame
<1>3. Alone' /\ TodoIsCurrent'
  BY <1>1, <1>2, OrderPlainDone
<1>4. QED
  BY <1>1, <1>3, OrderKept

\* The ledger has been read, and nobody else can append to it.
LEMMA OrderLookUpEvent ==
  ASSUME FactsInv, OrderInv, ~ overlapped, NEW p \in Procs, LookUpEvent(p)
  PROVE  OrderInv'
<1> DEFINE op == [do |-> "append", event |-> Arg(p).event]
<1>1. /\ ~ Idle(p) /\ Arg(p).do = "event" /\ OrderSame
      /\ Done(p) \/ (Becomes(p, <<op>>) /\ \A i \in DOMAIN ledger : ledger[i] # Arg(p).event)
  BY DEF LookUpEvent, HasEventId, Op, Arg, OrderSame, authority
<1>2. Indexed' = Indexed /\ approved' = approved
  BY <1>1, SameIndexed DEF OrderSame
<1>3. CASE Done(p)
  <2>1. Alone' /\ TodoIsCurrent'
    BY <1>1, <1>2, <1>3, OrderPlainDone
  <2>2. QED
    BY <1>1, <2>1, OrderKept
<1>4. CASE Becomes(p, <<op>>) /\ \A i \in DOMAIN ledger : ledger[i] # Arg(p).event
  <2>1. DOMAIN ledger = 1..Len(ledger)
    BY ListFacts DEF FactsInv, LedgerIsTrue
  <2>2. op.do = "append" /\ op.event = Arg(p).event
    OBVIOUS
  <2>3. op.event.paths \subseteq Indexed
    BY <1>1, <2>2, OrderHead
  <2> HIDE DEF op
  <2>4. Loose(op) /\ Fresh(op, made[p], approved, Indexed, docs, ledger)
    BY <1>4, <2>1, <2>2 DEF Loose, IsPromotion, Fresh
  <2>5. \A next : ~ Link(Arg(p), next)
    BY <1>1 DEF Link
  <2>6. Alone' /\ TodoIsCurrent'
    BY <1>1, <1>4, <2>2, <2>3, <2>4, <2>5, OrderReplace
  <2>7. QED
    BY <1>1, <2>6, OrderKept
<1>5. QED
  BY <1>1, <1>3, <1>4

\* The event that was not there is appended.
LEMMA OrderAppendEvent ==
  ASSUME FactsInv, OrderInv, ~ overlapped, NEW p \in Procs, AppendEvent(p)
  PROVE  OrderInv'
<1> DEFINE e == Arg(p).event
           l == Append(ledger, e)
<1>1. /\ ~ Idle(p) /\ Arg(p).do = "append" /\ Done(p) /\ ledger' = l
      /\ UNCHANGED <<artifacts, docs, index, approved, made, overlapped>>
  BY DEF AppendEvent, Op, Arg, authority
<1>2. Indexed' = Indexed /\ approved' = approved
  BY <1>1, SameIndexed
<1>3. Alone' /\ TodoIsCurrent'
  BY <1>1, <1>2, OrderPlainDone
<1>4. /\ e.paths \subseteq Indexed /\ \A i \in 1..Len(ledger) : ledger[i] # e
  BY <1>1, OrderHead DEF Fresh
<1>5. IsList(ledger) /\ Len(ledger) \in Nat
  BY ListFacts DEF FactsInv, LedgerIsTrue
<1>6. /\ Len(l) = Len(ledger) + 1 /\ l[Len(ledger) + 1] = e
      /\ \A i \in 1..Len(ledger) : l[i] = ledger[i]
  BY <1>5, ListAppend
<1> HIDE DEF e, l
<1>7. \A i \in 1..Len(l) : i = Len(ledger) + 1 \/ i \in 1..Len(ledger)
  BY <1>5, <1>6
<1>8. LedgerIsUnique'
  <2>1. ASSUME NEW i \in 1..Len(l), NEW j \in 1..Len(l), l[i] = l[j] PROVE i = j
    BY <1>4, <1>6, <1>7, <2>1 DEF OrderInv, LedgerIsUnique
  <2>2. QED
    BY <1>1, <2>1 DEF LedgerIsUnique
<1>9. LedgerIsIndexed'
  <2>1. \A i \in 1..Len(l) : l[i].paths \subseteq Indexed
    BY <1>4, <1>6, <1>7 DEF OrderInv, LedgerIsIndexed
  <2>2. QED
    BY <1>1, <1>2, <2>1 DEF LedgerIsIndexed
<1>10. (Indexed \subseteq DOMAIN docs)'
  BY <1>1, <1>2 DEF OrderInv
<1>11. ArtifactsAreBacked'
  BY <1>1 DEF OrderInv, ArtifactsAreBacked
<1>12. QED
  BY <1>3, <1>8, <1>9, <1>10, <1>11 DEF OrderInv

\* An artifact is captured, reviewed or promoted.
LEMMA OrderPersist ==
  ASSUME FactsInv, OrderInv, ~ overlapped, NEW p \in Procs, PersistArtifact(p)
  PROVE  OrderInv'
<1> DEFINE id == Arg(p).id
           record == Arg(p).record
<1>1. /\ ~ Idle(p) /\ Arg(p).do = "persist" /\ Done(p)
      /\ artifacts' = Put(artifacts, id, record)
      /\ approved' = CASE record.status = "captured" -> approved \ {id}
                       [] record.status = "reviewed" -> approved \cup {id}
                       [] OTHER -> approved
      /\ UNCHANGED <<docs, index, ledger, made, overlapped>>
  BY DEF PersistArtifact, Op, Arg, authority
<1>2. Indexed' = Indexed
  BY <1>1, SameIndexed
<1>3. \/ record.status = "captured" /\ approved' = approved \ {id}
      \/ record.status = "reviewed" /\ approved' = approved \cup {id}
      \/ record.status \notin {"captured", "reviewed"} /\ approved' = approved
  BY <1>1
<1>4. approved \subseteq approved' \/ IsCapture(Arg(p))
  BY <1>1, <1>3 DEF IsCapture
<1>5. Alone' /\ TodoIsCurrent'
  BY <1>1, <1>2, <1>4, OrderPlainDone
<1>6. record.status = "promoted" => Backed(id, record, approved, docs)
  <2>1. Fresh(Arg(p), made[p], approved, Indexed, docs, ledger)
    BY <1>1, OrderHead
  <2>2. QED
    BY <1>1, <2>1 DEF Fresh, IsPromotion
<1>7. /\ DOMAIN artifacts' = DOMAIN artifacts \cup {id} /\ artifacts'[id] = record
      /\ \A x \in DOMAIN artifacts : x # id => artifacts'[x] = artifacts[x]
  BY <1>1 DEF Put
<1> HIDE DEF id, record
<1>8. ArtifactsAreBacked'
  <2>1. ASSUME NEW x \in DOMAIN artifacts'
        PROVE  /\ artifacts'[x].status \in {"reviewed", "promoted"} => x \in approved'
               /\ artifacts'[x].status = "promoted" => Backed(x, artifacts'[x], approved', docs')
    <3>1. CASE x = id
      <4>1. artifacts'[x] = record
        BY <1>7, <3>1
      <4>2. CASE record.status = "promoted"
        <5>1. approved' = approved /\ Backed(id, record, approved, docs) /\ docs' = docs
          BY <1>1, <1>3, <1>6, <4>2
        <5>2. QED
          BY <3>1, <4>1, <5>1 DEF Backed
      <4>3. CASE record.status # "promoted"
        BY <1>3, <3>1, <4>1, <4>3
      <4>4. QED
        BY <4>2, <4>3
    <3>2. CASE x # id
      <4>1. x \in DOMAIN artifacts /\ artifacts'[x] = artifacts[x] /\ docs' = docs
        BY <1>1, <1>7, <3>2
      <4>2. x \in approved => x \in approved'
        BY <1>3, <3>2
      <4>3. QED
        BY <4>1, <4>2 DEF OrderInv, ArtifactsAreBacked, Backed
    <3>3. QED
      BY <3>1, <3>2
  <2>2. QED
    BY <2>1 DEF ArtifactsAreBacked
<1>9. LedgerIsUnique' /\ LedgerIsIndexed'
  BY <1>1, <1>2 DEF OrderInv, LedgerIsUnique, LedgerIsIndexed
<1>10. (Indexed \subseteq DOMAIN docs)'
  BY <1>1, <1>2 DEF OrderInv
<1>11. QED
  BY <1>5, <1>8, <1>9, <1>10 DEF OrderInv

\* A review neither captures nor promotes.
LEMMA OrderReview ==
  ASSUME FactsInv, OrderInv, ~ overlapped, NEW p \in Procs, Review(p)
  PROVE  OrderInv'
<1> DEFINE u == Arg(p).update
           old == artifacts[u.id]
           a == Persist(u.id, [status |-> u.next, tier |-> old.tier,
                               title |-> old.title, supersedes |-> u.supersedes])
           e == Event("artifact.review", NoRecord, {u.id}, {}, Arg(p).at)
           b == [do |-> "event", event |-> e]
           ops == <<a, b>>
<1>1. /\ ~ Idle(p) /\ Arg(p).do = "review" /\ OrderSame
      /\ Done(p) \/ (Becomes(p, ops) /\ CanTransition(old.status, u.next))
  BY DEF Review, Op, Arg, OrderSame, authority
<1>2. Indexed' = Indexed /\ approved' = approved
  BY <1>1, SameIndexed DEF OrderSame
<1>3. CASE Done(p)
  <2>1. Alone' /\ TodoIsCurrent'
    BY <1>1, <1>2, <1>3, OrderPlainDone
  <2>2. QED
    BY <1>1, <2>1, OrderKept
<1>4. CASE Becomes(p, ops) /\ CanTransition(old.status, u.next)
  <2>1. u.next \notin {"promoted", "captured"}
    BY <1>4 DEF CanTransition
  <2>2. IsList(ops) /\ Len(ops) = 2 /\ ops[1] = a /\ ops[2] = b
    BY ListTwo
  <2>3. a.do = "persist" /\ a.record.status = u.next
    BY DEF Persist
  <2>4. b.do = "event" /\ b.event = e /\ e.paths = {}
    BY DEF Event
  <2> HIDE DEF a, b, e, ops, old, u
  <2>5. /\ Loose(a) /\ ~ IsPromotion(a) /\ ~ IsCapture(a)
        /\ Loose(b) /\ ~ IsPromotion(b) /\ ~ IsCapture(b)
    BY <2>1, <2>3, <2>4 DEF Loose, IsPromotion, IsCapture
  <2>6. /\ \A i \in 1..Len(ops) : i = 1 \/ i = 2
        /\ \A i \in 2..Len(ops) : i = 2
        /\ ops # <<>>
    BY <2>2, ListEmpty
  <2>7. \A i \in 1..Len(ops) : ~ IsPromotion(ops[i]) /\ ~ IsCapture(ops[i])
    BY <2>2, <2>5, <2>6
  <2>8. Current(ops, made[p], approved, Indexed, docs, ledger)
    <3>1. Chained(ops)
      BY <2>2, <2>5, <2>6 DEF Chained
    <3>2. Lawful(ops, approved, Indexed)
      BY <2>2, <2>3, <2>4, <2>5, <2>6 DEF Lawful
    <3>3. Head(ops) = a
      BY <2>2, <2>6, ListTail
    <3>4. Fresh(a, made[p], approved, Indexed, docs, ledger)
      BY <2>3, <2>5 DEF Fresh
    <3>5. QED
      BY <2>7, <3>1, <3>2, <3>3, <3>4 DEF Current, Pure
  <2>9. \A op : ~ Link(Arg(p), op)
    BY <1>1 DEF Link
  <2>10. Alone' /\ TodoIsCurrent'
    BY <1>1, <1>4, <2>2, <2>6, <2>7, <2>8, <2>9, OrderBecomes
  <2>11. QED
    BY <1>1, <2>10, OrderKept
<1>5. QED
  BY <1>1, <1>3, <1>4

\* A promotion gathers what has been reviewed.
LEMMA OrderGathers ==
  ASSUME FactsInv, OrderInv, ~ overlapped, NEW p \in Procs, Gathers(p)
  PROVE  OrderInv'
<1> DEFINE op == Arg(p)
           ref == Head(op.refs)
           Loaded(ready) == [do |-> "gather", c |-> op.c, refs |-> Tail(op.refs),
                             ready |-> op.ready \o ready, at |-> op.at]
           one == <<[id |-> ref, record |-> artifacts[ref]]>>
           M == MemoryPromotion(op.c, op.ready, op.at)
           H == HarnessPromotion(op.c, op.ready, op.at)
<1>1. ~ Idle(p) /\ op.do = "gather" /\ OrderSame
  BY DEF Gathers, Op, Arg, OrderSame, authority
<1>2. /\ op.c.kind \in {"memory.promote", "harness.promote"}
      /\ IsList(op.ready)
      /\ op.c.kind = "memory.promote" => IsList(op.c.candidates)
  <2>1. Proper(op)
    BY <1>1, HeadFacts
  <2>2. QED
    BY <1>1, <2>1 DEF Proper
<1>3. \/ op.c.kind = "memory.promote" /\ Becomes(p, M)
      \/ op.c.kind = "harness.promote" /\ Becomes(p, H)
      \/ op.c.kind = "memory.promote" /\ Becomes(p, <<Loaded(CandidateOf(ref))>>)
      \/ Becomes(p, <<Loaded(<<>>)>>)
      \/ Promotable(ref) /\ Becomes(p, <<Loaded(one)>>)
      \/ Fail(p)
  BY <1>2 DEF Gathers
<1>4. Len(todo[p]) = 1 /\ IsList(todo[p])
  BY <1>1, HeadFacts DEF Valid, Arg
<1>5. op.c.kind = "harness.promote" => \A i \in 1..Len(op.ready) : op.ready[i].id \in approved
  BY <1>1, OrderHead DEF Fresh
<1>6. ASSUME NEW ops, IsList(ops), Becomes(p, ops),
             Current(ops, made[p], approved, Indexed, docs, ledger)
      PROVE  OrderInv'
  <2>1. ops \o Tail(todo[p]) = ops
    BY <1>4, <1>6, TailOfOne
  <2>2. todo' = [todo EXCEPT ![p] = ops]
    BY <1>6, <2>1 DEF Becomes
  <2>3. made' = made /\ approved' = approved /\ Indexed' = Indexed /\ docs' = docs /\ ledger' = ledger
    BY <1>1, SameIndexed DEF OrderSame
  <2>4. Alone' /\ TodoIsCurrent'
    BY <1>1, <1>6, <2>2, <2>3, AloneStep
  <2>5. QED
    BY <1>1, <2>4, OrderKept
<1>7. ASSUME NEW ready, IsList(ready), Becomes(p, <<Loaded(ready)>>),
             op.c.kind = "harness.promote" => \A i \in 1..Len(ready) : ready[i].id \in approved
      PROVE  OrderInv'
  <2> DEFINE new == Loaded(ready)
             old == op.ready
             all == old \o ready
  <2>1. new.do = "gather" /\ new.c = op.c /\ new.ready = all
    OBVIOUS
  <2>2. ASSUME op.c.kind = "harness.promote", NEW i \in 1..Len(all) PROVE all[i].id \in approved
    <3>1. IsList(old) /\ IsList(ready) /\ \A j \in 1..Len(old) : old[j].id \in approved
      BY <1>2, <1>5, <1>7, <2>2
    <3> HIDE DEF old
    <3>2. \/ \E j \in 1..Len(old) : all[i] = old[j]
          \/ \E j \in 1..Len(ready) : all[i] = ready[j]
      BY <2>2, <3>1, JoinElements
    <3> HIDE DEF all
    <3>3. QED
      BY <1>7, <2>2, <3>1, <3>2
  <2> HIDE DEF new, all
  <2>3. Current(<<new>>, made[p], approved, Indexed, docs, ledger)
    BY <2>1, <2>2, GatherIsCurrent
  <2> DEFINE ops == <<new>>
  <2>4. IsList(ops)
    BY ListOne
  <2>5. Becomes(p, ops) /\ Current(ops, made[p], approved, Indexed, docs, ledger)
    BY <1>7, <2>3 DEF new
  <2> HIDE DEF ops
  <2>6. QED
    BY <1>6, <2>4, <2>5
<1>8. ASSUME op.c.kind = "memory.promote", Becomes(p, M) PROVE OrderInv'
  <2>1. Opening(M) /\ \A i \in 1..Len(M) : M[i].do # "persist"
    BY <1>2, <1>8, MemoryPromotionOpening
  <2>2. Part(M, {})
    BY <1>2, <1>8, MemoryPromotionPart
  <2> HIDE DEF M
  <2>3. \A i \in 1..Len(M) : ~ IsPromotion(M[i])
    BY <2>1 DEF IsPromotion
  <2>4. IsList(M) /\ \A i \in 1..Len(M) : M[i].do \in Planned
    BY <2>2 DEF Part
  <2>5. Pure(M)
    BY <2>3 DEF Pure
  <2>6. Current(M, made[p], approved, Indexed, docs, ledger)
    BY <2>1, <2>3, <2>4, <2>5, OpeningIsCurrent
  <2>7. QED
    BY <1>6, <1>8, <2>4, <2>6
<1>9. ASSUME op.c.kind = "harness.promote", Becomes(p, H) PROVE OrderInv'
  <2>1. /\ Opening(H)
        /\ \A i \in 1..Len(H) :
             /\ ~ IsCapture(H[i])
             /\ IsPromotion(H[i]) => \E j \in 1..Len(op.ready) : H[i].id = op.ready[j].id
    BY <1>2, HarnessPromotionOpening
  <2>2. Part(H, {})
    BY <1>2, HarnessPromotionPart
  <2> HIDE DEF H
  <2>3. \A i \in 1..Len(H) : IsPromotion(H[i]) => H[i].id \in approved
    BY <1>5, <1>9, <2>1
  <2>4. IsList(H) /\ \A i \in 1..Len(H) : H[i].do \in Planned
    BY <2>2 DEF Part
  <2>5. Pure(H)
    BY <2>1 DEF Pure
  <2>6. Current(H, made[p], approved, Indexed, docs, ledger)
    BY <2>1, <2>3, <2>4, <2>5, OpeningIsCurrent
  <2>7. QED
    BY <1>6, <1>9, <2>4, <2>6
<1>10. IsList(CandidateOf(ref))
  BY ListOne, ListEmpty DEF CandidateOf
<1>11. IsList(<<>>) /\ 1..Len(<<>>) = {}
  BY ListEmpty
<1>12. ASSUME Promotable(ref), Becomes(p, <<Loaded(one)>>) PROVE OrderInv'
  <2>1. ref \in approved
    BY <1>12 DEF Promotable, OrderInv, ArtifactsAreBacked
  <2> DEFINE x == [id |-> ref, record |-> artifacts[ref]]
             s == one
  <2>2. s = <<x>> /\ x.id = ref
    OBVIOUS
  <2> HIDE DEF x, s
  <2>3. IsList(s) /\ Len(s) = 1 /\ s[1] = x
    BY <2>2, ListOne
  <2>4. \A i \in 1..Len(s) : s[i].id \in approved
    <3>1. \A i \in 1..Len(s) : i = 1
      BY <2>3
    <3>2. QED
      BY <2>1, <2>2, <2>3, <3>1
  <2>5. Becomes(p, <<Loaded(s)>>)
    BY <1>12 DEF s
  <2> HIDE DEF Loaded
  <2>6. QED
    BY <1>7, <2>3, <2>4, <2>5
<1>13. CASE Fail(p)
  <2>1. Alone' /\ TodoIsCurrent'
    BY <1>1, <1>13, OrderFail
  <2>2. QED
    BY <1>1, <2>1, OrderKept
<1> HIDE DEF op, ref, Loaded, one, M, H
<1>14. ASSUME op.c.kind = "memory.promote", Becomes(p, <<Loaded(CandidateOf(ref))>>)
       PROVE  OrderInv'
  BY <1>7, <1>10, <1>14
<1>15. ASSUME Becomes(p, <<Loaded(<<>>)>>) PROVE OrderInv'
  BY <1>7, <1>11, <1>15
<1>16. QED
  BY <1>3, <1>8, <1>9, <1>12, <1>13, <1>14, <1>15

\* createDoc takes no path that is taken.
LEMMA OrderResolveDoc ==
  ASSUME FactsInv, OrderInv, ~ overlapped, NEW p \in Procs, ResolveDoc(p)
  PROVE  OrderInv'
<1> DEFINE d == Arg(p)
           path == IF d.path.n = 0 THEN FreePath(d.path.folder, d.path.title) ELSE d.path
           op == [do |-> "create", path |-> path, source |-> d.source]
<1>1. /\ ~ Idle(p) /\ d.do = "doc" /\ OrderSame
      /\ Fail(p) \/ (~ Refused(d.path) /\ Becomes(p, <<op>>))
  BY DEF ResolveDoc, Op, Arg, OrderSame, authority
<1>2. CASE Fail(p)
  <2>1. Alone' /\ TodoIsCurrent'
    BY <1>1, <1>2, OrderFail
  <2>2. QED
    BY <1>1, <2>1, OrderKept
<1>3. CASE ~ Refused(d.path) /\ Becomes(p, <<op>>)
  <2>1. path \notin DOMAIN docs
    BY <1>3, FreePathIsFree DEF Refused, FactsInv
  <2>2. ASSUME NEW next, Link(d, next) PROVE Link(op, next)
    <3>1. /\ IsPromotion(next) /\ d.source = next.id
          /\ d.path = FixedPath(next.id, next.record)
      BY <1>1, <2>2 DEF Link
    <3>2. d.path.n = 1
      BY <3>1 DEF FixedPath
    <3>3. path = d.path
      BY <3>2
    <3>4. op.do = "create" /\ op.source = d.source /\ op.path = d.path
      BY <3>3
    <3> HIDE DEF op, d, path
    <3>5. QED
      BY <3>1, <3>4 DEF Link
  <2>3. op.do = "create" /\ op.path \notin DOMAIN docs
    BY <2>1
  <2> HIDE DEF op, d
  <2>4. Loose(op) /\ Fresh(op, made[p], approved, Indexed, docs, ledger)
    BY <2>3 DEF Loose, IsPromotion, Fresh
  <2>5. Alone' /\ TodoIsCurrent'
    BY <1>1, <1>3, <2>2, <2>3, <2>4, OrderReplace DEF d
  <2>6. QED
    BY <1>1, <2>5, OrderKept
<1>4. QED
  BY <1>1, <1>2, <1>3

\* A document is written: those promoted before keep theirs.
LEMMA BackedKept ==
  ASSUME OrderInv, ~ overlapped, NEW path, NEW doc, docs' = Put(docs, path, doc),
         UNCHANGED <<artifacts, ledger, index, approved>>,
         path \in DOMAIN docs => doc.source = docs[path].source
  PROVE  /\ LedgerIsUnique' /\ LedgerIsIndexed' /\ ArtifactsAreBacked'
         /\ (Indexed \subseteq DOMAIN docs)'
<1>1. /\ DOMAIN docs' = DOMAIN docs \cup {path}
      /\ \A x \in DOMAIN docs : docs'[x].source = docs[x].source
  BY DEF Put
<1>2. Indexed' = Indexed
  BY SameIndexed
<1>3. LedgerIsUnique' /\ LedgerIsIndexed'
  BY <1>2 DEF OrderInv, LedgerIsUnique, LedgerIsIndexed
<1>4. (Indexed \subseteq DOMAIN docs)'
  BY <1>1, <1>2 DEF OrderInv
<1>5. \A id, record : Backed(id, record, approved, docs) => Backed(id, record, approved', docs')
  BY <1>1 DEF Backed
<1>6. ArtifactsAreBacked'
  BY <1>5 DEF OrderInv, ArtifactsAreBacked
<1>7. QED
  BY <1>3, <1>4, <1>6

\* createDoc replaces no document.
LEMMA OrderCreateDoc ==
  ASSUME FactsInv, OrderInv, ~ overlapped, NEW p \in Procs, CreateDoc(p)
  PROVE  OrderInv'
<1> DEFINE path == Arg(p).path
           doc == Document(Arg(p).source, TRUE, 0)
<1>1. /\ ~ Idle(p) /\ Arg(p).do = "create" /\ Done(p)
      /\ docs' = Put(docs, path, doc)
      /\ UNCHANGED <<artifacts, ledger, index, approved, overlapped>>
  BY DEF CreateDoc, Op, Arg
<1>2. path \notin DOMAIN docs
  BY <1>1, OrderHead DEF Fresh
<1>3. path \in DOMAIN docs' /\ docs'[path].source = Arg(p).source
  BY <1>1 DEF Put, Document
<1>4. Indexed' = Indexed /\ approved' = approved
  BY <1>1, SameIndexed
<1>5. ASSUME NEW op, Link(Arg(p), op) PROVE Follows(op, made'[p], approved', Indexed', docs')
  <2>1. IsPromotion(op) /\ Arg(p).source = op.id /\ path = FixedPath(op.id, op.record)
    BY <1>1, <1>5 DEF Link
  <2>2. op.do # "announce"
    BY <2>1 DEF IsPromotion
  <2>3. QED
    BY <1>3, <2>1, <2>2 DEF Follows, Backed
<1>6. Alone' /\ TodoIsCurrent'
  BY <1>1, <1>4, <1>5, OrderDone
<1> HIDE DEF path, doc
<1>7. /\ LedgerIsUnique' /\ LedgerIsIndexed' /\ ArtifactsAreBacked'
      /\ (Indexed \subseteq DOMAIN docs)'
  BY <1>1, <1>2, BackedKept
<1>8. QED
  BY <1>6, <1>7 DEF OrderInv

\* refreshDocs has read whose document it is.
LEMMA OrderReadForRefresh ==
  ASSUME FactsInv, OrderInv, ~ overlapped, NEW p \in Procs, ReadForRefresh(p)
  PROVE  OrderInv'
<1> DEFINE doc == docs[Arg(p).path]
           op == [do |-> "rewrite", path |-> Arg(p).path,
                  doc |-> Document(doc.source, TRUE, doc.rev)]
<1>1. /\ ~ Idle(p) /\ Arg(p).do = "refresh" /\ OrderSame
      /\ Done(p) \/ Becomes(p, <<op>>)
  BY DEF ReadForRefresh, Op, Arg, OrderSame, authority
<1>2. Indexed' = Indexed /\ approved' = approved
  BY <1>1, SameIndexed DEF OrderSame
<1>3. op.do = "rewrite" /\ op.path = Arg(p).path /\ op.doc.source = docs[op.path].source
  BY DEF Document
<1> HIDE DEF op
<1>4. Alone' /\ TodoIsCurrent'
  <2>1. CASE Done(p)
    BY <1>1, <1>2, <2>1, OrderPlainDone
  <2>2. CASE Becomes(p, <<op>>)
    <3>1. Loose(op) /\ Fresh(op, made[p], approved, Indexed, docs, ledger)
      BY <1>3 DEF Loose, IsPromotion, Fresh
    <3>2. \A next : ~ Link(Arg(p), next)
      BY <1>1 DEF Link
    <3>3. QED
      BY <1>1, <1>3, <2>2, <3>1, <3>2, OrderReplace
  <2>3. QED
    BY <1>1, <2>1, <2>2
<1>5. QED
  BY <1>1, <1>4, OrderKept

\* refreshDocs writes it back as the same one's.
LEMMA OrderRewrite ==
  ASSUME FactsInv, OrderInv, ~ overlapped, NEW p \in Procs, Rewrite(p)
  PROVE  OrderInv'
<1> DEFINE path == Arg(p).path
           doc == Arg(p).doc
<1>1. /\ ~ Idle(p) /\ Arg(p).do = "rewrite" /\ Done(p)
      /\ docs' = Put(docs, path, doc)
      /\ UNCHANGED <<artifacts, ledger, index, approved, overlapped>>
  BY DEF Rewrite, Op, Arg
<1>2. doc.source = docs[path].source
  BY <1>1, OrderHead DEF Fresh
<1>3. Indexed' = Indexed /\ approved' = approved
  BY <1>1, SameIndexed
<1>4. Alone' /\ TodoIsCurrent'
  BY <1>1, <1>3, OrderPlainDone
<1> HIDE DEF path, doc
<1>5. /\ LedgerIsUnique' /\ LedgerIsIndexed' /\ ArtifactsAreBacked'
      /\ (Indexed \subseteq DOMAIN docs)'
  BY <1>1, <1>2, BackedKept
<1>6. QED
  BY <1>4, <1>5 DEF OrderInv

\* reconcileDocs has read every document there is.
LEMMA OrderBuildIndex ==
  ASSUME FactsInv, OrderInv, ~ overlapped, NEW p \in Procs, BuildAuthorityIndex(p)
  PROVE  OrderInv'
<1> DEFINE Entry(path) == [path |-> path, wellFormed |-> docs[path].wellFormed]
           entries == {Entry(path) : path \in DOMAIN docs}
           op == [do |-> "index", entries |-> entries]
<1>1. /\ ~ Idle(p) /\ Arg(p).do = "reconcile" /\ OrderSame
      /\ (Done(p) /\ made[p] = {}) \/ Becomes(p, <<op>>)
  BY DEF BuildAuthorityIndex, Op, Arg, OrderSame, authority
<1>2. Indexed' = Indexed /\ approved' = approved /\ made' = made
  BY <1>1, SameIndexed DEF OrderSame
<1>3. op.do = "index" /\ {e.path : e \in op.entries} = DOMAIN docs
  <2>1. \A path : Entry(path).path = path
    OBVIOUS
  <2> HIDE DEF Entry
  <2>2. {e.path : e \in entries} = DOMAIN docs
    BY <2>1
  <2>3. op.do = "index" /\ op.entries = entries
    OBVIOUS
  <2> HIDE DEF op, entries
  <2>4. QED
    BY <2>2, <2>3
<1> HIDE DEF op
<1>4. \A next : Link(Arg(p), next) => next.do = "announce"
  BY <1>1 DEF Link
<1>5. Alone' /\ TodoIsCurrent'
  <2>1. CASE Done(p) /\ made[p] = {}
    <3>1. \A next : Link(Arg(p), next) => Follows(next, made'[p], approved', Indexed', docs')
      BY <1>2, <1>4, <2>1 DEF Follows, IsPromotion
    <3>2. QED
      BY <1>1, <1>2, <2>1, <3>1, OrderDone
  <2>2. CASE Becomes(p, <<op>>)
    <3>1. Loose(op) /\ Fresh(op, made[p], approved, Indexed, docs, ledger)
      BY <1>3 DEF Loose, IsPromotion, Fresh
    <3>2. \A next : Link(Arg(p), next) => Link(op, next)
      BY <1>3, <1>4 DEF Link
    <3>3. QED
      BY <1>1, <1>3, <2>2, <3>1, <3>2, OrderReplace
  <2>3. QED
    BY <1>1, <2>1, <2>2
<1>6. QED
  BY <1>1, <1>5, OrderKept

\* The index lists every document there is.
LEMMA OrderWriteIndex ==
  ASSUME FactsInv, OrderInv, ~ overlapped, NEW p \in Procs, WriteAuthorityIndex(p)
  PROVE  OrderInv'
<1>1. /\ ~ Idle(p) /\ Arg(p).do = "index" /\ Done(p) /\ index' = Arg(p).entries
      /\ UNCHANGED <<artifacts, docs, ledger, approved, made, overlapped>>
  BY DEF WriteAuthorityIndex, Op, Arg
<1>2. Indexed' = DOMAIN docs
  <2>1. {e.path : e \in Arg(p).entries} = DOMAIN docs
    BY <1>1, OrderHead DEF Fresh
  <2>2. QED
    BY <1>1, <2>1 DEF Indexed
<1>3. Indexed \subseteq Indexed' /\ made'[p] \subseteq Indexed'
  BY <1>1, <1>2 DEF OrderInv, FactsInv, MadeExists
<1>4. ASSUME NEW op, Link(Arg(p), op) PROVE Follows(op, made'[p], approved', Indexed', docs')
  <2>1. op.do = "announce"
    BY <1>1, <1>4 DEF Link
  <2>2. QED
    BY <1>3, <2>1 DEF Follows, IsPromotion
<1>5. approved \subseteq approved'
  BY <1>1
<1>6. Alone' /\ TodoIsCurrent'
  BY <1>1, <1>3, <1>4, <1>5, OrderDone
<1>7. LedgerIsUnique' /\ LedgerIsIndexed'
  BY <1>1, <1>3 DEF OrderInv, LedgerIsUnique, LedgerIsIndexed
<1>8. (Indexed \subseteq DOMAIN docs)'
  BY <1>1, <1>2
<1>9. ArtifactsAreBacked'
  BY <1>1 DEF OrderInv, ArtifactsAreBacked
<1>10. QED
  BY <1>6, <1>7, <1>8, <1>9 DEF OrderInv

\* What is announced is indexed.
LEMMA OrderAnnounce ==
  ASSUME FactsInv, OrderInv, ~ overlapped, NEW p \in Procs, Announce(p)
  PROVE  OrderInv'
<1> DEFINE e == Event(Arg(p).type, NoRecord, Arg(p).refs, made[p],
                      IF Arg(p).type = "memory.promote" THEN Arg(p).at ELSE 0)
           op == [do |-> "event", event |-> e]
<1>1. /\ ~ Idle(p) /\ Arg(p).do = "announce" /\ OrderSame
      /\ Done(p) \/ Becomes(p, <<op>>)
  BY DEF Announce, Op, Arg, OrderSame, authority
<1>2. Indexed' = Indexed /\ approved' = approved
  BY <1>1, SameIndexed DEF OrderSame
<1>3. e.paths = made[p]
  BY DEF Event
<1> HIDE DEF e
<1>4. op.do = "event" /\ op.event.paths = made[p]
  BY <1>3
<1>5. made[p] \subseteq Indexed
  BY <1>1, OrderHead DEF Fresh
<1> HIDE DEF op
<1>6. \A next : ~ Link(Arg(p), next)
  BY <1>1 DEF Link
<1>7. Alone' /\ TodoIsCurrent'
  <2>1. CASE Done(p)
    BY <1>1, <1>2, <2>1, OrderPlainDone
  <2>2. CASE Becomes(p, <<op>>)
    <3>1. Loose(op) /\ Fresh(op, made[p], approved, Indexed, docs, ledger)
      BY <1>4 DEF Loose, IsPromotion, Fresh
    <3>2. QED
      BY <1>1, <1>4, <1>5, <1>6, <2>2, <3>1, OrderReplace
  <2>3. QED
    BY <1>1, <2>1, <2>2
<1>8. QED
  BY <1>1, <1>7, OrderKept

\* A crash.
LEMMA OrderCrash ==
  ASSUME FactsInv, OrderInv, ~ overlapped, NEW p \in Procs, Crash(p)
  PROVE  OrderInv'
<1>1. ~ Idle(p) /\ Fail(p) /\ OrderSame
  BY DEF Crash, OrderSame, authority
<1>2. Alone' /\ TodoIsCurrent'
  BY <1>1, OrderFail
<1>3. QED
  BY <1>1, <1>2, OrderKept

\* A document is written again in its place.
LEMMA FreshKept ==
  ASSUME NEW op, NEW mine, NEW ok, NEW listed, NEW files, NEW log, NEW files2,
         Fresh(op, mine, ok, listed, files, log), op.do = "rewrite" => op.path \in DOMAIN files,
         DOMAIN files2 = DOMAIN files, \A x \in DOMAIN files : files2[x].source = files[x].source
  PROVE  Fresh(op, mine, ok, listed, files2, log)
BY DEF Fresh, Backed

\* A user edits a document; whose it is does not change.
LEMMA OrderEdit ==
  ASSUME FactsInv, OrderInv, ~ overlapped, NEW path \in DOMAIN docs, EditDoc(path)
  PROVE  OrderInv'
<1> DEFINE doc == Document(docs[path].source, FALSE, docs[path].rev + 1)
<1>1. /\ docs' = Put(docs, path, doc)
      /\ UNCHANGED <<artifacts, ledger, index, approved, todo, made>>
  BY DEF EditDoc
<1>2. doc.source = docs[path].source
  BY DEF Document
<1> HIDE DEF doc
<1>3. DOMAIN docs' = DOMAIN docs /\ \A x \in DOMAIN docs : docs'[x].source = docs[x].source
  BY <1>1, <1>2 DEF Put
<1>4. Indexed' = Indexed
  BY <1>1, SameIndexed
<1>5. ASSUME NEW p \in Procs
      PROVE  Current(todo'[p], made'[p], approved', Indexed', docs', ledger')
  <2>1. Current(todo[p], made[p], approved, Indexed, docs, ledger)
    BY DEF OrderInv, TodoIsCurrent
  <2>2. ASSUME todo[p] # <<>>
        PROVE  Fresh(Head(todo[p]), made[p], approved, Indexed, docs', ledger)
    <3> DEFINE op == Head(todo[p])
    <3>1. ~ Idle(p) /\ Arg(p) = op
      BY <2>2 DEF Idle, Arg
    <3>2. ASSUME op.do = "rewrite" PROVE op.path \in DOMAIN docs
      <4>1. Needs(op) = {<<"doc", op.path>>} /\ Needs(op) \subseteq Facts
        BY <3>1, <3>2, HeadFacts DEF Needs
      <4>2. QED
        BY <4>1, FactsAreFacts
    <3>3. Fresh(op, made[p], approved, Indexed, docs, ledger)
      BY <2>1, <2>2 DEF Current
    <3> HIDE DEF op
    <3>4. Fresh(op, made[p], approved, Indexed, docs', ledger)
      BY <1>3, <3>2, <3>3, FreshKept
    <3>5. QED
      BY <3>4 DEF op
  <2>3. Current(todo[p], made[p], approved, Indexed, docs', ledger)
    BY <2>1, <2>2 DEF Current
  <2>4. QED
    BY <1>1, <1>4, <2>3
<1>6. TodoIsCurrent'
  BY <1>5 DEF TodoIsCurrent
<1>7. Alone'
  BY <1>1 DEF OrderInv, Alone, Idle
<1>8. /\ LedgerIsUnique' /\ LedgerIsIndexed' /\ ArtifactsAreBacked'
      /\ (Indexed \subseteq DOMAIN docs)'
  BY <1>1, <1>2, BackedKept
<1>9. QED
  BY <1>6, <1>7, <1>8 DEF OrderInv

\* Every step.
LEMMA OrderStep ==
  ASSUME FactsInv, OrderInv, [Next]_vars
  PROVE  OrderInv'
<1>1. SUFFICES ASSUME ~ overlapped' PROVE OrderInv'
  BY DEF OrderInv
<1>2. CASE UNCHANGED vars
  <2>1. /\ UNCHANGED <<artifacts, docs, index, ledger, approved, made, todo>>
        /\ ~ overlapped
    BY <1>1, <1>2 DEF vars, authority
  <2>2. Indexed' = Indexed
    BY <2>1, SameIndexed
  <2>3. Alone' /\ TodoIsCurrent'
    BY <2>1, <2>2 DEF OrderInv, Alone, Idle, TodoIsCurrent
  <2>4. LedgerIsUnique' /\ LedgerIsIndexed'
    BY <2>1, <2>2 DEF OrderInv, LedgerIsUnique, LedgerIsIndexed
  <2>5. (Indexed \subseteq DOMAIN docs)' /\ ArtifactsAreBacked'
    BY <2>1, <2>2 DEF OrderInv, ArtifactsAreBacked
  <2>6. QED
    BY <2>3, <2>4, <2>5 DEF OrderInv
<1>3. ASSUME NEW p \in Procs, NEW c \in Commands, Start(p, c) PROVE OrderInv'
  BY <1>1, <1>3, OrderStart
<1>4. ASSUME NEW path \in DOMAIN docs, EditDoc(path) PROVE OrderInv'
  <2>1. ~ overlapped
    BY <1>1, <1>4 DEF EditDoc
  <2>2. QED
    BY <1>4, <2>1, OrderEdit
<1>5. ASSUME NEW p \in Procs,
             \/ AppendAdmission(p) \/ LookUpEvent(p) \/ AppendEvent(p)
             \/ AppendTurn(p) \/ PersistArtifact(p) \/ Review(p)
             \/ WriteSession(p) \/ WriteCurrent(p) \/ WriteRegistry(p)
             \/ Gathers(p) \/ ResolveDoc(p) \/ CreateDoc(p)
             \/ ReadForRefresh(p) \/ Rewrite(p)
             \/ BuildAuthorityIndex(p) \/ WriteAuthorityIndex(p) \/ Announce(p)
             \/ Crash(p)
      PROVE  OrderInv'
  <2>1. ~ overlapped
    BY <1>1, <1>5 DEF AppendAdmission, LookUpEvent, AppendEvent, AppendTurn, PersistArtifact,
       Review, WriteSession, WriteCurrent, WriteRegistry, Gathers, ResolveDoc, CreateDoc,
       ReadForRefresh, Rewrite, BuildAuthorityIndex, WriteAuthorityIndex, Announce, Crash
  <2>2. QED
    BY <1>5, <2>1, OrderPlain, OrderLookUpEvent, OrderAppendEvent, OrderPersist, OrderReview,
       OrderGathers, OrderResolveDoc, OrderCreateDoc, OrderReadForRefresh, OrderRewrite,
       OrderBuildIndex, OrderWriteIndex, OrderAnnounce, OrderCrash
<1>6. QED
  BY <1>2, <1>3, <1>4, <1>5 DEF Next

\* As long as commands ran one after the other, what a command has read still holds
\* when it uses it.
THEOREM OrderInvariance == Spec => []OrderInv
<1>1. Init => OrderInv
  BY OrderInit
<1>2. FactsInv /\ OrderInv /\ [Next]_vars => OrderInv'
  BY OrderStep
<1>3. QED
  BY <1>1, <1>2, FactsInvariance, PTL DEF Spec

\* An event the ledger holds was looked up before it was appended.
LEMMA OrderIsUnique == FactsInv /\ OrderInv => EventsAreUnique
<1>1. FactsInv => DOMAIN ledger = 1..Len(ledger)
  BY ListFacts DEF FactsInv, LedgerIsTrue
<1>2. QED
  BY <1>1 DEF OrderInv, LedgerIsUnique, EventsAreUnique

\* As long as commands ran one after the other, appendLedgerEvent appends an event once,
\* also when a command is repeated after a crash.
THEOREM UniqueEvents == Spec => []EventsAreUnique
<1>1. QED
  BY FactsInvariance, OrderInvariance, OrderIsUnique, PTL

\* A document the ledger announces is indexed.
LEMMA OrderIsIndexed == FactsInv /\ OrderInv => AnnouncedDocsAreIndexed
<1>1. FactsInv => DOMAIN ledger = 1..Len(ledger)
  BY ListFacts DEF FactsInv, LedgerIsTrue
<1>2. QED
  BY <1>1 DEF OrderInv, LedgerIsIndexed, Indexed, AnnouncedDocsAreIndexed

\* As long as commands ran one after the other, a document memory promote or harness
\* promote announced is in the authority index, wherever the promotion crashed.
THEOREM IndexedDocs == Spec => []AnnouncedDocsAreIndexed
<1>1. QED
  BY FactsInvariance, OrderInvariance, OrderIsIndexed, PTL

\* A promoted artifact has its document.
LEMMA OrderIsBacked == OrderInv => PromotionIsBacked
BY DEF OrderInv, ArtifactsAreBacked, Backed, PromotionIsBacked

\* As long as commands ran one after the other, an artifact promoteHarness has promoted was
\* reviewed since it was captured, and the document at its path is its own.
THEOREM BackedPromotion == Spec => []PromotionIsBacked
<1>1. QED
  BY OrderInvariance, OrderIsBacked, PTL
=============================================================================
