------------------------- MODULE QueryBuilderProofs -------------------------
(***************************************************************************)
(* What the repository guarantees for any columns and rows, any chain of   *)
(* conditions however long and deep, any structs and any writes meanwhile: *)
(* chains mean what their calls say, answers match the structs they were   *)
(* asked for with, totals fit their pages, and a deletion or a search for  *)
(* one row takes no more than it says.                                     *)
(***************************************************************************)
EXTENDS QueryBuilder, FiniteSetTheorems, NaturalsInduction, WellFoundedInduction, TLAPS

-----------------------------------------------------------------------------
(* Loops over a sequence, as functions of the number of elements seen.     *)

\* What holds before the first element, and after one more, holds after all of them.
LEMMA Counted ==
    ASSUME NEW n \in Nat, NEW S, 0 \in S, \A i \in 1..n : i - 1 \in S => i \in S
    PROVE  0..n \subseteq S
<1> DEFINE Less == {x \in Nat \X Nat : x[1] < x[2]}
<1>0. IsWellFoundedOn(Less, Nat)
  BY NatLessThanWellFounded, Zenon DEF OpToRel
<1> HIDE DEF Less
<1> DEFINE D == (0..n) \ S
<1> SUFFICES ASSUME D # {} PROVE FALSE
  OBVIOUS
<1>1. D \subseteq Nat
  OBVIOUS
<1>2. PICK i \in D : \A x \in D : <<x, i>> \notin Less
  BY <1>0, <1>1, WFMin
<1>3. i \in 1..n
  OBVIOUS
<1>4. i - 1 \in 0..n /\ <<i - 1, i>> \in Less
  BY <1>3 DEF Less
<1> QED BY <1>2, <1>3, <1>4

\* f is what a loop has made of x0 after each of n elements.
Runs(f, n, X, x0, step) ==
    f \in [0..n -> X] /\ f[0] = x0 /\ \A i \in 1..n : f[i] = step[i][f[i - 1]]

Steps(n, X) == [1..n -> [X -> X]]

\* A loop has a result after each element...
LEMMA Loop ==
    ASSUME NEW n \in Nat, NEW X, NEW x0 \in X, NEW step \in Steps(n, X)
    PROVE  \E f : Runs(f, n, X, x0, step)
<1> DEFINE S == {k \in 0..n : \E f : Runs(f, k, X, x0, step)}
<1>1. 0 \in S
  <2> DEFINE f == [i \in 0..0 |-> x0]
  <2>1. Runs(f, 0, X, x0, step)
    BY DEF Runs
  <2> HIDE DEF f
  <2> QED BY <2>1
<1>2. ASSUME NEW i \in 1..n, i - 1 \in S PROVE i \in S
  <2>1. PICK f : Runs(f, i - 1, X, x0, step)
    BY <1>2
  <2> DEFINE g == [k \in 0..i |-> IF k = i THEN step[i][f[i - 1]] ELSE f[k]]
  <2>2. f[i - 1] \in X /\ step[i] \in [X -> X]
    BY <2>1 DEF Runs, Steps
  <2>3. g \in [0..i -> X]
    BY <2>1, <2>2 DEF Runs
  <2>4. \A k \in 1..i : g[k] = step[k][g[k - 1]]
    BY <2>1 DEF Runs
  <2>5. Runs(g, i, X, x0, step)
    BY <2>1, <2>3, <2>4 DEF Runs
  <2> HIDE DEF g
  <2> QED BY <2>5
<1> HIDE DEF S
<1>3. \A i \in 1..n : i - 1 \in S => i \in S
  BY <1>2
<1>4. 0..n \subseteq S
  BY <1>1, <1>3, Counted
<1>5. n \in S
  BY <1>4
<1> QED BY <1>5 DEF S

\* ...and only one.
StepAlike(f, g, n) == f[0] = g[0] /\ \A i \in 1..n : f[i - 1] = g[i - 1] => f[i] = g[i]

LEMMA LoopOnce ==
    ASSUME NEW n \in Nat, NEW f, NEW g, StepAlike(f, g, n)
    PROVE  \A i \in 0..n : f[i] = g[i]
<1> DEFINE S == {i \in 0..n : f[i] = g[i]}
<1>1. 0 \in S /\ \A i \in 1..n : i - 1 \in S => i \in S
  BY DEF StepAlike
<1> HIDE DEF S
<1>2. 0..n \subseteq S
  BY <1>1, Counted
<1> QED BY <1>2 DEF S


-----------------------------------------------------------------------------
(* toBuilderCond, one node after the other.                                *)

\* What a condition becomes: rows, or nil.
RowSets == (SUBSET AllRows) \cup {None}
Joins == {"and", "or"}
Node == [join : Joins, rows : RowSets]

LEMMA JoinedTyped ==
    ASSUME NEW x \in RowSets, NEW node \in Node PROVE Joined(x, node) \in RowSets
<1>1. node.rows \in RowSets
  BY DEF Node
<1>2. CASE node.rows = None
  BY <1>2 DEF Joined
<1>3. CASE node.rows # None /\ x = None
  BY <1>1, <1>3 DEF Joined
<1>4. CASE node.rows # None /\ x # None
  <2>1. node.rows \in SUBSET AllRows /\ x \in SUBSET AllRows
    BY <1>1, <1>4 DEF RowSets
  <2>2. Joined(x, node) = x \cup node.rows \/ Joined(x, node) = x \cap node.rows
    BY <1>4 DEF Joined
  <2> QED BY <2>1, <2>2 DEF RowSets
<1> QED BY <1>2, <1>3, <1>4

LEMMA CondSteps ==
    ASSUME NEW nodes \in Seq(Node)
    PROVE  \E f \in [0..Len(nodes) -> RowSets] :
                /\ f[0] = None
                /\ \A i \in 1..Len(nodes) : f[i] = Joined(f[i - 1], nodes[i])
                /\ toBuilderCond(nodes) = f[Len(nodes)]
<1> DEFINE n == Len(nodes)
           step == [i \in 1..n |-> [x \in RowSets |-> Joined(x, nodes[i])]]
           Is(f) == f = [i \in 0..n |-> IF i = 0 THEN None ELSE Joined(f[i - 1], nodes[i])]
           result == CHOOSE f : Is(f)
<1>0. None \in RowSets
  BY DEF RowSets
<1>1. n \in Nat /\ None \in RowSets
  BY <1>0
<1>2. step \in Steps(n, RowSets)
  BY JoinedTyped DEF Steps
<1> HIDE DEF step
<1>3. PICK f : Runs(f, n, RowSets, None, step)
  BY <1>1, <1>2, Loop
<1>4. /\ f \in [0..n -> RowSets] /\ f[0] = None
      /\ \A i \in 1..n : f[i] = Joined(f[i - 1], nodes[i])
  <2>1. f \in [0..n -> RowSets] /\ f[0] = None /\ \A i \in 1..n : f[i] = step[i][f[i - 1]]
    BY <1>3 DEF Runs
  <2>2. ASSUME NEW i \in 1..n PROVE step[i][f[i - 1]] = Joined(f[i - 1], nodes[i])
    <3>1. f[i - 1] \in RowSets
      BY <1>1, <2>1
    <3>2. step[i] = [x \in RowSets |-> Joined(x, nodes[i])]
      BY DEF step
    <3> QED BY <3>1, <3>2
  <2> QED BY <2>1, <2>2
<1>5. Is(f)
  <2>1. f = [i \in 0..n |-> f[i]]
    BY <1>4
  <2>2. \A i \in 0..n : f[i] = IF i = 0 THEN None ELSE Joined(f[i - 1], nodes[i])
    BY <1>1, <1>4
  <2> QED BY <2>1, <2>2
<1>6. Is(result)
  <2> HIDE DEF Is
  <2> QED BY <1>5
<1>7. toBuilderCond(nodes) = result[n]
  BY DEF toBuilderCond
<1> HIDE DEF result
<1>8. result[0] = None /\ \A i \in 1..n : result[i] = Joined(result[i - 1], nodes[i])
  BY <1>1, <1>6
<1>9. \A i \in 0..n : f[i] = result[i]
  <2>1. StepAlike(f, result, n)
    BY <1>4, <1>8 DEF StepAlike
  <2> QED BY <1>1, <2>1, LoopOnce
<1>10. toBuilderCond(nodes) = f[n]
  BY <1>1, <1>7, <1>9
<1> QED BY <1>4, <1>10

LEMMA CondTyped ==
    ASSUME NEW nodes \in Seq(Node) PROVE toBuilderCond(nodes) \in RowSets
<1>1. PICK f \in [0..Len(nodes) -> RowSets] : toBuilderCond(nodes) = f[Len(nodes)]
  BY CondSteps
<1> QED BY <1>1

LEMMA CondEmpty == toBuilderCond(<<>>) = None
<1>1. <<>> \in Seq(Node) /\ Len(<<>>) = 0
  OBVIOUS
<1>2. PICK f \in [0..Len(<<>>) -> RowSets] : f[0] = None /\ toBuilderCond(<<>>) = f[Len(<<>>)]
  BY <1>1, CondSteps
<1> QED BY <1>1, <1>2

\* One more node joins what the others select.
LEMMA CondAppend ==
    ASSUME NEW nodes \in Seq(Node), NEW node \in Node
    PROVE  toBuilderCond(Append(nodes, node)) = Joined(toBuilderCond(nodes), node)
<1> DEFINE n == Len(nodes)
           more == Append(nodes, node)
<1>1. /\ more \in Seq(Node) /\ Len(more) = n + 1 /\ n \in Nat
      /\ more[n + 1] = node /\ \A i \in 1..n : more[i] = nodes[i]
  OBVIOUS
<1>2. PICK f \in [0..n -> RowSets] :
            /\ f[0] = None /\ \A i \in 1..n : f[i] = Joined(f[i - 1], nodes[i])
            /\ toBuilderCond(nodes) = f[n]
  BY CondSteps
<1> HIDE DEF more
<1>3. PICK g \in [0..(n + 1) -> RowSets] :
            /\ g[0] = None /\ \A i \in 1..(n + 1) : g[i] = Joined(g[i - 1], more[i])
            /\ toBuilderCond(more) = g[n + 1]
  <2>1. PICK g \in [0..Len(more) -> RowSets] :
            /\ g[0] = None /\ \A i \in 1..Len(more) : g[i] = Joined(g[i - 1], more[i])
            /\ toBuilderCond(more) = g[Len(more)]
    BY <1>1, CondSteps
  <2> QED BY <1>1, <2>1
<1>4. \A i \in 0..n : f[i] = g[i]
  <2>1. StepAlike(f, g, n)
    BY <1>1, <1>2, <1>3 DEF StepAlike
  <2> QED BY <1>1, <2>1, LoopOnce
<1>5. g[n + 1] = Joined(g[n], node) /\ f[n] = g[n]
  BY <1>1, <1>3, <1>4
<1> QED BY <1>2, <1>3, <1>5 DEF more

-----------------------------------------------------------------------------
(* The meaning of a chain, one call after the other.                       *)

Call == [do : {"where", "and", "or", "andGroup", "orGroup"}, rows : RowSets]

Parts(calls) == {i \in DOMAIN calls : calls[i].rows # None}

Narrowed(calls, r, i) ==
    \A j \in Parts(calls) : j > i /\ ~ BeginsAlternative(calls, j) => r \in calls[j].rows

Starts(calls, i) == BeginsAlternative(calls, i) \/ \A j \in Parts(calls) : i <= j

Chosen(calls, r) ==
    \E i \in Parts(calls) : Starts(calls, i) /\ r \in calls[i].rows /\ Narrowed(calls, r, i)

LEMMA MeaningIs ==
    ASSUME NEW calls
    PROVE  Meaning(calls) = IF Parts(calls) = {} THEN None ELSE {r \in AllRows : Chosen(calls, r)}
BY DEF Meaning, Parts, Chosen, Starts, Narrowed

LEMMA MeaningTyped ==
    ASSUME NEW calls
    PROVE  Meaning(calls) \in RowSets /\ (Meaning(calls) = None <=> Parts(calls) = {})
<1>1. {r \in AllRows : Chosen(calls, r)} \in SUBSET AllRows
  OBVIOUS
<1> QED BY <1>1, MeaningIs, RowsAssumption DEF RowSets

\* What one more call adds to the calls before it.
LEMMA CallsAppend ==
    ASSUME NEW calls \in Seq(Call), NEW c \in Call
    PROVE  LET n == Len(calls)
               more == Append(calls, c)
           IN  /\ n \in Nat /\ more[n + 1] = c /\ n + 1 \notin Parts(calls)
               /\ \A i \in Parts(calls) : i \in 1..n
               /\ \A i \in 1..n : /\ more[i] = calls[i]
                                  /\ BeginsAlternative(more, i) <=> BeginsAlternative(calls, i)
               /\ Parts(more) = Parts(calls) \cup (IF c.rows = None THEN {} ELSE {n + 1})
               /\ BeginsAlternative(more, n + 1) <=>
                    c.do = "orGroup" \/ (c.do = "where" /\ n > 0 /\ calls[n].do = "or")
<1> DEFINE n == Len(calls)
           more == Append(calls, c)
<1>1. /\ n \in Nat /\ DOMAIN calls = 1..n /\ DOMAIN more = 1..(n + 1)
      /\ more[n + 1] = c /\ \A i \in 1..n : more[i] = calls[i]
  OBVIOUS
<1> HIDE DEF n, more
<1>2. Parts(more) = Parts(calls) \cup (IF c.rows = None THEN {} ELSE {n + 1})
  BY <1>1 DEF Parts
<1>3. \A i \in 1..n : BeginsAlternative(more, i) <=> BeginsAlternative(calls, i)
  BY <1>1 DEF BeginsAlternative
<1>4. BeginsAlternative(more, n + 1) <=>
        c.do = "orGroup" \/ (c.do = "where" /\ n > 0 /\ calls[n].do = "or")
  <2>1. (n + 1) - 1 = n /\ (n + 1 > 1 <=> n > 0) /\ (n > 0 => more[n] = calls[n])
    BY <1>1
  <2>2. BeginsAlternative(more, n + 1) <=>
            \/ more[n + 1].do = "orGroup"
            \/ more[n + 1].do = "where" /\ n + 1 > 1 /\ more[(n + 1) - 1].do = "or"
    BY DEF BeginsAlternative
  <2> QED BY <1>1, <2>1, <2>2
<1>5. n + 1 \notin Parts(calls) /\ \A i \in Parts(calls) : i \in 1..n
  BY <1>1 DEF Parts
<1> QED BY <1>1, <1>2, <1>3, <1>4, <1>5 DEF n, more

\* A call without rows changes nothing.
LEMMA MeaningKeeps ==
    ASSUME NEW calls \in Seq(Call), NEW c \in Call, c.rows = None
    PROVE  Meaning(Append(calls, c)) = Meaning(calls)
<1> DEFINE more == Append(calls, c)
<1>1. /\ Parts(more) = Parts(calls)
      /\ \A i \in Parts(calls) : /\ more[i] = calls[i]
                                 /\ BeginsAlternative(more, i) <=> BeginsAlternative(calls, i)
  <2>1. /\ \A i \in Parts(calls) : i \in 1..Len(calls)
        /\ \A i \in 1..Len(calls) :
                /\ more[i] = calls[i]
                /\ BeginsAlternative(more, i) <=> BeginsAlternative(calls, i)
        /\ Parts(more) = Parts(calls) \cup {}
    BY CallsAppend
  <2> HIDE DEF more
  <2> QED BY <2>1
<1> HIDE DEF more
<1>2. \A i \in Parts(calls) : Starts(more, i) <=> Starts(calls, i)
  BY <1>1 DEF Starts
<1>3. \A r, i : Narrowed(more, r, i) <=> Narrowed(calls, r, i)
  BY <1>1 DEF Narrowed
<1>4. \A r : Chosen(more, r) <=> Chosen(calls, r)
  BY <1>1, <1>2, <1>3 DEF Chosen
<1> QED BY <1>1, <1>4, MeaningIs DEF more

\* A call with rows adds an alternative, narrows every one, or is the first to count.
LEMMA MeaningJoins ==
    ASSUME NEW calls \in Seq(Call), NEW c \in Call, c.rows # None,
           NEW node \in Node, node.rows = c.rows,
           node.join = "or" <=>
                \/ c.do = "orGroup"
                \/ c.do = "where" /\ Len(calls) > 0 /\ calls[Len(calls)].do = "or"
    PROVE  Meaning(Append(calls, c)) = Joined(Meaning(calls), node)
<1> DEFINE n == Len(calls)
           more == Append(calls, c)
<1>1. /\ n \in Nat /\ more[n + 1] = c /\ n + 1 \notin Parts(calls)
      /\ \A i \in Parts(calls) : i \in 1..n
      /\ \A i \in 1..n : /\ more[i] = calls[i]
                         /\ BeginsAlternative(more, i) <=> BeginsAlternative(calls, i)
      /\ Parts(more) = Parts(calls) \cup {n + 1}
      /\ BeginsAlternative(more, n + 1) <=> node.join = "or"
  BY CallsAppend
<1> HIDE DEF n, more
<1>2. c.rows \in SUBSET AllRows
  BY DEF Call, RowSets
<1>3. Meaning(more) = {r \in AllRows : Chosen(more, r)}
  BY <1>1, MeaningIs
<1>4. ASSUME NEW i \in Parts(calls) PROVE Starts(more, i) <=> Starts(calls, i)
  BY <1>1 DEF Starts
<1>5. ASSUME NEW i \in Parts(calls), NEW r
      PROVE  Narrowed(more, r, i) <=> Narrowed(calls, r, i) /\ (node.join = "or" \/ r \in c.rows)
  BY <1>1 DEF Narrowed
<1>6. \A r : Narrowed(more, r, n + 1)
  BY <1>1 DEF Narrowed
<1>7. Starts(more, n + 1) <=> node.join = "or" \/ Parts(calls) = {}
  <2>1. (\A j \in Parts(more) : n + 1 <= j) <=> Parts(calls) = {}
    BY <1>1
  <2> QED BY <1>1, <2>1 DEF Starts
<1>8. ASSUME NEW r
      PROVE  Chosen(more, r) <=>
                \/ r \in c.rows /\ (node.join = "or" \/ Parts(calls) = {})
                \/ Chosen(calls, r) /\ (node.join = "or" \/ r \in c.rows)
  BY <1>1, <1>4, <1>5, <1>6, <1>7 DEF Chosen
<1>9. CASE Parts(calls) = {}
  <2>1. Meaning(calls) = None
    BY <1>9, MeaningIs
  <2>2. \A r : Chosen(more, r) <=> r \in c.rows
    BY <1>8, <1>9 DEF Chosen
  <2> QED BY <1>2, <1>3, <2>1, <2>2 DEF Joined, more
<1>10. CASE Parts(calls) # {}
  <2>1. Meaning(calls) = {r \in AllRows : Chosen(calls, r)} /\ Meaning(calls) # None
    BY <1>10, MeaningIs, MeaningTyped
  <2>2. CASE node.join = "or"
    <3>1. \A r : Chosen(more, r) <=> r \in c.rows \/ Chosen(calls, r)
      BY <1>8, <2>2
    <3>2. Joined(Meaning(calls), node) = Meaning(calls) \cup c.rows
      BY <2>1, <2>2 DEF Joined
    <3> QED BY <1>2, <1>3, <2>1, <3>1, <3>2 DEF more
  <2>3. CASE node.join # "or"
    <3>1. \A r : Chosen(more, r) <=> r \in c.rows /\ Chosen(calls, r)
      BY <1>8, <1>10, <2>3
    <3>2. Joined(Meaning(calls), node) = Meaning(calls) \cap c.rows
      BY <2>1, <2>3 DEF Joined
    <3> QED BY <1>2, <1>3, <2>1, <3>1, <3>2 DEF more
  <2> QED BY <2>2, <2>3
<1> QED BY <1>9, <1>10

-----------------------------------------------------------------------------
(* The open builders.                                                      *)

Builder == [nodes : Seq(Node), nextJoin : Joins, openedBy : Joins, calls : Seq(Call)]

\* Or() is in force just after it was called; conditions mean what the calls say.
Means(b) ==
    /\ b \in Builder
    /\ b.nextJoin = "or" <=> b.calls # <<>> /\ b.calls[Len(b.calls)].do = "or"
    /\ toBuilderCond(b.nodes) = Meaning(b.calls)

ChainsInv == levels \in Seq(Builder) /\ \A k \in DOMAIN levels : Means(levels[k])

LEMMA NewMeans ==
    ASSUME NEW join \in Joins
    PROVE  Means(NewBuilder) /\ Means([NewBuilder EXCEPT !.openedBy = join])
<1>1. toBuilderCond(<<>>) = None
  BY CondEmpty
<1>2. Parts(<<>>) = {}
  BY DEF Parts
<1>3. Meaning(<<>>) = None
  BY <1>2, MeaningTyped
<1>4. ASSUME NEW j \in Joins PROVE Means([NewBuilder EXCEPT !.openedBy = j])
  <2> DEFINE b == [NewBuilder EXCEPT !.openedBy = j]
  <2>1. b \in Builder /\ b.nodes = <<>> /\ b.calls = <<>> /\ b.nextJoin = "and"
    <3>1. <<>> \in Seq(Node) /\ <<>> \in Seq(Call)
      OBVIOUS
    <3>2. b = [nodes |-> <<>>, nextJoin |-> "and", openedBy |-> j, calls |-> <<>>]
      BY DEF NewBuilder
    <3> HIDE DEF b
    <3> QED BY <3>1, <3>2 DEF Builder, Joins
  <2> HIDE DEF b
  <2>2. Means(b)
    BY <1>1, <1>3, <2>1 DEF Means
  <2> QED BY <2>2 DEF b
<1>5. NewBuilder = [NewBuilder EXCEPT !.openedBy = "and"]
  BY DEF NewBuilder
<1>6. "and" \in Joins
  BY DEF Joins
<1> QED BY <1>4, <1>5, <1>6

\* One more call, with the node it adds, or without one when it has no rows.
LEMMA CallMeans ==
    ASSUME NEW b, Means(b), NEW c \in Call, NEW new \in Builder,
           new.calls = Append(b.calls, c),
           new.nextJoin = "or" <=> c.do = "or",
           \/ new.nodes = b.nodes /\ c.rows = None
           \/ \E join \in Joins :
                /\ new.nodes = Append(b.nodes, [join |-> join, rows |-> c.rows])
                /\ join = "or" <=> c.do = "orGroup" \/ (c.do = "where" /\ b.nextJoin = "or")
    PROVE  Means(new)
<1>1. /\ b.nodes \in Seq(Node) /\ b.calls \in Seq(Call) /\ toBuilderCond(b.nodes) = Meaning(b.calls)
      /\ b.nextJoin = "or" <=> b.calls # <<>> /\ b.calls[Len(b.calls)].do = "or"
  BY DEF Means, Builder
<1>2. new.calls # <<>> /\ new.calls[Len(new.calls)] = c
  <2>1. ASSUME NEW s \in Seq(Call)
        PROVE  Append(s, c) # <<>> /\ Append(s, c)[Len(Append(s, c))] = c
    OBVIOUS
  <2> QED BY <1>1, <2>1
<1>3. CASE c.rows = None
  <2>1. Meaning(new.calls) = Meaning(b.calls)
    BY <1>1, <1>3, MeaningKeeps
  <2>2. toBuilderCond(new.nodes) = toBuilderCond(b.nodes)
    <3>1. CASE new.nodes = b.nodes
      BY <3>1
    <3>2. ASSUME NEW join \in Joins, new.nodes = Append(b.nodes, [join |-> join, rows |-> c.rows])
          PROVE  toBuilderCond(new.nodes) = toBuilderCond(b.nodes)
      <4> DEFINE node == [join |-> join, rows |-> c.rows]
      <4>1. node \in Node /\ node.rows = None
        BY <1>3 DEF Node, RowSets
      <4> HIDE DEF node
      <4>2. toBuilderCond(Append(b.nodes, node)) = Joined(toBuilderCond(b.nodes), node)
        BY <1>1, <4>1, CondAppend
      <4> QED BY <3>2, <4>1, <4>2 DEF Joined, node
    <3> QED BY <3>1, <3>2
  <2> QED BY <1>1, <1>2, <2>1, <2>2 DEF Means
<1>4. CASE c.rows # None
  <2>1. PICK join \in Joins :
            /\ new.nodes = Append(b.nodes, [join |-> join, rows |-> c.rows])
            /\ join = "or" <=> c.do = "orGroup" \/ (c.do = "where" /\ b.nextJoin = "or")
    BY <1>4
  <2> DEFINE node == [join |-> join, rows |-> c.rows]
  <2>2. node \in Node /\ node.rows = c.rows /\ node.join = join
    BY DEF Node, Call
  <2> HIDE DEF node
  <2>3. b.calls # <<>> <=> Len(b.calls) > 0
    BY <1>1
  <2>4. Meaning(Append(b.calls, c)) = Joined(Meaning(b.calls), node)
    BY <1>1, <1>4, <2>1, <2>2, <2>3, MeaningJoins
  <2>5. toBuilderCond(Append(b.nodes, node)) = Joined(toBuilderCond(b.nodes), node)
    BY <1>1, <2>2, CondAppend
  <2> QED BY <1>1, <1>2, <2>1, <2>4, <2>5 DEF Means, node
<1> QED BY <1>3, <1>4

LEMMA ConditionMeans ==
    ASSUME NEW b, Means(b), NEW rows \in RowSets
    PROVE  Means(Called(where(b, rows), "where", rows))
<1> DEFINE c == [do |-> "where", rows |-> rows]
           node == [join |-> b.nextJoin, rows |-> rows]
           new == Called(where(b, rows), "where", rows)
<1>1. c \in Call /\ c.do = "where" /\ c.rows = rows
  BY DEF Call
<1>2. b \in Builder /\ b.nextJoin \in Joins /\ b.nodes \in Seq(Node) /\ b.calls \in Seq(Call)
  BY DEF Means, Builder
<1>3. node \in Node
  BY <1>2 DEF Node
<1>4. new = [b EXCEPT !.nodes = Append(b.nodes, node), !.nextJoin = "and",
                      !.calls = Append(b.calls, c)]
  BY <1>2 DEF Called, where, Builder
<1> HIDE DEF new, c, node
<1>5. /\ new \in Builder /\ new.nodes = Append(b.nodes, node) /\ new.nextJoin = "and"
      /\ new.calls = Append(b.calls, c)
  <2>1. Append(b.nodes, node) \in Seq(Node) /\ Append(b.calls, c) \in Seq(Call)
    BY <1>1, <1>2, <1>3
  <2> QED BY <1>2, <1>4, <2>1 DEF Builder, Joins
<1>6. new.nodes = Append(b.nodes, [join |-> b.nextJoin, rows |-> c.rows])
  BY <1>1, <1>5 DEF node
<1>7. Means(new)
  BY <1>1, <1>2, <1>5, <1>6, CallMeans
<1> QED BY <1>7 DEF new

LEMMA JoinMeans ==
    ASSUME NEW b, Means(b), NEW join \in Joins
    PROVE  Means(Called([b EXCEPT !.nextJoin = join], join, None))
<1> DEFINE c == [do |-> join, rows |-> None]
           new == Called([b EXCEPT !.nextJoin = join], join, None)
<1>1. c \in Call /\ c.do = join /\ c.rows = None
  BY DEF Call, RowSets, Joins
<1>2. b \in Builder /\ b.calls \in Seq(Call)
  BY DEF Means, Builder
<1>3. new = [b EXCEPT !.nextJoin = join, !.calls = Append(b.calls, c)]
  BY <1>2 DEF Called, Builder
<1> HIDE DEF new, c
<1>4. new \in Builder /\ new.nodes = b.nodes /\ new.nextJoin = join /\ new.calls = Append(b.calls, c)
  <2>1. Append(b.calls, c) \in Seq(Call)
    BY <1>1, <1>2
  <2> QED BY <1>2, <1>3, <2>1 DEF Builder
<1>5. Means(new)
  BY <1>1, <1>4, CallMeans
<1> QED BY <1>5 DEF new

\* The function of a group is over: its builder becomes one node of the outer one.
LEMMA GroupMeans ==
    ASSUME NEW b, Means(b), NEW top, Means(top)
    PROVE  LET node  == [join |-> top.openedBy, rows |-> toBuilderCond(top.nodes)]
               added == [b EXCEPT !.nodes = Append(@, node), !.nextJoin = "and"]
               do    == IF top.openedBy = "or" THEN "orGroup" ELSE "andGroup"
           IN  Means(Called(added, do, Meaning(top.calls)))
<1> DEFINE node == [join |-> top.openedBy, rows |-> toBuilderCond(top.nodes)]
           added == [b EXCEPT !.nodes = Append(@, node), !.nextJoin = "and"]
           do == IF top.openedBy = "or" THEN "orGroup" ELSE "andGroup"
           c == [do |-> do, rows |-> Meaning(top.calls)]
           new == Called(added, do, Meaning(top.calls))
<1>1. /\ top.openedBy \in Joins /\ Meaning(top.calls) \in RowSets
      /\ toBuilderCond(top.nodes) = Meaning(top.calls)
  BY MeaningTyped DEF Means, Builder
<1>2. b \in Builder /\ b.nextJoin \in Joins /\ b.nodes \in Seq(Node) /\ b.calls \in Seq(Call)
  BY DEF Means, Builder
<1>3. /\ c \in Call /\ c.rows = Meaning(top.calls) /\ c.do \in {"orGroup", "andGroup"}
      /\ c.do = "orGroup" <=> top.openedBy = "or"
  BY <1>1 DEF Call
<1>4. node \in Node /\ node = [join |-> top.openedBy, rows |-> c.rows]
  BY <1>1, <1>3 DEF Node
<1>5. new = [b EXCEPT !.nodes = Append(b.nodes, node), !.nextJoin = "and",
                      !.calls = Append(b.calls, c)]
  BY <1>2 DEF Called, Builder
<1> HIDE DEF new, c, node
<1>6. /\ new \in Builder /\ new.nodes = Append(b.nodes, node) /\ new.nextJoin = "and"
      /\ new.calls = Append(b.calls, c)
  <2>1. Append(b.nodes, node) \in Seq(Node) /\ Append(b.calls, c) \in Seq(Call)
    BY <1>2, <1>3, <1>4
  <2> QED BY <1>2, <1>5, <2>1 DEF Builder, Joins
<1>7. Means(new)
  <2>1. \E join \in Joins :
            /\ new.nodes = Append(b.nodes, [join |-> join, rows |-> c.rows])
            /\ join = "or" <=> c.do = "orGroup" \/ (c.do = "where" /\ b.nextJoin = "or")
    BY <1>1, <1>3, <1>4, <1>6
  <2>2. new.nextJoin = "or" <=> c.do = "or"
    BY <1>3, <1>6
  <2> QED BY <1>3, <1>6, <2>1, <2>2, CallMeans
<1> QED BY <1>7 DEF new, node

-----------------------------------------------------------------------------
(* The conditions of a struct.                                             *)

LEMMA ConditionTyped ==
    ASSUME NEW cond
    PROVE  /\ conditionToCond(cond) \in RowSets
           /\ conditionToCond(cond) = None <=> cond.op \notin Ops \/ Blank(cond)
<1>1. {r \in AllRows : Matches(cond, r)} \in SUBSET AllRows
  OBVIOUS
<1>2. CASE cond.op \in Ops /\ ~ Blank(cond)
  BY <1>1, <1>2, RowsAssumption DEF conditionToCond, RowSets
<1>3. CASE cond.op \notin Ops \/ Blank(cond)
  BY <1>3 DEF conditionToCond, RowSets
<1> QED BY <1>2, <1>3

\* One more filter narrows what the others select, unless it is nil.
LEMMA SelectedJoined ==
    ASSUME NEW x \in RowSets, NEW node \in Node, node.join = "and"
    PROVE  \A r \in AllRows :
                r \in Selected(Joined(x, node), AllRows) <=>
                    r \in Selected(x, AllRows) /\ (node.rows # None => r \in node.rows)
<1>1. node.rows \in RowSets
  BY DEF Node
<1>2. CASE node.rows = None
  BY <1>2 DEF Joined, Selected
<1>3. CASE node.rows # None /\ x = None
  BY <1>3 DEF Joined, Selected
<1>4. CASE node.rows # None /\ x # None
  <2>1. Joined(x, node) = x \cap node.rows
    BY <1>4 DEF Joined
  <2>2. x \cap node.rows \in SUBSET AllRows
    BY <1>4 DEF RowSets
  <2>3. x \cap node.rows # None
    BY <2>2, RowsAssumption
  <2> QED BY <1>4, <2>1, <2>3 DEF Selected
<1> QED BY <1>2, <1>3, <1>4

LEMMA FilterSteps ==
    ASSUME NEW filters, Len(filters) \in Nat
    PROVE  \E f \in [0..Len(filters) -> Builder] :
                /\ f[0] = NewBuilder
                /\ \A i \in 1..Len(filters) : f[i] = where(f[i - 1], conditionToCond(filters[i]))
                /\ CondOf(filters) = toBuilderCond(f[Len(filters)].nodes)
<1> DEFINE n == Len(filters)
           step == [i \in 1..n |-> [b \in Builder |-> where(b, conditionToCond(filters[i]))]]
           Is(f) == f = [i \in 0..n |->
                            IF i = 0 THEN NewBuilder
                            ELSE where(f[i - 1], conditionToCond(filters[i]))]
           qb == CHOOSE f : Is(f)
<1>1. n \in Nat /\ NewBuilder \in Builder
  BY NewMeans DEF Means, Joins
<1>2. step \in Steps(n, Builder)
  <2>1. ASSUME NEW b \in Builder, NEW i \in 1..n
        PROVE  where(b, conditionToCond(filters[i])) \in Builder
    <3> DEFINE rows == conditionToCond(filters[i])
    <3>1. [join |-> b.nextJoin, rows |-> rows] \in Node
      BY ConditionTyped DEF Builder, Node
    <3> HIDE DEF rows
    <3>2. Append(b.nodes, [join |-> b.nextJoin, rows |-> rows]) \in Seq(Node)
      BY <3>1 DEF Builder
    <3>3. where(b, rows) \in Builder
      BY <3>2 DEF where, Builder, Joins
    <3> QED BY <3>3 DEF rows
  <2> QED BY <2>1 DEF Steps
<1> HIDE DEF step
<1>3. PICK f : Runs(f, n, Builder, NewBuilder, step)
  BY <1>1, <1>2, Loop
<1>4. /\ f \in [0..n -> Builder] /\ f[0] = NewBuilder
      /\ \A i \in 1..n : f[i] = where(f[i - 1], conditionToCond(filters[i]))
  <2>1. f \in [0..n -> Builder] /\ f[0] = NewBuilder /\ \A i \in 1..n : f[i] = step[i][f[i - 1]]
    BY <1>3 DEF Runs
  <2>2. ASSUME NEW i \in 1..n
        PROVE  step[i][f[i - 1]] = where(f[i - 1], conditionToCond(filters[i]))
    <3>1. f[i - 1] \in Builder
      BY <1>1, <2>1
    <3>2. step[i] = [b \in Builder |-> where(b, conditionToCond(filters[i]))]
      BY DEF step
    <3> QED BY <3>1, <3>2
  <2> QED BY <2>1, <2>2
<1>5. Is(f)
  <2>1. f = [i \in 0..n |-> f[i]]
    BY <1>4
  <2>2. \A i \in 0..n : f[i] = IF i = 0 THEN NewBuilder
                               ELSE where(f[i - 1], conditionToCond(filters[i]))
    BY <1>1, <1>4
  <2> QED BY <2>1, <2>2
<1>6. Is(qb)
  <2> HIDE DEF Is
  <2> QED BY <1>5
<1>7. CondOf(filters) = toBuilderCond(qb[n].nodes)
  BY DEF CondOf
<1> HIDE DEF qb
<1>8. /\ qb[0] = NewBuilder
      /\ \A i \in 1..n : qb[i] = where(qb[i - 1], conditionToCond(filters[i]))
  BY <1>1, <1>6
<1>9. \A i \in 0..n : f[i] = qb[i]
  <2>1. StepAlike(f, qb, n)
    BY <1>4, <1>8 DEF StepAlike
  <2> QED BY <1>1, <2>1, LoopOnce
<1>10. CondOf(filters) = toBuilderCond(f[n].nodes)
  BY <1>1, <1>7, <1>9
<1> QED BY <1>4, <1>10

\* All filters together select the rows that every one with a known operator selects.
LEMMA CondOfIs ==
    ASSUME NEW filters, Len(filters) \in Nat
    PROVE  /\ CondOf(filters) \in RowSets
           /\ \A r \in AllRows :
                r \in Selected(CondOf(filters), AllRows) <=>
                    \A i \in 1..Len(filters) :
                        conditionToCond(filters[i]) # None => r \in conditionToCond(filters[i])
<1> DEFINE n == Len(filters)
           C(i) == conditionToCond(filters[i])
<1>1. PICK f \in [0..n -> Builder] :
            /\ f[0] = NewBuilder
            /\ \A i \in 1..n : f[i] = where(f[i - 1], C(i))
            /\ CondOf(filters) = toBuilderCond(f[n].nodes)
  BY FilterSteps
<1>2. \A i : C(i) \in RowSets
  BY ConditionTyped
<1> HIDE DEF C
<1> DEFINE Narrows(i) == \A r \in AllRows :
                r \in Selected(toBuilderCond(f[i].nodes), AllRows) <=>
                    \A k \in 1..i : C(k) # None => r \in C(k)
           S == {i \in 0..n : f[i].nextJoin = "and" /\ Narrows(i)}
<1>3. 0 \in S
  <2>1. f[0].nextJoin = "and" /\ f[0].nodes = <<>>
    BY <1>1 DEF NewBuilder
  <2>2. Narrows(0)
    BY <2>1, CondEmpty DEF Selected
  <2> HIDE DEF Narrows
  <2> QED BY <2>1, <2>2
<1>4. ASSUME NEW i \in 1..n, i - 1 \in S PROVE i \in S
  <2> DEFINE b == f[i - 1]
             node == [join |-> "and", rows |-> C(i)]
  <2>1. i - 1 \in 0..n /\ b \in Builder /\ b.nextJoin = "and" /\ Narrows(i - 1)
    BY <1>4
  <2>2. node \in Node /\ node.join = "and" /\ node.rows = C(i)
    BY <1>2 DEF Node, Joins
  <2>3. f[i].nodes = Append(b.nodes, node) /\ f[i].nextJoin = "and"
    <3>1. f[i] = where(b, C(i))
      BY <1>1
    <3> HIDE DEF b
    <3> QED BY <2>1, <3>1 DEF where, Builder
  <2>4. b.nodes \in Seq(Node) /\ toBuilderCond(b.nodes) \in RowSets
    BY <2>1, CondTyped DEF Builder
  <2> HIDE DEF node, Narrows
  <2>5. toBuilderCond(f[i].nodes) = Joined(toBuilderCond(b.nodes), node)
    BY <2>2, <2>3, <2>4, CondAppend
  <2>6. \A r \in AllRows :
            r \in Selected(toBuilderCond(f[i].nodes), AllRows) <=>
                r \in Selected(toBuilderCond(b.nodes), AllRows) /\ (C(i) # None => r \in C(i))
    BY <2>2, <2>4, <2>5, SelectedJoined
  <2>7. \A k : k \in 1..i <=> k \in 1..(i - 1) \/ k = i
    BY <1>4
  <2>8. Narrows(i)
    BY <2>1, <2>6, <2>7 DEF Narrows
  <2> QED BY <2>3, <2>8
<1>5. 0..n \subseteq S
  <2>1. \A i \in 1..n : i - 1 \in S => i \in S
    BY <1>4
  <2> HIDE DEF S
  <2> QED BY <1>3, <2>1, Counted
<1>6. Narrows(n) /\ f[n].nodes \in Seq(Node)
  <2>1. n \in 0..n
    OBVIOUS
  <2>2. f[n] \in Builder
    BY <1>1, <2>1
  <2> HIDE DEF Narrows
  <2> QED BY <1>5, <2>1, <2>2 DEF Builder
<1>7. CondOf(filters) \in RowSets
  BY <1>1, <1>6, CondTyped
<1> QED BY <1>1, <1>6, <1>7 DEF C

Made(model) == {FilterOf(Fields[i], model[i]) : i \in DOMAIN Fields}

LEMMA BuiltSteps ==
    ASSUME NEW model
    PROVE  \E f \in [0..Len(Fields) -> Seq(Made(model))] :
                /\ f[0] = <<>>
                /\ \A i \in 1..Len(Fields) :
                    f[i] = IF Filters(Fields[i], model[i])
                           THEN Append(f[i - 1], FilterOf(Fields[i], model[i])) ELSE f[i - 1]
                /\ buildFiltersFromModel(Fields, model) = f[Len(Fields)]
<1> DEFINE n == Len(Fields)
           Used(i) == Filters(Fields[i], model[i])
           One(i) == FilterOf(Fields[i], model[i])
           Some == Seq(Made(model))
           step == [i \in 1..n |-> [s \in Some |-> IF Used(i) THEN Append(s, One(i)) ELSE s]]
           Is(f) == f = [i \in 0..n |->
                            IF i = 0 THEN <<>>
                            ELSE IF Used(i) THEN Append(f[i - 1], One(i)) ELSE f[i - 1]]
           filters == CHOOSE f : Is(f)
<1>0. \A i \in 1..n : One(i) \in Made(model)
  BY FieldsAssumption DEF Made
<1>1. n \in Nat /\ <<>> \in Some
  BY FieldsAssumption
<1>7. buildFiltersFromModel(Fields, model) = filters[n]
  BY DEF buildFiltersFromModel
<1> HIDE DEF Used, One
<1>2. step \in Steps(n, Some)
  BY <1>0 DEF Steps
<1> HIDE DEF step, n, Some
<1>3. PICK f : Runs(f, n, Some, <<>>, step)
  BY <1>1, <1>2, Loop
<1>4. /\ f \in [0..n -> Some] /\ f[0] = <<>>
      /\ \A i \in 1..n : f[i] = IF Used(i) THEN Append(f[i - 1], One(i)) ELSE f[i - 1]
  <2>1. f \in [0..n -> Some] /\ f[0] = <<>> /\ \A i \in 1..n : f[i] = step[i][f[i - 1]]
    BY <1>3 DEF Runs
  <2>2. ASSUME NEW i \in 1..n
        PROVE  step[i][f[i - 1]] = IF Used(i) THEN Append(f[i - 1], One(i)) ELSE f[i - 1]
    <3>1. f[i - 1] \in Some
      BY <1>1, <2>1
    <3>2. step[i] = [s \in Some |-> IF Used(i) THEN Append(s, One(i)) ELSE s]
      BY DEF step
    <3> QED BY <3>1, <3>2
  <2> QED BY <2>1, <2>2
<1>5. Is(f)
  <2>1. f = [i \in 0..n |-> f[i]]
    BY <1>4
  <2>2. \A i \in 0..n : f[i] = IF i = 0 THEN <<>>
                               ELSE IF Used(i) THEN Append(f[i - 1], One(i)) ELSE f[i - 1]
    <3> SUFFICES ASSUME NEW i \in 0..n
                 PROVE  f[i] = IF i = 0 THEN <<>>
                               ELSE IF Used(i) THEN Append(f[i - 1], One(i)) ELSE f[i - 1]
      OBVIOUS
    <3>1. CASE i = 0
      BY <1>4, <3>1
    <3>2. CASE i # 0
      <4>1. i \in 1..n
        BY <1>1, <3>2
      <4> QED BY <1>4, <3>2, <4>1
    <3> QED BY <3>1, <3>2
  <2> QED BY <2>1, <2>2
<1>6. Is(filters)
  <2> HIDE DEF Is
  <2> QED BY <1>5
<1> HIDE DEF filters
<1>8. /\ filters[0] = <<>>
      /\ \A i \in 1..n : filters[i] = IF Used(i) THEN Append(filters[i - 1], One(i))
                                      ELSE filters[i - 1]
  <2>1. \A i \in 0..n : filters[i] = IF i = 0 THEN <<>>
                                     ELSE IF Used(i) THEN Append(filters[i - 1], One(i))
                                     ELSE filters[i - 1]
    BY <1>6
  <2>2. filters[0] = <<>>
    BY <1>1, <2>1
  <2>3. ASSUME NEW i \in 1..n
        PROVE  filters[i] = IF Used(i) THEN Append(filters[i - 1], One(i)) ELSE filters[i - 1]
    <3>1. i \in 0..n /\ i # 0
      BY <1>1
    <3> QED BY <2>1, <3>1
  <2> QED BY <2>2, <2>3
<1>9. \A i \in 0..n : f[i] = filters[i]
  <2>1. StepAlike(f, filters, n)
    BY <1>4, <1>8 DEF StepAlike
  <2> QED BY <1>1, <2>1, LoopOnce
<1>10. buildFiltersFromModel(Fields, model) = f[n]
  BY <1>1, <1>7, <1>9
<1> QED BY <1>4, <1>10 DEF n, Some, Used, One

\* The filters of a struct are those of its fields that make one.
LEMMA BuiltIs ==
    ASSUME NEW model
    PROVE  LET built == buildFiltersFromModel(Fields, model)
           IN  /\ Len(built) \in Nat
               /\ \A x : (\E k \in 1..Len(built) : built[k] = x) <=>
                         \E i \in DOMAIN Fields :
                            Filters(Fields[i], model[i]) /\ x = FilterOf(Fields[i], model[i])
<1> DEFINE n == Len(Fields)
           Used(i) == Filters(Fields[i], model[i])
           One(i) == FilterOf(Fields[i], model[i])
<1>0. n \in Nat /\ DOMAIN Fields = 1..n /\ \A i \in 1..n : One(i) \in Made(model)
  BY FieldsAssumption DEF Made
<1>1. PICK f \in [0..n -> Seq(Made(model))] :
            /\ f[0] = <<>>
            /\ \A i \in 1..n : f[i] = IF Used(i) THEN Append(f[i - 1], One(i)) ELSE f[i - 1]
            /\ buildFiltersFromModel(Fields, model) = f[n]
  BY BuiltSteps
<1> HIDE DEF n, Used, One
<1> DEFINE In(i, x) == \E k \in 1..Len(f[i]) : f[i][k] = x
           Has(i) == \A x : In(i, x) <=> \E k \in 1..i : Used(k) /\ x = One(k)
           S == {i \in 0..n : Has(i)}
<1>2. 0 \in S
  <2>1. Has(0)
    BY <1>1
  <2> HIDE DEF Has
  <2> QED BY <1>0, <2>1
<1>3. ASSUME NEW i \in 1..n, i - 1 \in S PROVE i \in S
  <2>1. i - 1 \in 0..n /\ f[i - 1] \in Seq(Made(model)) /\ Has(i - 1)
    BY <1>0, <1>1, <1>3
  <2>2. \A k : k \in 1..i <=> k \in 1..(i - 1) \/ k = i
    BY <1>0, <1>3
  <2>3. CASE ~ Used(i)
    <3>1. f[i] = f[i - 1]
      BY <1>1, <2>3
    <3>2. Has(i)
      BY <2>1, <2>2, <2>3, <3>1
    <3> HIDE DEF Has
    <3> QED BY <1>0, <3>2
  <2>4. CASE Used(i)
    <3>1. f[i] = Append(f[i - 1], One(i)) /\ One(i) \in Made(model)
      BY <1>0, <1>1, <2>4
    <3>2. ASSUME NEW s \in Seq(Made(model)), NEW y \in Made(model), NEW x
          PROVE  (\E k \in 1..Len(Append(s, y)) : Append(s, y)[k] = x)
                    <=> (\E k \in 1..Len(s) : s[k] = x) \/ x = y
      <4>1. /\ Len(Append(s, y)) = Len(s) + 1 /\ Len(s) \in Nat
            /\ Append(s, y)[Len(s) + 1] = y /\ \A k \in 1..Len(s) : Append(s, y)[k] = s[k]
        OBVIOUS
      <4> QED BY <4>1
    <3>3. \A x : In(i, x) <=> In(i - 1, x) \/ x = One(i)
      BY <2>1, <3>1, <3>2
    <3> HIDE DEF In
    <3>4. Has(i)
      BY <2>1, <2>2, <2>4, <3>3
    <3> HIDE DEF Has
    <3> QED BY <1>0, <3>4
  <2> QED BY <2>3, <2>4
<1>4. 0..n \subseteq S
  <2>1. \A i \in 1..n : i - 1 \in S => i \in S
    BY <1>3
  <2> HIDE DEF S
  <2> QED BY <1>0, <1>2, <2>1, Counted
<1>5. Has(n) /\ f[n] \in Seq(Made(model))
  <2>1. n \in 0..n
    BY <1>0
  <2> HIDE DEF Has
  <2> QED BY <1>1, <1>4, <2>1
<1>6. \A x : (\E k \in 1..Len(f[n]) : f[n][k] = x) <=> \E k \in 1..n : Used(k) /\ x = One(k)
  BY <1>5
<1>7. Len(f[n]) \in Nat
  BY <1>5
<1> HIDE DEF Has
<1>8. \A x : (\E k \in 1..Len(f[n]) : f[n][k] = x)
                <=> \E i \in DOMAIN Fields : Used(i) /\ x = One(i)
  BY <1>0, <1>6
<1>9. buildFiltersFromModel(Fields, model) = f[n]
  BY <1>1
<1> QED BY <1>7, <1>8, <1>9 DEF Used, One

\* The operator of a tag is the one it names, and eq if it names none.
LEMMA OpIs ==
    ASSUME NEW i \in DOMAIN Fields
    PROVE  LET tag == Fields[i].tag
               ops == {w \in ToSet(tag.words) : w.kind = "op"}
           IN  /\ OpOf(tag) = IF ops = {} THEN "eq" ELSE (CHOOSE w \in ops : TRUE).text
               /\ OpOf(tag) \in Ops <=> \A w \in ops : w.text \in Ops
<1> DEFINE words == Fields[i].tag.words
           at == {k \in DOMAIN words : words[k].kind = "op"}
           ops == {w \in ToSet(words) : w.kind = "op"}
<1>1. \A j, k \in at : j = k
  BY FieldsAssumption
<1>2. OpOf(Fields[i].tag) = IF at = {} THEN "eq" ELSE words[CHOOSE k \in at : \A j \in at : k <= j].text
  BY DEF OpOf
<1>3. ops = {words[k] : k \in at}
  BY DEF ToSet
<1>4. CASE at = {}
  <2>1. ops = {} /\ "eq" \in Ops
    BY <1>3, <1>4 DEF Ops
  <2> QED BY <1>2, <1>4, <2>1
<1>5. ASSUME NEW k \in at
      PROVE  /\ OpOf(Fields[i].tag) = (CHOOSE w \in ops : TRUE).text
             /\ OpOf(Fields[i].tag) \in Ops <=> \A w \in ops : w.text \in Ops
             /\ ops # {}
  <2>1. at = {k} /\ k \in DOMAIN words
    BY <1>1
  <2>2. ops = {words[k]}
    BY <1>3, <2>1
  <2> DEFINE first == CHOOSE h \in at : \A j \in at : h <= j
  <2>3. first = k
    <3>1. words \in Seq(ToSet(words))
      BY FieldsAssumption
    <3>2. k \in Nat
      BY <2>1, <3>1
    <3> QED BY <2>1, <3>2
  <2> HIDE DEF first, ops, at
  <2>4. OpOf(Fields[i].tag) = words[k].text
    BY <1>2, <2>1, <2>3 DEF first
  <2> QED BY <2>2, <2>4
<1> QED BY <1>4, <1>5

\* A condition selects the rows that meet the request, and all of them unless one of its
\* fields looks for an address.
Restricts(w, model) ==
    /\ Selected(w, AllRows) \subseteq Meets(model)
    /\ ~ AsksForAddress(model) => Meets(model) \subseteq Selected(w, AllRows)

\* What a field that restricts the request means, and what becomes of it.
Meant(model, i) ==
    [field |-> ColumnOf(Fields[i].tag), op |-> OpNamed(i), value |-> model[i],
     kind |-> IF Fields[i].kind = "list" THEN "list" ELSE "scalar"]

Restricting(model) ==
    {i \in DOMAIN Fields :
        /\ IsSet(model, i) /\ ~ LooksForAddress(model, i)
        /\ Fields[i].kind = "list" => model[i] # {}
        /\ \A w \in OpsNamed(i) : w.text \in Ops}

LEMMA MeetsIs ==
    ASSUME NEW model
    PROVE  Meets(model) = {r \in AllRows : \A i \in Restricting(model) : Matches(Meant(model, i), r)}
BY DEF Meets, Restricting, Meant

\* A field that restricts becomes a condition that selects what is meant; any other field
\* that becomes one looks for an address.
LEMMA FieldMeets ==
    ASSUME NEW model, NEW i \in DOMAIN Fields
    PROVE  LET used == /\ Filters(Fields[i], model[i])
                       /\ conditionToCond(FilterOf(Fields[i], model[i])) # None
           IN  /\ i \in Restricting(model) => used
               /\ used => i \in Restricting(model) \/ LooksForAddress(model, i)
               /\ i \in Restricting(model) =>
                    conditionToCond(FilterOf(Fields[i], model[i]))
                        = {r \in AllRows : Matches(Meant(model, i), r)}
<1> DEFINE one == FilterOf(Fields[i], model[i])
           meant == Meant(model, i)
<1>1. /\ one.field = ColumnOf(Fields[i].tag) /\ one.op = OpOf(Fields[i].tag)
      /\ one.kind = Fields[i].kind /\ one.value = model[i]
  BY DEF FilterOf
<1>2. /\ meant.field = ColumnOf(Fields[i].tag) /\ meant.op = OpNamed(i)
      /\ meant.kind = (IF Fields[i].kind = "list" THEN "list" ELSE "scalar")
      /\ meant.value = model[i]
  BY DEF Meant
<1>3. /\ OpNamed(i) = OpOf(Fields[i].tag)
      /\ OpOf(Fields[i].tag) \in Ops <=> \A w \in OpsNamed(i) : w.text \in Ops
  BY OpIs DEF OpNamed, OpsNamed
<1>4. ColumnOf(Fields[i].tag) # None <=> ColumnOf(Fields[i].tag) \in Columns
  BY FieldsAssumption, NamesAssumption
<1>5. /\ Fields[i].kind \in {"scalar", "pointer", "list", "struct"}
      /\ Fields[i].kind = "list" => OpOf(Fields[i].tag) \in {"in", "notin"}
  BY FieldsAssumption
<1>6. Filters(Fields[i], model[i]) <=> IsSet(model, i)
  BY <1>4 DEF Filters, IsSet
<1>7. Blank(one) <=> Fields[i].kind = "list" /\ model[i] = {}
  BY <1>1, <1>5 DEF Blank, toAnySlice
<1>8. conditionToCond(one) = None <=> OpOf(Fields[i].tag) \notin Ops \/ Blank(one)
  BY <1>1, ConditionTyped
<1> HIDE DEF one, meant
<1>9. i \in Restricting(model) =>
            /\ IsSet(model, i) /\ ~ LooksForAddress(model, i)
            /\ OpOf(Fields[i].tag) \in Ops /\ ~ Blank(one)
  BY <1>3, <1>7 DEF Restricting
<1>10. IsSet(model, i) /\ OpOf(Fields[i].tag) \in Ops /\ ~ Blank(one) =>
            i \in Restricting(model) \/ LooksForAddress(model, i)
  BY <1>3, <1>7 DEF Restricting
<1>11. ASSUME i \in Restricting(model), NEW x PROVE Compare(one, x) <=> Compare(meant, x)
  <2>1. Fields[i].kind = "pointer" => OpOf(Fields[i].tag) # "like"
    BY <1>3, <1>9, <1>11 DEF LooksForAddress
  <2>2. one.op = "like" => Pattern(one) = Pattern(meant)
    BY <1>1, <1>2, <1>5, <2>1 DEF Pattern
  <2>3. toAnySlice(one) = toAnySlice(meant)
    BY <1>1, <1>2 DEF toAnySlice
  <2>4. one.op = meant.op /\ one.value = meant.value
    BY <1>1, <1>2, <1>3
  <2>5. OpOf(Fields[i].tag) \in Ops
    BY <1>9, <1>11
  <2> QED BY <1>1, <2>2, <2>3, <2>4, <2>5 DEF Compare, Ops
<1>12. ASSUME i \in Restricting(model)
       PROVE  conditionToCond(one) = {r \in AllRows : Matches(meant, r)}
  <2>1. conditionToCond(one) = {r \in AllRows : Matches(one, r)}
    BY <1>1, <1>9, <1>12 DEF conditionToCond
  <2>2. \A r : Matches(one, r) <=> Matches(meant, r)
    BY <1>1, <1>2, <1>11, <1>12 DEF Matches
  <2> QED BY <2>1, <2>2
<1> QED BY <1>6, <1>8, <1>9, <1>10, <1>12 DEF one, meant

\* A struct's conditions select the rows it asks for.
LEMMA CondMeets ==
    ASSUME NEW model
    PROVE  /\ CondOf(buildFiltersFromModel(Fields, model)) \in RowSets
           /\ Restricts(CondOf(buildFiltersFromModel(Fields, model)), model)
<1> DEFINE built == buildFiltersFromModel(Fields, model)
           Used(i) == Filters(Fields[i], model[i])
           One(i) == FilterOf(Fields[i], model[i])
           Cond(i) == conditionToCond(One(i))
<1>1. /\ Len(built) \in Nat
      /\ \A x : (\E k \in 1..Len(built) : built[k] = x) <=>
                    \E i \in DOMAIN Fields : Used(i) /\ x = One(i)
  BY BuiltIs
<1>2. /\ CondOf(built) \in RowSets
      /\ \A r \in AllRows :
            r \in Selected(CondOf(built), AllRows) <=>
                \A k \in 1..Len(built) :
                    conditionToCond(built[k]) # None => r \in conditionToCond(built[k])
  BY <1>1, CondOfIs
<1> HIDE DEF built
<1>3. \A r \in AllRows :
            r \in Selected(CondOf(built), AllRows) <=>
                \A i \in DOMAIN Fields : Used(i) /\ Cond(i) # None => r \in Cond(i)
  BY <1>1, <1>2
<1>4. Selected(CondOf(built), AllRows) \subseteq AllRows
  BY DEF Selected
<1>5. \A i \in DOMAIN Fields :
        /\ i \in Restricting(model) => Used(i) /\ Cond(i) # None
        /\ Used(i) /\ Cond(i) # None => i \in Restricting(model) \/ LooksForAddress(model, i)
        /\ i \in Restricting(model) => Cond(i) = {r \in AllRows : Matches(Meant(model, i), r)}
  BY FieldMeets
<1> HIDE DEF Used, One, Cond
<1>6. Restricting(model) \subseteq DOMAIN Fields
  BY DEF Restricting
<1>7. Selected(CondOf(built), AllRows) \subseteq Meets(model)
  <2> SUFFICES ASSUME NEW r \in Selected(CondOf(built), AllRows), NEW i \in Restricting(model)
               PROVE  Matches(Meant(model, i), r)
    BY <1>4, MeetsIs
  <2>1. r \in Cond(i)
    BY <1>3, <1>4, <1>5, <1>6
  <2> QED BY <1>5, <1>6, <2>1
<1>8. ASSUME ~ AsksForAddress(model) PROVE Meets(model) \subseteq Selected(CondOf(built), AllRows)
  <2> SUFFICES ASSUME NEW r \in Meets(model), NEW i \in DOMAIN Fields, Used(i), Cond(i) # None
               PROVE  r \in Cond(i)
    <3>1. Meets(model) \subseteq AllRows
      BY MeetsIs
    <3> QED BY <1>3, <3>1
  <2>1. i \in Restricting(model)
    BY <1>5, <1>8 DEF AsksForAddress
  <2>2. r \in AllRows /\ Matches(Meant(model, i), r)
    BY <2>1, MeetsIs
  <2> QED BY <1>5, <2>1, <2>2
<1> QED BY <1>2, <1>7, <1>8 DEF Restricts, built

-----------------------------------------------------------------------------
(* The methods of the repository.                                          *)

Query ==
    [pc : {"none", "select", "count", "ok", "notFound", "multiple", "error"},
     op : {"none", "Find", "First", "Count", "Delete", "findOne", "FindPage"},
     model : Models \cup {None}, where : RowSets, limit : Nat, offset : Nat,
     rows : SUBSET AllRows, total : Nat, begin : SUBSET AllRows]

RowsTyped == table \in SUBSET AllRows /\ others \in SUBSET AllRows /\ query \in Query

\* A method selects before it counts, and has no rows before.
InOrder ==
    /\ query.pc = "select" => query.rows = {}
    /\ query.pc = "count" => query.op = "FindPage"

\* The condition of a struct, and how many rows its method asks for.
Asked ==
    query.model # None =>
        /\ Restricts(query.where, query.model)
        /\ query.op \in {"findOne", "Find", "FindPage"}
        /\ query.op = "Find" => query.limit = 0 /\ query.offset = 0
        /\ query.op = "findOne" => query.limit > 0 /\ query.offset = 0

\* Rows gone since the method began were removed by others or by its own deletion.
Removed ==
    query.begin \ table \subseteq
        others \cup (IF query.op # "Delete" \/ query.where = None THEN {} ELSE query.where)

\* Between its statements FindPage holds the page of a table that only others have changed.
Paged ==
    query.pc = "count" =>
        \E T \in SUBSET AllRows :
            /\ T \ table \subseteq others /\ table \ T \subseteq others
            /\ Cardinality(query.rows)
                = PageSize(Cardinality(Selected(query.where, T)), query.limit, query.offset)

QueryInv ==
    /\ RowsTyped /\ InOrder /\ Asked /\ Removed /\ Paged
    /\ AnswersMatchRequests /\ TotalsFitPages /\ OneRowOrNone

\* Condition and table give the rows of the table that the condition selects.
LEMMA SelectedIn ==
    ASSUME NEW w, NEW T, T \subseteq AllRows
    PROVE  /\ Selected(w, T) \subseteq T
           /\ Selected(w, T) = T \cap Selected(w, AllRows)
BY DEF Selected

LEMMA SizesTyped ==
    ASSUME NEW S, S \subseteq AllRows PROVE IsFiniteSet(S) /\ Cardinality(S) \in Nat
BY RowsAssumption, FS_Subset, FS_CardinalityType

LEMMA PageSizeTyped ==
    ASSUME NEW n \in Nat, NEW limit \in Nat, NEW offset \in Nat
    PROVE  PageSize(n, limit, offset) \in Nat
BY DEF PageSize

\* A page grows by no more than the table does.
LEMMA PageSizeFollows ==
    ASSUME NEW m \in Nat, NEW n \in Nat, NEW k \in Nat, NEW limit \in Nat, NEW offset \in Nat,
           m - n <= k
    PROVE  PageSize(m, limit, offset) - PageSize(n, limit, offset) <= k
BY DEF PageSize

\* A set outnumbers another one by no more than what it has beyond it.
LEMMA SizesDiffer ==
    ASSUME NEW S, NEW T, NEW O, S \subseteq AllRows, T \subseteq AllRows, O \subseteq AllRows,
           S \ T \subseteq O
    PROVE  Cardinality(S) - Cardinality(T) <= Cardinality(O)
<1>1. /\ IsFiniteSet(S) /\ Cardinality(S) \in Nat
      /\ IsFiniteSet(T) /\ Cardinality(T) \in Nat
      /\ IsFiniteSet(O) /\ Cardinality(O) \in Nat
      /\ Cardinality(T \cap O) \in Nat
  <2>1. T \cap O \subseteq AllRows
    OBVIOUS
  <2> QED BY <2>1, SizesTyped
<1>2. IsFiniteSet(T \cup O) /\ Cardinality(T \cup O) = Cardinality(T) + Cardinality(O) - Cardinality(T \cap O)
  BY <1>1, FS_Union
<1>3. S \in SUBSET (T \cup O)
  OBVIOUS
<1>4. Cardinality(S) <= Cardinality(T \cup O)
  BY <1>2, <1>3, FS_Subset
<1> QED BY <1>1, <1>2, <1>4

-----------------------------------------------------------------------------
\* A method begins: it has seen nothing yet.
LEMMA StartKeeps ==
    ASSUME RowsTyped, NEW op, NEW model, NEW w \in RowSets, NEW limit \in Nat, NEW offset \in Nat,
           op \in {"Find", "First", "Count", "Delete", "findOne", "FindPage"},
           model \in Models \cup {None}, Start(op, model, w, limit, offset),
           model # None =>
                /\ Restricts(w, model)
                /\ op \in {"findOne", "Find", "FindPage"}
                /\ op = "Find" => limit = 0 /\ offset = 0
                /\ op = "findOne" => limit > 0 /\ offset = 0
    PROVE  QueryInv'
<1>1. /\ query' = [pc |-> "select", op |-> op, model |-> model, where |-> w, limit |-> limit,
                   offset |-> offset, rows |-> {}, total |-> 0, begin |-> table]
      /\ others' = {} /\ table' = table
  BY DEF Start, NoQuery
<1>2. /\ query'.pc = "select" /\ query'.op = op /\ query'.model = model /\ query'.where = w
      /\ query'.limit = limit /\ query'.offset = offset /\ query'.rows = {}
      /\ query'.begin = table
  BY <1>1
<1>3. RowsTyped'
  BY <1>1 DEF RowsTyped, Query
<1>4. InOrder' /\ Asked' /\ Removed' /\ Paged'
  BY <1>1, <1>2 DEF InOrder, Asked, Removed, Paged
<1>5. AnswersMatchRequests' /\ TotalsFitPages'
  BY <1>2 DEF AnswersMatchRequests, TotalsFitPages, Ok
<1>6. OneRowOrNone'
  BY <1>1, <1>2 DEF OneRowOrNone, Ok
<1> QED BY <1>3, <1>4, <1>5, <1>6 DEF QueryInv

LEMMA FailsKeeps == QueryInv /\ Fails => QueryInv'
<1> SUFFICES ASSUME QueryInv, Fails PROVE QueryInv'
  OBVIOUS
<1>0. RowsTyped /\ Asked /\ Removed
  BY DEF QueryInv
<1>1. /\ query' = [query EXCEPT !.pc = "error", !.rows = {}]
      /\ UNCHANGED <<table, others>>
  BY DEF Fails
<1>2. /\ query'.pc = "error" /\ query'.op = query.op /\ query'.model = query.model
      /\ query'.where = query.where /\ query'.limit = query.limit
      /\ query'.offset = query.offset /\ query'.rows = {} /\ query'.begin = query.begin
      /\ query' \in Query
  BY <1>0, <1>1 DEF RowsTyped, Query
<1>3. RowsTyped' /\ InOrder' /\ Asked' /\ Removed' /\ Paged'
  BY <1>0, <1>1, <1>2 DEF RowsTyped, InOrder, Asked, Removed, Paged
<1>5. AnswersMatchRequests' /\ TotalsFitPages'
  BY <1>2 DEF AnswersMatchRequests, TotalsFitPages, Ok
<1>6. OneRowOrNone'
  BY <1>1, <1>2 DEF QueryInv, OneRowOrNone, Ok
<1> QED BY <1>3, <1>5, <1>6 DEF QueryInv

LEMMA OtherWritesKeeps ==
    ASSUME QueryInv, NEW row \in AllRows, OtherWrites(row) PROVE QueryInv'
<1>0. RowsTyped /\ InOrder /\ Asked /\ Removed /\ Paged
  BY DEF QueryInv
<1>1. /\ query.pc \in {"select", "count"} /\ query' = query
      /\ others' = others \cup {row}
      /\ table' \subseteq table \cup {row} /\ table \subseteq table' \cup {row}
  BY DEF OtherWrites
<1>2. RowsTyped' /\ InOrder' /\ Asked'
  BY <1>0, <1>1 DEF RowsTyped, InOrder, Asked
<1>3. Removed'
  BY <1>0, <1>1 DEF Removed
<1>4. Paged'
  <2> SUFFICES ASSUME query.pc = "count" PROVE Paged'
    BY <1>1 DEF Paged
  <2>1. PICK T \in SUBSET AllRows :
            /\ T \ table \subseteq others /\ table \ T \subseteq others
            /\ Cardinality(query.rows)
                = PageSize(Cardinality(Selected(query.where, T)), query.limit, query.offset)
    BY <1>0 DEF Paged
  <2>2. T \ table' \subseteq others' /\ table' \ T \subseteq others'
    BY <1>1, <2>1
  <2> QED BY <1>1, <2>1, <2>2 DEF Paged
<1>5. AnswersMatchRequests' /\ TotalsFitPages'
  <2>1. query.model # None => query.rows \subseteq Meets(query.model)
    BY DEF QueryInv, AnswersMatchRequests
  <2> QED BY <1>1, <2>1 DEF AnswersMatchRequests, TotalsFitPages, Ok
<1>6. OneRowOrNone'
  <2>1. query.op = "Delete" =>
            query.begin \ table \subseteq others \cup (IF query.where = None THEN {} ELSE query.where)
    BY DEF QueryInv, OneRowOrNone
  <2> QED BY <1>1, <2>1 DEF OneRowOrNone, Ok
<1> QED BY <1>2, <1>3, <1>4, <1>5, <1>6 DEF QueryInv

LEMMA DeleteKeeps == QueryInv /\ Delete => QueryInv'
<1> SUFFICES ASSUME QueryInv, Delete PROVE QueryInv'
  OBVIOUS
<1>0. RowsTyped /\ InOrder /\ Asked /\ Removed
  BY DEF QueryInv
<1> DEFINE pc == IF query.where = None THEN "error" ELSE "ok"
<1>1. /\ query.pc = "select" /\ query.op = "Delete"
      /\ table' = table \ Deleted(query.where)
      /\ query' = [query EXCEPT !.pc = pc]
      /\ others' = others
  BY DEF Delete
<1>2. pc \in {"error", "ok"}
  OBVIOUS
<1> HIDE DEF pc
<1>3. /\ query'.pc = pc /\ query'.op = query.op /\ query'.model = query.model
      /\ query'.where = query.where /\ query'.limit = query.limit
      /\ query'.offset = query.offset /\ query'.rows = query.rows /\ query'.begin = query.begin
      /\ query' \in Query
  BY <1>0, <1>1, <1>2 DEF RowsTyped, Query
<1>4. RowsTyped' /\ InOrder' /\ Asked' /\ Paged'
  BY <1>0, <1>1, <1>2, <1>3 DEF RowsTyped, InOrder, Asked, Paged
<1>5. query.begin \ table' \subseteq others \cup (IF query.where = None THEN {} ELSE query.where)
  <2>1. Deleted(query.where) \subseteq (IF query.where = None THEN {} ELSE query.where)
    BY DEF Deleted, Selected
  <2> QED BY <1>0, <1>1, <2>1 DEF Removed
<1>6. Removed'
  BY <1>1, <1>3, <1>5 DEF Removed
<1>7. AnswersMatchRequests' /\ TotalsFitPages'
  <2>1. query.model = None
    BY <1>0, <1>1 DEF Asked
  <2> QED BY <1>1, <1>3, <2>1 DEF AnswersMatchRequests, TotalsFitPages, Ok
<1>8. OneRowOrNone'
  BY <1>1, <1>3, <1>5 DEF OneRowOrNone, Ok
<1> QED BY <1>4, <1>6, <1>7, <1>8 DEF QueryInv

\* The count is of the table as it is, the page of one that others have changed since.
LEMMA CountKeeps == QueryInv /\ Count => QueryInv'
<1> SUFFICES ASSUME QueryInv, Count PROVE QueryInv'
  OBVIOUS
<1>0. RowsTyped /\ InOrder /\ Asked /\ Removed /\ Paged
  BY DEF QueryInv
<1> DEFINE total == CountRows(query.where)
<1>1. /\ \/ query.pc = "select" /\ query.op = "Count"
         \/ query.pc = "count" /\ query.op = "FindPage"
      /\ query' = [query EXCEPT !.pc = "ok", !.total = total]
      /\ UNCHANGED <<table, others>>
  BY <1>0 DEF Count, InOrder
<1>2. total \in Nat
  <2>1. Selected(query.where, table) \subseteq AllRows
    BY <1>0, SelectedIn DEF RowsTyped
  <2> QED BY <2>1, SizesTyped DEF CountRows
<1>3. /\ query'.pc = "ok" /\ query'.op = query.op /\ query'.model = query.model
      /\ query'.where = query.where /\ query'.limit = query.limit /\ query'.total = total
      /\ query'.offset = query.offset /\ query'.rows = query.rows /\ query'.begin = query.begin
      /\ query' \in Query
  <2> HIDE DEF total
  <2> QED BY <1>0, <1>1, <1>2 DEF RowsTyped, Query
<1>4. RowsTyped' /\ InOrder' /\ Asked' /\ Removed' /\ Paged'
  BY <1>0, <1>1, <1>3 DEF RowsTyped, InOrder, Asked, Removed, Paged
<1>5. AnswersMatchRequests'
  BY <1>1, <1>3 DEF QueryInv, AnswersMatchRequests, Ok
<1>6. TotalsFitPages'
  <2> SUFFICES ASSUME query.op = "FindPage"
               PROVE  LET size == PageSize(total, query.limit, query.offset)
                          n    == Cardinality(query.rows)
                      IN  n - size <= Cardinality(others) /\ size - n <= Cardinality(others)
    BY <1>1, <1>3 DEF TotalsFitPages, Ok
  <2>1. query.pc = "count"
    BY <1>1
  <2>2. PICK T \in SUBSET AllRows :
            /\ T \ table \subseteq others /\ table \ T \subseteq others
            /\ Cardinality(query.rows)
                = PageSize(Cardinality(Selected(query.where, T)), query.limit, query.offset)
    BY <1>0, <2>1 DEF Paged
  <2> DEFINE A == Selected(query.where, T)
             B == Selected(query.where, table)
  <2>3. /\ A \subseteq AllRows /\ B \subseteq AllRows /\ others \subseteq AllRows
        /\ A \ B \subseteq others /\ B \ A \subseteq others
    BY <1>0, <2>2 DEF Selected, RowsTyped
  <2>4. total = Cardinality(B)
    BY DEF CountRows
  <2> HIDE DEF A, B, total
  <2>5. /\ Cardinality(A) \in Nat /\ Cardinality(B) \in Nat /\ Cardinality(others) \in Nat
        /\ Cardinality(A) - Cardinality(B) <= Cardinality(others)
        /\ Cardinality(B) - Cardinality(A) <= Cardinality(others)
    BY <2>3, SizesTyped, SizesDiffer
  <2>6. query.limit \in Nat /\ query.offset \in Nat
    BY <1>0 DEF RowsTyped, Query
  <2>7. /\ PageSize(Cardinality(A), query.limit, query.offset)
            - PageSize(Cardinality(B), query.limit, query.offset) <= Cardinality(others)
        /\ PageSize(Cardinality(B), query.limit, query.offset)
            - PageSize(Cardinality(A), query.limit, query.offset) <= Cardinality(others)
    BY <2>5, <2>6, PageSizeFollows
  <2>8. Cardinality(query.rows) = PageSize(Cardinality(A), query.limit, query.offset)
    BY <2>2 DEF A
  <2> QED BY <2>4, <2>7, <2>8
<1>7. OneRowOrNone'
  BY <1>1, <1>3 DEF OneRowOrNone, Ok
<1> QED BY <1>4, <1>5, <1>6, <1>7 DEF QueryInv

\* The rows are a page of what the condition selects from the table as it is.
LEMMA SelectKeeps ==
    ASSUME QueryInv, NEW rows \in SUBSET table, Select(rows) PROVE QueryInv'
<1>0. RowsTyped /\ InOrder /\ Asked /\ Removed
  BY DEF QueryInv
<1> DEFINE pc == CASE query.op = "FindPage" -> "count"
                   [] query.op = "Find" -> "ok"
                   [] query.op \in {"First", "findOne"} /\ rows = {} -> "notFound"
                   [] query.op = "findOne" /\ Cardinality(rows) > 1 -> "multiple"
                   [] OTHER -> "ok"
           got == IF pc = "multiple" THEN {} ELSE rows
           all == Selected(query.where, table)
<1>1. /\ query.pc = "select" /\ query.op \in {"Find", "First", "findOne", "FindPage"}
      /\ query' = [query EXCEPT !.pc = pc, !.rows = got]
      /\ UNCHANGED <<table, others>>
  BY DEF Select
<1>2. /\ rows \subseteq all
      /\ Cardinality(rows) = PageSize(Cardinality(all), query.limit, query.offset)
  BY DEF Select, Pages
<1>3. /\ all \subseteq table /\ table \subseteq AllRows /\ all = table \cap Selected(query.where, AllRows)
      /\ IsFiniteSet(rows) /\ Cardinality(rows) \in Nat
      /\ IsFiniteSet(all) /\ Cardinality(all) \in Nat
  <2>1. table \subseteq AllRows
    BY <1>0 DEF RowsTyped
  <2>2. all \subseteq table /\ all = table \cap Selected(query.where, AllRows)
    BY <2>1, SelectedIn
  <2> QED BY <1>2, <2>1, <2>2, SizesTyped
<1>4. Cardinality(rows) = 0 <=> rows = {}
  BY <1>3, FS_EmptySet
<1>5. /\ pc \in {"count", "ok", "notFound", "multiple"}
      /\ pc = "count" => query.op = "FindPage"
      /\ query.op = "FindPage" => pc = "count"
      /\ query.op = "findOne" /\ pc = "ok" => Cardinality(rows) = 1
      /\ query.op = "Find" => pc = "ok"
      /\ pc = "notFound" => rows = {} /\ query.op # "Find"
  BY <1>1, <1>3, <1>4
<1>6. got \subseteq rows /\ (pc # "multiple" => got = rows)
  OBVIOUS
<1> HIDE DEF pc, got, all
<1>7. got \in SUBSET AllRows
  BY <1>3, <1>6
<1>8. /\ query'.pc = pc /\ query'.op = query.op /\ query'.model = query.model
      /\ query'.where = query.where /\ query'.limit = query.limit
      /\ query'.offset = query.offset /\ query'.rows = got /\ query'.begin = query.begin
      /\ query' \in Query
  <2>1. query' = [query EXCEPT !.pc = pc, !.rows = got] /\ query \in Query
    BY <1>0, <1>1 DEF RowsTyped
  <2> QED BY <1>5, <1>7, <2>1 DEF Query
<1>9. RowsTyped' /\ InOrder' /\ Asked' /\ Removed'
  BY <1>0, <1>1, <1>5, <1>8 DEF RowsTyped, InOrder, Asked, Removed
<1>10. Paged'
  <2> SUFFICES ASSUME pc = "count" PROVE Paged'
    BY <1>8 DEF Paged
  <2>1. got = rows /\ table \in SUBSET AllRows /\ table \ table \subseteq others
    BY <1>3, <1>6
  <2> QED BY <1>1, <1>2, <1>8, <2>1 DEF Paged, all
<1>11. AnswersMatchRequests'
  <2> SUFFICES ASSUME query.model # None
               PROVE  LET there == (Meets(query.model) \cap query.begin) \ others
                      IN  /\ got \subseteq Meets(query.model)
                          /\ \/ AsksForAddress(query.model)
                             \/ /\ query.op = "Find" /\ pc = "ok" => there \subseteq got
                                /\ pc = "notFound" => there = {}
    BY <1>1, <1>8 DEF AnswersMatchRequests, Ok
  <2>1. /\ all \subseteq Meets(query.model)
        /\ AsksForAddress(query.model) \/ table \cap Meets(query.model) \subseteq all
    BY <1>0, <1>3 DEF Asked, Restricts
  <2>2. \/ AsksForAddress(query.model)
        \/ (Meets(query.model) \cap query.begin) \ others \subseteq all
    <3>1. query.begin \ table \subseteq others
      BY <1>0, <1>1 DEF Removed
    <3> QED BY <2>1, <3>1
  <2>3. query.op = "Find" => rows = all
    <3> SUFFICES ASSUME query.op = "Find" PROVE rows = all
      OBVIOUS
    <3>1. query.limit = 0 /\ query.offset = 0
      BY <1>0 DEF Asked
    <3>2. Cardinality(rows) = Cardinality(all)
      BY <1>2, <1>3, <3>1 DEF PageSize
    <3> QED BY <1>2, <1>3, <3>2, FS_Subset
  <2>4. pc = "notFound" => all = {}
    <3> SUFFICES ASSUME pc = "notFound" PROVE all = {}
      OBVIOUS
    <3>1. query.op = "findOne"
      BY <1>0, <1>1, <1>5 DEF Asked
    <3>2. query.limit \in Nat /\ query.limit > 0 /\ query.offset = 0
      BY <1>0, <3>1 DEF Asked, RowsTyped, Query
    <3>3. Cardinality(rows) = 0
      BY <1>4, <1>5
    <3>4. Cardinality(all) = 0
      BY <1>2, <1>3, <3>2, <3>3 DEF PageSize
    <3> QED BY <1>3, <3>4, FS_EmptySet
  <2> QED BY <1>2, <1>5, <1>6, <2>1, <2>2, <2>3, <2>4
<1>12. TotalsFitPages'
  BY <1>5, <1>8 DEF TotalsFitPages, Ok
<1>13. OneRowOrNone'
  BY <1>1, <1>5, <1>6, <1>8 DEF OneRowOrNone, Ok
<1> QED BY <1>9, <1>10, <1>11, <1>12, <1>13 DEF QueryInv

-----------------------------------------------------------------------------
(* The chain.                                                              *)

LEMMA TopMeans ==
    ASSUME ChainsInv, levels # <<>> PROVE Means(Top) /\ Len(levels) \in Nat \ {0}
<1>1. Len(levels) \in Nat \ {0} /\ Len(levels) \in DOMAIN levels
  BY DEF ChainsInv
<1> QED BY <1>1 DEF ChainsInv, Top, Last

LEMMA SetTopKeeps ==
    ASSUME ChainsInv, levels # <<>>, NEW new, Means(new), SetTop(new) PROVE ChainsInv'
<1>1. new \in Builder
  BY DEF Means
<1>2. /\ levels' \in Seq(Builder) /\ DOMAIN levels' = DOMAIN levels
      /\ \A k \in DOMAIN levels : levels'[k] = IF k = Len(levels) THEN new ELSE levels[k]
  BY <1>1 DEF SetTop, ChainsInv
<1> QED BY <1>2 DEF ChainsInv

\* One more level, or one less with another top.
LEMMA AppendKeeps ==
    ASSUME NEW s \in Seq(Builder), \A k \in DOMAIN s : Means(s[k]), NEW new, Means(new)
    PROVE  /\ Append(s, new) \in Seq(Builder)
           /\ \A k \in DOMAIN Append(s, new) : Means(Append(s, new)[k])
<1>1. new \in Builder
  BY DEF Means
<1>2. /\ Append(s, new) \in Seq(Builder) /\ DOMAIN Append(s, new) = 1..(Len(s) + 1)
      /\ Append(s, new)[Len(s) + 1] = new /\ Len(s) \in Nat /\ DOMAIN s = 1..Len(s)
      /\ \A k \in 1..Len(s) : Append(s, new)[k] = s[k]
  BY <1>1
<1>3. ASSUME NEW k \in 1..(Len(s) + 1) PROVE Means(Append(s, new)[k])
  <2>1. k \in 1..Len(s) \/ k = Len(s) + 1
    BY <1>2
  <2> QED BY <1>2, <2>1
<1> QED BY <1>2, <1>3

LEMMA ChainStep ==
    ASSUME ChainsInv, Next PROVE ChainsInv'
<1>1. CASE Begin
  <2>1. Means(NewBuilder)
    BY NewMeans DEF Joins
  <2>2. levels' = <<NewBuilder>>
    BY <1>1 DEF Begin
  <2>3. NewBuilder \in Builder
    BY <2>1 DEF Means
  <2> QED BY <2>1, <2>2, <2>3 DEF ChainsInv
<1>2. ASSUME NEW cond, Where(cond) PROVE ChainsInv'
  <2> DEFINE rows == conditionToCond(cond)
  <2>1. levels # <<>> /\ SetTop(Called(where(Top, rows), "where", rows))
    BY <1>2 DEF Where, Building
  <2>2. rows \in RowSets
    BY ConditionTyped
  <2> HIDE DEF rows
  <2>3. Means(Called(where(Top, rows), "where", rows))
    BY <2>1, <2>2, TopMeans, ConditionMeans
  <2> QED BY <2>1, <2>3, SetTopKeeps
<1>3. ASSUME NEW join \in Joins, Join(join) PROVE ChainsInv'
  <2>1. levels # <<>> /\ SetTop(Called([Top EXCEPT !.nextJoin = join], join, None))
    BY <1>3 DEF Join, Building
  <2>2. Means(Called([Top EXCEPT !.nextJoin = join], join, None))
    BY <2>1, TopMeans, JoinMeans
  <2> QED BY <2>1, <2>2, SetTopKeeps
<1>4. ASSUME NEW join \in Joins, OpenGroup(join) PROVE ChainsInv'
  <2>1. levels' = Append(levels, [NewBuilder EXCEPT !.openedBy = join])
    BY <1>4 DEF OpenGroup
  <2>2. Means([NewBuilder EXCEPT !.openedBy = join])
    BY NewMeans
  <2> QED BY <2>1, <2>2, AppendKeeps DEF ChainsInv
<1>5. CASE CloseGroup
  <2> DEFINE n == Len(levels)
             outer == levels[n - 1]
             node  == [join |-> Top.openedBy, rows |-> toBuilderCond(Top.nodes)]
             added == [outer EXCEPT !.nodes = Append(@, node), !.nextJoin = "and"]
             do    == IF Top.openedBy = "or" THEN "orGroup" ELSE "andGroup"
             new == IF Top.nodes = <<>> THEN outer ELSE Called(added, do, Meaning(Top.calls))
             rest == SubSeq(levels, 1, n - 2)
  <2>1. n > 1 /\ levels' = Append(rest, new)
    BY <1>5 DEF CloseGroup
  <2>2. n \in Nat /\ DOMAIN levels = 1..n /\ levels # <<>>
    BY <2>1 DEF ChainsInv
  <2>3. Means(Top) /\ Means(outer)
    <3>1. n - 1 \in DOMAIN levels
      BY <2>1, <2>2
    <3> QED BY <2>2, <3>1, TopMeans DEF ChainsInv
  <2>4. Means(Called(added, do, Meaning(Top.calls)))
    <3> HIDE DEF outer
    <3> QED BY <2>3, GroupMeans
  <2> HIDE DEF outer, node, added, do
  <2>5. Means(new)
    BY <2>3, <2>4
  <2>6. rest \in Seq(Builder) /\ \A k \in DOMAIN rest : Means(rest[k])
    <3>1. /\ rest \in Seq(Builder) /\ Len(rest) = n - 2
          /\ \A k \in 1..(n - 2) : rest[k] = levels[k] /\ k \in DOMAIN levels
      BY <2>1, <2>2 DEF ChainsInv
    <3> HIDE DEF rest
    <3>2. DOMAIN rest = 1..(n - 2)
      BY <3>1
    <3> QED BY <3>1, <3>2 DEF ChainsInv
  <2> HIDE DEF new, rest
  <2> QED BY <2>1, <2>5, <2>6, AppendKeeps DEF ChainsInv
<1>6. CASE levels' = <<>>
  BY <1>6 DEF ChainsInv
<1>7. CASE UNCHANGED levels
  BY <1>7 DEF ChainsInv
<1>8. \/ Begin \/ CloseGroup
      \/ \E cond \in Conds : Where(cond)
      \/ \E join \in Joins : Join(join) \/ OpenGroup(join)
      \/ levels' = <<>> \/ UNCHANGED levels
  <2>1. ASSUME NEW op, NEW limit, NEW offset, EndChain(op, limit, offset) PROVE levels' = <<>>
    BY <2>1 DEF EndChain, Start
  <2>2. ASSUME NEW model, NEW limit, NEW offset, BeginFindPage(model, limit, offset)
        PROVE  levels' = <<>>
    BY <2>2 DEF BeginFindPage, Start
  <2>3. ASSUME NEW model, BeginFind(model) \/ BeginFindAll(model) PROVE levels' = <<>>
    BY <2>3 DEF BeginFind, BeginFindAll, Start
  <2>4. ASSUME NEW id, BeginFindByID(id) \/ BeginDeleteByID(id) PROVE levels' = <<>>
    BY <2>4 DEF BeginFindByID, BeginDeleteByID, Start
  <2>5. ASSUME NEW x, Select(x) \/ OtherWrites(x) PROVE UNCHANGED levels
    BY <2>5 DEF Select, OtherWrites
  <2>6. ASSUME Count \/ Delete \/ Fails PROVE UNCHANGED levels
    BY <2>6 DEF Count, Delete, Fails
  <2> QED BY <2>1, <2>2, <2>3, <2>4, <2>5, <2>6 DEF Next, Joins
<1> QED BY <1>1, <1>2, <1>3, <1>4, <1>5, <1>6, <1>7, <1>8

-----------------------------------------------------------------------------
LEMMA QueryStep ==
    ASSUME ChainsInv, QueryInv, Next PROVE QueryInv'
<1>0. RowsTyped
  BY DEF QueryInv
<1>1. ASSUME NEW op \in {"Find", "First", "Count", "Delete"}, NEW limit \in Limits,
             NEW offset \in Offsets, EndChain(op, limit, offset)
      PROVE  QueryInv'
  <2> DEFINE most == IF op = "First" THEN 1 ELSE limit
             w == toBuilderCond(Top.nodes)
  <2>1. levels # <<>> /\ Start(op, None, w, most, offset)
    BY <1>1 DEF EndChain
  <2>2. most \in Nat /\ offset \in Nat
    BY PagesAssumption
  <2>3. w \in RowSets
    BY <2>1, TopMeans, CondTyped DEF Means, Builder
  <2> HIDE DEF most, w
  <2> QED BY <1>0, <2>1, <2>2, <2>3, StartKeeps
<1>2. ASSUME NEW model \in Models, NEW limit \in Nat, NEW offset \in Nat,
             NEW op \in {"findOne", "Find", "FindPage"},
             op = "Find" => limit = 0 /\ offset = 0,
             op = "findOne" => limit > 0 /\ offset = 0,
             Start(op, model, CondOf(buildFiltersFromModel(Fields, model)), limit, offset)
      PROVE  QueryInv'
  <2> DEFINE w == CondOf(buildFiltersFromModel(Fields, model))
  <2>1. w \in RowSets /\ Restricts(w, model)
    BY CondMeets
  <2>2. Start(op, model, w, limit, offset)
    BY <1>2
  <2> HIDE DEF w
  <2> QED BY <1>0, <1>2, <2>1, <2>2, StartKeeps
<1>3. ASSUME NEW id, NEW op \in {"findOne", "Delete"}, NEW limit \in Nat, NEW offset \in Nat,
             NEW w, w = None \/ \E filter : w = CondOf(<<filter>>),
             Start(op, None, w, limit, offset)
      PROVE  QueryInv'
  <2>1. w \in RowSets
    <3>1. ASSUME NEW filter PROVE CondOf(<<filter>>) \in RowSets
      <4>1. Len(<<filter>>) \in Nat
        OBVIOUS
      <4> QED BY <4>1, CondOfIs
    <3>2. None \in RowSets
      BY DEF RowSets
    <3> QED BY <1>3, <3>1, <3>2
  <2> QED BY <1>0, <1>3, <2>1, StartKeeps
<1>4. ASSUME NEW model \in Models, BeginFind(model) PROVE QueryInv'
  BY <1>2, <1>4 DEF BeginFind
<1>5. ASSUME NEW model \in Models, BeginFindAll(model) PROVE QueryInv'
  BY <1>2, <1>5 DEF BeginFindAll
<1>6. ASSUME NEW model \in Models, NEW limit \in Limits, NEW offset \in Offsets,
             BeginFindPage(model, limit, offset)
      PROVE  QueryInv'
  BY <1>2, <1>6, PagesAssumption DEF BeginFindPage
<1>7. ASSUME NEW id, BeginFindByID(id) PROVE QueryInv'
  BY <1>3, <1>7 DEF BeginFindByID
<1>8. ASSUME NEW id, BeginDeleteByID(id) PROVE QueryInv'
  BY <1>3, <1>8 DEF BeginDeleteByID
<1>9. ASSUME UNCHANGED <<table, query, others>> PROVE QueryInv'
  BY <1>9 DEF QueryInv, RowsTyped, InOrder, Asked, Removed, Paged, AnswersMatchRequests,
     TotalsFitPages, OneRowOrNone, Ok
<1>10. ASSUME Begin \/ CloseGroup PROVE QueryInv'
  BY <1>9, <1>10 DEF Begin, CloseGroup
<1>11. ASSUME NEW cond, Where(cond) PROVE QueryInv'
  BY <1>9, <1>11 DEF Where
<1>12. ASSUME NEW join, Join(join) \/ OpenGroup(join) PROVE QueryInv'
  BY <1>9, <1>12 DEF Join, OpenGroup
<1>13. ASSUME NEW rows \in SUBSET table, Select(rows) PROVE QueryInv'
  BY <1>13, SelectKeeps
<1>14. ASSUME NEW row \in AllRows, OtherWrites(row) PROVE QueryInv'
  BY <1>14, OtherWritesKeeps
<1>15. ASSUME Count \/ Delete \/ Fails PROVE QueryInv'
  BY <1>15, CountKeeps, DeleteKeeps, FailsKeeps
<1> QED
  BY <1>1, <1>4, <1>5, <1>6, <1>7, <1>8, <1>10, <1>11, <1>12, <1>13, <1>14, <1>15 DEF Next

LEMMA QueryBuilderInit == Init => ChainsInv /\ QueryInv
<1> SUFFICES ASSUME Init PROVE ChainsInv /\ QueryInv
  OBVIOUS
<1>1. /\ levels = <<>> /\ others = {} /\ table \in SUBSET AllRows
      /\ query = [pc |-> "none", op |-> "none", model |-> None, where |-> None, limit |-> 0,
                  offset |-> 0, rows |-> {}, total |-> 0, begin |-> {}]
  BY RowsAssumption DEF Init, NoQuery
<1>2. ChainsInv
  BY <1>1 DEF ChainsInv
<1>3. query \in Query
  BY <1>1 DEF Query, RowSets
<1>4. query.pc = "none" /\ query.op = "none" /\ query.model = None /\ query.begin = {}
  BY <1>1
<1>5. QueryInv
  BY <1>1, <1>3, <1>4 DEF QueryInv, RowsTyped, InOrder, Asked, Removed, Paged,
     AnswersMatchRequests, TotalsFitPages, OneRowOrNone, Ok
<1> QED BY <1>2, <1>5

LEMMA QueryBuilderInvariant == Spec => [](ChainsInv /\ QueryInv)
<1>1. ChainsInv /\ QueryInv /\ [Next]_vars => (ChainsInv /\ QueryInv)'
  <2>1. CASE UNCHANGED vars
    BY <2>1 DEF vars, ChainsInv, QueryInv, RowsTyped, InOrder, Asked, Removed, Paged,
       AnswersMatchRequests, TotalsFitPages, OneRowOrNone, Ok
  <2> QED BY <2>1, ChainStep, QueryStep
<1> QED BY <1>1, QueryBuilderInit, PTL DEF Spec

\* However long a chain and however deep its groups, its conditions select what its calls
\* say from left to right.
THEOREM ChainsKeepTheirMeaning == Spec => []ChainsMeanWhatTheySay
<1>1. ChainsInv => ChainsMeanWhatTheySay
  BY DEF ChainsInv, Means, ChainsMeanWhatTheySay
<1> QED BY <1>1, QueryBuilderInvariant, PTL

\* Whatever fields a struct has and whatever others write meanwhile, an answer has only rows
\* that meet the struct and misses none that nobody has touched, unless LIKE was given a
\* pointer.
THEOREM AnswersMeetRequests == Spec => []AnswersMatchRequests
<1>1. QueryInv => AnswersMatchRequests
  BY DEF QueryInv
<1> QED BY <1>1, QueryBuilderInvariant, PTL

\* The total of FindPage and its page differ by no more than others have written in between.
THEOREM PagesAndTotals == Spec => []TotalsFitPages
<1>1. QueryInv => TotalsFitPages
  BY DEF QueryInv
<1> QED BY <1>1, QueryBuilderInvariant, PTL

\* One row is the only one, and a deletion takes nothing but what it names.
THEOREM SingleRowsAndDeletions == Spec => []OneRowOrNone
<1>1. QueryInv => OneRowOrNone
  BY DEF QueryInv
<1> QED BY <1>1, QueryBuilderInvariant, PTL
=============================================================================
