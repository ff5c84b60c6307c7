---------------------------- MODULE QueryBuilder ----------------------------
(***************************************************************************)
(* The repository over one table.  A builder collects conditions call by   *)
(* call; a group is a builder of its own that is open while its function   *)
(* runs.  The reads and deletions end a chain, or start with the fields of *)
(* a struct.  Others write to the table meanwhile: a statement is atomic,  *)
(* a method of two statements is not.                                      *)
(***************************************************************************)
EXTENDS Conditions, FiniteSets

CONSTANTS
    Conds,          \* conditions given to the builder
    Fields,         \* the fields of a model or request, in order
    Models,         \* the structs given to Find, FindAll and FindPage
    Limits, Offsets,
    Tables,         \* the tables to begin with
    MaxCalls        \* bound: calls on the builders that are open

ASSUME NamesAssumption == None \notin Columns /\ Null \notin Int
\* Columns hold values of a bounded size.
ASSUME RowsAssumption ==
    /\ IsFiniteSet(AllRows) /\ AllRows \subseteq [Columns -> Int \cup {Null}]
    /\ Tables \subseteq SUBSET AllRows
    /\ \A S \in SUBSET AllRows : S # None
\* A tag names a column of the table, if any, and at most one operator; lists go with in and
\* notin.
ASSUME FieldsAssumption ==
    /\ Fields \in Seq(ToSet(Fields))
    /\ \A i \in DOMAIN Fields :
        LET words == Fields[i].tag.words
        IN  /\ words \in Seq(ToSet(words))
            /\ Fields[i].kind \in {"scalar", "pointer", "list", "struct"}
            /\ Fields[i].kind = "list" => OpOf(Fields[i].tag) \in {"in", "notin"}
            /\ ColumnOf(Fields[i].tag) \in Columns \cup {None}
            /\ \A j, k \in DOMAIN words : words[j].kind = "op" /\ words[k].kind = "op" => j = k
ASSUME PagesAssumption == Limits \subseteq Nat /\ Offsets \subseteq Nat

VARIABLES
    table,      \* the rows present
    levels,     \* the open builders, the outermost first; none when nothing is built
    query,      \* the method that runs, or has run
    others      \* rows others have added or removed since it began

vars == <<table, levels, query, others>>

NewBuilder == [nodes |-> <<>>, nextJoin |-> "and", openedBy |-> "and", calls |-> <<>>]

NoQuery == [pc |-> "none", op |-> "none", model |-> None, where |-> None, limit |-> 0,
            offset |-> 0, rows |-> {}, total |-> 0, begin |-> {}]

Top == Last(levels)

SetTop(new) == levels' = [levels EXCEPT ![Len(levels)] = new]

-----------------------------------------------------------------------------
(* Conditions, as the sets of rows they select.                            *)

\* Left to right, without precedence: a or b and c is (a or b) and c.
Joined(result, node) ==
    IF node.rows = None THEN result
    ELSE IF result = None THEN node.rows
    ELSE IF node.join = "or" THEN result \cup node.rows
    ELSE result \cap node.rows

toBuilderCond(nodes) ==
    LET result[i \in 0..Len(nodes)] ==
            IF i = 0 THEN None ELSE Joined(result[i - 1], nodes[i])
    IN  result[Len(nodes)]

\* A builder without an effective condition restricts nothing.
Selected(where, rows) == IF where = None THEN rows ELSE rows \cap where

\* applySelect without ORDER BY: any rows of the page's size, in no order.  A limit of
\* zero is none.
PageSize(n, limit, offset) ==
    LET rest == IF offset < n THEN n - offset ELSE 0
    IN  IF limit > 0 /\ limit < rest THEN limit ELSE rest

Pages(where, limit, offset) ==
    LET all == Selected(where, table)
    IN  {S \in SUBSET all : Cardinality(S) = PageSize(Cardinality(all), limit, offset)}

-----------------------------------------------------------------------------
(* The chain.  "calls" remembers what was called, with the rows that the   *)
(* reference below gives to a group.                                       *)

Init ==
    /\ table \in Tables
    /\ levels = <<>>
    /\ query = NoQuery
    /\ others = {}

Building ==
    /\ levels # <<>>
    /\ FoldLeft(LAMBDA n, level : n + Len(level.calls) + 1, 0, levels) <= MaxCalls

Begin ==
    /\ levels = <<>> /\ query = NoQuery
    /\ levels' = <<NewBuilder>>
    /\ UNCHANGED <<table, query, others>>

\* Mutant of where: Or() stays in force.
whereKeepsJoin(builder, rows) ==
    [builder EXCEPT !.nodes = Append(@, [join |-> builder.nextJoin, rows |-> rows])]

\* And()/Or() hold for the condition that follows only.
where(builder, rows) ==
    [builder EXCEPT !.nodes = Append(@, [join |-> builder.nextJoin, rows |-> rows]),
                    !.nextJoin = "and"]

Called(builder, do, rows) == [builder EXCEPT !.calls = Append(@, [do |-> do, rows |-> rows])]

\* Eq, Ne, Gt, Lt, Gte, Lte, Like, In, NotIn, and the conditions of a struct.
Where(cond) ==
    /\ Building
    /\ LET rows == conditionToCond(cond)
       IN  SetTop(Called(where(Top, rows), "where", rows))
    /\ UNCHANGED <<table, query, others>>

\* And, Or.
Join(join) ==
    /\ Building
    /\ SetTop(Called([Top EXCEPT !.nextJoin = join], join, None))
    /\ UNCHANGED <<table, query, others>>

\* AndGroup, OrGroup: the function gets a builder of its own.
OpenGroup(join) ==
    /\ Building
    /\ levels' = Append(levels, [NewBuilder EXCEPT !.openedBy = join])
    /\ UNCHANGED <<table, query, others>>

(* What a chain means: a row is selected if a condition that begins an     *)
(* alternative selects it and every condition that narrows afterwards.     *)
BeginsAlternative(calls, i) ==
    \/ calls[i].do = "orGroup"
    \/ calls[i].do = "where" /\ i > 1 /\ calls[i - 1].do = "or"

Meaning(calls) ==
    LET parts == {i \in DOMAIN calls : calls[i].rows # None}
        starts(i) == BeginsAlternative(calls, i) \/ \A j \in parts : i <= j
        narrowed(r, i) ==
            \A j \in parts :
                j > i /\ ~ BeginsAlternative(calls, j) => r \in calls[j].rows
    IN  IF parts = {} THEN None
        ELSE {r \in AllRows :
                \E i \in parts : starts(i) /\ r \in calls[i].rows /\ narrowed(r, i)}

\* A group without conditions leaves the builder as it was; one with conditions is joined
\* by the way it was opened, not by And() or Or().
CloseGroup ==
    /\ Len(levels) > 1
    /\ LET outer == levels[Len(levels) - 1]
           node  == [join |-> Top.openedBy, rows |-> toBuilderCond(Top.nodes)]
           added == [outer EXCEPT !.nodes = Append(@, node), !.nextJoin = "and"]
           do    == IF Top.openedBy = "or" THEN "orGroup" ELSE "andGroup"
       IN  levels' = Append(SubSeq(levels, 1, Len(levels) - 2),
                            IF Top.nodes = <<>> THEN outer
                            ELSE Called(added, do, Meaning(Top.calls)))
    /\ UNCHANGED <<table, query, others>>

-----------------------------------------------------------------------------
(* The methods of the repository and the ends of a chain.                  *)

\* applyFilters.
CondOf(filters) ==
    LET qb[i \in 0..Len(filters)] ==
            IF i = 0 THEN NewBuilder ELSE where(qb[i - 1], conditionToCond(filters[i]))
    IN  toBuilderCond(qb[Len(filters)].nodes)

Start(op, model, where_, limit, offset) ==
    /\ query' = [NoQuery EXCEPT !.pc = "select", !.op = op, !.model = model, !.where = where_,
                                !.limit = limit, !.offset = offset, !.begin = table]
    /\ others' = {}
    /\ levels' = <<>>
    /\ UNCHANGED table

\* Find, First, Count or Delete of the chain.
EndChain(op, limit, offset) ==
    /\ Len(levels) = 1 /\ query = NoQuery
    /\ op \notin {"Find", "First"} => limit = 0 /\ offset = 0
    /\ Start(op, None, toBuilderCond(Top.nodes), IF op = "First" THEN 1 ELSE limit, offset)

\* Repository.Find, FindByID, FindAll and FindPage.
BeginFind(model) ==
    /\ levels = <<>> /\ query = NoQuery
    /\ Start("findOne", model, CondOf(buildFiltersFromModel(Fields, model)), 2, 0)

HasKey(id) == [field |-> PrimaryKey(Fields), op |-> "eq", kind |-> "scalar", value |-> id]

BeginFindByID(id) ==
    /\ levels = <<>> /\ query = NoQuery
    /\ PrimaryKey(Fields) # None
    /\ Start("findOne", None, CondOf(<<HasKey(id)>>), 2, 0)

BeginFindAll(model) ==
    /\ levels = <<>> /\ query = NoQuery
    /\ Start("Find", model, CondOf(buildFiltersFromModel(Fields, model)), 0, 0)

BeginFindPage(model, limit, offset) ==
    /\ levels = <<>> /\ query = NoQuery
    /\ Start("FindPage", model, CondOf(buildFiltersFromModel(Fields, model)), limit, offset)

\* setPrimaryKey, then a deletion by the fields that are not zero: by no field, if the id is.
BeginDeleteByID(id) ==
    /\ levels = <<>> /\ query = NoQuery
    /\ PrimaryKey(Fields) # None
    /\ Start("Delete", None, IF id = 0 THEN None ELSE CondOf(<<HasKey(id)>>), 0, 0)

\* The SELECT.  findOne asks for two rows to tell one from many.
Select(rows) ==
    /\ query.pc = "select" /\ query.op \in {"Find", "First", "findOne", "FindPage"}
    /\ rows \in Pages(query.where, query.limit, query.offset)
    /\ LET pc == CASE query.op = "FindPage" -> "count"
                   [] query.op = "Find" -> "ok"
                   [] query.op \in {"First", "findOne"} /\ rows = {} -> "notFound"
                   [] query.op = "findOne" /\ Cardinality(rows) > 1 -> "multiple"
                   [] OTHER -> "ok"
       IN  query' = [query EXCEPT !.pc = pc, !.rows = IF pc = "multiple" THEN {} ELSE rows]
    /\ UNCHANGED <<table, levels, others>>

\* Mutant of CountRows: the count is taken in the session of the list, with its limit.
CountPage(where_) == PageSize(Cardinality(Selected(where_, table)), query.limit, query.offset)

CountRows(where_) == Cardinality(Selected(where_, table))

\* Count, also of FindPage, which uses a session of its own.
Count ==
    /\ \/ query.pc = "select" /\ query.op = "Count"
       \/ query.pc = "count"
    /\ query' = [query EXCEPT !.pc = "ok", !.total = CountRows(query.where)]
    /\ UNCHANGED <<table, levels, others>>

\* Mutant of Deleted: a deletion without a condition is carried out.
DeletedAnyhow(where_) == Selected(where_, table)

\* xorm refuses to delete without a condition.
Deleted(where_) == IF where_ = None THEN {} ELSE Selected(where_, table)

Delete ==
    /\ query.pc = "select" /\ query.op = "Delete"
    /\ table' = table \ Deleted(query.where)
    /\ query' = [query EXCEPT !.pc = IF query.where = None THEN "error" ELSE "ok"]
    /\ UNCHANGED <<levels, others>>

\* Any statement may fail; an error of the second one hides the rows of the first.
Fails ==
    /\ query.pc \in {"select", "count"}
    /\ query' = [query EXCEPT !.pc = "error", !.rows = {}]
    /\ UNCHANGED <<table, levels, others>>

\* Another client adds or removes a row.
OtherWrites(row) ==
    /\ query.pc \in {"select", "count"}
    /\ row \notin others
    /\ table' = IF row \in table THEN table \ {row} ELSE table \cup {row}
    /\ others' = others \cup {row}
    /\ UNCHANGED <<levels, query>>

Next ==
    \/ Begin \/ CloseGroup
    \/ \E cond \in Conds : Where(cond)
    \/ \E join \in {"and", "or"} : Join(join) \/ OpenGroup(join)
    \/ \E limit \in Limits, offset \in Offsets :
        \/ \E op \in {"Find", "First", "Count", "Delete"} : EndChain(op, limit, offset)
        \/ \E model \in Models : limit > 0 /\ BeginFindPage(model, limit, offset)
    \/ \E model \in Models : BeginFind(model) \/ BeginFindAll(model)
    \/ \E id \in 0 .. Cardinality(AllRows) : BeginFindByID(id) \/ BeginDeleteByID(id)
    \/ \E rows \in SUBSET table : Select(rows)
    \/ Count \/ Delete \/ Fails
    \/ \E row \in AllRows : OtherWrites(row)

Spec == Init /\ [][Next]_vars

-----------------------------------------------------------------------------
(* Properties.                                                             *)

\* The conditions of a chain combine as its calls read from left to right: Or() reaches the
\* next condition only, groups without conditions and conditions without a known operator
\* count for nothing, and the first condition that counts begins.
ChainsMeanWhatTheySay ==
    \A k \in DOMAIN levels : toBuilderCond(levels[k].nodes) = Meaning(levels[k].calls)

Ok(op) == query.op = op /\ query.pc = "ok"

OpsNamed(i) == {w \in ToSet(Fields[i].tag.words) : w.kind = "op"}

OpNamed(i) == IF OpsNamed(i) = {} THEN "eq" ELSE (CHOOSE w \in OpsNamed(i) : TRUE).text

IsSet(model, i) ==
    /\ model[i] # None
    /\ Fields[i].kind = "scalar" => model[i] # 0
    /\ Fields[i].kind # "struct"
    /\ ColumnOf(Fields[i].tag) \in Columns

\* The fields that look for the print of an address.
LooksForAddress(model, i) ==
    Fields[i].kind = "pointer" /\ IsSet(model, i) /\ OpNamed(i) = "like"

AsksForAddress(model) == \E i \in DOMAIN Fields : LooksForAddress(model, i)

\* The rows a request asks for: a field restricts it if it is set to something, other than a
\* list without members, and its tag names a column and, if it names an operator, one that
\* exists.  What a pointer points to counts; LIKE on a pointer asks for nothing sensible.
Meets(model) ==
    LET restricting ==
            {i \in DOMAIN Fields :
                /\ IsSet(model, i) /\ ~ LooksForAddress(model, i)
                /\ Fields[i].kind = "list" => model[i] # {}
                /\ \A w \in OpsNamed(i) : w.text \in Ops}
        meant(i) == [field |-> ColumnOf(Fields[i].tag), op |-> OpNamed(i), value |-> model[i],
                     kind |-> IF Fields[i].kind = "list" THEN "list" ELSE "scalar"]
    IN  {r \in AllRows : \A i \in restricting : Matches(meant(i), r)}

\* Comment of buildFiltersFromModel: the fields that are set become conditions, by the
\* column and the operator of their tags.  An answer has only rows that meet all of them,
\* and misses none that nobody has touched, unless LIKE was given a pointer.  A field with
\* an operator that does not exist (startswith, dto/role.go:47) and a list without members
\* do not restrict the answer.
AnswersMatchRequests ==
    query.model # None =>
        LET there == (Meets(query.model) \cap query.begin) \ others
        IN  /\ query.rows \subseteq Meets(query.model)
            /\ \/ AsksForAddress(query.model)
               \/ /\ Ok("Find") => there \subseteq query.rows
                  /\ query.pc = "notFound" => there = {}

\* Comment of FindPage: list and count do not disturb each other.  Total and rows agree as
\* far as nobody has written meanwhile, and differ by no more than what was written.
TotalsFitPages ==
    Ok("FindPage") =>
        LET size == PageSize(query.total, query.limit, query.offset)
            n    == Cardinality(query.rows)
        IN  n - size <= Cardinality(others) /\ size - n <= Cardinality(others)

\* A single row is returned only if it is the only one that matches, and a deletion takes
\* nothing from the table when none of its conditions counts: neither an unknown operator
\* nor an id of zero deletes everything.
OneRowOrNone ==
    /\ Ok("findOne") => Cardinality(query.rows) = 1
    /\ query.op = "Delete" =>
            LET meant == IF query.where = None THEN {} ELSE query.where
            IN  query.begin \ table \subseteq others \cup meant
=============================================================================
