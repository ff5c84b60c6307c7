---------------------------- MODULE Conditions ----------------------------
(***************************************************************************)
(* What the repository makes of a condition and of a struct with xorm      *)
(* tags.  A condition selects rows; nil, the condition that is dropped, is *)
(* None.  Values are integers, 0 is the zero value of a field; a list is   *)
(* the set of its members.  A LIKE pattern matches the values of a         *)
(* relation.                                                               *)
(***************************************************************************)
EXTENDS Integers, Sequences, SequencesExt

CONSTANTS
    Columns,
    AllRows,        \* every row a table can hold: functions from Columns
    Null,
    LikeMatches,    \* the pairs <<value, pattern>> such that LIKE %pattern% matches
    Address,        \* what is printed for a pointer
    None

Ops == {"eq", "ne", "gt", "lt", "ge", "le", "like", "in", "notin"}

\* The pattern of LIKE is the value as it is printed: of a pointer that is the address.  For
\* the other operators the database driver takes what the pointer points to.
Pattern(cond) == IF cond.kind = "pointer" THEN Address ELSE cond.value

\* The operand of in and notin: what is not a list counts as a list of one.
toAnySlice(cond) == IF cond.kind = "list" THEN cond.value ELSE {cond.value}

Compare(cond, x) ==
    CASE cond.op = "eq"    -> x = cond.value
      [] cond.op = "ne"    -> x # cond.value
      [] cond.op = "gt"    -> x > cond.value
      [] cond.op = "lt"    -> x < cond.value
      [] cond.op = "ge"    -> x >= cond.value
      [] cond.op = "le"    -> x <= cond.value
      [] cond.op = "like"  -> <<x, Pattern(cond)>> \in LikeMatches
      [] cond.op = "in"    -> x \in toAnySlice(cond)
      [] cond.op = "notin" -> x \notin toAnySlice(cond)

\* A comparison with NULL is not true, whatever the operator.
Matches(cond, row) == row[cond.field] # Null /\ Compare(cond, row[cond.field])

\* In and NotIn of an empty list are not valid: And, Or and the session leave them out.
Blank(cond) == cond.op \in {"in", "notin"} /\ toAnySlice(cond) = {}

\* An operator the switch does not know yields no condition at all.
conditionToCond(cond) ==
    IF cond.op \in Ops /\ ~ Blank(cond) THEN {r \in AllRows : Matches(cond, r)} ELSE None

-----------------------------------------------------------------------------
(* A tag is a quoted name, if it has one, and its words in order; the      *)
(* words of kind "type" include the ones with a size in parentheses.       *)
Keywords == {"pk", "autoincr", "notnull", "unique", "index", "created", "updated", "deleted"}

PlainWords(tag) ==
    SelectSeq(tag.words, LAMBDA w : w.kind = "name" /\ w.text \notin Keywords)

\* The part that columnFromXormTag and parseFilterTag do alike.
ColumnOf(tag) ==
    IF tag.quoted # None THEN tag.quoted
    ELSE IF PlainWords(tag) = <<>> THEN None ELSE Head(PlainWords(tag)).text

\* Mutant of OpOf: the operator of a tag is looked for in its last word only.
OpOfLastWord(tag) ==
    IF tag.words # <<>> /\ Last(tag.words).kind = "op" THEN Last(tag.words).text ELSE "eq"

\* The first op= of the tag, whatever follows it.
OpOf(tag) ==
    LET ops == {i \in DOMAIN tag.words : tag.words[i].kind = "op"}
    IN  IF ops = {} THEN "eq" ELSE tag.words[CHOOSE i \in ops : \A j \in ops : i <= j].text

HasWord(tag, word) == \E i \in DOMAIN tag.words : tag.words[i].text = word

\* Nil pointers and lists, zero values, structs (times too) and untagged fields make no
\* condition; a pointer to a zero value and a list without members do.
Filters(field, value) ==
    /\ value # None
    /\ field.kind = "scalar" => value # 0
    /\ field.kind # "struct"
    /\ ColumnOf(field.tag) # None

\* A pointer is handed on as it is.
FilterOf(field, value) ==
    [field |-> ColumnOf(field.tag), op |-> OpOf(field.tag), kind |-> field.kind, value |-> value]

\* The fields of the struct are looked at in order.
buildFiltersFromModel(fields, model) ==
    LET filters[i \in 0..Len(fields)] ==
            IF i = 0 THEN <<>>
            ELSE IF Filters(fields[i], model[i])
            THEN Append(filters[i - 1], FilterOf(fields[i], model[i]))
            ELSE filters[i - 1]
    IN  filters[Len(fields)]

\* The column of the first field tagged pk, which is the field's own name when the tag
\* has none.
PrimaryKey(fields) ==
    LET tagged == SelectSeq(fields, LAMBDA f : HasWord(f.tag, "pk"))
    IN  IF tagged = <<>> THEN None
        ELSE IF ColumnOf(Head(tagged).tag) = None THEN Head(tagged).name
        ELSE ColumnOf(Head(tagged).tag)
=============================================================================
