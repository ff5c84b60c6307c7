--------------------------- MODULE SystemSettings ---------------------------
(***************************************************************************)
(* The settings service over its one table.  Every statement is a step;    *)
(* none of the calls opens a transaction, so what a call has read may be   *)
(* outdated when it writes.  A statement may fail, and a write may be      *)
(* applied although its caller is told that it failed.                     *)
(*                                                                         *)
(* A value is known by the types it can be read as.  Category,             *)
(* description and creator are left out, they behave like the value of a   *)
(* text.  None is an empty key, an absent id and no answer.                *)
(***************************************************************************)
EXTENDS Integers

CONSTANTS
    Ids,            \* bound: as many rows can be created
    SettingKeys, CoreKeys,
    Types, Text,    \* the four types, of which Text takes any value
    Values, Empty,  \* Empty is the empty string
    ParsesAs,       \* the pairs <<value, type>> such that the value converts
    Calls,          \* bound: as many calls are made
    Initial,        \* the rows of the installation
    None

ASSUME KeysAssumption == CoreKeys \subseteq SettingKeys /\ None \notin SettingKeys
ASSUME IdsAssumption == None \notin Ids
ASSUME TypesAssumption == Text \in Types /\ None \notin Types
ASSUME ValuesAssumption ==
    /\ Empty \in Values
    /\ ParsesAs \subseteq Values \X Types
    /\ \A v \in Values : <<v, Text>> \in ParsesAs
    /\ \A t \in Types : <<Empty, t>> \in ParsesAs => t = Text

Row == [key : SettingKeys, type : Types, value : Values]

ASSUME InitialAssumption ==
    /\ DOMAIN Initial \subseteq Ids
    /\ Initial \in [DOMAIN Initial -> Row]
    /\ \A i \in DOMAIN Initial : <<Initial[i].value, Initial[i].type>> \in ParsesAs

VARIABLES
    rows,       \* system_setting: id -> row
    retired,    \* ids of deleted rows, never handed out again
    call        \* progress of each call

vars == <<rows, retired, call>>

Idle == [pc |-> "idle", op |-> "none", id |-> None, ids |-> {}, todo |-> {}, key |-> None,
         type |-> None, value |-> Empty, failed |-> FALSE]

Steps == {"getByKey", "find", "unique", "insert", "update", "findNext", "delete"}

Ends == {"ok", "error", "default", "panic"}

Call == [pc : {"idle"} \cup Steps \cup Ends,
         op : {"none", "Create", "Update", "Delete", "Set", "GetValue"},
         id : Ids \cup {None}, ids : SUBSET Ids, todo : SUBSET Ids, key : SettingKeys \cup {None},
         type : Types \cup {None}, value : Values, failed : BOOLEAN]

TypeOK ==
    /\ DOMAIN rows \subseteq Ids
    /\ rows \in [DOMAIN rows -> Row]
    /\ retired \subseteq Ids \ DOMAIN rows
    /\ call \in [Calls -> Call]

Init ==
    /\ rows = Initial
    /\ retired = {}
    /\ call = [c \in Calls |-> Idle]

-----------------------------------------------------------------------------
Step(c, new) == call' = [call EXCEPT ![c] = new]

Goto(c, pc) == Step(c, [call[c] EXCEPT !.pc = pc])

Unwritten == UNCHANGED <<rows, retired>>

WithKey(k) == {i \in DOMAIN rows : rows[i].key = k}

\* Mutant of Valid: a request that leaves the value alone is not looked at.
ValidUnlessEmpty(type, value) == value = Empty \/ <<value, type>> \in ParsesAs

\* validateValue.
Valid(type, value) == <<value, type>> \in ParsesAs

\* A statement fails, with nothing done or with its answer lost (see below).  Set takes
\* a failed query for an absent key; a batch goes on with the next id.
Fails(c) ==
    /\ call[c].pc \in Steps \ {"findNext"}
    /\ \/ call[c].pc = "getByKey" /\ call[c].op = "Set" /\ Goto(c, "unique")
       \/ call[c].pc = "getByKey" /\ call[c].op = "GetValue" /\ Goto(c, "default")
       \/ call[c].pc = "delete"
            /\ Step(c, [call[c] EXCEPT !.pc = "findNext", !.id = None, !.failed = TRUE])
       \/ call[c].pc \notin {"getByKey", "delete"} /\ Goto(c, "error")
    /\ Unwritten

\* Create.
BeginCreate(c, k, t, v) ==
    /\ call[c].pc = "idle"
    /\ Step(c, [Idle EXCEPT !.pc = "unique", !.op = "Create", !.key = k, !.type = t, !.value = v])
    /\ Unwritten

\* checkKeyUnique, then validateValue: a call that updates leaves its own row out.
CheckUnique(c) ==
    /\ call[c].pc = "unique"
    /\ LET taken == WithKey(call[c].key) \ {call[c].id}
       IN  Goto(c, IF taken # {} \/ ~ Valid(call[c].type, call[c].value) THEN "error"
                   ELSE IF call[c].id = None THEN "insert" ELSE "update")
    /\ Unwritten

\* The unique index of the table turns a key away that is there by now.
Insert(c, i, acked) ==
    /\ call[c].pc = "insert"
    /\ i \notin DOMAIN rows \cup retired
    /\ WithKey(call[c].key) = {}
    /\ rows' = [x \in DOMAIN rows \cup {i} |->
                    IF x = i THEN [key |-> call[c].key, type |-> call[c].type,
                                   value |-> call[c].value]
                    ELSE rows[x]]
    /\ Goto(c, IF acked THEN "ok" ELSE "error")
    /\ UNCHANGED retired

-----------------------------------------------------------------------------
\* Update; an empty key, value or type of the request is one the client left out.
BeginUpdate(c, i, k, t, v) ==
    /\ call[c].pc = "idle"
    /\ Step(c, [Idle EXCEPT !.pc = "find", !.op = "Update", !.id = i, !.key = k,
                            !.type = t, !.value = v])
    /\ Unwritten

\* FindByID; only a new key is checked, a value always.
Find(c) ==
    /\ call[c].pc = "find"
    /\ call[c].id \in DOMAIN rows
    /\ LET row == rows[call[c].id]
           pc  == IF call[c].key \notin {None, row.key} THEN "unique"
                  ELSE IF Valid(call[c].type, call[c].value) THEN "update" ELSE "error"
       IN  Goto(c, pc)
    /\ Unwritten

\* Mutant of Write: columns the request leaves empty are written as well.
WriteAllColumns(c) ==
    rows' = [x \in DOMAIN rows |->
                IF x # call[c].id THEN rows[x]
                ELSE [key |-> call[c].key, type |-> call[c].type, value |-> call[c].value]]

\* UPDATE of the columns that are not zero: type and value come from the request
\* whenever it has them, and the row keeps the others.
Write(c) ==
    rows' = [x \in DOMAIN rows |->
                IF x # call[c].id THEN rows[x]
                ELSE [key   |-> IF call[c].key = None THEN rows[x].key ELSE call[c].key,
                      type  |-> call[c].type,
                      value |-> IF call[c].value = Empty THEN rows[x].value ELSE call[c].value]]

\* A row deleted meanwhile is no error; a key taken meanwhile is one.
Update(c, acked) ==
    /\ call[c].pc = "update"
    /\ call[c].key # None /\ call[c].id \in DOMAIN rows
            => WithKey(call[c].key) \subseteq {call[c].id}
    /\ Write(c)
    /\ Goto(c, IF acked THEN "ok" ELSE "error")
    /\ UNCHANGED retired

-----------------------------------------------------------------------------
\* DeleteBatch: one id after the other, failures are collected.
BeginDelete(c, ids) ==
    /\ call[c].pc = "idle"
    /\ ids # {}
    /\ Step(c, [Idle EXCEPT !.pc = "findNext", !.op = "Delete", !.ids = ids, !.todo = ids])
    /\ Unwritten

\* Mutant of FindDeletable: any setting will do.
FindAny(c, i) ==
    /\ call[c].pc = "findNext"
    /\ i \in call[c].todo \cap DOMAIN rows
    /\ Step(c, [call[c] EXCEPT !.pc = "delete", !.id = i, !.todo = @ \ {i}])
    /\ Unwritten

\* The row is read, and it is not a core setting.
FindDeletable(c, i) ==
    /\ call[c].pc = "findNext"
    /\ i \in call[c].todo \cap DOMAIN rows
    /\ rows[i].key \notin CoreKeys
    /\ Step(c, [call[c] EXCEPT !.pc = "delete", !.id = i, !.todo = @ \ {i}])
    /\ Unwritten

\* It is, or there is no row, or the query fails.
FindUndeletable(c, i) ==
    /\ call[c].pc = "findNext"
    /\ i \in call[c].todo
    /\ Step(c, [call[c] EXCEPT !.todo = @ \ {i}, !.failed = TRUE])
    /\ Unwritten

\* DELETE by id, whatever the row is by now; none at all is no error.
Delete(c, acked) ==
    /\ call[c].pc = "delete"
    /\ rows' = [x \in DOMAIN rows \ {call[c].id} |-> rows[x]]
    /\ retired' = retired \cup ({call[c].id} \cap DOMAIN rows)
    /\ Step(c, [call[c] EXCEPT !.pc = "findNext", !.id = None, !.failed = @ \/ ~ acked])

\* Mutant of EndDelete: what went wrong is not reported.
EndDeleteSilent(c) ==
    /\ call[c].pc = "findNext"
    /\ call[c].todo = {}
    /\ Goto(c, "ok")
    /\ Unwritten

\* ErrorOrNil.
EndDelete(c) ==
    /\ call[c].pc = "findNext"
    /\ call[c].todo = {}
    /\ Goto(c, IF call[c].failed THEN "error" ELSE "ok")
    /\ Unwritten

-----------------------------------------------------------------------------
\* Set and GetValue start with the row of a key.
BeginByKey(c, op, k, t, v) ==
    /\ call[c].pc = "idle"
    /\ op = "Set" \/ (op = "GetValue" /\ t = Text /\ v = Empty)
    /\ Step(c, [Idle EXCEPT !.pc = "getByKey", !.op = op, !.key = k, !.type = t, !.value = v])
    /\ Unwritten

\* There is one: Set goes on as Update of its id, GetValue converts it.
FoundByKey(c, i) ==
    /\ call[c].pc = "getByKey"
    /\ i \in WithKey(call[c].key)
    /\ IF call[c].op = "Set"
       THEN Step(c, [call[c] EXCEPT !.pc = "find", !.id = i])
       ELSE Goto(c, IF Valid(rows[i].type, rows[i].value) THEN "ok" ELSE "default")
    /\ Unwritten

\* There is none: getByKey wraps the error of the query, which is nil, so both go on with
\* the nil row and dereference it.
AbsentKey(c) ==
    /\ call[c].pc = "getByKey"
    /\ WithKey(call[c].key) = {}
    /\ Goto(c, "panic")
    /\ Unwritten

Next ==
    \E c \in Calls :
        \/ Fails(c)
        \/ \E k \in SettingKeys, t \in Types, v \in Values :
                BeginCreate(c, k, t, v) \/ BeginByKey(c, "Set", k, t, v)
        \/ \E i \in Ids, k \in SettingKeys \cup {None}, t \in Types \cup {None}, v \in Values :
                BeginUpdate(c, i, k, t, v)
        \/ \E k \in SettingKeys : BeginByKey(c, "GetValue", k, Text, Empty)
        \/ \E ids \in SUBSET Ids : BeginDelete(c, ids)
        \/ CheckUnique(c)
        \/ \E i \in Ids :
            FindDeletable(c, i) \/ FindUndeletable(c, i) \/ FoundByKey(c, i)
        \/ \E acked \in BOOLEAN :
            (\E i \in Ids : Insert(c, i, acked)) \/ Update(c, acked) \/ Delete(c, acked)
        \/ Find(c) \/ EndDelete(c) \/ AbsentKey(c)

Spec == Init /\ [][Next]_vars

-----------------------------------------------------------------------------
(* Properties.                                                             *)

\* Type and value of a row are written together or apart, by calls that validated them
\* against each other and not against the row: the row still converts, so GetValue never
\* has to fall back on its default for a setting that is there.
StoredValuesConvert == \A i \in DOMAIN rows : Valid(rows[i].type, rows[i].value)

\* A batch that reports success has got rid of every id, whatever other calls did.
BatchDeletesAll ==
    \A c \in Calls :
        call[c].op = "Delete" /\ call[c].pc = "ok" => call[c].ids \cap DOMAIN rows = {}

Renames(x, i) == x.id = i /\ x.pc \in Ends /\ x.key \notin CoreKeys \cup {None}

\* README: a built-in core setting cannot be deleted.  What holds is that one goes only
\* after a call has given its row another key.
CoreSettingsStay ==
    \A i \in retired \cap DOMAIN Initial :
        Initial[i].key \in CoreKeys => \E c \in Calls : Renames(call[c], i)
=============================================================================
