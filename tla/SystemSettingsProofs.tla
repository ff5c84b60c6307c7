------------------------ MODULE SystemSettingsProofs ------------------------
(* Theorems about SystemSettings, for any keys, types, values and calls.   *)
EXTENDS SystemSettings, TLAPS

\* A call that is about to write has validated what it writes.
Validated(x) == x.pc \in {"insert", "update"} => Valid(x.type, x.value)

\* What the fields of a call stand for at its steps.
Formed(x) ==
    /\ x.pc \in {"find", "update"} => x.id \in Ids
    /\ x.pc \in {"getByKey", "unique", "insert"} => x.key \in SettingKeys
    /\ x.pc = "getByKey" => x.op \in {"Set", "GetValue"}
    /\ x.pc \in {"findNext", "delete"} => x.op = "Delete"
    /\ x.op = "Delete" => x.pc \in {"findNext", "delete", "ok", "error"}

\* The ids a batch is done with without a failure are deleted for good, and the one it is
\* about to delete has been a row.
Batch(x) ==
    /\ x.pc = "delete" => x.id \in DOMAIN rows \cup retired
    /\ x.op = "Delete" /\ x.pc = "findNext" /\ ~ x.failed => x.ids \ x.todo \subseteq retired
    /\ x.op = "Delete" /\ x.pc = "delete" /\ ~ x.failed
            => (x.ids \ x.todo) \ {x.id} \subseteq retired
    /\ x.op = "Delete" /\ x.pc = "ok" => x.ids \subseteq retired

CallInv(x) == x \in Call /\ Validated(x) /\ Formed(x) /\ Batch(x)

TableInv ==
    /\ DOMAIN rows \subseteq Ids
    /\ rows \in [DOMAIN rows -> Row]
    /\ retired \subseteq Ids \ DOMAIN rows
    /\ StoredValuesConvert

\* A core setting of the installation is where it was, and no call has it marked for
\* deletion, unless a call has given it another key.
CoreHeld(i) ==
    \/ \E c \in Calls : Renames(call[c], i)
    \/ /\ i \in DOMAIN rows /\ rows[i].key \in CoreKeys
       /\ \A c \in Calls : ~ (call[c].pc = "delete" /\ call[c].id = i)

CoreInv == \A i \in DOMAIN Initial : Initial[i].key \in CoreKeys => CoreHeld(i)

SettingsInv ==
    /\ TableInv
    /\ call \in [Calls -> Call]
    /\ \A c \in Calls : CallInv(call[c])
    /\ CoreInv

-----------------------------------------------------------------------------
LEMMA IdleIsACall == CallInv(Idle)
  BY ValuesAssumption DEF CallInv, Validated, Formed, Batch, Idle, Call, Steps, Ends

\* A call that has moved to another step, and nothing else about it.
LEMMA Moved ==
    ASSUME NEW x \in Call, NEW pc \in {"idle"} \cup Steps \cup Ends
    PROVE  LET y == [x EXCEPT !.pc = pc] IN
           /\ y \in Call /\ y.pc = pc /\ y.op = x.op /\ y.id = x.id /\ y.ids = x.ids
           /\ y.todo = x.todo /\ y.key = x.key /\ y.type = x.type /\ y.value = x.value
           /\ y.failed = x.failed
  BY DEF Call

\* A step of one call that leaves the table alone keeps the invariant if the call is in
\* order after it and marks no core setting for deletion.
LEMMA LocalStep ==
    ASSUME SettingsInv, NEW c \in Calls, NEW new, CallInv(new), Step(c, new), Unwritten,
           call[c].pc \notin Ends,
           new.pc = "delete" => new.id \in DOMAIN rows /\ rows[new.id].key \notin CoreKeys
    PROVE  SettingsInv'
<1>1. call' \in [Calls -> Call] /\ call'[c] = new
  BY DEF SettingsInv, CallInv, Step
<1>2. \A d \in Calls : d # c => call'[d] = call[d]
  BY DEF SettingsInv, Step
<1>3. rows' = rows /\ retired' = retired
  BY DEF Unwritten
<1>4. TableInv'
  BY <1>3 DEF SettingsInv, TableInv, StoredValuesConvert, Valid
<1>5. ASSUME NEW d \in Calls PROVE CallInv(call[d])'
  BY <1>1, <1>2, <1>3 DEF SettingsInv, CallInv, Validated, Formed, Batch
<1>6. CoreInv'
  <2> SUFFICES ASSUME NEW i \in DOMAIN Initial, Initial[i].key \in CoreKeys PROVE CoreHeld(i)'
    BY DEF CoreInv
  <2>1. CoreHeld(i)
    BY DEF SettingsInv, CoreInv
  <2>2. CASE \E d \in Calls : Renames(call[d], i)
    BY <1>1, <1>2, <2>2 DEF CoreHeld, Renames
  <2>3. CASE ~ \E d \in Calls : Renames(call[d], i)
    BY <1>1, <1>2, <1>3, <2>1, <2>3 DEF CoreHeld
  <2> QED BY <2>2, <2>3
<1> QED BY <1>1, <1>4, <1>5, <1>6 DEF SettingsInv

LEMMA SettingsInit == Init => SettingsInv
<1> SUFFICES ASSUME Init PROVE SettingsInv
  OBVIOUS
<1>1. TableInv
  BY InitialAssumption DEF Init, TableInv, StoredValuesConvert, Valid
<1>2. \A c \in Calls : call[c] = Idle
  BY DEF Init
<1>3. call \in [Calls -> Call]
  BY IdleIsACall DEF Init, CallInv
<1>4. \A c \in Calls : CallInv(call[c])
  BY <1>2, IdleIsACall
<1>5. CoreInv
  BY <1>2, InitialAssumption DEF Init, CoreInv, CoreHeld, Idle
<1> QED BY <1>1, <1>3, <1>4, <1>5 DEF SettingsInv

-----------------------------------------------------------------------------
(* The steps that leave the table alone.                                   *)

LEMMA FailsKeeps ==
    ASSUME SettingsInv, NEW c \in Calls, Fails(c) PROVE SettingsInv'
<1> DEFINE x == call[c]
<1>1. x \in Call /\ CallInv(x) /\ x.pc \notin Ends /\ x.pc \in Steps \ {"findNext"} /\ Unwritten
  BY DEF Fails, SettingsInv, CallInv, Steps, Ends
<1>2. ASSUME NEW pc \in {"unique", "default", "error"}, Goto(c, pc),
             pc # "error" => x.pc = "getByKey"
      PROVE  SettingsInv'
  <2> DEFINE y == [x EXCEPT !.pc = pc]
  <2>1. /\ y \in Call /\ y.pc = pc /\ y.op = x.op /\ y.id = x.id /\ y.ids = x.ids
        /\ y.todo = x.todo /\ y.key = x.key /\ y.type = x.type /\ y.value = x.value
        /\ y.failed = x.failed
    BY <1>1, Moved DEF Steps, Ends
  <2>2. CallInv(y)
    BY <1>1, <1>2, <2>1 DEF CallInv, Validated, Formed, Batch
  <2>3. Step(c, y)
    BY <1>2 DEF Goto
  <2> HIDE DEF y
  <2> QED BY <1>1, <1>2, <2>1, <2>2, <2>3, LocalStep
<1>3. ASSUME x.pc = "delete",
             Step(c, [x EXCEPT !.pc = "findNext", !.id = None, !.failed = TRUE])
      PROVE  SettingsInv'
  <2> DEFINE y == [x EXCEPT !.pc = "findNext", !.id = None, !.failed = TRUE]
  <2>1. /\ y \in Call /\ y.pc = "findNext" /\ y.op = x.op /\ y.failed
    BY <1>1 DEF Call, Steps
  <2>2. CallInv(y)
    BY <1>1, <1>3, <2>1 DEF CallInv, Validated, Formed, Batch
  <2>3. Step(c, y)
    BY <1>3
  <2> HIDE DEF y
  <2> QED BY <1>1, <2>1, <2>2, <2>3, LocalStep
<1> QED BY <1>2, <1>3 DEF Fails

LEMMA BeginKeeps ==
    ASSUME SettingsInv, NEW c \in Calls, call[c].pc = "idle", NEW y, y \in Call, Unwritten,
           Step(c, y), y.pc \in {"unique", "find", "getByKey"},
           y.pc = "find" => y.id \in Ids,
           y.pc \in {"getByKey", "unique"} => y.key \in SettingKeys,
           y.pc = "getByKey" => y.op \in {"Set", "GetValue"},
           y.op # "Delete"
    PROVE  SettingsInv'
<1>1. y.pc # "ok" /\ y.pc # "delete" /\ CallInv(y)
  BY DEF CallInv, Validated, Formed, Batch
<1> QED BY <1>1, LocalStep DEF Ends

LEMMA BeginCreateKeeps ==
    ASSUME SettingsInv, NEW c \in Calls, NEW k \in SettingKeys, NEW t \in Types, NEW v \in Values,
           BeginCreate(c, k, t, v)
    PROVE  SettingsInv'
<1> DEFINE y == [Idle EXCEPT !.pc = "unique", !.op = "Create", !.key = k, !.type = t, !.value = v]
<1>1. y \in Call /\ y.pc = "unique" /\ y.key = k /\ y.op = "Create"
  BY DEF Idle, Call, Steps
<1>2. Step(c, y) /\ Unwritten /\ call[c].pc = "idle"
  BY DEF BeginCreate
<1> HIDE DEF y
<1> QED BY <1>1, <1>2, BeginKeeps

LEMMA BeginByKeyKeeps ==
    ASSUME SettingsInv, NEW c \in Calls, NEW op \in {"Set", "GetValue"}, NEW k \in SettingKeys,
           NEW t \in Types, NEW v \in Values, BeginByKey(c, op, k, t, v)
    PROVE  SettingsInv'
<1> DEFINE y == [Idle EXCEPT !.pc = "getByKey", !.op = op, !.key = k, !.type = t, !.value = v]
<1>1. y \in Call /\ y.pc = "getByKey" /\ y.op = op /\ y.key = k
  BY DEF Idle, Call, Steps
<1>2. Step(c, y) /\ Unwritten /\ call[c].pc = "idle"
  BY DEF BeginByKey
<1> HIDE DEF y
<1> QED BY <1>1, <1>2, BeginKeeps

LEMMA BeginUpdateKeeps ==
    ASSUME SettingsInv, NEW c \in Calls, NEW i \in Ids, NEW k \in SettingKeys \cup {None},
           NEW t \in Types \cup {None}, NEW v \in Values, BeginUpdate(c, i, k, t, v)
    PROVE  SettingsInv'
<1> DEFINE y == [Idle EXCEPT !.pc = "find", !.op = "Update", !.id = i, !.key = k,
                             !.type = t, !.value = v]
<1>1. y \in Call /\ y.pc = "find" /\ y.id = i /\ y.op = "Update"
  BY DEF Idle, Call, Steps
<1>2. Step(c, y) /\ Unwritten /\ call[c].pc = "idle"
  BY DEF BeginUpdate
<1> HIDE DEF y
<1> QED BY <1>1, <1>2, BeginKeeps

LEMMA BeginDeleteKeeps ==
    ASSUME SettingsInv, NEW c \in Calls, NEW ids \in SUBSET Ids, BeginDelete(c, ids)
    PROVE  SettingsInv'
<1> DEFINE y == [Idle EXCEPT !.pc = "findNext", !.op = "Delete", !.ids = ids, !.todo = ids]
<1>1. y \in Call /\ y.pc = "findNext" /\ y.op = "Delete" /\ y.ids = ids /\ y.todo = ids
  BY ValuesAssumption DEF Idle, Call, Steps
<1>2. Step(c, y) /\ Unwritten /\ call[c].pc = "idle"
  BY DEF BeginDelete
<1> HIDE DEF y
<1>3. CallInv(y)
  BY <1>1 DEF CallInv, Validated, Formed, Batch
<1> QED BY <1>1, <1>2, <1>3, LocalStep DEF Ends

\* Steps that only move a call on, to a write or to an end.
LEMMA GotoKeeps ==
    ASSUME SettingsInv, NEW c \in Calls, NEW pc \in {"insert", "update", "unique", "ok", "error",
                                                     "default", "panic"},
           Goto(c, pc), Unwritten, call[c].pc \in Steps,
           pc \in {"insert", "update"} => Valid(call[c].type, call[c].value),
           pc = "update" => call[c].id \in Ids,
           pc \in {"insert", "unique"} => call[c].key \in SettingKeys,
           call[c].op = "Delete" => pc \in {"ok", "error"},
           pc = "ok" /\ call[c].op = "Delete" => call[c].ids \subseteq retired
    PROVE  SettingsInv'
<1> DEFINE x == call[c]
           y == [x EXCEPT !.pc = pc]
<1>1. x \in Call /\ x.pc \notin Ends
  BY DEF SettingsInv, Steps, Ends
<1>2. /\ y \in Call /\ y.pc = pc /\ y.op = x.op /\ y.id = x.id /\ y.ids = x.ids
      /\ y.todo = x.todo /\ y.key = x.key /\ y.type = x.type /\ y.value = x.value
      /\ y.failed = x.failed
  BY <1>1, Moved DEF Steps, Ends
<1>3. CallInv(y)
  BY <1>2 DEF CallInv, Validated, Formed, Batch
<1>4. Step(c, y)
  BY DEF Goto
<1> HIDE DEF y
<1> QED BY <1>1, <1>2, <1>3, <1>4, LocalStep

LEMMA CheckUniqueKeeps ==
    ASSUME SettingsInv, NEW c \in Calls, CheckUnique(c) PROVE SettingsInv'
<1>1. /\ call[c] \in Call /\ call[c].pc = "unique" /\ call[c].key \in SettingKeys
      /\ call[c].op # "Delete"
  BY DEF SettingsInv, CheckUnique, CallInv, Formed
<1>2. call[c].id = None \/ call[c].id \in Ids
  BY <1>1 DEF Call
<1>3. CASE Goto(c, "error")
  BY <1>1, <1>3, GotoKeeps DEF CheckUnique, Steps
<1>4. CASE Goto(c, "insert") /\ Valid(call[c].type, call[c].value)
  BY <1>1, <1>4, GotoKeeps DEF CheckUnique, Steps
<1>5. CASE Goto(c, "update") /\ Valid(call[c].type, call[c].value) /\ call[c].id # None
  BY <1>1, <1>2, <1>5, GotoKeeps DEF CheckUnique, Steps
<1> QED BY <1>3, <1>4, <1>5 DEF CheckUnique

LEMMA FindKeeps ==
    ASSUME SettingsInv, NEW c \in Calls, Find(c) PROVE SettingsInv'
<1>1. /\ call[c] \in Call /\ call[c].pc = "find" /\ call[c].id \in Ids /\ Unwritten
      /\ call[c].op # "Delete"
  BY DEF SettingsInv, Find, CallInv, Formed
<1>2. CASE Goto(c, "unique") /\ call[c].key # None
  BY <1>1, <1>2, GotoKeeps DEF Steps, Call
<1>3. CASE Goto(c, "update") /\ Valid(call[c].type, call[c].value)
  BY <1>1, <1>3, GotoKeeps DEF Steps
<1>4. CASE Goto(c, "error")
  BY <1>1, <1>4, GotoKeeps DEF Steps
<1> QED BY <1>2, <1>3, <1>4 DEF Find

LEMMA FindDeletableKeeps ==
    ASSUME SettingsInv, NEW c \in Calls, NEW i \in Ids, FindDeletable(c, i) PROVE SettingsInv'
<1> DEFINE x == call[c]
           y == [x EXCEPT !.pc = "delete", !.id = i, !.todo = @ \ {i}]
<1>1. /\ x \in Call /\ CallInv(x) /\ x.pc = "findNext" /\ x.op = "Delete" /\ i \in DOMAIN rows
      /\ rows[i].key \notin CoreKeys
  BY DEF SettingsInv, FindDeletable, CallInv, Formed
<1>2. /\ y \in Call /\ y.pc = "delete" /\ y.op = x.op /\ y.id = i /\ y.ids = x.ids
      /\ y.todo = x.todo \ {i} /\ y.failed = x.failed
  BY <1>1 DEF Call, Steps
<1>3. Step(c, y) /\ Unwritten
  BY DEF FindDeletable
<1> HIDE DEF y
<1>4. CallInv(y)
  BY <1>1, <1>2 DEF CallInv, Validated, Formed, Batch
<1> QED BY <1>1, <1>2, <1>3, <1>4, LocalStep DEF Ends

LEMMA FindUndeletableKeeps ==
    ASSUME SettingsInv, NEW c \in Calls, NEW i \in Ids, FindUndeletable(c, i) PROVE SettingsInv'
<1> DEFINE x == call[c]
           y == [x EXCEPT !.todo = @ \ {i}, !.failed = TRUE]
<1>1. /\ x \in Call /\ CallInv(x) /\ x.pc = "findNext" /\ x.op = "Delete"
  BY DEF SettingsInv, FindUndeletable, CallInv, Formed
<1>2. /\ y \in Call /\ y.pc = "findNext" /\ y.op = "Delete" /\ y.failed
  BY <1>1 DEF Call
<1>3. Step(c, y) /\ Unwritten
  BY DEF FindUndeletable
<1> HIDE DEF y
<1>4. CallInv(y)
  BY <1>2 DEF CallInv, Validated, Formed, Batch
<1> QED BY <1>1, <1>2, <1>3, <1>4, LocalStep DEF Ends

LEMMA EndDeleteKeeps ==
    ASSUME SettingsInv, NEW c \in Calls, EndDelete(c) PROVE SettingsInv'
<1>1. /\ call[c] \in Call /\ CallInv(call[c]) /\ call[c].pc = "findNext" /\ call[c].op = "Delete"
      /\ call[c].todo = {} /\ Unwritten
  BY DEF SettingsInv, EndDelete, CallInv, Formed
<1>2. CASE call[c].failed /\ Goto(c, "error")
  BY <1>1, <1>2, GotoKeeps DEF Steps
<1>3. CASE ~ call[c].failed /\ Goto(c, "ok")
  BY <1>1, <1>3, GotoKeeps DEF Steps, CallInv, Batch
<1> QED BY <1>2, <1>3 DEF EndDelete

LEMMA FoundByKeyKeeps ==
    ASSUME SettingsInv, NEW c \in Calls, NEW i \in Ids, FoundByKey(c, i) PROVE SettingsInv'
<1> DEFINE x == call[c]
           y == [x EXCEPT !.pc = "find", !.id = i]
<1>1. x \in Call /\ CallInv(x) /\ x.pc = "getByKey" /\ Unwritten
  BY DEF SettingsInv, FoundByKey
<1>2. CASE x.op = "Set" /\ Step(c, y)
  <2>1. y \in Call /\ y.pc = "find" /\ y.id = i /\ y.op = x.op
    BY <1>1 DEF Call, Steps
  <2> HIDE DEF y
  <2>2. CallInv(y)
    BY <1>2, <2>1 DEF CallInv, Validated, Formed, Batch
  <2> QED BY <1>1, <1>2, <2>1, <2>2, LocalStep DEF Ends
<1>3. CASE x.op # "Set" /\ Goto(c, "ok")
  <2>1. x.op # "Delete"
    BY <1>1 DEF CallInv, Formed
  <2> QED BY <1>1, <1>3, <2>1, GotoKeeps DEF Steps
<1>4. CASE Goto(c, "default")
  <2>1. x.op # "Delete"
    BY <1>1 DEF CallInv, Formed
  <2> QED BY <1>1, <1>4, <2>1, GotoKeeps DEF Steps
<1> QED BY <1>2, <1>3, <1>4 DEF FoundByKey

LEMMA AbsentKeyKeeps ==
    ASSUME SettingsInv, NEW c \in Calls, AbsentKey(c) PROVE SettingsInv'
<1>1. call[c].op # "Delete"
  BY DEF SettingsInv, AbsentKey, CallInv, Formed
<1> QED BY <1>1, GotoKeeps DEF AbsentKey, Steps

-----------------------------------------------------------------------------
(* The writes.                                                             *)

\* A step of one call that writes keeps the invariant if the table is in order after it,
\* what was deleted stays so, the call ends or goes on with its batch, and a core setting
\* goes only with a call that ends as its renaming.
LEMMA WriteStep ==
    ASSUME SettingsInv, NEW c \in Calls, NEW new, new \in Call, Step(c, new),
           TableInv', retired \subseteq retired',
           DOMAIN rows \cup retired \subseteq (DOMAIN rows \cup retired)',
           call[c].pc \notin Ends, new.pc \in {"ok", "error", "findNext"},
           new.pc = "findNext" => new.op = "Delete",
           ~ new.failed /\ new.op = "Delete" =>
                new.pc = "findNext" /\ new.ids \ new.todo \subseteq retired',
           new.op = "Delete" => new.pc # "ok",
           \A i \in DOMAIN rows : rows[i].key \in CoreKeys =>
                Renames(new, i) \/ (i \in DOMAIN rows' /\ rows'[i].key \in CoreKeys)
                  \/ (call[c].pc = "delete" /\ call[c].id = i)
    PROVE  SettingsInv'
<1>1. call' \in [Calls -> Call] /\ call'[c] = new
  BY DEF SettingsInv, Step
<1>2. \A d \in Calls : d # c => call'[d] = call[d]
  BY DEF SettingsInv, Step
<1>3. CallInv(new)'
  BY DEF CallInv, Validated, Formed, Batch, Valid
<1>4. ASSUME NEW d \in Calls PROVE CallInv(call[d])'
  <2>1. CASE d = c
    BY <1>1, <1>3, <2>1 DEF CallInv, Validated, Formed, Batch
  <2>2. CASE d # c
    BY <1>2, <2>2 DEF SettingsInv, CallInv, Validated, Formed, Batch
  <2> QED BY <2>1, <2>2
<1>5. CoreInv'
  <2> SUFFICES ASSUME NEW i \in DOMAIN Initial, Initial[i].key \in CoreKeys PROVE CoreHeld(i)'
    BY DEF CoreInv
  <2>1. CoreHeld(i)
    BY DEF SettingsInv, CoreInv
  <2>2. CASE \E d \in Calls : Renames(call[d], i)
    BY <1>1, <1>2, <2>2 DEF CoreHeld, Renames
  <2>3. CASE ~ \E d \in Calls : Renames(call[d], i)
    <3>1. /\ i \in DOMAIN rows /\ rows[i].key \in CoreKeys
          /\ \A d \in Calls : ~ (call[d].pc = "delete" /\ call[d].id = i)
      BY <2>1, <2>3 DEF CoreHeld
    <3>2. \A d \in Calls : ~ (call'[d].pc = "delete" /\ call'[d].id = i)
      BY <1>1, <1>2, <3>1
    <3> QED BY <1>1, <3>1, <3>2 DEF CoreHeld
  <2> QED BY <2>2, <2>3
<1> QED BY <1>1, <1>4, <1>5 DEF SettingsInv

LEMMA InsertKeeps ==
    ASSUME SettingsInv, NEW c \in Calls, NEW i \in Ids, NEW acked \in BOOLEAN, Insert(c, i, acked)
    PROVE  SettingsInv'
<1> DEFINE x == call[c]
           pc == IF acked THEN "ok" ELSE "error"
           y == [x EXCEPT !.pc = pc]
           row == [key |-> x.key, type |-> x.type, value |-> x.value]
<1>1. /\ x \in Call /\ x.pc = "insert" /\ x.key \in SettingKeys /\ Valid(x.type, x.value)
      /\ i \notin DOMAIN rows \cup retired
  BY DEF SettingsInv, Insert, CallInv, Formed, Validated
<1>2. x.op # "Delete" /\ pc \in {"ok", "error"}
  BY <1>1 DEF SettingsInv, CallInv, Formed
<1> HIDE DEF pc
<1>3. /\ y \in Call /\ y.pc = pc /\ y.op = x.op /\ y.failed = x.failed
  BY <1>1, <1>2, Moved DEF Steps, Ends
<1>4. row \in Row
  BY <1>1, ValuesAssumption DEF Row, Call, Valid
<1>5. /\ DOMAIN rows' = DOMAIN rows \cup {i} /\ rows'[i] = row
      /\ \A j \in DOMAIN rows : rows'[j] = rows[j]
      /\ rows' = [j \in DOMAIN rows' |-> rows'[j]]
      /\ retired' = retired
  BY <1>1 DEF Insert
<1>6. TableInv'
  BY <1>1, <1>4, <1>5 DEF SettingsInv, TableInv, StoredValuesConvert, Valid
<1>7. Step(c, y)
  BY DEF Insert, Goto, pc
<1> HIDE DEF y
<1> QED BY <1>1, <1>2, <1>3, <1>5, <1>6, <1>7, WriteStep DEF Ends

LEMMA UpdateKeeps ==
    ASSUME SettingsInv, NEW c \in Calls, NEW acked \in BOOLEAN, Update(c, acked)
    PROVE  SettingsInv'
<1> DEFINE x == call[c]
           pc == IF acked THEN "ok" ELSE "error"
           y == [x EXCEPT !.pc = pc]
<1>1. x \in Call /\ x.pc = "update" /\ x.id \in Ids /\ Valid(x.type, x.value)
  BY DEF SettingsInv, Update, CallInv, Formed, Validated
<1>2. x.op # "Delete" /\ pc \in {"ok", "error"}
  BY <1>1 DEF SettingsInv, CallInv, Formed
<1> HIDE DEF pc
<1>3. /\ y \in Call /\ y.pc = pc /\ y.op = x.op /\ y.failed = x.failed
      /\ y.id = x.id /\ y.key = x.key
  BY <1>1, <1>2, Moved DEF Steps, Ends
<1>4. x.key \in SettingKeys \cup {None} /\ x.type \in Types /\ x.value \in Values
  BY <1>1, ValuesAssumption DEF Call, Valid
<1>5. /\ DOMAIN rows' = DOMAIN rows /\ rows' = [j \in DOMAIN rows' |-> rows'[j]]
      /\ \A j \in DOMAIN rows : j # x.id => rows'[j] = rows[j]
      /\ x.id \in DOMAIN rows =>
            rows'[x.id] = [key   |-> IF x.key = None THEN rows[x.id].key ELSE x.key,
                           type  |-> x.type,
                           value |-> IF x.value = Empty THEN rows[x.id].value ELSE x.value]
      /\ retired' = retired
  BY DEF Update, Write
<1>6. \A j \in DOMAIN rows : rows[j] \in Row /\ Valid(rows[j].type, rows[j].value)
  BY DEF SettingsInv, TableInv, StoredValuesConvert
<1>7. \A j \in DOMAIN rows : rows'[j] \in Row
  BY <1>4, <1>5, <1>6 DEF Row
<1>8. \A j \in DOMAIN rows : Valid(rows'[j].type, rows'[j].value)
  <2> SUFFICES ASSUME NEW j \in DOMAIN rows PROVE Valid(rows'[j].type, rows'[j].value)
    OBVIOUS
  <2>1. CASE j # x.id
    BY <1>5, <1>6, <2>1
  <2>2. CASE j = x.id /\ x.value = Empty
    <3>1. x.type = Text
      BY <1>1, <1>4, <2>2, ValuesAssumption DEF Valid
    <3>2. rows[j].value \in Values
      BY <1>6 DEF Row
    <3>3. rows'[j].type = Text /\ rows'[j].value = rows[j].value
      BY <1>5, <2>2, <3>1
    <3> QED BY <3>2, <3>3, ValuesAssumption DEF Valid
  <2>3. CASE j = x.id /\ x.value # Empty
    BY <1>1, <1>5, <2>3 DEF Valid
  <2> QED BY <2>1, <2>2, <2>3
<1>9. TableInv'
  BY <1>5, <1>7, <1>8 DEF SettingsInv, TableInv, StoredValuesConvert, Valid
<1>10. \A j \in DOMAIN rows : rows[j].key \in CoreKeys =>
            Renames(y, j) \/ (j \in DOMAIN rows' /\ rows'[j].key \in CoreKeys)
  <2> SUFFICES ASSUME NEW j \in DOMAIN rows, rows[j].key \in CoreKeys, ~ Renames(y, j)
               PROVE  j \in DOMAIN rows' /\ rows'[j].key \in CoreKeys
    OBVIOUS
  <2>1. CASE j # x.id
    BY <1>5, <2>1
  <2>2. CASE j = x.id
    BY <1>2, <1>3, <1>5, <2>2 DEF Renames, Ends
  <2> QED BY <2>1, <2>2
<1>11. Step(c, y)
  BY DEF Update, Goto, pc
<1> HIDE DEF y
<1> QED BY <1>1, <1>2, <1>3, <1>5, <1>9, <1>10, <1>11, WriteStep DEF Ends

LEMMA DeleteKeeps ==
    ASSUME SettingsInv, NEW c \in Calls, NEW acked \in BOOLEAN, Delete(c, acked)
    PROVE  SettingsInv'
<1> DEFINE x == call[c]
           y == [x EXCEPT !.pc = "findNext", !.id = None, !.failed = @ \/ ~ acked]
<1>1. x \in Call /\ CallInv(x) /\ x.pc = "delete" /\ x.op = "Delete"
  BY DEF SettingsInv, Delete, CallInv, Formed
<1>2. (x.failed \/ ~ acked) \in BOOLEAN
  BY <1>1 DEF Call
<1>3. /\ y \in Call /\ y.pc = "findNext" /\ y.op = "Delete" /\ y.ids = x.ids /\ y.todo = x.todo
      /\ y.failed = (x.failed \/ ~ acked)
  BY <1>1, <1>2 DEF Call, Steps
<1>4. /\ rows' = [j \in DOMAIN rows \ {x.id} |-> rows[j]]
      /\ retired' = retired \cup ({x.id} \cap DOMAIN rows)
  BY DEF Delete
<1>5. TableInv'
  BY <1>4 DEF SettingsInv, TableInv, StoredValuesConvert, Valid
<1>6. ~ y.failed => y.ids \ y.todo \subseteq retired'
  BY <1>1, <1>3, <1>4 DEF CallInv, Batch
<1>7. Step(c, y)
  BY DEF Delete
<1> HIDE DEF y
<1> QED BY <1>1, <1>3, <1>4, <1>5, <1>6, <1>7, WriteStep DEF Ends

-----------------------------------------------------------------------------
LEMMA SettingsStep == SettingsInv /\ [Next]_vars => SettingsInv'
<1> SUFFICES ASSUME SettingsInv, [Next]_vars PROVE SettingsInv'
  OBVIOUS
<1>1. CASE UNCHANGED vars
  BY <1>1 DEF vars, SettingsInv, TableInv, StoredValuesConvert, Valid, CallInv, Validated, Formed,
              Batch, CoreInv, CoreHeld
<1>2. CASE Next
  BY <1>2, FailsKeeps, BeginCreateKeeps, BeginByKeyKeeps, BeginUpdateKeeps, BeginDeleteKeeps,
     CheckUniqueKeeps, FindKeeps, FindDeletableKeeps, FindUndeletableKeeps, EndDeleteKeeps,
     FoundByKeyKeeps, AbsentKeyKeeps, InsertKeeps, UpdateKeeps, DeleteKeeps, ValuesAssumption,
     TypesAssumption DEF Next
<1> QED BY <1>1, <1>2

LEMMA SettingsInvariant == Spec => []SettingsInv
  BY SettingsInit, SettingsStep, PTL DEF Spec

\* Rows and calls keep their types, and an id that was deleted is not handed out again.
THEOREM SettingsTyping == Spec => []TypeOK
<1>1. SettingsInv => TypeOK
  BY DEF SettingsInv, TableInv, TypeOK
<1> QED BY <1>1, SettingsInvariant, PTL

\* No mix of partial updates leaves a value under a type that it does not convert to.
THEOREM ValuesConvert == Spec => []StoredValuesConvert
<1>1. SettingsInv => StoredValuesConvert
  BY DEF SettingsInv, TableInv
<1> QED BY <1>1, SettingsInvariant, PTL

\* Success of a batch means that all its ids are gone, and they stay so.
THEOREM BatchesDelete == Spec => []BatchDeletesAll
<1>1. SettingsInv => BatchDeletesAll
  BY DEF SettingsInv, TableInv, CallInv, Batch, BatchDeletesAll
<1> QED BY <1>1, SettingsInvariant, PTL

\* A core setting of the installation is deleted only after a call renamed it.
THEOREM CoreSettingsAreKept == Spec => []CoreSettingsStay
<1>1. SettingsInv => CoreSettingsStay
  BY DEF SettingsInv, TableInv, CoreInv, CoreHeld, CoreSettingsStay
<1> QED BY <1>1, SettingsInvariant, PTL
=============================================================================
