----------------------------- MODULE UsersProofs -----------------------------
(* Theorems about Users, for any ids, names, roles and calls.              *)
EXTENDS Users, NaturalsInduction, WellFoundedInduction, TLAPS

Existing == DOMAIN users \cup retired

Assigning == {"findUser", "readRoles", "assign"}

\* The steps of a call that has made its last write to the row of the user.
Past == Assigning \cup Ends

Columns == {"password", "login"}

Requested == [password : Passwords \X By, login : Nat \X By]

\* What the fields of a call stand for at its steps.
Formed(x) ==
    /\ x.pc = "idle" => x.op = "none"
    /\ x.pc = "insert" =>
        x.op = "Create" /\ x.id = None /\ x.name \in Names /\ x.password \in Passwords
    /\ x.op = "Create" => x.pc \in {"insert"} \cup Past /\ x.roles \in RoleSets /\ x.roles # {}
    /\ x.pc \in {"find", "write"} => x.op = "Update" /\ x.id \in Ids
    /\ x.pc = "write" => x.read \in Row /\ x.base \in Requested
    /\ x.pc \in Assigning =>
        x.op \in {"Create", "Update", "Assign"} /\ x.id \in Ids /\ x.roles \in RoleSets
    /\ x.pc \in {"readRoles", "assign"} => x.id \in Existing
    /\ x.op = "Delete" => x.pc \in {"delete"} \cup Ends
    /\ x.pc = "delete" => x.op = "Delete"
    /\ x.pc \in {"lookup", "resolve", "record"} => x.op = "Login"
    /\ x.pc \in {"resolve", "record"} => x.id \in Ids

\* What a batch is done with without a failure is deleted for good.
Batch(x) ==
    x.op = "Delete" =>
        /\ x.ids \subseteq Existing
        /\ x.pc = "delete" /\ ~ x.failed => x.ids \ x.todo \subseteq retired
        /\ x.pc = "ok" => x.ids \subseteq retired

TableInv ==
    /\ DOMAIN users \subseteq Ids
    /\ users \in [DOMAIN users -> Row]
    /\ retired \subseteq Ids \ DOMAIN users
    /\ userRoles \subseteq Existing \X Roles
    /\ DOMAIN Initial \subseteq Existing
    /\ time \in Nat
    /\ DOMAIN users \subseteq DOMAIN asked
    /\ asked \in [DOMAIN asked -> Requested]

CallsInv ==
    /\ call \in [Calls -> Call]
    /\ \A c \in Calls : Formed(call[c]) /\ Batch(call[c])

\* Who has set a column has made its write, so nobody sets a column twice.
Settled(by) == \A c \in Calls : by = c => call[c].pc \in Past

\* A call about to write back a column that nobody has set since it read the row writes what
\* was last asked for, unless that had been undone when it read.
Fresh(x) ==
    x.pc = "write" =>
        /\ \A col \in Columns : Settled(x.base[col][2])
        /\ x.id \in DOMAIN users =>
            \A col \in Columns :
                asked[x.id][col] = x.base[col] =>
                    x.read[col] = x.base[col][1] \/ <<x.id, col>> \in undone

HistoryInv ==
    /\ \A i \in DOMAIN users, col \in Columns : Settled(asked[i][col][2])
    /\ \A c \in Calls : Fresh(call[c])
    /\ LastRequestStands

\* While a creation is on its way to the assignment, its user has no roles but those another
\* call was about.
Unassigned(x) ==
    x.op = "Create" /\ x.pc \in Assigning =>
        \/ \E d \in Calls : ForRolesOf(d, x.id)
        \/ RolesOf(x.id) = {} /\ (x.pc = "assign" => x.seen = {})

RolesInv ==
    /\ \A c \in Calls :
        call[c].op = "Create" /\ call[c].id # None => call[c].id \in Existing \ DOMAIN Initial
    /\ \A c, d \in Calls :
        /\ call[c].op = "Create" /\ call[d].op = "Create"
        /\ call[c].id # None /\ call[c].id = call[d].id
        => c = d
    /\ \A c \in Calls : Unassigned(call[c])
    /\ UsersHaveRoles

UsersInv == TableInv /\ CallsInv /\ HistoryInv /\ RolesInv

-----------------------------------------------------------------------------
LEMMA IdleIsACall == Idle \in Call /\ Formed(Idle) /\ Batch(Idle) /\ Fresh(Idle) /\ Unassigned(Idle)
  BY DEF Idle, Call, Formed, Batch, Fresh, Unassigned, Steps, Ends, Past, Assigning

LEMMA InitialRequests ==
    ASSUME NEW row \in Row, NEW c \in By PROVE Given(row, c) \in Requested
  BY DEF Row, Given, Requested

LEMMA UsersInit == Init => UsersInv
<1> SUFFICES ASSUME Init PROVE UsersInv
  OBVIOUS
<1>1. TableInv
  <2>1. asked \in [DOMAIN asked -> Requested]
    BY InitialAssumption, InitialRequests DEF Init, By
  <2> QED BY <2>1, InitialAssumption DEF Init, TableInv, Existing
<1>2. \A c \in Calls : call[c] = Idle
  BY DEF Init
<1>3. CallsInv
  BY <1>2, IdleIsACall DEF Init, CallsInv
<1>4. HistoryInv
  <2>1. ASSUME NEW i \in DOMAIN users, NEW col \in Columns
        PROVE  asked[i][col][2] = None /\ users[i][col] = asked[i][col][1]
    BY DEF Init, Given, Columns
  <2>2. Settled(None)
    BY NoneAssumption DEF Settled
  <2> QED BY <1>2, <2>1, <2>2, IdleIsACall DEF HistoryInv, LastRequestStands, Columns
<1>5. RolesInv
  BY <1>2, IdleIsACall DEF RolesInv, UsersHaveRoles, Idle, Init
<1> QED BY <1>1, <1>3, <1>4, <1>5 DEF UsersInv

\* A call stays one when one of its fields is set to something of its type.
LEMMA CallEdits ==
    ASSUME NEW x \in Call
    PROVE  /\ \A pc \in {"idle"} \cup Steps \cup Ends : [x EXCEPT !.pc = pc] \in Call
           /\ \A i \in Ids : [x EXCEPT !.id = i] \in Call
           /\ \A todo \in SUBSET Ids : [x EXCEPT !.todo = todo] \in Call
           /\ \A row \in Row : [x EXCEPT !.read = row] \in Call
           /\ \A base \in Requested : [x EXCEPT !.base = base] \in Call
           /\ \A seen \in SUBSET Roles : [x EXCEPT !.seen = seen] \in Call
           /\ \A code \in Roles \cup {None, Guest} : [x EXCEPT !.code = code] \in Call
           /\ \A failed \in BOOLEAN : [x EXCEPT !.failed = failed] \in Call
<1>1. \A pc \in {"idle"} \cup Steps \cup Ends : [x EXCEPT !.pc = pc] \in Call
  BY DEF Call
<1>2. \A i \in Ids : [x EXCEPT !.id = i] \in Call
  BY DEF Call
<1>3. \A todo \in SUBSET Ids : [x EXCEPT !.todo = todo] \in Call
  BY DEF Call
<1>4. \A row \in Row : [x EXCEPT !.read = row] \in Call
  BY DEF Call
<1>5. \A base \in Requested : [x EXCEPT !.base = base] \in Call
  BY DEF Call, Requested
<1>6. \A seen \in SUBSET Roles : [x EXCEPT !.seen = seen] \in Call
  BY DEF Call
<1>7. \A code \in Roles \cup {None, Guest} : [x EXCEPT !.code = code] \in Call
  BY DEF Call
<1>8. \A failed \in BOOLEAN : [x EXCEPT !.failed = failed] \in Call
  BY DEF Call
<1> QED BY <1>1, <1>2, <1>3, <1>4, <1>5, <1>6, <1>7, <1>8

-----------------------------------------------------------------------------
(* Steps that change nothing but one call.                                 *)

\* A call keeps the roles it is about, and does not return to before its write.
Continues(x, y) ==
    /\ x.op \in {"Update", "Assign"} => y.op = x.op /\ y.id = x.id /\ y.roles = x.roles
    /\ x.pc \in Past => y.pc \in Past

\* A creation moves on towards its assignment, and fails or reads the roles on the way.
CreationMoves(x, y) ==
    y.op = "Create" =>
        /\ y.pc # "ok"
        /\ y.id # None => x.op = "Create" /\ y.id = x.id
        /\ y.pc \in Assigning =>
            x.op = "Create" /\ x.pc \in Assigning /\ y.id = x.id
        /\ y.pc = "assign" => y.seen = RolesOf(y.id)

\* Whatever a call does, the others keep the roles they are about.
LEMMA ForRolesStays ==
    ASSUME CallsInv, NEW c \in Calls, NEW y, Step(c, y), Continues(call[c], y), NEW i,
           NEW d \in Calls, ForRolesOf(d, i)
    PROVE  ForRolesOf(d, i)'
<1>1. CASE d = c
  <2>1. call'[c] = y
    BY DEF CallsInv, Step
  <2> QED BY <1>1, <2>1 DEF ForRolesOf, Continues
<1>2. CASE d # c
  BY <1>2 DEF CallsInv, Step, ForRolesOf
<1> QED BY <1>1, <1>2

LEMMA SettledStays ==
    ASSUME CallsInv, NEW c \in Calls, NEW y, Step(c, y), Continues(call[c], y), NEW by, Settled(by)
    PROVE  \A d \in Calls : by = d => call'[d].pc \in Past
  BY DEF CallsInv, Step, Settled, Continues

\* A step that leaves the roles alone and creates nobody.
LEMMA RolesKept ==
    ASSUME TableInv, CallsInv, RolesInv, NEW c \in Calls, NEW y, Step(c, y),
           Continues(call[c], y), CreationMoves(call[c], y),
           call[c].op = "Create" => y.op = "Create" /\ y.id = call[c].id,
           userRoles' = userRoles, DOMAIN users' \subseteq DOMAIN users, Existing \subseteq Existing'
    PROVE  RolesInv'
<1>1. call'[c] = y /\ \A d \in Calls : d # c => call'[d] = call[d]
  BY DEF CallsInv, Step
<1>2. \A d \in Calls :
        call'[d].op = "Create" /\ call'[d].id # None =>
            call[d].op = "Create" /\ call[d].id = call'[d].id
  BY <1>1 DEF CreationMoves
<1>3. ASSUME NEW i, NEW d \in Calls, ForRolesOf(d, i) PROVE ForRolesOf(d, i)'
  BY <1>3, ForRolesStays
<1>4. ASSUME NEW d \in Calls PROVE Unassigned(call[d])'
  <2> SUFFICES ASSUME call'[d].op = "Create", call'[d].pc \in Assigning
               PROVE  \/ \E e \in Calls : ForRolesOf(e, call[d].id)'
                      \/ (RolesOf(call[d].id) = {} /\ (call[d].pc = "assign" => call[d].seen = {}))'
    BY DEF Unassigned
  <2>1. call[d].op = "Create" /\ call[d].pc \in Assigning /\ call[d].id = call'[d].id
    BY <1>1 DEF CreationMoves
  <2>2. CASE \E e \in Calls : ForRolesOf(e, call[d].id)
    BY <1>3, <2>1, <2>2
  <2>3. CASE ~ \E e \in Calls : ForRolesOf(e, call[d].id)
    <3>1. RolesOf(call[d].id) = {} /\ (call[d].pc = "assign" => call[d].seen = {})
      BY <2>1, <2>3 DEF RolesInv, Unassigned
    <3> QED BY <1>1, <2>1, <3>1 DEF CreationMoves, RolesOf
  <2> QED BY <2>2, <2>3
<1>5. UsersHaveRoles'
  <2> SUFFICES ASSUME NEW i \in DOMAIN users \ DOMAIN Initial, RolesOf(i) = {}
               PROVE  \E d \in Calls :
                          \/ call'[d].op = "Create" /\ call'[d].id = i /\ call'[d].pc # "ok"
                          \/ ForRolesOf(d, i)'
    BY DEF UsersHaveRoles, RolesOf, At
  <2>1. PICK d \in Calls :
          \/ call[d].op = "Create" /\ call[d].id = i /\ call[d].pc # "ok"
          \/ ForRolesOf(d, i)
    BY DEF RolesInv, UsersHaveRoles, At
  <2>2. CASE ForRolesOf(d, i)
    BY <1>3, <2>2
  <2>3. CASE call[d].op = "Create" /\ call[d].id = i /\ call[d].pc # "ok"
    BY <1>1, <2>3 DEF CreationMoves
  <2> QED BY <2>1, <2>2, <2>3
<1> QED BY <1>2, <1>4, <1>5 DEF RolesInv

LEMMA LocalStep ==
    ASSUME UsersInv, NEW c \in Calls, NEW y, Step(c, y), Reads,
           y \in Call, Formed(y), Batch(y), Fresh(y),
           Continues(call[c], y), CreationMoves(call[c], y),
           call[c].op = "Create" => y.op = "Create" /\ y.id = call[c].id
    PROVE  UsersInv'
<1>0. TableInv /\ CallsInv /\ HistoryInv /\ RolesInv
  BY DEF UsersInv
<1>1. call'[c] = y /\ call' \in [Calls -> Call]
  BY <1>0 DEF CallsInv, Step
<1>2. \A d \in Calls : d # c => call'[d] = call[d]
  BY <1>0 DEF CallsInv, Step
<1>3. /\ users' = users /\ retired' = retired /\ userRoles' = userRoles
      /\ time' = time /\ asked' = asked /\ undone' = undone
  BY DEF Reads, Rows, History
<1>4. TableInv'
  BY <1>0, <1>3 DEF TableInv, Existing
<1>5. CallsInv'
  <2>1. ASSUME NEW d \in Calls PROVE Formed(call[d])' /\ Batch(call[d])'
    BY <1>0, <1>1, <1>2, <1>3 DEF CallsInv, Formed, Batch, Existing
  <2> QED BY <1>1, <2>1 DEF CallsInv
<1>7. HistoryInv'
  <2>1. ASSUME NEW i \in DOMAIN users, NEW col \in Columns PROVE Settled(asked[i][col][2])'
    <3>1. Settled(asked[i][col][2])
      BY <1>0 DEF HistoryInv
    <3>2. (asked[i][col][2])' = asked[i][col][2]
      BY <1>3
    <3> QED BY <3>1, <3>2, <1>0, SettledStays DEF Settled
  <2>2. ASSUME NEW d \in Calls PROVE Fresh(call[d])'
    <3>1. Fresh(call'[d])
      BY <1>0, <1>1, <1>2 DEF HistoryInv
    <3>2. ASSUME call'[d].pc = "write", NEW col \in Columns, NEW e \in Calls,
                 call'[d].base[col][2] = e
          PROVE  call'[e].pc \in Past
      <4>1. call[e].pc \in Past
        BY <3>1, <3>2 DEF Fresh, Settled
      <4> QED BY <4>1, <1>1, <1>2 DEF Continues
    <3>3. ASSUME call'[d].pc = "write", call'[d].id \in DOMAIN users, NEW col \in Columns,
                 asked[call'[d].id][col] = call'[d].base[col]
          PROVE  call'[d].read[col] = call'[d].base[col][1] \/ <<call'[d].id, col>> \in undone
      BY <3>1, <3>3 DEF Fresh
    <3>4. call'[d].pc = "write" => \A col \in Columns : Settled(call[d].base[col][2])'
      BY <3>2 DEF Settled
    <3> QED BY <1>3, <3>3, <3>4 DEF Fresh
  <2>3. LastRequestStands'
    BY <1>0, <1>3 DEF HistoryInv, LastRequestStands
  <2> QED BY <1>3, <2>1, <2>2, <2>3 DEF HistoryInv
<1>8. RolesInv'
  BY <1>0, <1>3, RolesKept DEF Existing
<1> QED BY <1>4, <1>5, <1>7, <1>8 DEF UsersInv
-----------------------------------------------------------------------------
(* The steps that leave the tables alone.                                  *)

LEMMA BeginKeeps ==
    ASSUME UsersInv, NEW c \in Calls, call[c].pc = "idle", NEW y, Step(c, y), Reads,
           y \in Call, Formed(y), Batch(y),
           y.pc \in {"insert", "find", "findUser", "delete", "lookup"},
           y.op = "Create" => y.pc = "insert" /\ y.id = None
    PROVE  UsersInv'
<1>1. call[c].op = "none"
  BY DEF UsersInv, CallsInv, Formed
<1>2. Continues(call[c], y) /\ CreationMoves(call[c], y) /\ Fresh(y)
  BY <1>1 DEF Continues, CreationMoves, Fresh, Past, Assigning, Ends
<1> QED BY <1>1, <1>2, LocalStep

LEMMA BeginCreateKeeps ==
    ASSUME UsersInv, NEW c \in Calls, NEW n \in Names, NEW p \in Passwords, NEW rs \in RoleSets,
           BeginCreate(c, n, p, rs)
    PROVE  UsersInv'
<1> DEFINE y == [Idle EXCEPT !.pc = "insert", !.op = "Create", !.name = n, !.password = p,
                             !.roles = rs]
<1>1. /\ y \in Call /\ y.pc = "insert" /\ y.op = "Create" /\ y.id = None /\ y.name = n
      /\ y.password = p /\ y.roles = rs
  BY DEF Idle, Call, Steps
<1>2. Step(c, y) /\ Reads /\ call[c].pc = "idle" /\ rs # {}
  BY DEF BeginCreate, At
<1> HIDE DEF y
<1>3. Formed(y) /\ Batch(y)
  BY <1>1, <1>2 DEF Formed, Batch, Past, Assigning, Ends
<1> QED BY <1>1, <1>2, <1>3, BeginKeeps

LEMMA BeginUpdateKeeps ==
    ASSUME UsersInv, NEW c \in Calls, NEW i \in Ids, NEW n \in Names \cup {None},
           NEW p \in Passwords \cup {None}, NEW rs \in RoleSets \cup {None},
           BeginUpdate(c, i, n, p, rs)
    PROVE  UsersInv'
<1> DEFINE y == [Idle EXCEPT !.pc = "find", !.op = "Update", !.id = i, !.name = n,
                             !.password = p, !.roles = rs]
<1>1. y \in Call /\ y.pc = "find" /\ y.op = "Update" /\ y.id = i
  BY DEF Idle, Call, Steps
<1>2. Step(c, y) /\ Reads /\ call[c].pc = "idle"
  BY DEF BeginUpdate, At
<1> HIDE DEF y
<1>3. Formed(y) /\ Batch(y)
  BY <1>1 DEF Formed, Batch, Assigning
<1> QED BY <1>1, <1>2, <1>3, BeginKeeps

LEMMA BeginAssignKeeps ==
    ASSUME UsersInv, NEW c \in Calls, NEW i \in Ids, NEW rs \in RoleSets, BeginAssign(c, i, rs)
    PROVE  UsersInv'
<1> DEFINE y == [Idle EXCEPT !.pc = "findUser", !.op = "Assign", !.id = i, !.roles = rs]
<1>1. y \in Call /\ y.pc = "findUser" /\ y.op = "Assign" /\ y.id = i /\ y.roles = rs
  BY DEF Idle, Call, Steps
<1>2. Step(c, y) /\ Reads /\ call[c].pc = "idle"
  BY DEF BeginAssign, At
<1> HIDE DEF y
<1>3. Formed(y) /\ Batch(y)
  BY <1>1 DEF Formed, Batch, Assigning
<1> QED BY <1>1, <1>2, <1>3, BeginKeeps

LEMMA BeginDeleteKeeps ==
    ASSUME UsersInv, NEW c \in Calls, NEW ids \in SUBSET Ids, BeginDelete(c, ids)
    PROVE  UsersInv'
<1> DEFINE y == [Idle EXCEPT !.pc = "delete", !.op = "Delete", !.todo = ids,
                             !.ids = ids \cap DOMAIN users]
<1>1. /\ y \in Call /\ y.pc = "delete" /\ y.op = "Delete" /\ y.todo = ids
      /\ y.ids = ids \cap DOMAIN users
  BY DEF Idle, Call, Steps
<1>2. Step(c, y) /\ Reads /\ call[c].pc = "idle"
  BY DEF BeginDelete, At
<1> HIDE DEF y
<1>3. Formed(y) /\ Batch(y)
  BY <1>1 DEF Formed, Batch, Assigning, Existing
<1> QED BY <1>1, <1>2, <1>3, BeginKeeps

LEMMA BeginLoginKeeps ==
    ASSUME UsersInv, NEW c \in Calls, NEW n \in Names, NEW p \in Passwords, BeginLogin(c, n, p)
    PROVE  UsersInv'
<1> DEFINE y == [Idle EXCEPT !.pc = "lookup", !.op = "Login", !.name = n, !.password = p]
<1>1. y \in Call /\ y.pc = "lookup" /\ y.op = "Login"
  BY DEF Idle, Call, Steps
<1>2. Step(c, y) /\ Reads /\ call[c].pc = "idle"
  BY DEF BeginLogin, At
<1> HIDE DEF y
<1>3. Formed(y) /\ Batch(y)
  BY <1>1 DEF Formed, Batch, Assigning
<1> QED BY <1>1, <1>2, <1>3, BeginKeeps

\* A call that goes on without having learned anything, or ends.
LEMMA GotoKeeps ==
    ASSUME UsersInv, NEW c \in Calls, NEW pc \in {"readRoles", "ok", "error"}, Goto(c, pc), Reads,
           call[c].pc \in Steps,
           pc = "readRoles" => call[c].pc = "findUser" /\ call[c].id \in Existing,
           pc = "ok" => call[c].op # "Create",
           pc = "ok" /\ call[c].op = "Delete" => call[c].ids \subseteq retired
    PROVE  UsersInv'
<1> DEFINE x == call[c]
           y == [x EXCEPT !.pc = pc]
<1>1. x \in Call /\ Formed(x) /\ Batch(x)
  BY DEF UsersInv, CallsInv
<1>2. /\ y \in Call /\ y.pc = pc /\ y.op = x.op /\ y.id = x.id /\ y.ids = x.ids
      /\ y.todo = x.todo /\ y.roles = x.roles /\ y.failed = x.failed
  BY <1>1 DEF Call, Steps, Ends
<1>3. Step(c, y)
  BY DEF Goto
<1> HIDE DEF y
<1>4. Formed(y) /\ Batch(y) /\ Fresh(y)
  BY <1>1, <1>2 DEF Formed, Batch, Fresh, Past, Assigning, Ends
<1>5. Continues(x, y) /\ CreationMoves(x, y)
  BY <1>2 DEF Continues, CreationMoves, Past, Assigning, Ends
<1> QED BY <1>2, <1>3, <1>4, <1>5, LocalStep

LEMMA FailsKeeps ==
    ASSUME UsersInv, NEW c \in Calls, Fails(c) PROVE UsersInv'
<1>1. call[c] \in Call /\ Formed(call[c]) /\ Batch(call[c]) /\ call[c].pc \in Steps /\ Reads
  BY DEF Fails, UsersInv, CallsInv
<1>2. CASE At(c, "record") /\ Goto(c, "ok")
  BY <1>1, <1>2, GotoKeeps DEF At, Formed
<1>3. CASE call[c].pc \notin {"record", "delete"} /\ Goto(c, "error")
  BY <1>1, <1>3, GotoKeeps
<1>4. ASSUME At(c, "delete"), NEW i \in call[c].todo,
             Step(c, [call[c] EXCEPT !.todo = @ \ {i}, !.failed = TRUE])
      PROVE  UsersInv'
  <2> DEFINE x == call[c]
             y == [x EXCEPT !.todo = @ \ {i}, !.failed = TRUE]
  <2>0. x.todo \ {i} \in SUBSET Ids
    BY <1>1 DEF Call
  <2>1. y \in Call
    <3> DEFINE z == [x EXCEPT !.todo = @ \ {i}]
    <3>1. z \in Call
      BY <1>1, <2>0, CallEdits DEF Steps, Ends
    <3> HIDE DEF z
    <3>2. [z EXCEPT !.failed = TRUE] \in Call
      BY <3>1, <1>1, <2>0, CallEdits
    <3> QED BY <3>2 DEF z
  <2>2. /\ y.pc = x.pc /\ y.op = x.op /\ y.ids = x.ids /\ y.failed /\ y.id = x.id
        /\ x.pc = "delete" /\ x.op = "Delete"
    BY <1>1, <1>4 DEF Call, At, Formed
  <2>3. Step(c, y)
    BY <1>4
  <2> HIDE DEF y
  <2>4. Formed(y) /\ Batch(y) /\ Fresh(y)
    BY <1>1, <2>2 DEF Formed, Batch, Fresh, Assigning
  <2>5. Continues(x, y) /\ CreationMoves(x, y)
    BY <2>2 DEF Continues, CreationMoves, Past, Assigning, Ends
  <2> QED BY <1>1, <2>1, <2>2, <2>3, <2>4, <2>5, LocalStep
<1> QED BY <1>2, <1>3, <1>4 DEF Fails

LEMMA NotFoundKeeps ==
    ASSUME UsersInv, NEW c \in Calls, NotFound(c) PROVE UsersInv'
  BY GotoKeeps DEF NotFound, Steps

LEMMA FindUserKeeps ==
    ASSUME UsersInv, NEW c \in Calls, FindUser(c) PROVE UsersInv'
  BY GotoKeeps DEF FindUser, Steps, At, Existing

LEMMA EndDeleteKeeps ==
    ASSUME UsersInv, NEW c \in Calls, EndDelete(c) PROVE UsersInv'
<1>1. /\ call[c] \in Call /\ Formed(call[c]) /\ Batch(call[c]) /\ call[c].pc = "delete"
      /\ call[c].todo = {} /\ Reads
  BY DEF EndDelete, At, UsersInv, CallsInv
<1>2. call[c].op = "Delete"
  BY <1>1 DEF Formed
<1>3. CASE ~ call[c].failed /\ Goto(c, "ok")
  BY <1>1, <1>2, <1>3, GotoKeeps DEF Batch, Steps
<1>4. CASE call[c].failed /\ Goto(c, "error")
  BY <1>1, <1>2, <1>4, GotoKeeps DEF Steps
<1> QED BY <1>1, <1>3, <1>4 DEF EndDelete, End

LEMMA FindRowKeeps ==
    ASSUME UsersInv, NEW c \in Calls, FindRow(c) PROVE UsersInv'
<1> DEFINE x == call[c]
           y == [x EXCEPT !.pc = "write", !.read = users[x.id], !.base = asked[x.id]]
<1>1. /\ x \in Call /\ Formed(x) /\ Batch(x) /\ x.pc = "find" /\ x.op = "Update"
      /\ x.id \in DOMAIN users /\ x.id \in Ids /\ TableInv /\ HistoryInv
  BY DEF FindRow, At, UsersInv, CallsInv, Formed
<1>2. users[x.id] \in Row /\ asked[x.id] \in Requested
  BY <1>1 DEF TableInv
<1>3. y \in Call
  <2> DEFINE z == [x EXCEPT !.pc = "write"]
  <2>1. z \in Call
    BY <1>1, <1>2, CallEdits DEF Steps, Ends
  <2> HIDE DEF z
  <2> DEFINE w == [z EXCEPT !.read = users[x.id]]
  <2>2. w \in Call
    BY <2>1, <1>1, <1>2, CallEdits
  <2> HIDE DEF w
  <2>3. [w EXCEPT !.base = asked[x.id]] \in Call
    BY <2>2, <1>1, <1>2, CallEdits
  <2> QED BY <2>3 DEF w, z
<1>8. /\ y.pc = "write" /\ y.op = x.op /\ y.id = x.id /\ y.roles = x.roles
      /\ y.read = users[x.id] /\ y.base = asked[x.id]
  BY <1>1 DEF Call
<1>4. Step(c, y) /\ Reads
  BY DEF FindRow
<1> HIDE DEF y
<1>5. Formed(y) /\ Batch(y)
  BY <1>1, <1>2, <1>8 DEF Formed, Batch, Assigning
<1>6. Fresh(y)
  BY <1>1, <1>8 DEF Fresh, HistoryInv, LastRequestStands, Columns
<1>7. Continues(x, y) /\ CreationMoves(x, y)
  BY <1>1, <1>8 DEF Continues, CreationMoves, Past, Assigning, Ends
<1> QED BY <1>1, <1>3, <1>4, <1>5, <1>6, <1>7, <1>8, LocalStep

LEMMA ReadRolesKeeps ==
    ASSUME UsersInv, NEW c \in Calls, ReadRoles(c) PROVE UsersInv'
<1> DEFINE x == call[c]
           y == [x EXCEPT !.pc = "assign", !.seen = RolesOf(x.id)]
<1>1. x \in Call /\ Formed(x) /\ Batch(x) /\ x.pc = "readRoles"
  BY DEF ReadRoles, At, UsersInv, CallsInv
<1>0. RolesOf(x.id) \in SUBSET Roles
  BY DEF RolesOf
<1>6. y \in Call
  <2> DEFINE z == [x EXCEPT !.pc = "assign"]
  <2>1. z \in Call
    BY <1>0, <1>1, CallEdits DEF Steps, Ends
  <2> HIDE DEF z
  <2>2. [z EXCEPT !.seen = RolesOf(x.id)] \in Call
    BY <2>1, <1>0, <1>1, CallEdits
  <2> QED BY <2>2 DEF z
<1>2. /\ y.pc = "assign" /\ y.op = x.op /\ y.id = x.id /\ y.roles = x.roles
      /\ y.seen = RolesOf(x.id)
  BY <1>1 DEF Call
<1>3. Step(c, y) /\ Reads
  BY DEF ReadRoles
<1> HIDE DEF y
<1>4. Formed(y) /\ Batch(y) /\ Fresh(y)
  BY <1>1, <1>2 DEF Formed, Batch, Fresh, Assigning, Past
<1>5. Continues(x, y) /\ CreationMoves(x, y)
  BY <1>1, <1>2 DEF Continues, CreationMoves, Past, Assigning, Ends
<1> QED BY <1>2, <1>3, <1>4, <1>5, <1>6, LocalStep

\* The steps of a login on its way.
LEMMA LoginKeeps ==
    ASSUME UsersInv, NEW c \in Calls, call[c].op = "Login", call[c].pc \in {"lookup", "resolve"},
           NEW y, Step(c, y), Reads, y \in Call, y.pc \in {"resolve", "record"}, y.op = "Login",
           y.id \in Ids
    PROVE  UsersInv'
<1>1. Formed(y) /\ Batch(y) /\ Fresh(y)
  BY DEF Formed, Batch, Fresh, Assigning
<1>2. Continues(call[c], y) /\ CreationMoves(call[c], y)
  BY DEF Continues, CreationMoves, Past, Assigning, Ends
<1> QED BY <1>1, <1>2, LocalStep

LEMMA LookupKeeps ==
    ASSUME UsersInv, NEW c \in Calls, Lookup(c) PROVE UsersInv'
<1>1. /\ call[c] \in Call /\ call[c].pc = "lookup" /\ call[c].op = "Login" /\ Reads
      /\ DOMAIN users \subseteq Ids
  BY DEF Lookup, At, UsersInv, CallsInv, Formed, TableInv
<1>2. CASE Goto(c, "error")
  BY <1>1, <1>2, GotoKeeps DEF Steps
<1>3. ASSUME NEW i \in DOMAIN users, Step(c, [call[c] EXCEPT !.pc = "resolve", !.id = i])
      PROVE  UsersInv'
  <2> DEFINE y == [call[c] EXCEPT !.pc = "resolve", !.id = i]
  <2>0. i \in Ids
    BY <1>1
  <2>1. y \in Call
    <3> DEFINE z == [call[c] EXCEPT !.pc = "resolve"]
    <3>1. z \in Call
      BY <1>1, <2>0, CallEdits DEF Steps, Ends
    <3> HIDE DEF z
    <3>2. [z EXCEPT !.id = i] \in Call
      BY <3>1, <1>1, <2>0, CallEdits
    <3> QED BY <3>2 DEF z
  <2>3. y.pc = "resolve" /\ y.op = "Login" /\ y.id \in Ids
    BY <1>1, <2>0 DEF Call
  <2>2. Step(c, y)
    BY <1>3
  <2> HIDE DEF y
  <2> QED BY <1>1, <2>1, <2>2, <2>3, LoginKeeps
<1> QED BY <1>2, <1>3 DEF Lookup, Named

\* Ids are numbers, so the role of highest priority is one of the user's.
LEMMA HighestPriorityIsOne ==
    ASSUME NEW rs \in SUBSET Nat, rs # {} PROVE HighestPriority(rs) \in rs
<1> DEFINE Less == {x \in Nat \X Nat : x[1] < x[2]}
<1>0. IsWellFoundedOn(Less, Nat)
  BY NatLessThanWellFounded, Zenon DEF OpToRel
<1> HIDE DEF Less
<1>1. PICK r \in rs : \A x \in rs : <<x, r>> \notin Less
  BY <1>0, WFMin
<1>2. ASSUME NEW x \in rs PROVE r <= x
  <2>1. x \in Nat /\ r \in Nat
    OBVIOUS
  <2>2. ~ (x < r)
    BY <1>1, <2>1 DEF Less
  <2> QED BY <2>1, <2>2
<1>3. \E m \in rs : \A x \in rs : m <= x
  BY <1>1, <1>2
<1> QED BY <1>3, Zenon DEF HighestPriority

LEMMA ResolveKeeps ==
    ASSUME UsersInv, NEW c \in Calls, Resolve(c) PROVE UsersInv'
<1> DEFINE rs == RolesOf(call[c].id) \cap Present
           y  == [call[c] EXCEPT !.pc = "record",
                                 !.code = IF rs = {} THEN Guest ELSE HighestPriority(rs)]
<1>1. /\ call[c] \in Call /\ call[c].pc = "resolve" /\ call[c].op = "Login" /\ Reads
      /\ call[c].id \in Ids
  BY DEF Resolve, At, UsersInv, CallsInv, Formed
<1>2. rs # {} => HighestPriority(rs) \in Roles
  <2>1. rs \subseteq Roles /\ rs \in SUBSET Nat
    BY RolesAssumption DEF RolesOf
  <2> HIDE DEF rs
  <2> QED BY <2>1, HighestPriorityIsOne
<1>3. Step(c, y)
  BY DEF Resolve
<1> HIDE DEF rs
<1>4. (IF rs = {} THEN Guest ELSE HighestPriority(rs)) \in Roles \cup {None, Guest}
  BY <1>2
<1>5. y \in Call
  <2> DEFINE z == [call[c] EXCEPT !.pc = "record"]
  <2>1. z \in Call
    BY <1>1, <1>4, CallEdits DEF Steps, Ends
  <2> HIDE DEF z
  <2>2. [z EXCEPT !.code = IF rs = {} THEN Guest ELSE HighestPriority(rs)] \in Call
    BY <2>1, <1>1, <1>4, CallEdits
  <2> QED BY <2>2 DEF z
<1>6. y.pc = "record" /\ y.op = "Login" /\ y.id \in Ids
  BY <1>1 DEF Call
<1> HIDE DEF y
<1> QED BY <1>1, <1>3, <1>5, <1>6, LoginKeeps
-----------------------------------------------------------------------------
(* The writes.                                                             *)

LEMMA CallsKept ==
    ASSUME UsersInv, NEW c \in Calls, NEW y \in Call, Step(c, y), Formed(y)', Batch(y)',
           Existing \subseteq Existing', retired \subseteq retired'
    PROVE  CallsInv'
<1>1. call'[c] = y /\ call' \in [Calls -> Call] /\ \A d \in Calls : d # c => call'[d] = call[d]
  BY DEF UsersInv, CallsInv, Step
<1>2. ASSUME NEW d \in Calls, d # c PROVE Formed(call[d])' /\ Batch(call[d])'
  <2>1. Formed(call[d]) /\ Batch(call[d])
    BY DEF UsersInv, CallsInv
  <2>2. Formed(call[d])'
    BY <1>1, <1>2, <2>1 DEF Formed
  <2>3. Batch(call[d])'
    BY <1>1, <1>2, <2>1 DEF Batch
  <2> QED BY <2>2, <2>3
<1>3. ASSUME NEW d \in Calls PROVE Formed(call[d])' /\ Batch(call[d])'
  BY <1>1, <1>2 DEF Formed, Batch
<1> QED BY <1>1, <1>3 DEF CallsInv

\* A column is left alone, with what is known about it, or set by a call that has just made
\* its write.
LEMMA HistoryKept ==
    ASSUME UsersInv, NEW c \in Calls, NEW y \in Call, Step(c, y), Continues(call[c], y),
           y.pc # "write", LastRequestStands',
           \A i \in DOMAIN users', col \in Columns :
                \/ /\ i \in DOMAIN users
                   /\ asked'[i][col] = asked[i][col]
                   /\ <<i, col>> \in undone => <<i, col>> \in undone'
                \/ asked'[i][col][2] = c /\ call[c].pc \notin Past /\ y.pc \in Past
    PROVE  HistoryInv'
<1>0. CallsInv /\ HistoryInv
  BY DEF UsersInv
<1>1. call'[c] = y /\ \A d \in Calls : d # c => call'[d] = call[d]
  BY <1>0 DEF CallsInv, Step
<1>2. \A e \in Calls : call[e].pc \in Past => call'[e].pc \in Past
  BY <1>1 DEF Continues
<1>3. ASSUME NEW i \in DOMAIN users', NEW col \in Columns, NEW e \in Calls, asked'[i][col][2] = e
      PROVE  call'[e].pc \in Past
  <2>1. CASE i \in DOMAIN users /\ asked'[i][col] = asked[i][col]
    BY <1>0, <1>2, <1>3, <2>1 DEF HistoryInv, Settled
  <2>2. CASE asked'[i][col][2] = c /\ y.pc \in Past
    BY <1>1, <1>3, <2>2
  <2> QED BY <2>1, <2>2
<1>4. ASSUME NEW d \in Calls PROVE Fresh(call[d])'
  <2>1. CASE d = c
    BY <1>1, <2>1 DEF Fresh
  <2>2. CASE d # c
    <3>1. call'[d] = call[d] /\ Fresh(call[d])
      BY <1>0, <1>1, <2>2 DEF HistoryInv
    <3>2. ASSUME call'[d].pc = "write", NEW col \in Columns, NEW e \in Calls,
                 call'[d].base[col][2] = e
          PROVE  call'[e].pc \in Past
      BY <1>2, <3>1, <3>2 DEF Fresh, Settled
    <3>3. ASSUME call'[d].pc = "write", call'[d].id \in DOMAIN users', NEW col \in Columns,
                 asked'[call'[d].id][col] = call'[d].base[col]
          PROVE  call'[d].read[col] = call'[d].base[col][1] \/ <<call'[d].id, col>> \in undone'
      <4> DEFINE i == call[d].id
      <4>1. CASE /\ i \in DOMAIN users /\ asked'[i][col] = asked[i][col]
                 /\ <<i, col>> \in undone => <<i, col>> \in undone'
        BY <3>1, <3>3, <4>1 DEF Fresh
      <4>2. CASE asked'[i][col][2] = c /\ call[c].pc \notin Past
        BY <3>1, <3>3, <4>2 DEF Fresh, Settled
      <4> QED BY <3>1, <3>3, <4>1, <4>2
    <3>4. call'[d].pc = "write" => \A col \in Columns : Settled(call[d].base[col][2])'
      BY <3>2 DEF Settled
    <3> QED BY <3>3, <3>4 DEF Fresh
  <2> QED BY <2>1, <2>2
<1>5. \A i \in DOMAIN users', col \in Columns : Settled(asked[i][col][2])'
  BY <1>3 DEF Settled
<1> QED BY <1>4, <1>5 DEF HistoryInv
LEMMA InsertKeeps ==
    ASSUME UsersInv, NEW c \in Calls, NEW i \in Ids, NEW acked \in BOOLEAN, Insert(c, i, acked)
    PROVE  UsersInv'
<1> DEFINE x   == call[c]
           row == [name |-> x.name, password |-> x.password, login |-> 0]
<1>1. /\ TableInv /\ CallsInv /\ HistoryInv /\ RolesInv /\ x \in Call /\ Formed(x)
      /\ x.pc = "insert" /\ x.op = "Create" /\ x.id = None
  BY DEF UsersInv, CallsInv, Formed, Insert, At
<1>2. i \notin Existing /\ retired' = retired /\ userRoles' = userRoles /\ time' = time /\ undone' = undone
  BY DEF Insert, Existing
<1>3. row \in Row
  BY <1>1 DEF Formed, Row
<1>4. users' = With(users, i, row) /\ asked' = With(asked, i, Given(row, c))
  BY DEF Insert
<1> HIDE DEF row
<1>5. PICK y : y = [x EXCEPT !.pc = AfterInsert(acked), !.id = i]
  OBVIOUS
<1>6. AfterInsert(acked) \in {"findUser", "error"}
  BY DEF AfterInsert
<1>7. y \in Call
  <2> DEFINE z == [x EXCEPT !.pc = AfterInsert(acked)]
  <2>1. z \in Call
    BY <1>1, <1>6, CallEdits DEF Steps, Ends
  <2> HIDE DEF z
  <2>2. [z EXCEPT !.id = i] \in Call
    BY <2>1, CallEdits
  <2> QED BY <1>5, <2>2 DEF z
<1>8. /\ y.pc \in {"findUser", "error"} /\ y.op = "Create" /\ y.id = i /\ y.roles = x.roles
      /\ Step(c, y)
  BY <1>1, <1>5, <1>6 DEF Call, Insert
<1>9. Existing' = Existing \cup {i} /\ DOMAIN users' = DOMAIN users \cup {i}
  BY <1>2, <1>4 DEF Existing, With
<1>10. TableInv'
  <2>1. Given(row, c) \in Requested
    BY <1>3, InitialRequests DEF By
  <2> QED BY <1>1, <1>2, <1>3, <1>4, <1>9, <2>1 DEF TableInv, With, Existing
<1>11. CallsInv'
  <2>1. Formed(y)' /\ Batch(y)'
    BY <1>1, <1>8 DEF Formed, Batch, Past, Assigning, Ends
  <2> QED BY <1>2, <1>7, <1>8, <1>9, <2>1, CallsKept
<1>12. Continues(x, y)
  BY <1>1, <1>8 DEF Continues, Past, Assigning, Ends
<1>13. HistoryInv'
  <2>1. ASSUME NEW j \in DOMAIN users', NEW col \in Columns
        PROVE  /\ users'[j][col] = asked'[j][col][1] \/ <<j, col>> \in undone
               /\ \/ j \in DOMAIN users /\ asked'[j][col] = asked[j][col]
                  \/ asked'[j][col][2] = c
    <3>1. CASE j = i
      BY <1>4, <3>1 DEF With, Given, Columns
    <3>2. CASE j # i
      <4>1. /\ j \in DOMAIN users /\ users'[j] = users[j] /\ asked'[j] = asked[j]
            /\ users[j][col] = asked[j][col][1] \/ <<j, col>> \in undone
        BY <1>1, <1>4, <1>9, <3>2 DEF With, TableInv, HistoryInv, LastRequestStands, Columns
      <4> QED BY <4>1
    <3> QED BY <3>1, <3>2
  <2>2. LastRequestStands'
    BY <1>2, <2>1 DEF LastRequestStands, Columns
  <2>3. x.pc \notin Past /\ y.pc \in Past /\ y.pc # "write"
    BY <1>1, <1>8 DEF Past, Assigning, Ends
  <2> QED BY <1>2, <1>7, <1>8, <1>12, <2>1, <2>2, <2>3, HistoryKept
<1>14. RolesInv'
  <2>1. call'[c] = y /\ \A d \in Calls : d # c => call'[d] = call[d]
    BY <1>1, <1>8 DEF CallsInv, Step
  <2>2. ASSUME NEW j, NEW d \in Calls, ForRolesOf(d, j) PROVE ForRolesOf(d, j)'
    BY <1>1, <1>8, <1>12, <2>2, ForRolesStays
  <2>3. RolesOf(i) = {} /\ RolesOf(i)' = {}
    BY <1>1, <1>2 DEF TableInv, RolesOf
  <2>4. ASSUME NEW d \in Calls PROVE Unassigned(call[d])'
    <3>1. CASE d = c
      BY <1>8, <2>1, <2>3, <3>1 DEF Unassigned
    <3>2. CASE d # c
      <4>1. call'[d] = call[d] /\ Unassigned(call[d])
        BY <1>1, <2>1, <3>2 DEF RolesInv
      <4>2. RolesOf(call[d].id)' = RolesOf(call[d].id)
        BY <1>2, <4>1 DEF RolesOf
      <4> QED BY <2>2, <4>1, <4>2 DEF Unassigned
    <3> QED BY <3>1, <3>2
  <2>5. UsersHaveRoles'
    <3> SUFFICES ASSUME NEW j \in (DOMAIN users \cup {i}) \ DOMAIN Initial, RolesOf(j) = {}
                 PROVE  \E d \in Calls :
                            \/ call'[d].op = "Create" /\ call'[d].id = j /\ call'[d].pc # "ok"
                            \/ ForRolesOf(d, j)'
      BY <1>2, <1>9 DEF UsersHaveRoles, RolesOf, At
    <3>1. CASE j = i
      BY <1>8, <2>1, <3>1
    <3>2. CASE j # i
      <4>1. PICK d \in Calls :
              \/ call[d].op = "Create" /\ call[d].id = j /\ call[d].pc # "ok"
              \/ ForRolesOf(d, j)
        BY <1>1, <3>2 DEF RolesInv, UsersHaveRoles, At
      <4>2. CASE ForRolesOf(d, j)
        BY <2>2, <4>2
      <4>3. CASE call[d].op = "Create" /\ call[d].id = j /\ call[d].pc # "ok"
        <5>1. j \in Ids
          BY <1>1 DEF TableInv
        <5>2. d # c
          BY <1>1, <4>3, <5>1, NoneAssumption
        <5> QED BY <2>1, <4>3, <5>2
      <4> QED BY <4>1, <4>2, <4>3
    <3> QED BY <3>1, <3>2
  <2>6. i \in Existing' \ DOMAIN Initial
    BY <1>1, <1>2, <1>9 DEF TableInv
  <2>7. \A d \in Calls :
            call'[d].op = "Create" /\ call'[d].id # None =>
                \/ d = c /\ call'[d].id = i
                \/ d # c /\ call'[d].id \in Existing \ DOMAIN Initial
    <3>1. ASSUME NEW d \in Calls, call'[d].op = "Create", call'[d].id # None, d # c
          PROVE  call'[d].id \in Existing \ DOMAIN Initial
      BY <1>1, <2>1, <3>1 DEF RolesInv
    <3> QED BY <1>8, <2>1, <3>1
  <2>8. \A d, e \in Calls :
            /\ call'[d].op = "Create" /\ call'[e].op = "Create"
            /\ call'[d].id # None /\ call'[d].id = call'[e].id
            => d = e
    BY <1>1, <1>2, <2>1, <2>7 DEF RolesInv
  <2> QED BY <1>9, <2>4, <2>5, <2>6, <2>7, <2>8 DEF RolesInv
<1> QED BY <1>10, <1>11, <1>13, <1>14 DEF UsersInv

\* What an update writes is a row.
LEMMA WrittenIsARow ==
    ASSUME NEW row \in Row, NEW x \in Call, x.read \in Row
    PROVE  /\ NonZero(row, Overlay(x.read, x)) \in Row
           /\ x.password # None =>
                NonZero(row, Overlay(x.read, x)).password = x.password /\ x.password \in Passwords
           /\ x.password = None => NonZero(row, Overlay(x.read, x)).password = x.read.password
           /\ NonZero(row, Overlay(x.read, x)).login \in {row.login, x.read.login}
  BY DEF NonZero, Overlay, Row, Call

LEMMA WriteRowKeeps ==
    ASSUME UsersInv, NEW c \in Calls, NEW acked \in BOOLEAN, WriteRow(c, acked)
    PROVE  UsersInv'
<1> DEFINE x   == call[c]
           i   == x.id
           row == NonZero(users[i], Overlay(x.read, x))
           pc  == IF ~ acked THEN "error" ELSE IF x.roles = None THEN "ok" ELSE "findUser"
<1>1. /\ TableInv /\ CallsInv /\ HistoryInv /\ RolesInv /\ x \in Call /\ Formed(x) /\ Fresh(x)
      /\ x.pc = "write" /\ x.op = "Update" /\ i \in Ids /\ x.read \in Row
  BY DEF UsersInv, CallsInv, HistoryInv, Formed, WriteRow, At
<1>2. retired' = retired /\ userRoles' = userRoles /\ time' = time
  BY DEF WriteRow
<1>3. PICK y : y = [x EXCEPT !.pc = pc]
  OBVIOUS
<1>4. pc \in {"error", "ok", "findUser"} /\ (pc = "findUser" => x.roles \in RoleSets)
  BY <1>1 DEF Call
<1>5. Step(c, y)
  BY <1>3 DEF WriteRow, Goto
<1> HIDE DEF pc
<1>6. y \in Call
  BY <1>1, <1>3, <1>4, CallEdits DEF Steps, Ends
<1>7. y.pc = pc /\ y.op = x.op /\ y.id = i /\ y.roles = x.roles
  BY <1>1, <1>3 DEF Call
<1>8. Continues(x, y) /\ CreationMoves(x, y) /\ x.pc \notin Past /\ y.pc \in Past /\ y.pc # "write"
  BY <1>1, <1>4, <1>7 DEF Continues, CreationMoves, Past, Assigning, Ends
<1>9. CASE i \notin DOMAIN users
  <2>1. users' = users /\ asked' = asked /\ undone' = undone
    BY <1>9 DEF WriteRow
  <2>2. TableInv'
    BY <1>1, <1>2, <2>1 DEF TableInv, Existing
  <2>3. LastRequestStands'
    BY <1>1, <2>1 DEF HistoryInv, LastRequestStands
  <2>4. HistoryInv'
    BY <1>5, <1>6, <1>8, <2>1, <2>3, HistoryKept
  <2>5. Formed(y)' /\ Batch(y)'
    BY <1>1, <1>4, <1>7 DEF Formed, Batch, Past, Assigning, Ends
  <2>6. CallsInv'
    BY <1>2, <1>5, <1>6, <2>1, <2>5, CallsKept DEF Existing
  <2>7. RolesInv'
    BY <1>1, <1>2, <1>5, <1>8, <2>1, RolesKept DEF Existing
  <2> QED BY <2>2, <2>4, <2>6, <2>7 DEF UsersInv
<1>10. CASE i \in DOMAIN users
  <2>1. /\ users' = With(users, i, row)
        /\ asked' = [asked EXCEPT ![i].password =
                        IF x.password = None THEN @ ELSE <<x.password, c>>]
        /\ undone' = SetBack(c) \cup (IF x.password = None THEN undone
                                      ELSE undone \ {<<i, "password">>})
    BY <1>10 DEF WriteRow
  <2>2. users[i] \in Row /\ asked[i] \in Requested /\ i \in DOMAIN asked
    BY <1>1, <1>10 DEF TableInv
  <2>3. /\ row \in Row
        /\ x.password # None => row.password = x.password /\ x.password \in Passwords
        /\ x.password = None => row.password = x.read.password
        /\ row.login \in {users[i].login, x.read.login}
    BY <1>1, <2>2, WrittenIsARow
  <2> HIDE DEF row
  <2>4. DOMAIN users' = DOMAIN users /\ DOMAIN asked' = DOMAIN asked /\ Existing' = Existing
    BY <1>2, <1>10, <2>1, <1>1 DEF With, Existing, TableInv
  <2>5. /\ x.password = None => asked' = asked
        /\ \A j \in DOMAIN asked : j # i => asked'[j] = asked[j]
        /\ asked'[i].login = asked[i].login
        /\ x.password # None => asked'[i].password = <<x.password, c>>
        /\ asked' \in [DOMAIN asked -> Requested]
    <3>1. CASE x.password = None
      BY <1>1, <2>1, <2>2, <3>1 DEF TableInv, Requested
    <3>2. CASE x.password # None
      <4>1. <<x.password, c>> \in Passwords \X By
        BY <2>3, <3>2 DEF By
      <4>2. asked' = [asked EXCEPT ![i].password = <<x.password, c>>]
        BY <2>1, <3>2
      <4> QED BY <1>1, <2>2, <3>2, <4>1, <4>2 DEF TableInv, Requested
    <3> QED BY <3>1, <3>2
  <2>6. TableInv'
    BY <1>1, <1>2, <1>10, <2>1, <2>3, <2>4, <2>5 DEF TableInv, With
  <2>7. CallsInv'
    <3>1. Formed(y)' /\ Batch(y)'
      BY <1>1, <1>4, <1>7 DEF Formed, Batch, Past, Assigning, Ends
    <3> QED BY <1>2, <1>5, <1>6, <2>4, <3>1, CallsKept
  <2>8. ASSUME NEW col \in Columns
        PROVE  users'[i][col] = asked'[i][col][1] \/ <<i, col>> \in undone'
    <3>1. users'[i] = row
      BY <2>1 DEF With
    <3>2. users[i][col] = asked[i][col][1] \/ <<i, col>> \in undone
      BY <1>1, <1>10 DEF HistoryInv, LastRequestStands, Columns
    <3>3. asked[i][col] = x.base[col] =>
            x.read[col] = asked[i][col][1] \/ <<i, col>> \in undone
      BY <1>1, <1>10 DEF Fresh
    <3>4. CASE col = "password" /\ x.password # None
      BY <2>3, <2>5, <3>1, <3>4
    <3>5. CASE col = "password" /\ x.password = None
      BY <2>1, <2>3, <2>5, <3>1, <3>3, <3>5 DEF SetBack
    <3>6. CASE col = "login"
      BY <2>1, <2>3, <2>5, <3>1, <3>2, <3>3, <3>6 DEF SetBack
    <3> QED BY <3>4, <3>5, <3>6 DEF Columns
  <2>9. ASSUME NEW j \in DOMAIN users', NEW col \in Columns
        PROVE  /\ users'[j][col] = asked'[j][col][1] \/ <<j, col>> \in undone'
               /\ \/ /\ j \in DOMAIN users
                     /\ asked'[j][col] = asked[j][col]
                     /\ <<j, col>> \in undone => <<j, col>> \in undone'
                  \/ asked'[j][col][2] = c
    <3>1. j \in DOMAIN users /\ j \in DOMAIN asked
      BY <1>1, <2>4 DEF TableInv
    <3>2. CASE j # i
      <4>1. users'[j] = users[j] /\ asked'[j] = asked[j]
        BY <2>1, <2>5, <3>1, <3>2 DEF With
      <4>2. <<j, col>> \in undone => <<j, col>> \in undone'
        BY <2>1, <3>2
      <4>3. users[j][col] = asked[j][col][1] \/ <<j, col>> \in undone
        BY <1>1, <3>1 DEF HistoryInv, LastRequestStands, Columns
      <4> QED BY <3>1, <4>1, <4>2, <4>3
    <3>3. CASE j = i
      <4>1. CASE col = "password" /\ x.password # None
        BY <2>5, <2>8, <3>1, <3>3, <4>1
      <4>2. CASE ~ (col = "password" /\ x.password # None)
        <5>1. asked'[i][col] = asked[i][col]
          BY <2>5, <4>2 DEF Columns
        <5>2. <<i, col>> \in undone => <<i, col>> \in undone'
          BY <2>1, <4>2 DEF Columns
        <5> QED BY <2>8, <3>1, <3>3, <5>1, <5>2
      <4> QED BY <4>1, <4>2
    <3> QED BY <3>2, <3>3
  <2>10. LastRequestStands'
    BY <2>9 DEF LastRequestStands, Columns
  <2>11. HistoryInv'
    BY <1>5, <1>6, <1>8, <2>9, <2>10, HistoryKept
  <2>12. RolesInv'
    BY <1>1, <1>2, <1>5, <1>8, <2>4, RolesKept
  <2> QED BY <2>6, <2>7, <2>11, <2>12 DEF UsersInv
<1> QED BY <1>9, <1>10
LEMMA AssignKeeps ==
    ASSUME UsersInv, NEW c \in Calls, NEW acked \in BOOLEAN, Assign(c, acked) PROVE UsersInv'
<1> DEFINE x == call[c]
           i == x.id
<1>1. /\ TableInv /\ CallsInv /\ HistoryInv /\ RolesInv /\ x \in Call /\ Formed(x) /\ Batch(x)
      /\ x.pc = "assign" /\ i \in Existing /\ i \in Ids /\ x.roles \in RoleSets
      /\ x.op \in {"Create", "Update", "Assign"}
  BY DEF UsersInv, CallsInv, Formed, Assign, At, Assigning
<1>2. /\ users' = users /\ retired' = retired /\ time' = time /\ asked' = asked /\ undone' = undone
      /\ Existing' = Existing
  BY DEF Assign, History, Existing
<1>3. userRoles' = (userRoles \ ({i} \X (x.seen \ x.roles))) \cup ({i} \X (x.roles \ x.seen))
  BY DEF Assign
<1>4. x.roles \subseteq Roles
  BY <1>1, RolesAssumption
<1>5. PICK y : y = [x EXCEPT !.pc = End(acked)]
  OBVIOUS
<1>6. End(acked) \in Ends
  BY DEF End, Ends
<1>7. y \in Call /\ Step(c, y)
  BY <1>1, <1>5, <1>6, CallEdits DEF Assign, Goto
<1>8. y.pc \in Ends /\ y.op = x.op /\ y.id = i /\ y.roles = x.roles
  BY <1>1, <1>5, <1>6 DEF Call
<1>9. Continues(x, y)
  BY <1>1, <1>8 DEF Continues, Past
<1>10. TableInv'
  BY <1>1, <1>2, <1>3, <1>4 DEF TableInv
<1>11. CallsInv'
  <2>1. Formed(y)' /\ Batch(y)'
    BY <1>1, <1>8 DEF Formed, Batch, Past, Assigning, Ends
  <2> QED BY <1>2, <1>7, <2>1, CallsKept
<1>12. HistoryInv'
  <2>1. LastRequestStands'
    BY <1>1, <1>2 DEF HistoryInv, LastRequestStands
  <2>2. y.pc # "write"
    BY <1>8 DEF Ends
  <2> QED BY <1>2, <1>7, <1>9, <2>1, <2>2, HistoryKept
<1>13. RolesInv'
  <2>1. call'[c] = y /\ \A d \in Calls : d # c => call'[d] = call[d]
    BY <1>1, <1>7 DEF CallsInv, Step
  <2>2. ASSUME NEW j, NEW d \in Calls, ForRolesOf(d, j) PROVE ForRolesOf(d, j)'
    BY <1>1, <1>7, <1>9, <2>2, ForRolesStays
  <2>3. x.op # "Create" => ForRolesOf(c, i)
    BY <1>1, NoneAssumption DEF ForRolesOf
  <2>4. ASSUME NEW j, j # i PROVE RolesOf(j)' = RolesOf(j)
    BY <1>3, <2>4 DEF RolesOf
  <2>5. ASSUME NEW d \in Calls PROVE Unassigned(call[d])'
    <3> SUFFICES ASSUME call'[d].op = "Create", call'[d].pc \in Assigning
                 PROVE  \/ \E e \in Calls : ForRolesOf(e, call[d].id)'
                        \/ (RolesOf(call[d].id) = {} /\ (call[d].pc = "assign" => call[d].seen = {}))'
      BY DEF Unassigned
    <3>1. d # c /\ call'[d] = call[d] /\ Unassigned(call[d])
      BY <1>1, <1>8, <2>1 DEF RolesInv, Assigning, Ends
    <3>2. PICK j : j = call[d].id
      OBVIOUS
    <3>3. CASE j # i
      <4>1. RolesOf(j)' = RolesOf(j)
        BY <2>4, <3>3
      <4> QED BY <2>2, <3>1, <3>2, <4>1 DEF Unassigned
    <3>4. CASE j = i
      <4>1. i # None
        BY <1>1, NoneAssumption
      <4>2. x.op # "Create"
        BY <1>1, <3>1, <3>2, <3>4, <4>1 DEF RolesInv
      <4> QED BY <2>2, <2>3, <3>1, <3>2, <3>4, <4>2
    <3> QED BY <3>3, <3>4
  <2>6. UsersHaveRoles'
    <3> SUFFICES ASSUME NEW j \in DOMAIN users \ DOMAIN Initial, RolesOf(j)' = {}
                 PROVE  \E d \in Calls :
                            \/ call'[d].op = "Create" /\ call'[d].id = j /\ call'[d].pc # "ok"
                            \/ ForRolesOf(d, j)'
      BY <1>2 DEF UsersHaveRoles, At
    <3>1. CASE j = i /\ x.op # "Create"
      BY <2>2, <2>3, <3>1
    <3>2. CASE j = i /\ x.op = "Create"
      <4>1. CASE \E e \in Calls : ForRolesOf(e, i)
        BY <2>2, <3>2, <4>1
      <4>2. CASE ~ \E e \in Calls : ForRolesOf(e, i)
        <5>1. x.seen = {}
          BY <1>1, <3>2, <4>2 DEF RolesInv, Unassigned, Assigning
        <5>2. x.roles # {}
          BY <1>1, <3>2 DEF Formed
        <5>3. PICK r \in x.roles : TRUE
          BY <5>2
        <5>4. r \in RolesOf(j)'
          BY <1>3, <1>4, <3>2, <5>1, <5>3 DEF RolesOf
        <5> QED BY <5>4
      <4> QED BY <4>1, <4>2
    <3>3. CASE j # i
      <4>1. RolesOf(j) = {}
        BY <2>4, <3>3
      <4>2. PICK d \in Calls :
              \/ call[d].op = "Create" /\ call[d].id = j /\ call[d].pc # "ok"
              \/ ForRolesOf(d, j)
        BY <1>1, <4>1 DEF RolesInv, UsersHaveRoles, At
      <4>3. CASE ForRolesOf(d, j)
        BY <2>2, <4>3
      <4>4. CASE call[d].op = "Create" /\ call[d].id = j /\ call[d].pc # "ok"
        BY <2>1, <3>3, <4>4
      <4> QED BY <4>2, <4>3, <4>4
    <3> QED BY <3>1, <3>2, <3>3
  <2>7. \A d \in Calls : call'[d].op = call[d].op /\ call'[d].id = call[d].id
    BY <1>8, <2>1
  <2> QED BY <1>1, <1>2, <2>5, <2>6, <2>7 DEF RolesInv
<1> QED BY <1>10, <1>11, <1>12, <1>13 DEF UsersInv

LEMMA DeleteRowKeeps ==
    ASSUME UsersInv, NEW c \in Calls, NEW i \in Ids, NEW acked \in BOOLEAN, DeleteRow(c, i, acked)
    PROVE  UsersInv'
<1> DEFINE x == call[c]
<1>1. /\ TableInv /\ CallsInv /\ HistoryInv /\ RolesInv /\ x \in Call /\ Formed(x) /\ Batch(x)
      /\ x.pc = "delete" /\ x.op = "Delete"
  BY DEF UsersInv, CallsInv, Formed, DeleteRow, At
<1>2. userRoles' = userRoles /\ time' = time /\ asked' = asked /\ undone' = undone
  BY DEF DeleteRow, History
<1>3. users' = Without(users, i) /\ retired' = retired \cup ({i} \cap DOMAIN users)
  BY DEF DeleteRow
<1>4. Existing' = Existing /\ DOMAIN users' = DOMAIN users \ {i}
  BY <1>3 DEF Existing, Without
<1>5. PICK y : y = [x EXCEPT !.todo = @ \ {i}, !.failed = @ \/ ~ acked]
  OBVIOUS
<1>6. y \in Call
  <2>1. x.todo \ {i} \in SUBSET Ids /\ (x.failed \/ ~ acked) \in BOOLEAN
    BY <1>1 DEF Call
  <2> DEFINE z == [x EXCEPT !.todo = @ \ {i}]
  <2>2. z \in Call /\ z.failed = x.failed
    <3>1. [x EXCEPT !.todo = x.todo \ {i}] \in Call
      BY <1>1, <2>1, CallEdits
    <3> QED BY <1>1, <3>1 DEF Call
  <2> HIDE DEF z
  <2>3. [z EXCEPT !.failed = x.failed \/ ~ acked] \in Call
    BY <2>1, <2>2, CallEdits
  <2> QED BY <1>5, <2>2, <2>3 DEF z
<1>7. /\ y.pc = "delete" /\ y.op = "Delete" /\ y.ids = x.ids /\ y.todo = x.todo \ {i}
      /\ ~ y.failed => ~ x.failed
      /\ Step(c, y)
  BY <1>1, <1>5 DEF Call, DeleteRow
<1>8. Continues(x, y) /\ CreationMoves(x, y)
  BY <1>1, <1>7 DEF Continues, CreationMoves, Past, Assigning, Ends
<1>9. TableInv'
  BY <1>1, <1>2, <1>3, <1>4 DEF TableInv, Without
<1>10. CallsInv'
  <2>1. Formed(y)'
    BY <1>1, <1>7 DEF Formed, Past, Assigning, Ends
  <2>2. ~ y.failed => y.ids \ y.todo \subseteq retired'
    BY <1>1, <1>3, <1>7 DEF Batch, Existing
  <2>3. Batch(y)'
    BY <1>1, <1>4, <1>7, <2>2 DEF Batch
  <2> QED BY <1>3, <1>4, <1>6, <1>7, <2>1, <2>3, CallsKept
<1>11. HistoryInv'
  <2>1. LastRequestStands'
    BY <1>1, <1>2, <1>3, <1>4 DEF HistoryInv, LastRequestStands, Without
  <2> QED BY <1>2, <1>4, <1>6, <1>7, <1>8, <2>1, HistoryKept
<1>12. RolesInv'
  BY <1>1, <1>2, <1>4, <1>7, <1>8, RolesKept
<1> QED BY <1>9, <1>10, <1>11, <1>12 DEF UsersInv

LEMMA RecordKeeps ==
    ASSUME UsersInv, NEW c \in Calls, Record(c) PROVE UsersInv'
<1> DEFINE x == call[c]
           i == x.id
<1>1. /\ TableInv /\ CallsInv /\ HistoryInv /\ RolesInv /\ x \in Call /\ Formed(x) /\ Batch(x)
      /\ x.pc = "record" /\ x.op = "Login" /\ i \in Ids
  BY DEF UsersInv, CallsInv, Formed, Record, At
<1>2. /\ retired' = retired /\ userRoles' = userRoles /\ time' = time + 1 /\ time' \in Nat
  BY <1>1 DEF Record, TableInv
<1>3. PICK t \in Nat : t = time'
  BY <1>2
<1>4. PICK y : y = [x EXCEPT !.pc = "ok"]
  OBVIOUS
<1>5. y \in Call /\ Step(c, y)
  BY <1>1, <1>4, CallEdits DEF Ends, Record, Goto
<1>6. y.pc = "ok" /\ y.op = "Login" /\ y.id = i
  BY <1>1, <1>4 DEF Call
<1>7. Continues(x, y) /\ CreationMoves(x, y) /\ x.pc \notin Past /\ y.pc \in Past
  BY <1>1, <1>6 DEF Continues, CreationMoves, Past, Assigning, Ends
<1>8. \/ users' = users /\ asked' = asked /\ undone' = undone
      \/ /\ i \in DOMAIN users
         /\ users' = [users EXCEPT ![i].login = t]
         /\ asked' = [asked EXCEPT ![i].login = <<t, c>>]
         /\ undone' = undone \ {<<i, "login">>}
  BY <1>3 DEF Record
<1>9. /\ DOMAIN users' = DOMAIN users /\ DOMAIN asked' = DOMAIN asked
      /\ \A j \in DOMAIN users : users'[j] \in Row
      /\ \A j \in DOMAIN asked : asked'[j] \in Requested
      /\ users' \in [DOMAIN users -> Row] /\ asked' \in [DOMAIN asked -> Requested]
  <2>1. CASE users' = users /\ asked' = asked
    BY <1>1, <2>1 DEF TableInv
  <2>2. CASE /\ i \in DOMAIN users
             /\ users' = [users EXCEPT ![i].login = t]
             /\ asked' = [asked EXCEPT ![i].login = <<t, c>>]
    <3>1. users[i] \in Row /\ asked[i] \in Requested /\ i \in DOMAIN asked
      BY <1>1, <2>2 DEF TableInv
    <3>2. [users[i] EXCEPT !.login = t] \in Row
      BY <3>1 DEF Row
    <3>3. [asked[i] EXCEPT !.login = <<t, c>>] \in Requested
      <4>1. <<t, c>> \in Nat \X By
        BY DEF By
      <4> QED BY <3>1, <4>1 DEF Requested
    <3>4. users' \in [DOMAIN users -> Row] /\ asked' \in [DOMAIN asked -> Requested]
      BY <1>1, <2>2, <3>1, <3>2, <3>3 DEF TableInv
    <3> QED BY <3>4
  <2> QED BY <1>8, <2>1, <2>2
<1>10. TableInv'
  BY <1>1, <1>2, <1>9 DEF TableInv, Existing
<1>11. CallsInv'
  <2>1. Formed(y)' /\ Batch(y)'
    BY <1>6 DEF Formed, Batch, Past, Assigning, Ends
  <2> QED BY <1>2, <1>5, <1>9, <2>1, CallsKept DEF Existing
<1>12. ASSUME NEW j \in DOMAIN users', NEW col \in Columns
       PROVE  /\ users'[j][col] = asked'[j][col][1] \/ <<j, col>> \in undone'
              /\ \/ /\ j \in DOMAIN users
                    /\ asked'[j][col] = asked[j][col]
                    /\ <<j, col>> \in undone => <<j, col>> \in undone'
                 \/ asked'[j][col][2] = c
  <2>1. /\ j \in DOMAIN users /\ j \in DOMAIN asked /\ users[j] \in Row /\ asked[j] \in Requested
        /\ users[j][col] = asked[j][col][1] \/ <<j, col>> \in undone
    BY <1>1, <1>9 DEF TableInv, HistoryInv, LastRequestStands, Columns
  <2>2. CASE users' = users /\ asked' = asked /\ undone' = undone
    BY <2>1, <2>2
  <2>3. CASE /\ users' = [users EXCEPT ![i].login = t]
             /\ asked' = [asked EXCEPT ![i].login = <<t, c>>]
             /\ undone' = undone \ {<<i, "login">>}
    <3>1. CASE j = i /\ col = "login"
      BY <2>1, <2>3, <3>1 DEF Row, Requested
    <3>2. CASE j # i \/ col = "password"
      BY <2>1, <2>3, <3>2 DEF Row, Requested, Columns
    <3> QED BY <3>1, <3>2 DEF Columns
  <2> QED BY <1>8, <2>2, <2>3
<1>13. HistoryInv'
  <2>1. LastRequestStands'
    BY <1>12 DEF LastRequestStands, Columns
  <2>2. y.pc # "write"
    BY <1>6
  <2> QED BY <1>5, <1>7, <1>12, <2>1, <2>2, HistoryKept
<1>14. RolesInv'
  BY <1>1, <1>2, <1>5, <1>7, <1>9, RolesKept DEF Existing
<1> QED BY <1>10, <1>11, <1>13, <1>14 DEF UsersInv

-----------------------------------------------------------------------------
LEMMA UsersStep == UsersInv /\ [Next]_vars => UsersInv'
<1> SUFFICES ASSUME UsersInv, [Next]_vars PROVE UsersInv'
  OBVIOUS
<1>1. CASE UNCHANGED vars
  BY <1>1 DEF vars, UsersInv, TableInv, CallsInv, HistoryInv, RolesInv, Existing, Formed, Batch,
      Fresh, Settled, LastRequestStands, Unassigned, RolesOf, ForRolesOf, UsersHaveRoles, At
<1>2. ASSUME NEW c \in Calls,
             \/ Fails(c) \/ FindRow(c) \/ FindUser(c) \/ NotFound(c) \/ ReadRoles(c)
             \/ EndDelete(c) \/ Lookup(c) \/ Resolve(c) \/ Record(c)
      PROVE  UsersInv'
  BY <1>2, FailsKeeps, FindRowKeeps, FindUserKeeps, NotFoundKeeps, ReadRolesKeeps, EndDeleteKeeps,
     LookupKeeps, ResolveKeeps, RecordKeeps
<1>3. ASSUME NEW c \in Calls, NEW n \in Names, NEW p \in Passwords,
             BeginLogin(c, n, p) \/ \E rs \in RoleSets : BeginCreate(c, n, p, rs)
      PROVE  UsersInv'
  BY <1>3, BeginLoginKeeps, BeginCreateKeeps
<1>4. ASSUME NEW c \in Calls, NEW i \in Ids, NEW n \in Names \cup {None},
             NEW p \in Passwords \cup {None}, NEW rs \in RoleSets \cup {None},
             BeginUpdate(c, i, n, p, rs)
      PROVE  UsersInv'
  BY <1>4, BeginUpdateKeeps
<1>5. ASSUME NEW c \in Calls, NEW i \in Ids, NEW rs \in RoleSets, BeginAssign(c, i, rs)
      PROVE  UsersInv'
  BY <1>5, BeginAssignKeeps
<1>6. ASSUME NEW c \in Calls, NEW ids \in SUBSET Ids, BeginDelete(c, ids) PROVE UsersInv'
  BY <1>6, BeginDeleteKeeps
<1>7. ASSUME NEW c \in Calls, NEW acked \in BOOLEAN,
             \/ \E i \in Ids : Insert(c, i, acked) \/ DeleteRow(c, i, acked)
             \/ WriteRow(c, acked) \/ Assign(c, acked)
      PROVE  UsersInv'
  BY <1>7, InsertKeeps, DeleteRowKeeps, WriteRowKeeps, AssignKeeps
<1> QED BY <1>1, <1>2, <1>3, <1>4, <1>5, <1>6, <1>7 DEF Next

LEMMA UsersInvHolds == Spec => []UsersInv
  BY UsersInit, UsersStep, PTL DEF Spec

\* Tables and calls keep their types through every interleaving of the statements.
THEOREM UsersTyping == Spec => []TypeOK
<1>1. UsersInv => TypeOK
  <2> SUFFICES ASSUME UsersInv PROVE TypeOK
    OBVIOUS
  <2>1. TableInv /\ CallsInv
    BY DEF UsersInv
  <2>2. Existing \subseteq Ids
    BY <2>1 DEF TableInv, Existing
  <2> QED BY <2>1, <2>2 DEF TypeOK, TableInv, CallsInv
<1> QED BY <1>1, UsersInvHolds, PTL

\* The password and the login time of a row are what the last request set them to, unless an
\* update that had read the row before wrote them back.
THEOREM RequestsStand == Spec => []LastRequestStands
<1>1. UsersInv => LastRequestStands
  BY DEF UsersInv, HistoryInv
<1> QED BY <1>1, UsersInvHolds, PTL

\* A user whose creation has succeeded has a role, unless another call was about its roles.
THEOREM CreatedUsersHaveRoles == Spec => []UsersHaveRoles
<1>1. UsersInv => UsersHaveRoles
  BY DEF UsersInv, RolesInv
<1> QED BY <1>1, UsersInvHolds, PTL

\* Every row of user_role belongs to a user that exists or existed.
THEOREM RolesAreOfUsers == Spec => []RolesBelongToUsers
<1>1. UsersInv => RolesBelongToUsers
  BY DEF UsersInv, TableInv, RolesBelongToUsers, Existing
<1> QED BY <1>1, UsersInvHolds, PTL

\* A batch of deletions that reports success has got rid of its users for good.
THEOREM DeletionsAreFinal == Spec => []DeletedUsersAreGone
<1>1. UsersInv => DeletedUsersAreGone
  BY DEF UsersInv, TableInv, CallsInv, Batch, DeletedUsersAreGone, At
<1> QED BY <1>1, UsersInvHolds, PTL
=============================================================================
