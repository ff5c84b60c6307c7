------------------------------- MODULE Users -------------------------------
(***************************************************************************)
(* The user module over its table, with the role assignment of the iam     *)
(* module that its handlers call and the login that reads and writes the   *)
(* same rows.  Every statement is a step and may fail, or take effect and  *)
(* lose its answer; a call works on with what it has read.                 *)
(*                                                                         *)
(* A row has a username, a password and the time of the last login.        *)
(* Email, phone, avatar and status are columns of the request like the     *)
(* username.  None is the zero value: an empty string, an unset pointer.   *)
(* The last two variables are history, and so is the base of a call: what  *)
(* had been asked for when it read the row, and the ids of a deletion: the *)
(* ones that were there when it began.                                     *)
(***************************************************************************)
EXTENDS Integers, FiniteSets

CONSTANTS
    Ids,            \* bound: as many rows can be created
    Names, Passwords,
    Roles,          \* ids of roles, that is, numbers
    RoleSets,       \* the lists of roles a request can name
    Present,        \* the roles whose rows exist: nothing checks it
    Calls,          \* bound: as many calls are made
    Initial,        \* the rows of the installation
    InitialRoles,   \* and its rows of user_role
    None, Guest

ASSUME NoneAssumption == None \notin Ids \cup Names \cup Passwords \cup RoleSets \cup Calls
ASSUME RolesAssumption == Roles \subseteq Nat /\ Present \subseteq Roles /\ RoleSets \subseteq SUBSET Roles

Row == [name : Names, password : Passwords, login : Nat]

ASSUME InitialAssumption ==
    /\ DOMAIN Initial \subseteq Ids /\ Initial \in [DOMAIN Initial -> Row]
    /\ InitialRoles \subseteq (DOMAIN Initial) \X Roles

VARIABLES
    users,      \* user: id -> row
    retired,    \* ids of deleted rows, never handed out again
    userRoles,  \* user_role: pairs <<id, role>>
    call,       \* progress of each call
    time,       \* of the last login
    asked,      \* what the last request that set a column set it to, and which call that was
    undone      \* pairs <<id, column>> that a call has set back since

vars == <<users, retired, userRoles, call, time, asked, undone>>

Idle == [pc |-> "idle", op |-> "none", id |-> None, ids |-> {}, todo |-> {}, name |-> None,
         password |-> None, roles |-> None, read |-> None, base |-> None, seen |-> {}, code |-> None,
         failed |-> FALSE]

Steps == {"insert", "find", "write", "findUser", "readRoles", "assign", "delete",
          "lookup", "resolve", "record"}

Ends == {"ok", "error"}

By == Calls \cup {None}

Given(row, c) == [password |-> <<row.password, c>>, login |-> <<row.login, c>>]

Call == [pc : {"idle"} \cup Steps \cup Ends,
         op : {"none", "Create", "Update", "Assign", "Delete", "Login"},
         id : Ids \cup {None}, ids : SUBSET Ids, todo : SUBSET Ids,
         name : Names \cup {None}, password : Passwords \cup {None},
         roles : RoleSets \cup {None}, read : Row \cup {None},
         base : [password : Passwords \X By, login : Nat \X By] \cup {None}, seen : SUBSET Roles,
         code : Roles \cup {None, Guest}, failed : BOOLEAN]

TypeOK ==
    /\ DOMAIN users \subseteq Ids /\ users \in [DOMAIN users -> Row]
    /\ retired \subseteq Ids \ DOMAIN users
    /\ userRoles \subseteq Ids \X Roles
    /\ call \in [Calls -> Call]
    /\ time \in Nat

Init ==
    /\ users = Initial /\ retired = {} /\ userRoles = InitialRoles
    /\ call = [c \in Calls |-> Idle]
    /\ time = 0
    /\ asked = [i \in DOMAIN Initial |-> Given(Initial[i], None)]
    /\ undone = {}

-----------------------------------------------------------------------------
Step(c, new) == call' = [call EXCEPT ![c] = new]

Goto(c, pc) == Step(c, [call[c] EXCEPT !.pc = pc])

At(c, pc) == call[c].pc = pc

End(acked) == IF acked THEN "ok" ELSE "error"

Rows == <<users, retired, userRoles>>

History == <<time, asked, undone>>

Reads == UNCHANGED Rows /\ UNCHANGED History

Named(n) == {i \in DOMAIN users : users[i].name = n}

RolesOf(i) == {r \in Roles : <<i, r>> \in userRoles}

With(f, i, x) == [j \in DOMAIN f \cup {i} |-> IF j = i THEN x ELSE f[j]]

Without(f, i) == [j \in DOMAIN f \ {i} |-> f[j]]

\* A statement fails.  A login whose time cannot be recorded is one all the same, and a
\* batch of deletions goes on with the next id.
Fails(c) ==
    /\ call[c].pc \in Steps
    /\ \/ At(c, "record") /\ Goto(c, "ok")
       \/ At(c, "delete") /\ \E i \in call[c].todo :
            Step(c, [call[c] EXCEPT !.todo = @ \ {i}, !.failed = TRUE])
       \/ call[c].pc \notin {"record", "delete"} /\ Goto(c, "error")
    /\ Reads

-----------------------------------------------------------------------------
\* POST /user: at least one role.
BeginCreate(c, n, p, rs) ==
    /\ At(c, "idle")
    /\ rs # {}
    /\ Step(c, [Idle EXCEPT !.pc = "insert", !.op = "Create", !.name = n, !.password = p,
                            !.roles = rs])
    /\ Reads

\* Mutant of AfterInsert: the roles are left to the caller.
NoRolesAfterInsert(acked) == End(acked)

\* The handler goes on with the assignment if the service has reported success.
AfterInsert(acked) == IF acked THEN "findUser" ELSE "error"

\* The unique index turns away a name that is there by now.
Insert(c, i, acked) ==
    /\ At(c, "insert")
    /\ i \notin DOMAIN users \cup retired
    /\ Named(call[c].name) = {}
    /\ LET row == [name |-> call[c].name, password |-> call[c].password, login |-> 0]
       IN  /\ users' = With(users, i, row)
           /\ asked' = With(asked, i, Given(row, c))
    /\ Step(c, [call[c] EXCEPT !.pc = AfterInsert(acked), !.id = i])
    /\ UNCHANGED <<retired, userRoles, time, undone>>

-----------------------------------------------------------------------------
\* PUT /user: roles may be absent, or empty to clear them.
BeginUpdate(c, i, n, p, rs) ==
    /\ At(c, "idle")
    /\ Step(c, [Idle EXCEPT !.pc = "find", !.op = "Update", !.id = i, !.name = n,
                            !.password = p, !.roles = rs])
    /\ Reads

FindRow(c) ==
    /\ At(c, "find") /\ call[c].id \in DOMAIN users
    /\ Step(c, [call[c] EXCEPT !.pc = "write", !.read = users[call[c].id],
                                !.base = asked[call[c].id]])
    /\ Reads

\* Mutant of Overlay: the columns of the row that was read win over the request.
OverlayReversed(read, request) ==
    [name |-> read.name, password |-> read.password, login |-> read.login]

\* The request is copied over the row that was read, with its zero values: only the
\* password hash and the columns the request does not have keep what was read.
Overlay(read, request) ==
    [name     |-> request.name,
     password |-> IF request.password = None THEN read.password ELSE request.password,
     login    |-> read.login]

\* Mutant of NonZero: the zero values of the request are written too.
EveryColumn(row, new) == [row EXCEPT !.name = new.name, !.password = new.password]

\* UPDATE of the columns that are not zero.
NonZero(row, new) ==
    [name     |-> IF new.name = None THEN row.name ELSE new.name,
     password |-> new.password,
     login    |-> IF new.login = 0 THEN row.login ELSE new.login]

\* The columns somebody else has asked to change since the call read the row, and that it
\* writes as it read them.
SetBack(c) ==
    LET i == call[c].id
    IN  {<<i, col>> : col \in {k \in {"password", "login"} :
            asked[i][k] # call[c].base[k] /\ (k = "password" => call[c].password = None)}}

\* A row deleted meanwhile is no error, a name taken meanwhile is one.
WriteRow(c, acked) ==
    /\ At(c, "write")
    /\ LET i   == call[c].id
           new == Overlay(call[c].read, call[c])
           row == NonZero(users[i], new)
       IN  /\ i \in DOMAIN users => Named(new.name) \subseteq {i}
           /\ IF i \in DOMAIN users
              THEN /\ users' = With(users, i, row)
                   /\ asked' = [asked EXCEPT ![i].password =
                                    IF call[c].password = None THEN @ ELSE <<call[c].password, c>>]
                   /\ undone' = SetBack(c) \cup (IF call[c].password = None THEN undone
                                               ELSE undone \ {<<i, "password">>})
              ELSE UNCHANGED <<users, asked, undone>>
    /\ Goto(c, IF ~ acked THEN "error" ELSE IF call[c].roles = None THEN "ok" ELSE "findUser")
    /\ UNCHANGED <<retired, userRoles, time>>

-----------------------------------------------------------------------------
\* POST /user/assign/roles, which shares the rest with the two above.
BeginAssign(c, i, rs) ==
    /\ At(c, "idle")
    /\ Step(c, [Idle EXCEPT !.pc = "findUser", !.op = "Assign", !.id = i, !.roles = rs])
    /\ Reads

\* Mutant of FindUser: the user need not exist.
FindUserOrNot(c) ==
    /\ At(c, "findUser")
    /\ Goto(c, "readRoles")
    /\ Reads

FindUser(c) ==
    /\ At(c, "findUser") /\ call[c].id \in DOMAIN users
    /\ Goto(c, "readRoles")
    /\ Reads

\* A user or row that is not there is an error like any other.
NotFound(c) ==
    /\ call[c].pc \in {"find", "findUser"} /\ call[c].id \notin DOMAIN users
    /\ Goto(c, "error")
    /\ Reads

ReadRoles(c) ==
    /\ At(c, "readRoles")
    /\ Step(c, [call[c] EXCEPT !.pc = "assign", !.seen = RolesOf(call[c].id)])
    /\ Reads

\* One transaction with the differences to what was read; a row to add that exists by now
\* breaks the unique index.
Assign(c, acked) ==
    /\ At(c, "assign")
    /\ LET i   == call[c].id
           add == call[c].roles \ call[c].seen
       IN  /\ add \cap RolesOf(i) = {}
           /\ userRoles' =
                (userRoles \ ({i} \X (call[c].seen \ call[c].roles))) \cup ({i} \X add)
    /\ Goto(c, End(acked))
    /\ UNCHANGED <<users, retired>> /\ UNCHANGED History

-----------------------------------------------------------------------------
\* DELETE /user: one id after the other, failures are collected; an id without a row is
\* none, and user_role is left alone.
BeginDelete(c, ids) ==
    /\ At(c, "idle") /\ ids # {}
    /\ Step(c, [Idle EXCEPT !.pc = "delete", !.op = "Delete", !.todo = ids,
                            !.ids = ids \cap DOMAIN users])
    /\ Reads

DeleteRow(c, i, acked) ==
    /\ At(c, "delete") /\ i \in call[c].todo
    /\ users' = Without(users, i)
    /\ retired' = retired \cup ({i} \cap DOMAIN users)
    /\ Step(c, [call[c] EXCEPT !.todo = @ \ {i}, !.failed = @ \/ ~ acked])
    /\ UNCHANGED userRoles /\ UNCHANGED History

\* Mutant of EndDelete: only the last error counts, and there is none.
EndDeleteOk(c) ==
    /\ At(c, "delete") /\ call[c].todo = {}
    /\ Goto(c, "ok")
    /\ Reads

EndDelete(c) ==
    /\ At(c, "delete") /\ call[c].todo = {}
    /\ Goto(c, End(~ call[c].failed))
    /\ Reads

-----------------------------------------------------------------------------
BeginLogin(c, n, p) ==
    /\ At(c, "idle")
    /\ Step(c, [Idle EXCEPT !.pc = "lookup", !.op = "Login", !.name = n, !.password = p])
    /\ Reads

\* FindByUsername and VerifyPassword.
Lookup(c) ==
    /\ At(c, "lookup")
    /\ LET found == {i \in Named(call[c].name) : users[i].password = call[c].password}
       IN  IF found = {} THEN Goto(c, "error")
           ELSE \E i \in found : Step(c, [call[c] EXCEPT !.pc = "resolve", !.id = i])
    /\ Reads

\* The role with the lowest id.
HighestPriority(rs) == CHOOSE r \in rs : \A x \in rs : r <= x

\* resolveRoleCode: of the roles the user has, those with a row; guest without any.
Resolve(c) ==
    /\ At(c, "resolve")
    /\ LET rs == RolesOf(call[c].id) \cap Present
       IN  Step(c, [call[c] EXCEPT !.pc = "record",
                                   !.code = IF rs = {} THEN Guest ELSE HighestPriority(rs)])
    /\ Reads

\* UpdateLastLoginTime writes one column, without reading the row; no row is no error.
Record(c) ==
    /\ At(c, "record")
    /\ time' = time + 1
    /\ LET i == call[c].id
       IN  IF i \in DOMAIN users
           THEN /\ users' = [users EXCEPT ![i].login = time']
                /\ asked' = [asked EXCEPT ![i].login = <<time', c>>]
                /\ undone' = undone \ {<<i, "login">>}
           ELSE UNCHANGED <<users, asked, undone>>
    /\ Goto(c, "ok")
    /\ UNCHANGED <<retired, userRoles>>

Next ==
    \E c \in Calls :
        \/ Fails(c) \/ FindRow(c) \/ FindUser(c) \/ NotFound(c) \/ ReadRoles(c) \/ EndDelete(c)
        \/ Lookup(c) \/ Resolve(c) \/ Record(c)
        \/ \E n \in Names, p \in Passwords :
            BeginLogin(c, n, p) \/ \E rs \in RoleSets : BeginCreate(c, n, p, rs)
        \/ \E i \in Ids, n \in Names \cup {None}, p \in Passwords \cup {None},
              rs \in RoleSets \cup {None} : BeginUpdate(c, i, n, p, rs)
        \/ \E i \in Ids, rs \in RoleSets : BeginAssign(c, i, rs)
        \/ \E ids \in SUBSET Ids : BeginDelete(c, ids)
        \/ \E acked \in BOOLEAN :
            \/ \E i \in Ids : Insert(c, i, acked) \/ DeleteRow(c, i, acked)
            \/ WriteRow(c, acked) \/ Assign(c, acked)

Spec == Init /\ [][Next]_vars

-----------------------------------------------------------------------------
(* Properties.                                                             *)

\* Password and login time of a row are what the last request set them to, whatever updates
\* of other columns run beside it, unless one that had read the row before wrote it back.
LastRequestStands ==
    \A i \in DOMAIN users, col \in {"password", "login"} :
        users[i][col] = asked[i][col][1] \/ <<i, col>> \in undone

\* Comment of Update (user_service.go:89): an empty password leaves the password as it is.
PasswordsStayUntilChanged ==
    \A i \in DOMAIN users : users[i].password = asked[i].password[1]

ForRolesOf(c, i) == call[c].id = i /\ call[c].op \in {"Update", "Assign"} /\ call[c].roles # None

\* Comment of CreateUserRequest: a user has at least one role.  One that was created is
\* without only before its creation has succeeded, or when another call was about its roles.
UsersHaveRoles ==
    \A i \in DOMAIN users \ DOMAIN Initial :
        RolesOf(i) = {} =>
            \E c \in Calls :
                \/ call[c].op = "Create" /\ call[c].id = i /\ ~ At(c, "ok")
                \/ ForRolesOf(c, i)

\* Roles are given to users only: a row of user_role belongs to a user that exists, or did
\* when the assignment began.  The rows of a deleted user stay, and nobody gets its id.
RolesBelongToUsers == \A x \in userRoles : x[1] \in DOMAIN users \cup retired

\* A batch that reports success has got rid of every user that was there when it began,
\* whatever runs beside it.
DeletedUsersAreGone ==
    \A c \in Calls :
        call[c].op = "Delete" /\ At(c, "ok") => call[c].ids \cap DOMAIN users = {}
=============================================================================
