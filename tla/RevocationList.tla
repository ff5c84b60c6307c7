--------------------------- MODULE RevocationList ---------------------------
(***************************************************************************)
(* What a list of revoked tokens promises, whichever driver keeps it: it   *)
(* is a set.  An id is in it from one instant on, every lookup is answered *)
(* at one instant, and an id leaves it only when its token has expired, or *)
(* with the whole list.  There are no lifetimes here, no locks and nothing *)
(* to clean up.                                                            *)
(***************************************************************************)
CONSTANTS
    Nodes,      \* processes, each with a list of its own
    Remote,     \* the lists behind a network: they may fail to answer
    Jtis,
    Requests,
    None

VARIABLES
    issued,     \* ids that have been given to a token
    live,       \* those whose token has not expired
    listed,     \* pairs <<list, jti>>
    confirmed,  \* those that a caller was told of
    ask         \* request -> what it asks, or has been let through with, on which node

vars == <<issued, live, listed, confirmed, ask>>

Lists == Nodes \cup Remote

NoAsk == [stage |-> "none", node |-> None, about |-> None]

Init ==
    /\ issued = {} /\ live = {} /\ listed = {} /\ confirmed = {}
    /\ ask = [r \in Requests |-> NoAsk]

\* An id is given away once.
Issue ==
    /\ issued \subseteq issued' /\ issued' \subseteq Jtis
    /\ live' = live \cup (issued' \ issued)
    /\ UNCHANGED <<listed, confirmed, ask>>

Begin(r, n, l, j) ==
    /\ ask[r].stage = "none" /\ j \in live
    /\ ask' = [ask EXCEPT ![r] = [stage |-> "asking", node |-> n, about |-> <<l, j>>]]
    /\ UNCHANGED <<issued, live, listed, confirmed>>

Refuse(r) ==
    /\ ask[r].stage = "asking"
    /\ ask[r].about \in listed \/ ask[r].about[1] \in Remote
    /\ ask' = [ask EXCEPT ![r] = NoAsk]
    /\ UNCHANGED <<issued, live, listed, confirmed>>

Pass(r) ==
    /\ ask[r].stage = "asking" /\ ask[r].about \notin listed
    /\ ask' = [ask EXCEPT ![r].stage = "passed"]
    /\ UNCHANGED <<issued, live, listed, confirmed>>

End(r) ==
    /\ ask[r].stage = "passed"
    /\ ask' = [ask EXCEPT ![r] = NoAsk]
    /\ UNCHANGED <<issued, live, listed, confirmed>>

\* A list behind a network may take an id and fail to say so.
Add(l, j, told) ==
    /\ j \in issued
    /\ told \/ l \in Remote
    /\ listed' = listed \cup {<<l, j>>}
    /\ confirmed' = IF told THEN confirmed \cup {<<l, j>>} ELSE confirmed
    /\ UNCHANGED <<issued, live, ask>>

\* An expired token need not be listed.
Skip(l, j) ==
    /\ j \in issued \ live
    /\ confirmed' = confirmed \cup {<<l, j>>}
    /\ UNCHANGED <<issued, live, listed, ask>>

\* Tokens expire, and entries of expired tokens may go.
Expire ==
    /\ live' \subseteq live /\ listed' \subseteq listed
    /\ \A x \in listed \ listed' : x[2] \notin live'
    /\ UNCHANGED <<issued, confirmed, ask>>

\* A process ends with its list and its requests.
Lose(n) ==
    /\ listed' = {x \in listed : x[1] # n}
    /\ confirmed' = {x \in confirmed : x[1] # n}
    /\ ask' = [r \in Requests |-> IF ask[r].node = n THEN NoAsk ELSE ask[r]]
    /\ UNCHANGED <<issued, live>>

Next ==
    \/ Issue
    \/ \E r \in Requests :
        \/ \E n \in Nodes, j \in Jtis : \E l \in {n} \cup Remote : Begin(r, n, l, j)
        \/ Refuse(r) \/ Pass(r) \/ End(r)
    \/ \E l \in Lists, j \in Jtis : (\E told \in BOOLEAN : Add(l, j, told)) \/ Skip(l, j)
    \/ Expire
    \/ \E n \in Nodes : Lose(n)

Spec == Init /\ [][Next]_vars
=============================================================================
