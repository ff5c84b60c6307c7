------------------------------- MODULE Routes -------------------------------
(***************************************************************************)
(* Which routes the registrar mounts.  A handler method is the record of   *)
(* its name, as the sequence of its capitalised words, and of the route    *)
(* the generated table has for it, or None.  A path is a sequence of       *)
(* segments, a segment a sequence of words.                                *)
(***************************************************************************)
EXTENDS Integers, Sequences, SequencesExt

CONSTANTS
    Registrations,  \* RegisterStruct and the explicit routes: handler methods, in order
    Format,         \* "slash" or "snake"
    ExcludePaths,   \* what the JWT middleware lets pass unchecked
    None

\* The prefix decides on the method and is taken off; without one the method is POST.
Verb(word) ==
    CASE word = "Get" -> "GET"
      [] word \in {"Post", "Create"} -> "POST"
      [] word \in {"Put", "Update"} -> "PUT"
      [] word = "Delete" -> "DELETE"
      [] OTHER -> None

Formatted(words) ==
    IF Format = "slash" THEN [i \in DOMAIN words |-> <<words[i]>>] ELSE <<words>>

\* A name that ends with List is the list of its resource, in either format.
formatPath(words) ==
    IF words # <<>> /\ Last(words) = "List"
    THEN Append(Formatted(Front(words)), <<"List">>)
    ELSE Formatted(words)

inferFromName(words) ==
    LET verb == Verb(Head(words))
    IN  IF verb = None THEN [method |-> "POST", path |-> formatPath(words)]
        ELSE [method |-> verb, path |-> formatPath(Tail(words))]

resolveRoute(handler) == IF handler.tag # None THEN handler.tag ELSE inferFromName(handler.words)

\* The registrar knows method and path, not the group: what one group has is not mounted
\* again in another.
mount(mounted, handler) ==
    LET route == resolveRoute(handler)
        seen  == {[method |-> x.method, path |-> x.path] : x \in ToSet(mounted)}
    IN  IF route \in seen THEN mounted
        ELSE Append(mounted, [group |-> handler.group, method |-> route.method,
                              path |-> route.path, name |-> handler.words])

Mounted == ToSet(FoldLeft(mount, <<>>, Registrations))

\* The two routes that are mounted without the registrar.
Root ==
    {[group |-> "root", method |-> "GET", path |-> <<<<p>>>>, name |-> <<p>>] :
        p \in {"health", "metrics"}}

SetupRoutes == Mounted \cup Root

\* The route of a request, at most one.
Matching(request) ==
    {x \in SetupRoutes :
        x.group = request.group /\ x.method = request.method /\ x.path = request.path}

\* An entry with a method, or a star for it, applies to that path; one without a method to
\* every method.  Both test how the request's method:path ends.
isExcludedPath(request) ==
    \E x \in ExcludePaths :
        /\ x.group = request.group /\ x.path = request.path
        /\ x.method \in {None, "*", request.method}
=============================================================================
