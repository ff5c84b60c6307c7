--------------------------- MODULE MCRequestChain ---------------------------
(* Some routes of each group, three files and one client.                  *)
EXTENDS RequestChain, TLC

CONSTANTS r1, r2, client

\* Login has an entry in the generated table; the other handlers go by their names.  The
\* Logout of the protected group is not mounted, because the other group has one.
Handler(group, words) == [group |-> group, words |-> words, tag |-> None]

MCRegistrations ==
    << [Handler("api", <<"Login">>) EXCEPT !.tag = [method |-> "POST", path |-> <<<<"login">>>>]],
       Handler("api", <<"Logout">>),
       Handler("protected", <<"Delete", "User">>),
       Handler("protected", <<"Get", "User", "List">>),
       Handler("protected", <<"Logout">>) >>

MCExcludePaths == {[method |-> None, group |-> "api", path |-> <<<<"login">>>>],
                   [method |-> "*", group |-> "protected", path |-> <<<<"User">>, <<"List">>>>]}

Ask4(method, group, path, who, does) ==
    [method |-> method, group |-> group, path |-> path, ip |-> client, who |-> who, does |-> does]

LoginBy(does) == Ask4("POST", "api", <<<<"login">>>>, "rejected", does)
ListBy(who, does) == Ask4("GET", "protected", <<<<"User">>, <<"List">>>>, who, does)
DeleteBy(who, does) == Ask4("DELETE", "protected", <<<<"User">>>>, who, does)
Probe(method, p) == Ask4(method, "root", <<<<p>>>>, "rejected", "success")

Nowhere == Probe("GET", "nowhere")

\* Sentinel with one request next to its two goroutines; the others with two requests that
\* race for a bucket, and a third choice with one request of every kind.
MCSetups ==
    {[guard |-> "sentinel",
      sends |-> r1 :> {LoginBy("success"), LoginBy("panic"), ListBy("denied", "missing"),
                       Ask4("OPTIONS", "api", <<<<"login">>>>, "rejected", "nil")}],
     [guard |-> "ip",
      sends |-> r1 :> {LoginBy("success"), DeleteBy("denied", "nil")} @@ r2 :> {Nowhere}],
     [guard |-> "cluster", sends |-> r1 :> {LoginBy("panic")} @@ r2 :> {LoginBy("conflict")}],
     [guard |-> "cluster",
      sends |-> r1 :> {LoginBy(x) : x \in Does} \cup {DeleteBy(x, "error") : x \in Credentials}
                    \cup {ListBy(x, "success") : x \in Credentials}
                    \cup {Probe("GET", "health"), Probe("POST", "health"), Nowhere,
                          Ask4("POST", "protected", <<<<"Logout">>>>, "permitted", "success")}]}

Resource(name, path, flow, breaker) ==
    [name |-> name, path |-> path, enabled |-> TRUE, flow |-> flow, breaker |-> breaker]

\* The default rule; the login under a name of its own; under another one, the default
\* without a flow rule.
MCFiles ==
    {<<Resource("global_default", <<"*">>, TRUE, FALSE), Resource("api_login", <<"api", <<"login">>>>, TRUE, TRUE)>>,
     <<Resource("global_default", <<"*">>, FALSE, TRUE), Resource("login", <<"api", <<"login">>>>, TRUE, FALSE)>>}
=============================================================================
