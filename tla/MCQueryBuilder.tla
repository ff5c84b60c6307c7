-------------------------- MODULE MCQueryBuilder --------------------------
(* Three rows that every condition tells apart, one of them with a NULL.   *)
EXTENDS QueryBuilder, TLC

CONSTANT null

MCRow(id, n, s) == "id" :> id @@ "name" :> n @@ "status" :> s
MCAllRows == {MCRow(1, 5, 1), MCRow(2, 5, 2), MCRow(3, 6, null)}
MCTables == {MCAllRows, {MCRow(2, 5, 2)}}
MCLike == {<<5, 5>>, <<6, 6>>, <<5, 7>>, <<6, 7>>}

Cond(f, op, kind, v) == [field |-> f, op |-> op, kind |-> kind, value |-> v]
MCConds == {Cond("name", "eq", "scalar", 5), Cond("status", "ne", "scalar", 1),
            Cond("id", "in", "list", {1, 3}), Cond("name", "startswith", "scalar", 5)}

Word(kind, text) == [kind |-> kind, text |-> text]
Tag(quoted, words) == [quoted |-> quoted, words |-> words]
Named(column, op) == Tag(None, <<Word("name", column), Word("op", op)>>)
MCFields ==
    <<[name |-> "ID", kind |-> "scalar",
       tag |-> Tag("id", <<Word("name", "pk"), Word("name", "autoincr"), Word("type", "bigint")>>)],
      [name |-> "Page", kind |-> "struct", tag |-> Tag(None, <<>>)],
      [name |-> "Name", kind |-> "scalar",
       tag |-> Tag(None, <<Word("name", "name"), Word("op", "like"), Word("name", "index")>>)],
      [name |-> "Status", kind |-> "pointer", tag |-> Named("status", "ge")],
      [name |-> "Code", kind |-> "scalar", tag |-> Named("name", "startswith")],
      [name |-> "Flags", kind |-> "scalar", tag |-> Tag(None, <<>>)],
      [name |-> "IDs", kind |-> "list", tag |-> Named("id", "in")],
      [name |-> "Nick", kind |-> "pointer", tag |-> Named("name", "like")]>>
\* Fields that do not count; a scalar; LIKE next to each operator that is dropped; pointers
\* to 0 and to a value, with lists without and with members; LIKE on a pointer.
MCModels ==
    {<<0, 1, 0, None, 0, 1, None, None>>, <<2, 1, 0, None, 0, 0, None, None>>,
     <<0, 1, 7, None, 5, 0, {}, None>>, <<0, 1, 0, 0, 0, 0, {}, None>>,
     <<0, 1, 7, 2, 0, 0, {1, 2}, None>>, <<0, 1, 0, 1, 0, 0, None, 5>>}
=============================================================================
