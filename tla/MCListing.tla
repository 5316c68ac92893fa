----------------------------- MODULE MCListing ------------------------------
(***************************************************************************)
(* An instance of Listing for TLC. The table of most features is a stock   *)
(* of rows: one of ones, one of twos, for each attribute one that has a    *)
(* two only there, and a deleted one. Carriers are few, and change.        *)
(***************************************************************************)
EXTENDS Listing

Attributes(f) ==
    LET dates == {FieldsFrom[x] : x \in Fields[f] \cap DOMAIN FieldsFrom}
        plain == Fields[f] \ (DOMAIN FieldsFrom \cup DOMAIN FieldsUntil
                              \cup {"id", "term", "is_deleted", "template"})
        joined == IF f = "user_permission" THEN {"user", "permission"}
                  ELSE IF f = "mail_queue" THEN {"template_id", "template_label"} ELSE {}
        texts == IF f \in DOMAIN Searched THEN Searched[f] ELSE {}
    IN  dates \cup plain \cup joined \cup texts

Numbered(i, row, deleted) == ("id" :> i) @@ ("deleted" :> deleted) @@ row

Stock(f) ==
    LET A == Attributes(f)
        names == FoldSet(LAMBDA a, s : Append(s, a), <<>>, A)
        ones == [a \in A |-> 1]
        twos == [a \in A |-> 2]
    IN  [i \in 1..(Len(names) + 3) |->
            CASE i = 1 -> Numbered(i, ones, FALSE)
              [] i = 2 -> Numbered(i, twos, FALSE)
              [] i = 3 -> Numbered(i, ones, TRUE)
              [] OTHER -> Numbered(i, [ones EXCEPT ![names[i - 3]] = 2], FALSE)]

Few == [i \in 1..4 |->
        Numbered(i, [name |-> IF i = 2 THEN 2 ELSE 1,
                              website |-> IF i = 3 THEN 2 ELSE 1], i = 4)]

MCInitial(f) == IF f \in Changing THEN Few ELSE Stock(f)

Terms == {None, [kind |-> "short", value |-> 2], [kind |-> "text", value |-> 2],
          [kind |-> "number", value |-> 0], [kind |-> "number", value |-> 2]}

Asked(field) ==
    CASE field = "id" -> {None, 0, 1, 2}
      [] field = "is_deleted" -> BOOLEAN
      [] field = "term" -> Terms
      [] field = "template" -> {t \in Terms : t # None => t.kind # "short"}
      [] field \in DOMAIN FieldsFrom \cup DOMAIN FieldsUntil -> {None, 1, 2}
      [] OTHER -> {None, 1}

\* Every filter: some fields with a value each.
Filters(f) == FoldSet(LAMBDA field, all : {(field :> v) @@ d : v \in Asked(field), d \in all},
                      {<<>>}, Fields[f])
\* Nothing but deleted rows is asked for.
Plain(f) == {[field \in Fields[f] |-> IF field = "is_deleted" THEN b ELSE None] : b \in BOOLEAN}

MCQueries(f) ==
    [filter : Filters(f), allowDeleted : BOOLEAN, order_by : {"id"}, direction : {"ASC"},
     limit : {5}]
    \cup IF f \notin Changing THEN {}
         ELSE [filter : Plain(f), allowDeleted : BOOLEAN, order_by : {"id"},
               direction : {"ASC", "DESC"}, limit : {1, 2}]
              \cup [filter : Plain(f), allowDeleted : {FALSE}, order_by : {"name"},
                    direction : {"DESC"}, limit : {2}]
=============================================================================
