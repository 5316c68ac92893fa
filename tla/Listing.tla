------------------------------- MODULE Listing -------------------------------
(***************************************************************************)
(* The lists of the back office: what the filters of a request make of a   *)
(* query (RepositoryAbstract, the query classes of the repositories and    *)
(* findByFilter of the services), against what the validators say that a   *)
(* client may ask for; and a client who walks through the pages of a list  *)
(* while rows enter it and leave it.                                       *)
(*                                                                         *)
(* Values of columns are 1 and 2, of texts two that do not contain each    *)
(* other. A column is named as the code writes it, since the parameter of  *)
(* a condition has the name of its column: two conditions on a column of   *)
(* one name share their parameter, and the last value wins.                *)
(***************************************************************************)
EXTENDS Integers, SequencesExt, FiniteSets, TLC

CONSTANTS
    Features,       \* lists that an instance looks at, one per behaviour
    Changing,       \* those whose rows change while a client walks
    Initial(_),     \* the rows of a feature: [ids -> row]
    Queries(_),     \* what clients ask of a feature
    MaxChanges,     \* bound: changes of a behaviour
    MaxPages,       \* bound: pages of a walk
    None

VARIABLES
    feature,        \* the list looked at
    rows,           \* its table: [ids -> row]
    query,          \* what the client asked for, or None
    pages,          \* the pages read so far: [page, shown]
    total,          \* the number that comes with the last of them, or None until it is read
    changes,        \* changes so far
    stayed,         \* ghost: rows that were in the list at every moment of the walk
    entered, left   \* ghost: how many times a row entered or left the list

vars == <<feature, rows, query, pages, total, changes, stayed, entered, left>>
-----------------------------------------------------------------------------
(* The query builder. A condition holds when one of its tests does.         *)

\* The columns whose written name is not that of the attribute they read.
Qualified ==
    ("brand.id" :> "id") @@ ("brand.type" :> "type") @@ ("brand.status" :> "status") @@
    ("place.id" :> "id") @@ ("place.type" :> "type") @@ ("content.language" :> "language") @@
    ("permission.entity" :> "entity") @@ ("permission.operation" :> "operation") @@
    ("content::text" :> "content") @@ ("to::text" :> "to")
prepareColumn(c) == IF c \in DOMAIN Qualified THEN Qualified[c] ELSE c

\* What JavaScript takes for a value: neither undefined nor 0.
Given(v) == v # None /\ v # 0
Test(c, op, key) == [column |-> prepareColumn(c), op |-> op, key |-> key]
Condition(tests, params) == <<[any |-> tests, params |-> params]>>

filterBy(c, v, op) ==
    IF ~Given(v) THEN <<>> ELSE Condition({Test(c, op, <<"", c>>)}, <<"", c>> :> v)
filterById(v) == filterBy("id", v, "=")
filterByStatus(v) == filterBy("status", v, "=")
filterAny(S, v) == Condition({Test(c, "=", <<"", c>>) : c \in S},
                             [k \in {<<"", c>> : c \in S} |-> v])
filterByRange(c, min, max) ==
    IF Given(min) /\ Given(max)
    THEN Condition({Test(c, ">=", <<"min", c>>)}, <<"min", c>> :> min)
         \o Condition({Test(c, "<=", <<"max", c>>)}, <<"max", c>> :> max)
    ELSE filterBy(c, min, ">=") \o filterBy(c, max, "<=")
\* A term that is a number is an id; a text of at most three letters is dropped.
filterByTerm(id, S, t) ==
    CASE t = None \/ t.kind = "short" -> <<>>
      [] t.kind = "number" -> filterBy(id, t.value, "=")
      [] t.kind = "text" -> filterAny(S, t.value)
filterByTemplate(t) ==
    IF t = None \/ ~Given(t.value) THEN <<>>
    ELSE IF t.kind = "number"
    THEN Condition({Test("template_id", "=", <<"", "id">>)}, <<"", "id">> :> t.value)
    ELSE filterBy("template_label", t.value, "=")
\* The inner join of the texts: with no language it joins nothing. Joined rows that
\* are soft-deleted do not count; 1 stands for one that is not.
joinTexts(language) ==
    Condition({Test("content.language", "=", <<"", "language">>)}, <<"", "language">> :> language)
join(alias) == Condition({Test(alias, "=", <<"join", alias>>)}, <<"join", alias>> :> 1)
-----------------------------------------------------------------------------
(* Per feature: the fields that its validator accepts in a filter, the       *)
(* columns that a term is looked for in, and the conditions of findByFilter. *)

brandFields == {"id", "term", "type", "status", "language", "is_deleted"}
brandTerm == {"name", "description"}
brandFilter(d) ==
    joinTexts(d.language) \o filterById(d.id) \o filterBy("brand.type", d.type, "=")
    \o filterBy("brand.status", d.status, "=") \o filterBy("content.language", d.language, "=")
    \o filterByTerm("brand.id", brandTerm, d.term)

carrierFields == {"id", "term", "is_deleted"}
carrierTerm == {"name", "website"}
carrierFilter(d) == filterById(d.id) \o filterByTerm("id", carrierTerm, d.term)

clientFields == {"id", "term", "client_type", "status", "create_date_start", "create_date_end",
                 "is_deleted"}
clientTerm == {"company_name", "company_cui", "company_reg_com", "person_name", "person_cnp"}
clientFilter(d) ==
    filterById(d.id) \o filterBy("client_type", d.client_type, "=") \o filterByStatus(d.status)
    \o filterByRange("created_at", d.create_date_start, d.create_date_end)
    \o filterByTerm("id", clientTerm, d.term)

discountFields == {"id", "term", "scope", "reason", "type", "reference", "start_at_start",
                   "start_at_end", "is_deleted"}
discountTerm == {"label", "reference"}
discountFilter(d) ==
    filterById(d.id) \o filterBy("scope", d.scope, "=") \o filterBy("reason", d.reason, "=")
    \o filterBy("type", d.type, "=")
    \o filterByRange("start_at", d.start_at_start, d.start_at_end)
    \o filterByTerm("id", discountTerm, d.term)

placeFields == {"id", "term", "type", "language", "is_deleted"}
placeTerm == {"name"}
placeFilter(d) ==
    joinTexts(d.language) \o filterById(d.id) \o filterBy("content.language", d.language, "=")
    \o filterByTerm("place.id", placeTerm, d.term) \o filterBy("place.type", d.type, "=")

templateFields == {"id", "term", "language", "type", "is_deleted"}
templateTerm == {"label", "content"}
templateFilter(d) ==
    filterById(d.id) \o filterBy("language", d.language, "=") \o filterBy("type", d.type, "=")
    \o filterByTerm("id", templateTerm, d.term)

permissionFields == {"id", "term", "is_deleted"}
permissionTerm == {"entity", "operation"}
permissionFilter(d) == filterById(d.id) \o filterByTerm("id", permissionTerm, d.term)

\* The list of one user; the filter's user_id is accepted and not used.
userPermissionFields == {"user_id", "entity", "operation", "is_deleted"}
userPermissionFilter(d) ==
    join("user") \o join("permission") \o filterBy("permission.entity", d.entity, "=")
    \o filterBy("permission.operation", d.operation, "=")

logDataFields == {"id", "category", "level", "term", "create_date_start", "create_date_end"}
logDataTerm == {"request_id", "pid", "message", "context"}
logDataFilter(d) ==
    filterById(d.id) \o filterByRange("created_at", d.create_date_start, d.create_date_end)
    \o filterBy("category", d.category, "=") \o filterBy("level", d.level, "=")
    \o filterByTerm("id", logDataTerm, d.term)

cronHistoryFields == {"id", "term", "status", "start_date_start", "start_date_end"}
cronHistoryTerm == {"label", "content"}
cronHistoryFilter(d) ==
    filterById(d.id) \o filterByRange("start_at", d.start_date_start, d.start_date_end)
    \o filterBy("status", d.status, "=") \o filterByTerm("id", cronHistoryTerm, d.term)

logHistoryFields == {"entity", "entity_id", "action", "request_id", "source",
                     "recorded_at_start", "recorded_at_end"}
logHistoryFilter(d) ==
    filterBy("request_id", d.request_id, "=") \o filterBy("entity", d.entity, "=")
    \o filterBy("entity_id", d.entity_id, "=") \o filterBy("action", d.action, "=")
    \o filterBy("source", d.source, "=")
    \o filterByRange("recorded_at", d.recorded_at_start, d.recorded_at_end)

mailQueueFields == {"id", "template", "language", "status", "content", "to",
                    "sent_date_start", "sent_date_end"}
mailQueueFilter(d) ==
    filterById(d.id) \o filterByRange("sent_at", d.sent_date_start, d.sent_date_end)
    \o filterByStatus(d.status) \o filterByTemplate(d.template)
    \o filterBy("content::text", d.content, "=") \o filterBy("to::text", d.to, "=")

\* The filter's id is accepted and not used. The validator puts articles for no type.
ARTICLE == 2
categoryFields == {"id", "language", "type", "status", "term", "is_deleted"}
categoryTerm == {"label", "parent_label"}
categoryFilter(d) ==
    joinTexts(d.language) \o filterBy("type", IF d.type = None THEN ARTICLE ELSE d.type, "=")
    \o filterByStatus(d.status) \o filterByTerm("id", categoryTerm, d.term)

userFields == {"id", "term", "status", "role", "create_date_start", "create_date_end",
               "is_deleted"}
userTerm == {"name", "email"}
userFilter(d) ==
    filterById(d.id) \o filterByStatus(d.status) \o filterBy("role", d.role, "=")
    \o filterByRange("created_at", d.create_date_start, d.create_date_end)
    \o filterByTerm("id", userTerm, d.term)

Fields ==
    [brand |-> brandFields, carrier |-> carrierFields, client |-> clientFields,
     discount |-> discountFields, place |-> placeFields, template |-> templateFields,
     permission |-> permissionFields, user_permission |-> userPermissionFields,
     log_data |-> logDataFields, cron_history |-> cronHistoryFields,
     log_history |-> logHistoryFields, mail_queue |-> mailQueueFields,
     category |-> categoryFields, user |-> userFields]
Searched ==
    [brand |-> brandTerm, carrier |-> carrierTerm, client |-> clientTerm,
     discount |-> discountTerm, place |-> placeTerm, template |-> templateTerm,
     permission |-> permissionTerm, log_data |-> logDataTerm,
     cron_history |-> cronHistoryTerm, category |-> categoryTerm, user |-> userTerm]
Filter(f, d) ==
    CASE f = "brand" -> brandFilter(d)
      [] f = "carrier" -> carrierFilter(d)
      [] f = "client" -> clientFilter(d)
      [] f = "discount" -> discountFilter(d)
      [] f = "place" -> placeFilter(d)
      [] f = "template" -> templateFilter(d)
      [] f = "permission" -> permissionFilter(d)
      [] f = "user_permission" -> userPermissionFilter(d)
      [] f = "log_data" -> logDataFilter(d)
      [] f = "cron_history" -> cronHistoryFilter(d)
      [] f = "log_history" -> logHistoryFilter(d)
      [] f = "mail_queue" -> mailQueueFilter(d)
      [] f = "category" -> categoryFilter(d)
      [] f = "user" -> userFilter(d)

\* The tables have ids from 1 on, and clients ask for what the validators let through.
ASSUME ListingAssumption ==
    /\ MaxChanges \in Nat
    /\ \A f \in Features :
        LET ids == DOMAIN Initial(f)
        IN  /\ IsFiniteSet(ids) /\ ids = 1..Cardinality(ids)
            /\ \A i \in ids : /\ {"id", "deleted"} \subseteq DOMAIN Initial(f)[i]
                             /\ Initial(f)[i].id = i /\ Initial(f)[i].deleted \in BOOLEAN
            /\ None \notin Queries(f)
            /\ \A q \in Queries(f) :
                DOMAIN q.filter = Fields[f] /\ q.limit \in Nat \ {0}
                /\ q.direction \in {"ASC", "DESC"}
-----------------------------------------------------------------------------
(* PostgreSQL runs the query.                                               *)

\* (And a list that shows deleted rows to whoever asks.)
askedDeleted(q) == "is_deleted" \in DOMAIN q.filter /\ q.filter.is_deleted
withDeleted(q) == q.allowDeleted /\ "is_deleted" \in DOMAIN q.filter /\ q.filter.is_deleted

Passes(test, v, row) ==
    CASE test.op = "=" -> row[test.column] = v
      [] test.op = ">=" -> row[test.column] >= v
      [] test.op = "<=" -> row[test.column] <= v

\* The query q selects a row.
Selects(f, q, row) ==
    LET conditions == Filter(f, q.filter)
        params == FoldLeft(LAMBDA all, c : c.params @@ all, <<>>, conditions)
    IN  /\ row.deleted => withDeleted(q)
        /\ \A n \in DOMAIN conditions :
                \E t \in conditions[n].any : Passes(t, params[t.key], row)
\* The ids of the rows that it selects from the table r.
Selected(f, q, r) == {i \in DOMAIN r : Selects(f, q, r[i])}

\* The ids of S in their order: the n-th is the one with n ids up to it.
ascending(S) ==
    [n \in 1..Cardinality(S) |-> CHOOSE i \in S : Cardinality({j \in S : j <= i}) = n]

\* The orders that PostgreSQL may return them in: ties are as they come.
orderBy(S, q, r) ==
    LET before(i, j) == IF q.direction = "ASC" THEN r[i][q.order_by] <= r[j][q.order_by]
                        ELSE r[i][q.order_by] >= r[j][q.order_by]
    IN  IF q.order_by = "id"
        THEN {IF q.direction = "ASC" THEN ascending(S) ELSE Reverse(ascending(S))}
        ELSE {s \in SetToSeqs(S) : \A m, n \in DOMAIN s : m < n => before(s[m], s[n])}

\* skip and take. (And a page that begins one page too late, and one without a limit.)
SkipTake(s, skip, take) == SubSeq(s, skip + 1, IF skip + take < Len(s) THEN skip + take ELSE Len(s))
paginationLate(s, page, limit) == SkipTake(s, page * limit, limit)
paginationOpen(s, page, limit) == SkipTake(s, (page - 1) * limit, Len(s))
pagination(s, page, limit) == SkipTake(s, (page - 1) * limit, limit)

\* findByFilter of the services and find of the controllers: getManyAndCount reads the
\* page, then its number in a statement of its own, in no transaction.
findByFilter(q, page) ==
    /\ \E s \in orderBy(Selected(feature, q, rows), q, rows) :
            pages' = Append(pages, [page |-> page, shown |-> pagination(s, page, q.limit)])
    /\ total' = None
-----------------------------------------------------------------------------
Walking == query # None
Finished == Walking /\ total # None /\ Last(pages).page * query.limit >= total

Init ==
    /\ feature \in Features
    /\ rows = Initial(feature)
    /\ query = None /\ pages = <<>> /\ total = None
    /\ changes = 0 /\ stayed = {} /\ entered = 0 /\ left = 0

\* A client asks for the first page of a list.
Ask ==
    /\ ~Walking
    /\ \E q \in Queries(feature) :
            /\ query' = q
            /\ findByFilter(q, 1)
            /\ stayed' = Selected(feature, q, rows)
    /\ UNCHANGED <<feature, rows, changes, entered, left>>

\* The second statement. (TypeORM may count from a page that is not full instead: as
\* if it came at once.)
Count ==
    /\ Walking /\ total = None
    /\ total' = Cardinality(Selected(feature, query, rows))
    /\ UNCHANGED <<feature, rows, query, pages, changes, stayed, entered, left>>

\* The client, answered, asks for the next page while there is one.
NextPage ==
    /\ Walking /\ total # None /\ ~Finished /\ Len(pages) < MaxPages
    /\ findByFilter(query, Len(pages) + 1)
    /\ UNCHANGED <<feature, rows, query, changes, stayed, entered, left>>

\* Between two statements other requests change the table.
Change(r) ==
    LET was == Selected(feature, query, rows)
        is == Selected(feature, query, r)
    IN  /\ feature \in Changing /\ changes < MaxChanges /\ Walking /\ ~Finished
        /\ rows' = r
        /\ changes' = changes + 1
        /\ stayed' = stayed \cap is
        /\ entered' = entered + Cardinality(is \ was)
        /\ left' = left + Cardinality(was \ is)
        /\ UNCHANGED <<feature, query, pages, total>>

\* A new row is like an old one, with the next id.
Insert == \E i \in DOMAIN rows :
            LET n == Cardinality(DOMAIN rows) + 1
                new == [rows[i] EXCEPT !.id = n, !.deleted = FALSE]
            IN  Change([j \in DOMAIN rows \cup {n} |-> IF j = n THEN new ELSE rows[j]])
Delete == \E i \in DOMAIN rows :
            ~rows[i].deleted /\ Change([rows EXCEPT ![i].deleted = TRUE])
Restore == \E i \in DOMAIN rows :
            rows[i].deleted /\ Change([rows EXCEPT ![i].deleted = FALSE])

Next == Ask \/ Count \/ NextPage \/ Insert \/ Delete \/ Restore

Spec == Init /\ [][Next]_vars
-----------------------------------------------------------------------------
(* What a list promises. *)

FieldsFrom == [create_date_start |-> "created_at", start_at_start |-> "start_at",
               start_date_start |-> "start_at", recorded_at_start |-> "recorded_at",
               sent_date_start |-> "sent_at"]
FieldsUntil == [create_date_end |-> "created_at", start_at_end |-> "start_at",
                start_date_end |-> "start_at", recorded_at_end |-> "recorded_at",
                sent_date_end |-> "sent_at"]

\* The row is one that the client means by the value v of a field.
Meant(f, field, v, row) ==
    CASE field = "is_deleted" -> TRUE
      [] field \in DOMAIN FieldsFrom -> row[FieldsFrom[field]] >= v
      [] field \in DOMAIN FieldsUntil -> row[FieldsUntil[field]] <= v
      [] field = "term" -> IF v.kind = "number" THEN row.id = v.value
                           ELSE \E c \in Searched[f] : row[c] = v.value
      [] field = "template" -> IF v.kind = "number" THEN row.template_id = v.value
                               ELSE row.template_label = v.value
      [] OTHER -> row[field] = v

\* The features whose rows are joined with texts in the language asked for, which
\* find nothing when the filter names none.
Translated == {"brand", "place", "category"}

\* The filter that the code goes by, which overlooks some of what it accepts: an id
\* of 0, or next to a number as the term, whose parameter replaces it, or among
\* categories; a term of at most three letters or 0; a template of 0; the fields
\* that findByFilter does not read. Among mails, the number of a template replaces
\* the id. Where no type is named, categories are articles.
Overlooked(f, d) ==
    {field \in DOMAIN d :
        \/ /\ field = "id"
           /\ \/ d.id = 0 \/ f = "category"
              \/ /\ f \notin Translated /\ "term" \in DOMAIN d
                 /\ d.term.kind = "number" /\ d.term.value # 0
        \/ /\ field = "term"
           /\ \/ d.term.kind = "short"
              \/ d.term.kind = "number" /\ d.term.value = 0
        \/ field = "template" /\ d.template.kind = "number" /\ d.template.value = 0
        \/ <<f, field>> \in {<<"discount", "reference">>, <<"user_permission", "user_id">>,
                             <<"mail_queue", "language">>}}
Heeded(f, d) ==
    LET named == DOMAIN d \ Overlooked(f, d)
        byNumber == "template" \in named /\ d.template.kind = "number"
    IN  [field \in named |-> IF field = "id" /\ byNumber THEN d.template.value ELSE d[field]]
        @@ IF f = "category" THEN "type" :> ARTICLE ELSE <<>>

\* The rows that a list is about: the permissions of a user, without deleted ones.
Whole(f, row) == f = "user_permission" => row.user = 1 /\ row.permission = 1

Wanted(f, q, r) ==
    LET asked == {field \in DOMAIN q.filter : q.filter[field] # None}
        d == Heeded(f, [field \in asked |-> q.filter[field]])
    IN  IF f \in Translated /\ "language" \notin asked THEN {}
        ELSE {i \in DOMAIN r :
                /\ r[i].deleted => q.allowDeleted /\ "is_deleted" \in DOMAIN d /\ d.is_deleted
                /\ Whole(f, r[i])
                /\ \A field \in DOMAIN d : Meant(f, field, d[field], r[i])}

TypeOK ==
    /\ feature \in Features
    /\ \A i \in DOMAIN rows : rows[i].id = i /\ rows[i].deleted \in BOOLEAN
    /\ Walking => DOMAIN query.filter = Fields[feature] /\ query.limit \in Nat \ {0}
    /\ ~Walking => pages = <<>>
    /\ \A n \in DOMAIN pages :
            /\ pages[n].page = n
            /\ pages[n].shown \in Seq(DOMAIN rows) /\ Len(pages[n].shown) <= query.limit
    /\ total \in Nat \cup {None}
    /\ changes \in 0..MaxChanges /\ entered \in 0..MaxChanges /\ left \in 0..MaxChanges
    /\ stayed \subseteq DOMAIN rows

\* Every page is the one asked for of the rows that every field of the filter means,
\* but for the fields that are overlooked, at the moment it is read: in the order
\* asked for, none twice, deleted ones only for whoever may see and asked to. Their
\* number is that of such rows when it is read, which may be another moment.
Listed ==
    [][/\ pages' # pages =>
            LET p == Last(pages')
                S == Wanted(feature, query', rows)
                rest == Cardinality(S) - (p.page - 1) * query'.limit
                up == query'.direction = "ASC"
                by == query'.order_by
            IN  /\ ToSet(p.shown) \subseteq S
                /\ Cardinality(ToSet(p.shown)) = Len(p.shown)
                /\ Len(p.shown) = IF rest < 0 THEN 0 ELSE IF rest < query'.limit THEN rest
                                  ELSE query'.limit
                /\ \A m, n \in DOMAIN p.shown : m < n =>
                        LET a == rows[p.shown[m]][by]  b == rows[p.shown[n]][by]
                        IN  IF up THEN a <= b ELSE a >= b
       /\ total' # None /\ total' # total =>
            total' = Cardinality(Wanted(feature, query, rows))]_vars

\* Whoever walks through all pages of a list in the order of the ids misses at
\* most one row that was there all the time for each row that left the list
\* meanwhile, and sees one twice at most once for each row that entered it.
Places == UNION {{n} \X DOMAIN pages[n].shown : n \in DOMAIN pages}
Seen == UNION {ToSet(pages[n].shown) : n \in DOMAIN pages}
WalkDrifts ==
    Walking /\ query.order_by = "id" =>
        /\ Cardinality(Places) - Cardinality(Seen) <= entered
        /\ Finished => Cardinality(stayed \ Seen) <= left
=============================================================================
