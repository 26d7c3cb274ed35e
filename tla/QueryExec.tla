----------------------------- MODULE QueryExec ------------------------------
(***************************************************************************)
(* How the two backends answer a structured query: DataFusion from resident*)
(* batches (slices and the equality index, crates/datafusion/src/store.rs) *)
(* or through a SQL plan, DuckDB through a SQL plan                        *)
(* (crates/duckdb/src/repository.rs).                                      *)
(*                                                                         *)
(* A dataset is [schema, chunks, lazy, index, indexable]: chunks is the    *)
(* sequence of its record batches, each a sequence of rows; index its      *)
(* policy; indexable the columns of a type the index takes.  A row maps    *)
(* columns to numbers or Null.  The SQL engine is external: Evaluate gives *)
(* the rows of a plan in table order where no order is asked for.          *)
(***************************************************************************)
EXTENDS QueryModel

CONSTANTS MaxPageSize,  \* [server].max_page_size
          Null,
          Spelling      \* JSON text of a value, as the keys of the index have it

\* Both repositories raise a max_page_size of 0 to 1.
ASSUME PageSizeAssumption == MaxPageSize \in Nat \ {0}
\* Two values of the indexed columns (of one type each) are never spelled alike.
ASSUME SpellingAssumption ==
    \A x, y \in DOMAIN Spelling : Spelling[x] = Spelling[y] => x = y

\* The rows at the positions in S, in their order.
Picked(rows, S) ==
    LET at == Selected([i \in DOMAIN rows |-> i], S) IN [k \in DOMAIN at |-> rows[at[k]]]

Rows(d) == FlattenSeq(d.chunks)

-----------------------------------------------------------------------------
(***************************************************************************)
(* Plans: what build_query_sql and DatasetRepository::query render.  A     *)
(* predicate is [col, op, kind, lits]: kind says whether its value is      *)
(* missing, one literal or an array.                                       *)
(***************************************************************************)
Comparisons == {"eq", "neq", "gt", "gte", "lt", "lte", "like", "ilike"}

\* pred_to_sql_with_lhs.
df_pred_error(p) ==
    IF p.op \in {"is_null", "is_not_null"} THEN "ok"
    ELSE IF p.kind = "none" THEN "InvalidValue"
    ELSE IF p.op = "in"
    THEN IF p.kind = "array" /\ p.lits # <<>> THEN "ok" ELSE "InvalidValue"
    ELSE IF p.op \notin Comparisons THEN "UnknownOperator"
    ELSE IF p.kind = "one" THEN "ok" ELSE "InvalidValue"

\* predicate_to_condition: a null has no parameter to bind it to.
duck_pred_error(p) ==
    IF p.op \in {"is_null", "is_not_null"} THEN "ok"
    ELSE IF p.op = "in" /\ ~(p.kind = "array" /\ p.lits # <<>>) THEN "InvalidValue"
    ELSE IF p.op \notin Comparisons \cup {"in"} THEN "UnknownOperator"
    ELSE IF p.op # "in" /\ p.kind # "one" THEN "InvalidValue"
    ELSE IF \E l \in Range(p.lits) : l.v = Null THEN "InvalidValue" ELSE "ok"

pred_error(backend, p) ==
    IF backend = "df" THEN df_pred_error(p) ELSE duck_pred_error(p)

Condition(p, lhs) == [lhs |-> lhs, op |-> p.op,
                      vals |-> [i \in DOMAIN p.lits |-> p.lits[i].v]]

TheColumn(s, n) == CHOOSE c \in find(s, n) : TRUE

Where(req, s) ==
    [i \in DOMAIN req.predicates |->
       Condition(req.predicates[i], TheColumn(s, req.predicates[i].col))]

\* The clauses, once every part has been resolved.
Clauses(req, s, window) ==
    LET plan == agg_plan(req, s)
        Lhs(n) == CHOOSE out \in OutputOf(CHOOSE p \in plan : TRUE, n) : TRUE
    IN [cols |-> IF plan # {} THEN <<>>
                 ELSE IF req.columns = <<>> THEN s.columns
                 ELSE [i \in DOMAIN req.columns |-> TheColumn(s, req.columns[i])],
        group |-> plan,
        where |-> Where(req, s),
        having |-> [i \in DOMAIN req.having |->
                      Condition(req.having[i], Lhs(req.having[i].col))],
        order |-> [i \in DOMAIN req.order_by |->
                     [key |-> IF plan = {} THEN TheColumn(s, req.order_by[i].col)
                              ELSE Lhs(req.order_by[i].col)[1],
                      dir |-> req.order_by[i].dir]],
        distinct |-> req.distinct,
        window |-> window]

\* Paged requests are cut by effective_limit_offset, streams by limit alone.
Window(req, paged) ==
    IF paged THEN effective_limit_offset(req, MaxPageSize)
    ELSE [offset |-> 0, limit |-> IF req.limit = {} THEN Word - 1
                                  ELSE CHOOSE l \in req.limit : TRUE]

\* One predicate of a WHERE: its column is looked up before its operator.
WhereErrors(backend, req, s) ==
    Each(req.predicates,
         LAMBDA p : FirstError(<<FindError(s, p.col), pred_error(backend, p)>>))

PredError(backend, req, s) ==
    FirstError(<<FirstError(WhereErrors(backend, req, s)),
                 having_error(req, s),
                 FirstError(Each(req.having, LAMBDA h : pred_error(backend, h)))>>)

ColumnError(req, s) ==
    IF req.group_by # <<>> THEN "ok"
    ELSE FirstError(Each(req.columns, LAMBDA c : FindError(s, c)))

\* build_query_sql_with_suffix.
df_plan(req, s, paged) ==
    LET e == FirstError(<<agg_plan_error(req, s)>>) IN
    LET err == IF e # "ok" THEN e
               ELSE FirstError(<<ColumnError(req, s),
                                 PredError("df", req, s),
                                 order_by_error(req, s)>>)
    IN [err |-> err,
        plan |-> IF err = "ok" THEN {Clauses(req, s, Window(req, paged))} ELSE {}]

\* DatasetRepository::query and query_arrow_write_inner.
duck_plan(req, s, paged) ==
    LET e == agg_plan_error(req, s) IN
    LET err == IF e # "ok" THEN e
               ELSE FirstError(<<PredError("duckdb", req, s),
                                 order_by_error(req, s),
                                 ColumnError(req, s)>>)
    IN [err |-> err,
        plan |-> IF err = "ok" THEN {Clauses(req, s, Window(req, paged))} ELSE {}]

-----------------------------------------------------------------------------
(***************************************************************************)
(* The engine, for plans that do not group.  A comparison with null holds  *)
(* of no row.  (LIKE is not evaluated.)                                    *)
(***************************************************************************)
Holds(c, row) ==
    LET x == row[c.lhs] IN
    CASE c.op = "is_null" -> x = Null
      [] c.op = "is_not_null" -> x # Null
      [] OTHER -> x # Null /\ \E v \in Range(c.vals) :
                    /\ v # Null
                    /\ CASE c.op \in {"eq", "in"} -> x = v
                         [] c.op = "neq" -> x # v
                         [] c.op = "gt" -> x > v
                         [] c.op = "gte" -> x >= v
                         [] c.op = "lt" -> x < v
                         [] c.op = "lte" -> x <= v
                         [] OTHER -> FALSE

Projected(rows, cols) ==
    [i \in DOMAIN rows |-> [c \in Range(cols) |-> rows[i][c]]]

\* Rows sorted by one key; rows that tie keep their order.
SortedBy(rows, o) ==
    LET Before(i, j) ==
          LET x == rows[i][o.key]
              y == rows[j][o.key]
          IN IF x = y THEN i < j ELSE IF o.dir = "asc" THEN x < y ELSE y < x
        Rank(i) == Cardinality({j \in DOMAIN rows : Before(j, i)})
    IN [k \in DOMAIN rows |-> rows[CHOOSE i \in DOMAIN rows : Rank(i) = k - 1]]

Cut(rows, w) == SubSeq(rows, w.offset + 1, Min({w.offset + w.limit, Len(rows)}))

Distinct(rows) ==
    Picked(rows, {i \in DOMAIN rows : \A j \in 1 .. i - 1 : rows[j] # rows[i]})

Matching(rows, conditions) ==
    {i \in DOMAIN rows : \A c \in Range(conditions) : Holds(c, rows[i])}

Evaluate(plan, rows) ==
    LET kept == Picked(rows, Matching(rows, plan.where))
        sorted == IF plan.order = <<>> THEN kept ELSE SortedBy(kept, plan.order[1])
        shown == Projected(sorted, plan.cols)
    IN Cut(IF plan.distinct THEN Distinct(shown) ELSE shown, plan.window)

-----------------------------------------------------------------------------
(***************************************************************************)
(* Resident batches.  Row ids count from 0 across all chunks.              *)
(***************************************************************************)

\* build_eq_index_with_policy: for each lower-case column, the spelling of
\* each value and the ids of its rows.
Values(d, c) == {r[c] : r \in Range(Rows(d))} \ {Null}

IndexedColumns(d) ==
    IF d.index.mode = "none" \/ d.chunks = <<>> THEN {}
    ELSE {c \in d.indexable :
            /\ d.index.mode = "list" => \E k \in d.index.columns : Lower[k] = Lower[c]
            /\ d.index.mode = "auto" => Cardinality(Values(d, c)) <= d.index.max_cardinality}

build_eq_index(d) ==
    LET RowIds(c, key) == {i \in 0 .. Len(Rows(d)) - 1 :
                             /\ Rows(d)[i + 1][c] # Null
                             /\ Spelling[Rows(d)[i + 1][c]] = key}
    IN [c \in IndexedColumns(d) |->
          [key \in {Spelling[v] : v \in Values(d, c)} |-> RowIds(c, key)]]

\* json_index_key.
HasKey(l) == l.v # Null

\* try_index: the matching row ids, or nothing when some predicate is not an
\* equality on an indexed column.
Bucket(bucket, key) == IF key \in DOMAIN bucket THEN bucket[key] ELSE {}

Ascending(ids) == Selected([i \in 1 .. Max(ids \cup {0}) + 1 |-> i - 1], ids)

try_index(index, preds) ==
    LET Cols(p) == {c \in DOMAIN index : Lower[c] = Lower[p.col]}
        Usable(p) == /\ Cols(p) # {}
                     /\ \/ p.op = "eq" /\ p.kind = "one"
                        \/ p.op = "in" /\ p.kind = "array"
                     /\ \A l \in Range(p.lits) : HasKey(l)
        Match(p) == UNION {Bucket(index[c], l.key) : c \in Cols(p), l \in Range(p.lits)}
    IN IF preds = <<>> \/ DOMAIN index = {} \/ \E p \in Range(preds) : ~Usable(p)
       THEN {}
       ELSE LET ids == {i \in Match(preds[1]) : \A p \in Range(preds) : i \in Match(p)}
            IN {Ascending(ids)}

\* slice_global: whole chunks are skipped, the rest cut.
slice_global(d, offset, limit) ==
    LET taken[b \in 0 .. Len(d.chunks)] ==
          IF b = 0 THEN [skip |-> offset, left |-> limit, out |-> <<>>]
          ELSE LET acc == taken[b - 1]
                   n == Len(d.chunks[b])
                   take == Min({acc.left, n - acc.skip})
               IN IF acc.left = 0 THEN acc
                  ELSE IF acc.skip >= n
                  THEN [skip |-> acc.skip - n, left |-> acc.left, out |-> acc.out]
                  ELSE [skip |-> 0, left |-> acc.left - take,
                        out |-> acc.out \o SubSeq(d.chunks[b], acc.skip + 1, acc.skip + take)]
    IN taken[Len(d.chunks)].out

\* Mutation of take_page: the rows stay in the order of the chunks.
take_page_unordered(d, ids, offset, limit) ==
    LET start == Min({offset, Len(ids)})
        page == SubSeq(ids, start + 1, start + Min({limit, Len(ids) - start}))
    IN [k \in DOMAIN page |-> Rows(d)[Reverse(page)[k] + 1]]

\* take_page: each id is looked up in the chunk that holds it, the rows are
\* taken chunk by chunk, and put back in the order of the page.
take_page(d, ids, offset, limit) ==
    LET start == Min({offset, Len(ids)})
        page == SubSeq(ids, start + 1, start + Min({limit, Len(ids) - start}))
        base(b) == Len(FlattenSeq(SubSeq(d.chunks, 1, b - 1)))
        ChunkOf(id) == Max({b \in DOMAIN d.chunks : base(b) <= id})
        bucket(b) == Selected([k \in DOMAIN page |-> k],
                              {k \in DOMAIN page : ChunkOf(page[k]) = b})
        dest == FlattenSeq([b \in DOMAIN d.chunks |-> bucket(b)])
        stitched == [i \in DOMAIN dest |->
                       LET id == page[dest[i]]
                           b == ChunkOf(id)
                       IN d.chunks[b][id - base(b) + 1]]
        inv(k) == CHOOSE i \in DOMAIN dest : dest[i] = k
    IN [k \in DOMAIN page |-> stitched[inv(k)]]

\* project: [err, rows].
project(d, rows, columns) ==
    LET s == d.schema
        err == FirstError(Each(columns, LAMBDA c : FindError(s, c)))
    IN [err |-> err,
        rows |-> IF err # "ok" THEN <<>>
                 ELSE Projected(rows, IF columns = <<>> THEN s.columns
                                      ELSE [i \in DOMAIN columns |->
                                              TheColumn(s, columns[i])])]

\* query_batches_inner.  Grouped requests answer with their plan only.
CanFastPath(d, req, paged) ==
    /\ ~d.lazy
    /\ req.order_by = <<>> /\ req.group_by = <<>> /\ ~req.distinct
    /\ ~paged \/ req.limit = {}

SqlAnswer(d, p) ==
    [err |-> p.err,
     rows |-> IF p.err # "ok" THEN <<>>
              ELSE Evaluate(CHOOSE x \in p.plan : TRUE, Rows(d))]

query_batches_inner(d, req, paged) ==
    LET w == IF paged THEN [offset |-> Offset(req, MaxPageSize),
                            limit |-> PageSize(req, MaxPageSize)]
             ELSE Window(req, FALSE)
        total == Len(Rows(d))
        start == Min({w.offset, total})
        ids == try_index(build_eq_index(d), req.predicates)
    IN IF CanFastPath(d, req, paged) /\ req.predicates = <<>>
       THEN project(d, slice_global(d, start, Min({w.limit, total - start})),
                    req.columns)
       ELSE IF CanFastPath(d, req, paged) /\ ids # {}
       THEN project(d, take_page(d, CHOOSE s \in ids : TRUE, w.offset, w.limit),
                    req.columns)
       ELSE SqlAnswer(d, df_plan(req, d.schema, paged))

\* Store::count and DatasetRepository::count.
CountPlan(req, s) == FirstError(WhereErrors("df", req, s))

SqlCount(d, req) ==
    Len(Picked(Rows(d), Matching(Rows(d), Where(req, d.schema))))

df_count(d, req) ==
    LET ids == try_index(build_eq_index(d), req.predicates)
        err == CountPlan(req, d.schema)
    IN IF ~d.lazy /\ req.predicates = <<>> THEN [err |-> "ok", n |-> Len(Rows(d))]
       ELSE IF ~d.lazy /\ ids # {}
       THEN [err |-> "ok", n |-> Len(CHOOSE s \in ids : TRUE)]
       ELSE [err |-> err, n |-> IF err = "ok" THEN SqlCount(d, req) ELSE 0]

-----------------------------------------------------------------------------
(***************************************************************************)
(* What an answer should be.                                               *)
(***************************************************************************)

\* Requests the resident path treats as the SQL path does.  It never looks
\* at having or at aggregations without group_by, which SQL refuses; it
\* answers an empty "in" with no rows, which SQL refuses; it compares
\* spellings, so that 1.0 does not find 1; and the offset may wrap.
Regular(req) ==
    /\ req.having # <<>> \/ req.aggregations # <<>> => req.group_by # <<>>
    /\ \A p \in Range(req.predicates) :
         /\ p.op = "in" => p.lits # <<>>
         /\ \A l \in Range(p.lits) : l.v # Null => l.key = Spelling[l.v]
    /\ ~Wraps(req, MaxPageSize)

AsLazy(d) == [d EXCEPT !.lazy = TRUE]

FastPathAgrees(d, req) ==
    (Regular(req) /\ req.group_by = <<>>) =>
        /\ \A paged \in BOOLEAN :
             query_batches_inner(d, req, paged) = query_batches_inner(AsLazy(d), req, paged)
        /\ df_count(d, req) = df_count(AsLazy(d), req)

BackendsAgree(d, req) ==
    (\A p \in Range(req.predicates) \cup Range(req.having) :
       p.op \in {"is_null", "is_not_null"} \/ \A l \in Range(p.lits) : l.v # Null)
      => \A paged \in BOOLEAN :
           LET df == df_plan(req, d.schema, paged)
               duck == duck_plan(req, d.schema, paged)
           IN df.plan = duck.plan /\ (df.err = "ok" <=> duck.err = "ok")

\* A request that passes the column filters, and has something to show, shows
\* and tests visible columns only, and tests those it may test.
FiltersKept(d, req) ==
    LET s == d.schema
        p == df_plan(Narrowed(req, s), s, TRUE)
        Shown(plan) == Range(plan.cols)
                       \cup UNION {Range(g.group_cols)
                                   \cup UNION {a.col : a \in Range(g.aggs)} : g \in plan.group}
        Tested(plan) == {c.lhs : c \in Range(plan.where)}
        Sorted(plan) == IF plan.group = {} THEN {o.key : o \in Range(plan.order)} ELSE {}
    IN (HasProjection(req, s) /\ enforce_column_filters(req, s) = "ok") =>
         \A plan \in p.plan :
            /\ \A c \in Shown(plan) \cup Tested(plan) \cup Sorted(plan) : is_visible(s, c)
            /\ \A c \in Tested(plan) : Allows(s.predicate_filter, Lower[c])

\* Pages, taken one after the other, are the whole answer cut at limit.
PagesTile(d, req) ==
    LET size == PageSize(req, MaxPageSize)
        Page(k) == query_batches_inner(d, [req EXCEPT !.page = k], TRUE)
        n == Len(Rows(d)) + 1
        all == query_batches_inner(d, req, FALSE)
    IN (/\ Regular(req) /\ req.group_by = <<>>
        /\ (n - 1) * size < Word /\ n < Word)
         => /\ Page(1).err = all.err
            /\ FlattenSeq([k \in 1 .. n |-> Page(k).rows]) = all.rows
=============================================================================
