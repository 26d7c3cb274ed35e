----------------------------- MODULE QueryModel -----------------------------
(***************************************************************************)
(* Structured queries before any engine sees them: the schema of a dataset *)
(* with its two column filters (schema.rs), the checks and plans made from *)
(* a QueryRequest or CountRequest (models.rs), the errors and the HTTP     *)
(* status of each (errors.rs).                                             *)
(*                                                                         *)
(* Column names come with their lower-case form; no two columns of a       *)
(* dataset differ by case only.  A literal is a value and its spelling.    *)
(***************************************************************************)
EXTENDS Config

CONSTANT Word  \* integers of the request are below Word: 2^64 in the code

ASSUME WordAssumption == Word \in Nat \ {0}

\* AppError::status_code.
Status(e) ==
    CASE e = "ok" -> 200
      [] e = "Internal" -> 500
      [] e = "NotFound" -> 404
      [] e = "Unauthorized" -> 401
      [] e = "Forbidden" -> 403
      [] e = "Conflict" -> 409
      [] e \in {"Unavailable", "NotReady"} -> 503
      [] OTHER -> 400

\* The first of several checks that does not return Ok.
FirstError(checks) ==
    LET bad == {i \in DOMAIN checks : checks[i] # "ok"}
    IN IF bad = {} THEN "ok" ELSE checks[Min(bad)]

Each(s, Check(_)) == [i \in DOMAIN s |-> Check(s[i])]

-----------------------------------------------------------------------------
(***************************************************************************)
(* schema.rs.                                                              *)
(***************************************************************************)

IsSchema(s) == s.columns \in Seq(Range(s.columns))

\* DatasetSchema::with_filters.
SchemaValid(s) ==
    \A f \in {s.predicate_filter, s.projection_filter} :
        /\ FilterValid(f)
        /\ \A c \in Listed(f) : \E k \in Range(s.columns) : Lower[k] = Lower[c]

has_column_filters(s) ==
    FilterActive(s.predicate_filter) \/ FilterActive(s.projection_filter)

is_visible(s, n) == Allows(s.projection_filter, Lower[n])

visible_columns(s) ==
    Selected(s.columns, {c \in Range(s.columns) : is_visible(s, c)})

\* The canonical column, an option.
find(s, n) == {c \in Range(s.columns) : Lower[c] = Lower[n]}

FindError(s, n) == IF find(s, n) = {} THEN "UnknownColumn" ELSE "ok"

\* The column of an aggregation, an option.
AggColumnError(a, s) ==
    IF \E c \in a.col : find(s, c) = {} THEN "UnknownColumn" ELSE "ok"

\* A hidden column is reported as one that does not exist.
find_visible(s, n) ==
    IF \E c \in find(s, n) : is_visible(s, c) THEN "ok" ELSE "UnknownColumn"

find_for_predicate(s, n) ==
    FirstError(<<find_visible(s, n),
                 IF Allows(s.predicate_filter, Lower[n]) THEN "ok"
                 ELSE "Forbidden">>)

-----------------------------------------------------------------------------
(***************************************************************************)
(* Column access, models.rs.                                               *)
(***************************************************************************)

\* A parsed request: its lists are indexed by numbers, an empty one is <<>>.
IsRequest(req) ==
    LET lists == {"columns", "predicates", "group_by", "aggregations", "order_by"} IN
    /\ lists \subseteq DOMAIN req
    /\ \A f \in lists : DOMAIN req[f] \subseteq Nat /\ (DOMAIN req[f] = {} => req[f] = <<>>)

PredicateColumns(req, s) ==
    Each(req.predicates, LAMBDA p : find_for_predicate(s, p.col))

\* CountRequest::enforce_column_filters.
count_enforce_column_filters(req, s) ==
    IF ~has_column_filters(s) THEN "ok" ELSE FirstError(PredicateColumns(req, s))

\* QueryRequest::enforce_column_filters: the error, and the request after it.
\* Columns a grouped query is sorted by or filters groups by are outputs of
\* the plan, checked when it is made.
enforce_column_filters(req, s) ==
    LET Visible(n) == find_visible(s, n)
        AggColumn(a) == IF \A c \in a.col : Visible(c) = "ok" THEN "ok"
                        ELSE "UnknownColumn"
    IN IF ~has_column_filters(s) THEN "ok"
       ELSE FirstError(
              <<FirstError(PredicateColumns(req, s)),
                FirstError(Each(req.group_by, Visible)),
                FirstError(Each(req.aggregations, AggColumn)),
                IF req.group_by # <<>> THEN "ok"
                ELSE FirstError(Each(req.order_by, LAMBDA o : Visible(o.col))),
                FirstError(Each(req.columns, Visible))>>)

\* An empty projection means the visible columns.  If there is none it stays
\* empty, and the backends take it for all columns.
Narrowed(req, s) ==
    IF /\ req.columns = <<>> /\ req.group_by = <<>>
       /\ FilterActive(s.projection_filter)
    THEN [req EXCEPT !.columns = visible_columns(s)]
    ELSE req

\* A request with something to show: columns, groups, or a visible column.
HasProjection(req, s) ==
    \/ req.columns # <<>> \/ req.group_by # <<>>
    \/ \E c \in Range(s.columns) : is_visible(s, c)

-----------------------------------------------------------------------------
(***************************************************************************)
(* Plans.  An output of a grouped query is a pair: a column or alias with  *)
(* "", or the default alias {op}_{col}.                                    *)
(***************************************************************************)
AggOps == {"count", "sum", "avg", "min", "max"}

AggError(a, s) ==
    FirstError(<<IF a.op \in AggOps THEN "ok" ELSE "InvalidValue",
                 IF a.col = {} /\ a.op # "count" THEN "InvalidValue" ELSE "ok",
                 AggColumnError(a, s)>>)

AggSpec(a, s) ==
    LET col == UNION {find(s, c) : c \in a.col} IN
    [op |-> a.op, col |-> col,
     alias |-> IF a.alias # {} THEN CHOOSE x \in a.alias : TRUE
               ELSE <<a.op, IF col = {} THEN "" ELSE Lower[CHOOSE c \in col : TRUE]>>]

CountStar == [op |-> "count", col |-> {}, alias |-> {}]
Aggregations(req) == IF req.aggregations = <<>> THEN <<CountStar>>
                     ELSE req.aggregations

\* QueryRequest::agg_plan: its error, and the plan when there is one.
agg_plan_error(req, s) ==
    FirstError(<<IF req.distinct /\ (req.group_by # <<>> \/ req.aggregations # <<>>)
                 THEN "InvalidValue" ELSE "ok",
                 IF req.group_by = <<>> /\ req.aggregations # <<>>
                 THEN "InvalidValue" ELSE "ok",
                 FirstError(Each(req.group_by, LAMBDA g : FindError(s, g))),
                 IF req.group_by = <<>> THEN "ok"
                 ELSE FirstError(Each(Aggregations(req), LAMBDA a : AggError(a, s)))>>)

agg_plan(req, s) ==
    IF req.group_by = <<>> THEN {}
    ELSE {[group_cols |-> [i \in DOMAIN req.group_by |->
                             CHOOSE c \in find(s, req.group_by[i]) : TRUE],
           aggs |-> [i \in DOMAIN Aggregations(req) |->
                       AggSpec(Aggregations(req)[i], s)]]}

\* AggPlan::output_names.
output_names(plan) ==
    {<<c, "">> : c \in Range(plan.group_cols)} \cup {a.alias : a \in Range(plan.aggs)}

\* AggPlan::having_lhs and the sort keys of order_by_sql: a group column
\* before an alias of the same name.
OutputOf(plan, n) ==
    LET named(out) == IF out[2] = "" THEN Lower[out[1]] = Lower[n] ELSE FALSE IN
    {out \in output_names(plan) : named(out)}

OutputError(plan, n) == IF OutputOf(plan, n) = {} THEN "UnknownColumn" ELSE "ok"

\* having_plan.
having_error(req, s) ==
    IF req.having = <<>> THEN "ok"
    ELSE IF req.group_by = <<>> THEN "InvalidValue"
    ELSE FirstError(Each(req.having, LAMBDA h :
           OutputError(CHOOSE p \in agg_plan(req, s) : TRUE, h.col)))

\* order_by_sql.
order_by_error(req, s) ==
    LET Key(o) == IF req.group_by = <<>> THEN FindError(s, o.col)
                  ELSE OutputError(CHOOSE p \in agg_plan(req, s) : TRUE, o.col)
        Sort(o) == FirstError(<<IF o.dir \in {"asc", "desc"} THEN "ok"
                                ELSE "InvalidValue", Key(o)>>)
    IN FirstError(Each(req.order_by, Sort))

\* Clamping as the handlers and the repositories do it.
Clamp(n, lo, hi) == IF n < lo THEN lo ELSE IF n > hi THEN hi ELSE n

PageOf(req) == Clamp(req.page, 1, Word - 1)
PageSize(req, cap) == Clamp(req.page_size, 1, cap)

\* (page - 1) * page_size in u64; the release build wraps.
Offset(req, cap) == ((PageOf(req) - 1) * PageSize(req, cap)) % Word
Wraps(req, cap) == (PageOf(req) - 1) * PageSize(req, cap) >= Word

\* effective_limit_offset: limit caps the rows of all pages together.
effective_limit_offset(req, cap) ==
    LET off == Offset(req, cap)
        size == PageSize(req, cap)
    IN [offset |-> off,
        limit |-> IF req.limit = {} THEN size
                  ELSE LET top == CHOOSE l \in req.limit : TRUE
                       IN IF off >= top THEN 0 ELSE Min({size, top - off})]
=============================================================================
