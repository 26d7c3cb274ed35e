------------------------------ MODULE SqlGuard ------------------------------
(***************************************************************************)
(* The gate of the raw SQL endpoint, crates/core/src/sql.rs.               *)
(*                                                                         *)
(* A statement is [count, kind, nodes].  Its queries are numbered as the   *)
(* parser's visitor meets them; a node is [parent, place, name, tables,    *)
(* cols, wildcard, unseen, funcs]: place says where the query stands in    *)
(* its parent (a CTE called name, a derived table of FROM or of a JOIN, a  *)
(* branch of a set operation, a subquery of the SELECT list or of WHERE),  *)
(* tables and cols are the names it mentions, in lower case.  A column     *)
(* that a subquery takes from the query around it is among the cols of     *)
(* that one.  The visitor meets the CTEs of a query before its tables, and *)
(* its other subqueries after them.                                        *)
(*                                                                         *)
(* unseen is a form the checks do not look into:                           *)
(*   "list"      FROM t AS u(x, y): the columns it reads have new names;   *)
(*   "cte_list"  WITH w(x, y) AS ..: those it shows do;                    *)
(*   "row"       SELECT t FROM t, DuckDB's COLUMNS: whole rows, with no    *)
(*               column named and no asterisk in the SELECT list;          *)
(*   "table"     TABLE t: the same, and t is in no FROM;                   *)
(*   "none"      no such form.                                             *)
(***************************************************************************)
EXTENDS QueryModel

DENIED_FUNCTIONS ==
    {"read_text", "read_blob", "read_csv", "read_csv_auto", "read_parquet",
     "parquet_scan", "read_json", "read_json_auto", "read_json_objects",
     "read_ndjson", "read_ndjson_auto", "read_ndjson_objects", "sniff_csv",
     "glob"}

\* What the parser delivers: the first query is the root, which has no parent.
WellFormed(stmt) ==
    /\ "nodes" \in DOMAIN stmt
    /\ DOMAIN stmt.nodes \subseteq Nat \ {0}
    /\ \A i \in DOMAIN stmt.nodes :
         {"tables", "cols", "unseen"} \subseteq DOMAIN stmt.nodes[i]
    /\ 1 \in DOMAIN stmt.nodes
    /\ stmt.nodes[1].place = "root" /\ stmt.nodes[1].parent = 0
    /\ \A i \in DOMAIN stmt.nodes : stmt.nodes[i].parent \in {0} \cup DOMAIN stmt.nodes

Children(stmt, i) == {j \in DOMAIN stmt.nodes : stmt.nodes[j].parent = i}
Ctes(stmt, i) == {j \in Children(stmt, i) : stmt.nodes[j].place = "cte"}

\* The node and everything above it: what is in every set that has the node
\* and the parents of its members.
Up(stmt, i) ==
    LET nodes == DOMAIN stmt.nodes
        closed(S) == \A k \in S : stmt.nodes[k].parent \in S \cup {0}
    IN {j \in nodes : \A S \in SUBSET nodes : (i \in S /\ closed(S)) => j \in S}

Under(stmt, i) == {j \in DOMAIN stmt.nodes : i \in Up(stmt, j)}

-----------------------------------------------------------------------------
(***************************************************************************)
(* validate.                                                               *)
(***************************************************************************)

\* The queries entered before the tables of node i are looked at.
VisitedBefore(stmt, i) ==
    {j \in DOMAIN stmt.nodes : j <= i} \cup UNION {Under(stmt, c) : c \in Ctes(stmt, i)}

\* cte_names when the tables of node i are looked at: every WITH met so far,
\* whatever its scope.
cte_names(stmt, i) ==
    {stmt.nodes[c].name : c \in UNION {Ctes(stmt, j) : j \in VisitedBefore(stmt, i)}}

\* The tables the visitor meets.
Met(node) == IF node.unseen = "table" THEN {} ELSE node.tables

ScopeCheck(stmt, allowed) ==
    [ok |-> \A i \in DOMAIN stmt.nodes :
              /\ Met(stmt.nodes[i]) \subseteq allowed \cup cte_names(stmt, i)
              /\ stmt.nodes[i].funcs \cap DENIED_FUNCTIONS = {},
     referenced |-> UNION {(Met(stmt.nodes[i]) \ cte_names(stmt, i)) \cap allowed :
                             i \in DOMAIN stmt.nodes}]

is_describe(stmt) == stmt.count = 1 /\ stmt.kind = "describe"

\* The datasets, or an error.
sql_validate(stmt, allowed, max_datasets) ==
    LET scope == ScopeCheck(stmt, allowed)
        accepted == /\ stmt.count = 1
                    /\ stmt.kind = "query" \/ is_describe(stmt)
                    /\ scope.ok
                    /\ Cardinality(scope.referenced) <= max_datasets
    IN [err |-> IF accepted THEN "ok" ELSE "InvalidValue",
        datasets |-> IF accepted THEN scope.referenced ELSE {}]

-----------------------------------------------------------------------------
(***************************************************************************)
(* enforce_column_access.                                                  *)
(***************************************************************************)

\* query_has_wildcard: CTEs, derived tables of FROM, branches of a set
\* operation.  Joined tables and subqueries of expressions are not walked.
WalkedPlaces == {"root", "cte", "from", "setop"}

query_has_wildcard(stmt) ==
    \E i \in DOMAIN stmt.nodes :
        /\ stmt.nodes[i].wildcard
        /\ \A j \in Up(stmt, i) : stmt.nodes[j].place \in WalkedPlaces

\* Mutation of enforce_column_access: the wildcard is not looked for.
ColumnsOnly(stmt, s) ==
    LET refs == UNION {stmt.nodes[i].cols : i \in DOMAIN stmt.nodes}
    IN IF \E c \in Range(s.columns) : Lower[c] \in refs /\ ~is_visible(s, c)
       THEN "UnknownColumn" ELSE "ok"

enforce_column_access(stmt, s) ==
    LET refs == UNION {stmt.nodes[i].cols : i \in DOMAIN stmt.nodes}
        named == {c \in Range(s.columns) : Lower[c] \in refs}
    IN CASE ~has_column_filters(s) -> "ok"
         [] /\ FilterActive(s.projection_filter)
            /\ stmt.kind = "query" /\ query_has_wildcard(stmt) -> "Forbidden"
         [] \E c \in named : ~is_visible(s, c) -> "UnknownColumn"
         [] \E c \in named : ~Allows(s.predicate_filter, Lower[c]) -> "Forbidden"
         [] OTHER -> "ok"

\* validate_and_authorize; loaded maps the names of the loaded datasets to
\* their schemas, and is asked with the lower-case name.
validate_and_authorize(stmt, names, loaded) ==
    LET allowed == {Lower[n] : n \in names}
        v == sql_validate(stmt, allowed, Max({1, Cardinality(allowed)}))
        denied == {enforce_column_access(stmt, loaded[d]) :
                     d \in v.datasets \cap DOMAIN loaded} \ {"ok"}
    IN IF v.err = "ok" /\ denied # {}
       THEN [err |-> CHOOSE e \in denied : TRUE, datasets |-> {}]
       ELSE v

-----------------------------------------------------------------------------
(***************************************************************************)
(* canonicalize_identifiers: tables and columns whose lower-case form is   *)
(* known get their declared spelling; other names stay.                    *)
(***************************************************************************)
Rewrite(map, name) ==
    IF Lower[name] \in DOMAIN map THEN map[Lower[name]] ELSE name

canonicalize_identifiers(stmt, tables, columns) ==
    [stmt EXCEPT !.nodes =
        [i \in DOMAIN stmt.nodes |->
           [stmt.nodes[i] EXCEPT !.tables = {IF t \in Met(stmt.nodes[i])
                                             THEN Rewrite(tables, t) ELSE t : t \in @},
                                 !.cols = {Rewrite(columns, c) : c \in @}]]]

-----------------------------------------------------------------------------
(***************************************************************************)
(* The engine's view of an accepted statement.  A table name is a CTE if a *)
(* WITH around it says so: of the query itself or of one above it, and     *)
(* within a CTE only those defined before it.                              *)
(***************************************************************************)
BoundTo(stmt, i, t) ==
    {c \in UNION {Ctes(stmt, a) : a \in Up(stmt, i)} :
        /\ stmt.nodes[c].name = t
        /\ \A d \in Up(stmt, i) \cap Ctes(stmt, stmt.nodes[c].parent) : c < d}

BasesOf(stmt, i) == {t \in stmt.nodes[i].tables : BoundTo(stmt, i, t) = {}}
BaseTables(stmt) == UNION {BasesOf(stmt, i) : i \in DOMAIN stmt.nodes}

AllCteNames(stmt) ==
    {n.name : n \in {m \in Range(stmt.nodes) : m.place = "cte"}}

\* A query shows a dataset column under its own name or under another one.
Forms == {"own", "new"}

\* The forms in which node i shows x, a dataset and the lower-case name of one
\* of its columns, when, for the pairs <<j, f>> of N, node j shows it in the
\* form f.  The node takes all that its tables and derived tables offer, or
\* what it names: a column under its own name only if it names x, a renamed one
\* whatever it names.  A set operation also shows what its branches do, and a
\* subquery of the SELECT list is a column of its own.
Passes(stmt, x, N, i) ==
    LET node == stmt.nodes[i]
        FromChild(places, f) == \E j \in Children(stmt, i) :
                                   stmt.nodes[j].place \in places /\ <<j, f>> \in N
        FromTable(t, f) == LET bound == BoundTo(stmt, i, t) IN
                           IF bound = {} THEN t = x[1] /\ f = "own"
                           ELSE <<Max(bound), f>> \in N
        renamed(forms, by) == IF node.unseen = by /\ forms # {} THEN {"new"} ELSE forms
        offered == renamed({f \in Forms : \/ FromChild({"from", "join"}, f)
                                          \/ \E t \in node.tables : FromTable(t, f)}, "list")
        taken == IF node.wildcard \/ node.unseen \in {"row", "table"} THEN offered
                 ELSE (IF "own" \in offered /\ x[2] \in node.cols THEN Forms ELSE {})
                      \cup (IF "new" \in offered /\ node.cols # {} THEN {"new"} ELSE {})
        branches == {f \in Forms : FromChild({"setop"}, f)}
        values == IF \E f \in Forms : FromChild({"select"}, f) THEN {"new"} ELSE {}
    IN renamed(taken \cup branches \cup values, "cte_list")

\* The nodes that show x, each with the form: the pairs that are in every set
\* that has all it passes x to.
Showing(stmt, x) ==
    LET pairs == (DOMAIN stmt.nodes) \X Forms
        closed(N) == \A i \in DOMAIN stmt.nodes : {i} \X Passes(stmt, x, N, i) \subseteq N
    IN {p \in pairs : \A N \in SUBSET pairs : closed(N) => p \in N}

\* The dataset columns a statement shows.
Shown(stmt, schemas) ==
    {x \in UNION {{<<t, c>> : c \in Range(schemas[t].columns)} : t \in DOMAIN schemas} :
        \E f \in Forms : <<1, f>> \in Showing(stmt, <<x[1], Lower[x[2]]>>)}

\* Tables that bear the name of a CTE of another scope.
Stray(stmt) == BaseTables(stmt) \cap AllCteNames(stmt)

\* Tables of TABLE t.
Unmet(stmt) == UNION {stmt.nodes[i].tables \ Met(stmt.nodes[i]) : i \in DOMAIN stmt.nodes}

\* Whether a statement says which columns it shows in the ways the checks look
\* at: no unseen form, and no asterisk below a subquery of a SELECT list.
NamesItsColumns(stmt) ==
    \A i \in DOMAIN stmt.nodes :
        /\ stmt.nodes[i].unseen = "none"
        /\ stmt.nodes[i].wildcard =>
             \A j \in Up(stmt, i) : stmt.nodes[j].place # "select"

\* What the gate promises of a statement it lets through.  The engine finds
\* only registered datasets, except where a table bears the name of a CTE of
\* the statement or stands in TABLE t.  A statement that names its columns
\* shows none of those hidden by their filters.  Nothing is promised of the
\* columns that the unseen forms show, which may be hidden ones.
GatedStatement(stmt, names, schemas) ==
    LET v == validate_and_authorize(stmt, names, schemas)
    IN (v.err = "ok" /\ stmt.kind = "query") =>
          /\ BaseTables(stmt) \ (Stray(stmt) \cup Unmet(stmt)) \subseteq v.datasets
          /\ (Stray(stmt) = {} /\ NamesItsColumns(stmt)) =>
               \A x \in Shown(stmt, schemas) : is_visible(schemas[x[1]], x[2])
          /\ \A i \in DOMAIN stmt.nodes :
               stmt.nodes[i].funcs \cap DENIED_FUNCTIONS = {}

\* Canonical spelling does not change what a statement refers to.
CanonicalSame(stmt, tables, columns) ==
    LET c == canonicalize_identifiers(stmt, tables, columns) IN
    \A i \in DOMAIN stmt.nodes :
        /\ {Lower[t] : t \in c.nodes[i].tables} = {Lower[t] : t \in stmt.nodes[i].tables}
        /\ {Lower[t] : t \in c.nodes[i].cols} = {Lower[t] : t \in stmt.nodes[i].cols}
=============================================================================
