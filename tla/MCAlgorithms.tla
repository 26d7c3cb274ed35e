---------------------------- MODULE MCAlgorithms ----------------------------
(***************************************************************************)
(* Bounded inputs for the algorithms of QueryExec, SqlGuard, Formats,      *)
(* JsonRows, Startup and Sources.  A behaviour picks one input; the        *)
(* invariants say what the algorithms make of it.                          *)
(***************************************************************************)
EXTENDS Integers, QueryExec, SqlGuard, Formats, JsonRows, Startup, Sources

VARIABLE input

MCLower ==
    [n \in {"a", "A", "b", "B", "c", "x", "t", "T", "u", "w", "count"} |->
        CASE n = "A" -> "a" [] n = "B" -> "b" [] n = "T" -> "t" [] OTHER -> n]
MCNull == -1
MCSpelling == [v \in -1 .. 2 |-> ToString(v)]
MCUrlSafe == {"a", "b", "c"}
MCPrefix == [n \in {"a", "A", "b"} |-> IF n = "b" THEN "B" ELSE "A"]

\* The spellings the inputs below rely on.
ASSUME LowerAssumption ==
    Lower["t"] = "t" /\ Lower["B"] = "b" /\ Lower["a"] = "a" /\ Lower["b"] = "b" /\ Lower["c"] = "c"
ASSUME SpelledAssumption == {-1, 1, 2} \subseteq DOMAIN Spelling

NoName == ""

Pair(k, v) == [kind |-> k, val |-> v]

-----------------------------------------------------------------------------
(***************************************************************************)
(* Structured queries: a table of two columns in chunks, cut by every mix  *)
(* of predicates, paging and order, and the grouped requests.              *)
(***************************************************************************)
Filters == {NoFilter, [include |-> {}, exclude |-> {"b"}],
            [include |-> {"A"}, exclude |-> {}], [include |-> {}, exclude |-> {"a", "b"}]}
Schema2(pred, proj) ==
    [columns |-> <<"a", "B">>, predicate_filter |-> pred, projection_filter |-> proj]
R(x, y) == [a |-> x, B |-> y]
Chunkings == {<<>>, <<<<R(1, 2), R(2, -1)>>, <<>>, <<R(1, -1), R(1, 1), R(2, 2)>>>>}
Unindexed == [mode |-> "none", columns |-> {}, max_cardinality |-> 0]
Policies == {Unindexed,
             [mode |-> "auto", columns |-> {}, max_cardinality |-> 2],
             [mode |-> "list", columns |-> {"A"}, max_cardinality |-> 0]}
Dataset(schema, chunks, index) ==
    [schema |-> schema, chunks |-> chunks, lazy |-> FALSE, index |-> index,
     indexable |-> {"a", "B"}]

Lit(v) == [v |-> v, key |-> Spelling[v]]
P(c, op, kind, lits) == [col |-> c, op |-> op, kind |-> kind, lits |-> lits]
Preds == {P("A", "eq", "one", <<Lit(1)>>), P("b", "eq", "one", <<Lit(2)>>),
          P("b", "in", "array", <<Lit(2), Lit(1)>>), P("a", "in", "array", <<>>),
          P("b", "eq", "one", <<Lit(-1)>>), P("b", "is_null", "none", <<>>),
          P("a", "gte", "one", <<Lit(2)>>), P("a", "eq", "none", <<>>),
          P("a", "eq", "one", <<[v |-> 1, key |-> "1.0"]>>),
          P("x", "eq", "one", <<Lit(1)>>), P("a", "near", "one", <<Lit(1)>>)}
PredSeqs == {<<>>} \cup {<<p>> : p \in Preds}
            \cup {<<P("A", "eq", "one", <<Lit(1)>>), p>> : p \in Preds}

Req == [columns |-> <<>>, predicates |-> <<>>, group_by |-> <<>>, aggregations |-> <<>>,
        having |-> <<>>, distinct |-> FALSE, order_by |-> <<>>, limit |-> {},
        page |-> 1, page_size |-> 2]
Desc == <<[col |-> "B", dir |-> "desc"]>>
Arrangements == {<<FALSE, <<>>>>, <<TRUE, <<>>>>, <<FALSE, Desc>>}  \* distinct, order_by
Scanned(c, p, o, l, k, n) ==
    [columns |-> c, predicates |-> p, group_by |-> <<>>, aggregations |-> <<>>,
     having |-> <<>>, distinct |-> o[1], order_by |-> o[2], limit |-> l,
     page |-> k, page_size |-> n]
ScanReqs == {Scanned(c, p, o, l, k, n) :
               c \in {<<>>, <<"A">>, <<"x">>}, p \in PredSeqs,
               o \in Arrangements,
               l \in {{}, {1}, {3}}, k \in {0, 2, (Word \div 2) + 1}, n \in {2, 9}}
Agg(op, col, alias) == [op |-> op, col |-> col, alias |-> alias]
Aggs == {<<>>, <<Agg("sum", {"B"}, {<<"t", NoName>>})>>, <<Agg("sum", {}, {})>>,
         <<Agg("max", {"b"}, {}), Agg("median", {"a"}, {})>>}
Havings == {<<>>, <<P("t", "gt", "one", <<Lit(1)>>)>>, <<P("a", "eq", "one", <<Lit(1)>>)>>,
            <<P("b", "eq", "one", <<Lit(2)>>)>>}
Orders == {<<>>, <<[col |-> "T", dir |-> "up"]>>, Desc, <<[col |-> "a", dir |-> "asc"]>>}
Grouped(c, g, a, h, o, d, p) ==
    [Req EXCEPT !.columns = c, !.group_by = g, !.aggregations = a, !.having = h,
                !.order_by = o, !.distinct = d, !.predicates = p]
GroupReqs == {Grouped(c, g, a, h, o, d, p) :
                c \in {<<>>, <<"A">>, <<"b">>}, g \in {<<>>, <<"A">>, <<"b">>, <<"x">>},
                a \in Aggs, h \in Havings, o \in Orders, d \in BOOLEAN,
                p \in {<<>>, <<P("b", "is_null", "none", <<>>)>>}}

PickScan == \E c \in Chunkings, p \in Policies, r \in ScanReqs :
                input' = Pair("scan", <<Dataset(Schema2(NoFilter, NoFilter), c, p), r>>)
PickGroup == \E f \in Filters, g \in Filters, r \in GroupReqs :
                input' = Pair("group", <<Dataset(Schema2(f, g), <<>>, Unindexed), r>>)

-----------------------------------------------------------------------------
(***************************************************************************)
(* Statements of up to three queries over the datasets t and u.            *)
(***************************************************************************)
Node(parent, place, name, table, show, funcs) ==
    [parent |-> parent, place |-> place, name |-> name, tables |-> {table},
     cols |-> IF show = "*" THEN {} ELSE {show}, wildcard |-> show = "*",
     unseen |-> "none", funcs |-> funcs]
Shows == {"*", "a", "b"}
Children2(parents, funcs) ==
    {Node(p, pl[1], pl[2], t, s, f) : p \in parents, t \in {"t", "w"}, s \in Shows,
       f \in funcs,
       pl \in {<<"cte", "w">>, <<"cte", "t">>, <<"from", NoName>>, <<"join", NoName>>,
               <<"setop", NoName>>, <<"select", NoName>>, <<"where", NoName>>}}
\* A query in one of the forms the checks do not look into.
Obscured(n) ==
    {[n EXCEPT !.unseen = u] : u \in {"list", "row"} \cup (IF n.place = "cte" THEN {"cte_list"} ELSE {})}
    \cup {[n EXCEPT !.unseen = "table", !.cols = {}, !.wildcard = FALSE]}
Roots == {Node(0, "root", NoName, t, s, {}) : t \in {"t", "w", "u"}, s \in Shows}
Statements ==
    {[count |-> 1, kind |-> "query", nodes |-> <<r>>] : r \in Roots}
    \cup {[count |-> n, kind |-> k, nodes |-> <<r, c>>] : r \in Roots,
            c \in Children2({1}, {{}, {"glob"}}), n \in {1, 2}, k \in {"query", "describe"}}
    \cup {[count |-> 1, kind |-> "query", nodes |-> <<r, c, e>>] :
            r \in {x \in Roots : x.tables # {"u"}}, c \in Children2({1}, {{}}),
            e \in Children2({1, 2}, {{}})}
    \cup {[count |-> 1, kind |-> "query", nodes |-> <<r>>] : r \in UNION {Obscured(n) : n \in Roots}}
    \cup {[count |-> 1, kind |-> "query", nodes |-> <<r, c>>] :
            r \in Roots, c \in UNION {Obscured(n) : n \in Children2({1}, {{}})}}
WellNumbered(stmt) ==
    \A i, j \in DOMAIN stmt.nodes :
        (i < j /\ stmt.nodes[i].parent = stmt.nodes[j].parent /\ stmt.nodes[j].place = "cte")
          => stmt.nodes[i].place = "cte"

PickSql == \E s \in Statements, f \in {NoFilter, [include |-> {}, exclude |-> {"b"}]} :
                WellNumbered(s) /\ input' = Pair("sql", <<s, f>>)

-----------------------------------------------------------------------------
(***************************************************************************)
(* Formats.                                                                *)
(***************************************************************************)
Parts == {Absent, Bad} \cup {Num(n) : n \in {0, 1, 3, 4, 9}}
Headers == {[unit |-> u, ranges |-> <<[dash |-> d, start |-> s, end |-> e]>>] :
              u \in {"bytes", "items"}, d \in BOOLEAN, s \in Parts, e \in Parts}

PickRange == \E h \in Headers, total \in {0, 1, 4} :
                input' = Pair("range", <<{h}, total>>)
InWord(n, u) == u # "ms" => n * UnitSeconds[u] < Word \div 1000
PickDuration == \E n \in {0, 1, 2, 59, 60, 90, 119, 1440}, u \in {"ms", "s", "m", "h", "d"} :
                InWord(n, u) /\ input' = Pair("duration", <<n, u>>)
Strings == UNION {[1 .. n -> {0, 10, 27, Quote, Backslash, LetterU, 97, 200}] : n \in 0 .. 2}
CellValues(type) ==
    CASE type \in Texts \cup {"Decimal"} -> Strings
      [] type = "DictI32Utf8" -> [key : 1 .. 2, values : [1 .. 2 -> {{}, {<<>>}, {<<97, 10>>}}]]
      [] type = "Boolean" -> BOOLEAN
      [] type = "Int" -> {-1, 0, 7}
      [] type = "Float" -> [finite : BOOLEAN, n : {0, 5}]
      [] OTHER -> [text : {"some", "none", "error"}, chars : Strings]
PickCell == \E type \in DataTypes, name \in {<<97>>, <<97, Quote>>, <<Backslash, 97>>} :
                \E cell \in {{}} \cup {{v} : v \in CellValues(type)} :
                    input' = Pair("cell", <<name, type, cell>>)
PickTime == \E d \in {0, 58, 59, 364, 365, 729, 789, 790, 1095, 10956, 11015, 11016, 11017,
                      11322, 20147, 24837}, s \in {0, 1, 3599, 3600, 43261, 86399} :
                input' = Pair("time", 86400 * d + s)

-----------------------------------------------------------------------------
(***************************************************************************)
(* Starts of three datasets.                                               *)
(***************************************************************************)
DepSeqs == {<<>>, <<"a">>, <<"A">>, <<"b">>, <<"c">>, <<"a", "b">>, <<"c", "a">>, <<"b", "c">>}
Ds(n, deps, o) == [name |-> n, kind |-> IF deps = <<>> THEN "parquet" ELSE "query",
                   depends_on |-> deps, sql |-> {Lower[x] : x \in Range(deps)},
                   on_start |-> o]
PickStart == \E p, q, r \in DepSeqs, f \in [1 .. 3 -> {"ok", "norows", "nofiles", "error"}],
                early \in {{}, {1, 2}, {3}}, o \in {"eager", "lazy"} :
                /\ o = "lazy" => early = {}
                /\ \A i \in 1 .. 3 : f[i] = "nofiles" => <<p, q, r>>[i] = <<>>
                /\ input' = Pair("boot", <<<<Ds("a", p, o), Ds("b", q, "eager"),
                                             Ds("c", r, "eager")>>, f, early>>)

-----------------------------------------------------------------------------
(***************************************************************************)
(* Sources.                                                                *)
(***************************************************************************)
Seg(e, k, v, w) == [eq |-> e, key |-> k, val |-> v, wild |-> w]
Plain1 == Seg(FALSE, NoName, "dir", FALSE)
Segs == {Plain1, Seg(TRUE, "a", "1", FALSE), Seg(TRUE, "c", "1", FALSE),
         Seg(TRUE, "c", "2", FALSE), Seg(TRUE, "c", "a=b", FALSE), Seg(TRUE, "c", NoName, FALSE)}
Wilds == {Seg(FALSE, NoName, "*", TRUE), Seg(TRUE, "c", "*", TRUE)}
Tops == {Plain1, Seg(TRUE, "a", "1", FALSE)}
Dirs == {<<x>> : x \in Segs} \cup (Tops \X Segs)
Locations == {<<x>> : x \in Segs \cup Wilds} \cup (Tops \X Wilds)
Src(shape, parts, files, wanted) ==
    [shape |-> shape, parts |-> parts, files |-> files, columns |-> <<"a", "B">>,
     wanted |-> wanted]

PickFiles == \E f \in Dirs, g \in Dirs, w \in {{}, {"A"}, {"x"}},
                parts \in Locations, shape \in {"glob", "dir", "file"} :
                /\ (shape = "glob") <=> \E s \in Range(parts) : s.wild
                /\ input' = Pair("files", Src(shape, parts, <<f, g>>, w))
PickDelta == \E t \in {"absent", "broken", "nofiles", "norows", "gone", "partly_gone", "sound"},
                lazy, s3 \in BOOLEAN, b \in {{}, {0}, {1}, {2}}, limit \in {0, 1} :
                input' = Pair("delta", <<t, [lazy |-> lazy, s3 |-> s3, bytes |-> b], limit>>)
Opt(S) == {{}} \cup {{x} : x \in S}
\* Rows and KiB: nothing, few wide rows, many narrow ones, and rows of less
\* than a byte.
BatchSizes == {<<0, 0>>, <<1, 1000>>, <<2000000, 2000>>, <<2000000, 1000>>}
PickBuild == \E res \in {"auto", "memory", "lazy"},
                st \in Opt([threshold : {0, 1024, 20 * 1024}, memory_mb : Opt({1, 16, 64}),
                            reservation_mb : Opt({2, 13, 32})]),
                sizes \in UNION {[1 .. n -> BatchSizes] : n \in 0 .. 3} :
                input' = Pair("build", <<res, st, [i \in DOMAIN sizes |->
                              [id |-> i, rows |-> sizes[i][1], bytes |-> sizes[i][2]]]>>)
Cred(k, s) == [key |-> k, secret |-> s]
Creds == {Cred({}, {}), Cred({"k"}, {"s"}), Cred({"k"}, {})}
Environment(g, h) ==
    [x \in {NoName, "A", "B"} |-> IF x = "A" THEN g ELSE IF x = "B" THEN h ELSE Cred({}, {})]
Named(name, bucket, c) ==
    [name |-> name, bucket |-> bucket, key |-> c.key, secret |-> c.secret]
PickS3 == \E m \in {"a", "A"}, n \in {"A", "b"}, p, q \in {"one", "two"},
             c, e, g, h \in Creds :
             input' = Pair("s3", <<<<Named(m, p, c), Named(n, q, Cred({"k2"}, e.secret))>>,
                                   Environment(g, h)>>)
PickEndpoint == \E b \in {"true", "false", "auto"}, y \in {"virtual", "path"},
                host \in {<<>>, <<"one">>, <<"one", "x">>, <<"x">>} :
                input' = Pair("endpoint", [bucket_in_host |-> b, style |-> y, host |-> host])

-----------------------------------------------------------------------------
\* One start for each algorithm.
Init == input \in {Pair("start", k) : k \in 1 .. 13}

At(k) == input.kind = "start" /\ input.val = k

Next ==
    \/ At(1) /\ PickScan
    \/ At(2) /\ PickGroup
    \/ At(3) /\ PickSql
    \/ At(4) /\ PickRange
    \/ At(5) /\ PickDuration
    \/ At(6) /\ PickTime
    \/ At(7) /\ PickStart
    \/ At(8) /\ PickFiles
    \/ At(9) /\ PickDelta
    \/ At(10) /\ PickBuild
    \/ At(11) /\ PickS3
    \/ At(12) /\ PickEndpoint
    \/ At(13) /\ PickCell

Spec == Init /\ [][Next]_input

Is(k) == input.kind = k

\* Reading resident batches (slices, the equality index) answers what the SQL
\* plan answers, the pages of a request are its answer cut into pieces, and
\* both backends make the same plan (query_batches_inner, take_page,
\* repository.rs).
QueryAnswers ==
    /\ Is("scan") => LET d == input.val[1]
                         r == input.val[2]
                     IN FastPathAgrees(d, r) /\ PagesTile(d, r) /\ BackendsAgree(d, r)
    /\ Is("group") => BackendsAgree(input.val[1], input.val[2])

\* A structured query that passes enforce_column_filters shows and tests only
\* columns its filters allow.  A statement that passes validate_and_authorize
\* refers to registered datasets, TABLE t and stray names aside, and returns
\* none of the columns they hide if it names its columns (NamesItsColumns).
GuardSound ==
    /\ Is("group") => FiltersKept(input.val[1], input.val[2])
    /\ Is("sql") =>
         LET stmt == input.val[1]
             s == Schema2(NoFilter, input.val[2])
         IN /\ GatedStatement(stmt, {"t", "u"}, [n \in {"t", "u"} |-> s])
            /\ CanonicalSame(stmt, [n \in {"t"} |-> "t"], [n \in {"b"} |-> "B"])

\* Byte ranges serve exactly the bytes asked for, durations survive being
\* written and read, times are those of the calendar, and the JSON of a row
\* reads back as the row.
FormatsSound ==
    /\ Is("range") => RangeServed(input.val[1], input.val[2])
    /\ Is("duration") => /\ DurationKept(input.val[1], input.val[2])
                         /\ BackoffBounded(1 + (input.val[1] % 5), input.val[1])
    /\ Is("time") => TimeFaithful(input.val)
    /\ Is("cell") => CellKept(input.val[1], input.val[2], input.val[3])

\* Datasets come up at start exactly when all they need does: in DataFusion
\* what has rows, in DuckDB also what has none, unless a file dataset ends its
\* start.  The error for a cycle names one.
StartupSound ==
    Is("boot") => StartsRight(input.val[1], input.val[2], input.val[3])

\* Files, Delta tables and buckets are read the same way whether a dataset is
\* resident or lazy, where the layout allows it, and without mixing
\* credentials.  A query's result keeps its rows in both backends, which need
\* not agree on the place: DuckDB counts rows against the threshold.
SourcesSound ==
    /\ Is("files") => LazySame(input.val)
    /\ Is("delta") => DeltaSame(input.val[1]) /\ ForceSame(input.val[2], input.val[3])
    /\ Is("build") => /\ BuildKeepsRows(input.val[1], input.val[2], input.val[3])
                      /\ ReservationFits(input.val[2])
    /\ Is("s3") => OwnCredentials(input.val[1], input.val[2])
    /\ Is("endpoint") => EndpointStable(input.val, "one")
=============================================================================
