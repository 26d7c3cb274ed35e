--------------------------- MODULE MCSavedQueries ---------------------------
EXTENDS SavedQueries

File(n) ==
    [name |-> n, kind |-> "parquet", place |-> "file", sql |-> {},
     depends_on |-> <<>>, index |-> [mode |-> "auto", columns |-> {}],
     refresh |-> "none", materialize |-> "none", on_start |-> "eager",
     predicate_filter |-> NoFilter, projection_filter |-> NoFilter,
     managed |-> FALSE, temp |-> FALSE, ttl |-> FALSE]

Query(n, tables) ==
    [File(n) EXCEPT !.kind = "query", !.place = "none", !.sql = tables]

Temp(n, tables, mortal) ==
    [Query(n, tables) EXCEPT !.temp = TRUE, !.ttl = mortal]

MCNames == {"base", "q", "R"}
MCLower == [n \in {"base", "q", "R", "r", "reload-all"} |->
              IF n = "R" THEN "r" ELSE n]

Mount(p) == [text |-> p, lead |-> TRUE, trail |-> FALSE]
MCMain ==
    [prefix |-> [text |-> "", lead |-> FALSE, trail |-> FALSE],
     datasets |-> <<File("base")>>,
     quack |-> [enabled |-> FALSE], pgwire |-> [enabled |-> FALSE],
     docs |-> Mount("/docs"), swagger |-> Mount("/swagger"),
     metrics |-> Mount("/metrics"), explorer |-> Mount("/explorer"),
     mcp |-> Mount("/mcp"), oauth2 |-> {}, public_base_url |-> {},
     auth |-> [enabled |-> FALSE], storage |-> {}]

\* A query over a file, the same name as a temporary query, and queries over
\* the first one and over nothing.
MCCreateDefs == {Query("q", {"base"}), Temp("q", {"base"}, TRUE),
                 Query("R", {"q"}), Temp("R", {}, FALSE)}
MCApiDefs == {File("q")}

\* SELECT 1, saved.
MCCreateConst == {Query("q", {})}
=============================================================================
