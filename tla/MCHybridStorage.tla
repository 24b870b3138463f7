--------------------------- MODULE MCHybridStorage ---------------------------
\* A world four blocks long and two high (grass, air), x from -1 to 2, in columns
\* two wide: column -1 is half outside the world and in a region of its own,
\* columns 0 and 1 share one.  The cells of a section stick out of the world at
\* the sides, below and above.  The first edit puts a block; the second digs one
\* in the other column, or sets a generated block back, which removes chunk and
\* file.  The build covers the position of the first.
EXTENDS HybridStorage

MCMinX == -1
Top == <<0, 4, 0>>
MCEdits == 0 :> {<<Top, "brick">>}
           @@ 1 :> {<<<<2, 3, 0>>, Air>>, <<<<-1, 3, 0>>, "grass_block">>}
MCPlan == {Top :> "stone"}

MCTables == <<"world_metadata", "builds", "schema_migrations">>
MCAddedColumns == <<"storage_backend", "save_format_version">>
AtVersion(schema, format) == [schema |-> schema, format |-> format]

\* A new file, files of an earlier release with some of the tables and columns,
\* one of this release, one of an earlier format, and newer ones, of which one
\* never was of this schema.
MCSaves ==
    {[tables |-> {}, columns |-> {}, metadata |-> NoRow, migrations |-> FALSE]}
    \cup [tables : {{"world_metadata"}, {"world_metadata", "schema_migrations"}},
          columns : {{}, {"storage_backend"}},
          metadata : {AtVersion(1, 1)}, migrations : {FALSE}]
    \cup [tables : {TableSet}, columns : {ColumnSet},
          metadata : {AtVersion(2, 2), AtVersion(2, 1), AtVersion(3, 2), AtVersion(2, 3)},
          migrations : {TRUE}]
    \cup [tables : {TableSet}, columns : {ColumnSet}, metadata : {AtVersion(3, 2)},
          migrations : {FALSE}]
=============================================================================
