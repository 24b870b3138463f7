--------------------------- MODULE SchemaMigration ---------------------------
(***************************************************************************)
(* initialize_schema (src/src/persistence.rs): what opening a save does to *)
(* its SQLite file.  Every statement commits by itself, so the process may *)
(* die between any two of them and start again from the first.  The file   *)
(* may come from any release: an older one lacks tables or columns, and a  *)
(* newer one is refused.                                                   *)
(*                                                                         *)
(* HybridStorage takes the steps of this module while the server is down.  *)
(***************************************************************************)
EXTENDS Integers, Sequences

CONSTANTS
    Tables,            \* the tables in the order they are created
    AddedColumns,      \* columns later releases added to world_metadata, in order
    SchemaVersion,     \* SCHEMA_VERSION
    SaveFormatVersion, \* SAVE_FORMAT_VERSION
    Saves,             \* the files the server may find: records of what they hold
    NoRow              \* world_metadata has no row for the world

TableSet == {Tables[i] : i \in DOMAIN Tables}
ColumnSet == {AddedColumns[i] : i \in DOMAIN AddedColumns}

Version == [schema : Nat, format : Nat]
Current == [schema |-> SchemaVersion, format |-> SaveFormatVersion]

\* A save may be of any release.  One that this release or an earlier one of the
\* same schema stamped has the row of that schema, for they put it there first.
ASSUME SavesAssumption ==
    /\ Current \in Version /\ NoRow \notin Version
    /\ \A save \in Saves :
        /\ save.metadata \in Version \cup {NoRow}
        /\ save.migrations \in BOOLEAN
        /\ save.metadata # NoRow /\ save.metadata.schema = SchemaVersion => save.migrations
        /\ save.metadata = Current => save.tables = TableSet /\ save.columns = ColumnSet

\* The element of a sequence that comes next, of those not yet in a set.
IsNext(s, done, x) ==
    \E i \in DOMAIN s : /\ s[i] = x /\ x \notin done
                       /\ \A j \in 1..i - 1 : s[j] \in done

VARIABLES
    tables,      \* tables of the file
    columns,     \* columns of world_metadata among the added ones
    metadata,    \* its row: schema and save format version
    migrations,  \* schema_migrations has a row for SchemaVersion
    opening      \* how far initialize_schema is: "closed" up to the check of
                 \* the versions, its statements being no-ops where they were done

schemaVars == <<tables, columns, metadata, migrations, opening>>

Newer == metadata # NoRow /\ (metadata.schema > SchemaVersion
                              \/ metadata.format > SaveFormatVersion)
Whole == tables = TableSet /\ columns = ColumnSet /\ migrations

-----------------------------------------------------------------------------
\* Faulty forms of CheckVersions: no version is refused; the versions come
\* before the columns.
CheckNoVersion ==
    /\ opening = "closed" /\ tables = TableSet /\ columns = ColumnSet
    /\ migrations' = (migrations \/ metadata = NoRow \/ metadata.schema < SchemaVersion)
    /\ opening' = "stamp"
    /\ UNCHANGED <<tables, columns, metadata>>
CheckVersionsFirst ==
    /\ opening = "closed" /\ tables = TableSet
    /\ IF Newer THEN opening' = "refused" /\ UNCHANGED migrations
       ELSE /\ opening' = "stamp"
            /\ migrations' = (migrations \/ metadata = NoRow
                              \/ metadata.schema < SchemaVersion)
    /\ UNCHANGED <<tables, columns, metadata>>

-----------------------------------------------------------------------------
SchemaInit ==
    /\ \E save \in Saves :
        /\ tables = save.tables /\ columns = save.columns
        /\ metadata = save.metadata /\ migrations = save.migrations
    /\ opening = "closed"

\* CREATE TABLE IF NOT EXISTS, the next one that is missing.  A new
\* world_metadata has every column from the start.
CreateTable ==
    /\ opening = "closed"
    /\ \E t \in TableSet :
        /\ IsNext(Tables, tables, t)
        /\ tables' = tables \cup {t}
        /\ columns' = IF t = "world_metadata" THEN ColumnSet ELSE columns
    /\ UNCHANGED <<metadata, migrations, opening>>

\* ensure_column, when no table is missing.
EnsureColumn ==
    /\ opening = "closed" /\ tables = TableSet
    /\ \E c \in ColumnSet : IsNext(AddedColumns, columns, c) /\ columns' = columns \cup {c}
    /\ UNCHANGED <<tables, metadata, migrations, opening>>

\* The versions of the file are read: a newer one is an error, an older or an
\* absent one puts a row into schema_migrations (OR IGNORE, if one is there).
CheckVersions ==
    /\ opening = "closed" /\ tables = TableSet /\ columns = ColumnSet
    /\ IF Newer THEN opening' = "refused" /\ UNCHANGED migrations
       ELSE /\ opening' = "stamp"
            /\ migrations' = (migrations \/ metadata = NoRow
                              \/ metadata.schema < SchemaVersion)
    /\ UNCHANGED <<tables, columns, metadata>>

\* The row of world_metadata is inserted or updated to the current versions.
Stamp ==
    /\ opening = "stamp"
    /\ metadata' = Current
    /\ opening' = "ready"
    /\ UNCHANGED <<tables, columns, migrations>>

SchemaStep == CreateTable \/ EnsureColumn \/ CheckVersions \/ Stamp

\* The process ends or dies, wherever it was.
CloseDatabase ==
    /\ opening' = "closed"
    /\ UNCHANGED <<tables, columns, metadata, migrations>>

-----------------------------------------------------------------------------
\* However often an upgrade is interrupted and begun again: a file that says
\* it is current has every table, every column and its row of the history, so
\* a later release that trusts the version finds what the version promises.
StampedSaveIsWhole == metadata = Current => Whole

\* Opening a save never lowers a version it carries: what a newer release wrote
\* is left to it.
VersionsNeverFall ==
    [][metadata # NoRow => /\ metadata' # NoRow
                           /\ metadata'.schema >= metadata.schema
                           /\ metadata'.format >= metadata.format]_metadata
=============================================================================
