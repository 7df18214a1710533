-------------------------- MODULE MCSchemaMigration --------------------------
\* An instance of SchemaMigration for TLC.
EXTENDS SchemaMigration

\* The shape of _MIGRATIONS: versions 1 and 3 create tables and indexes if they
\* do not exist, version 2 adds a column.
TablesColumnTable == << <<"scores", "index">>, <<"shap_json">>, <<"vectors">> >>
AllButTheColumn == {"scores", "index", "vectors"}
=============================================================================
