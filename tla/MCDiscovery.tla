------------------------------ MODULE MCDiscovery ------------------------------
(* Directories for TLC.  "a" and "z" are words before and after the names  *)
(* of the roles, so that either order of two dumps occurs.                 *)
EXTENDS Discovery

Order == [s \in {".", "_", "a", "big", "class", "dba", "importdb", "indexes", "info",
                 "manifest", "objects", "pk", "schema", "t", "trigger", "z"} |->
  CHOOSE k \in 1 .. 16 :
    <<".", "_", "a", "big", "class", "dba", "importdb", "indexes", "info",
      "manifest", "objects", "pk", "schema", "t", "trigger", "z">>[k] = s]

Classes == {<<"t">>, <<"big", "_", "t">>}

DumpOf(p) == {p \o SCHEMA, p \o OBJECTS}

FileT   == <<"a", "_", "dba", ".", "t">> \o OBJECTS
FileBig == <<"a", "_", "dba", ".", "big", "_", "t">> \o OBJECTS

Names ==
  DumpOf(<<"a">>) \cup DumpOf(<<"a", "_", "z">>) \cup DumpOf(<<"a", "_", "big">>)
  \cup {<<"a">> \o SCHEMA_INFO, <<"a">> \o SCHEMA_CLASS, <<"a">> \o SCHEMA_PK,
        <<"a">> \o INDEXES, <<"z">> \o TRIGGER, FileT, FileBig,
        <<"importdb", ".", "manifest">>}
================================================================================
