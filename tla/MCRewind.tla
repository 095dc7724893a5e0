---- MODULE MCRewind ----
\* RewindClient on the databases of MCDatabases.
EXTENDS RewindClient, MCDatabases
====
