---- MODULE MCServerReplay ----
\* ServerReplay on the databases of MCDatabases.
EXTENDS ServerReplay, MCDatabases
====
