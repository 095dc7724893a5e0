---- MODULE MCHintPatch ----
\* HintPatchClient on the databases of MCDatabases.
EXTENDS HintPatchClient, MCDatabases
====
