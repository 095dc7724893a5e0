----------------------------- MODULE MCDatabases -----------------------------
(***************************************************************************)
(* Databases for the TLC runs of server and clients, on two segments of    *)
(* two rows: mutations between them touch one cell, or several segments as *)
(* a chain of kicks does, and undo each other.                             *)
(***************************************************************************)
EXTENDS PirBackend

\* The database with v[i][r] in segment i, row r.
MCDb(v) == [c \in Cells |-> v[c[1]][c[2]]]

MCInitialDb == MCDb(<<<<1, 0>>, <<0, 0>>>>)

ThreeDatabases == {MCInitialDb,
                   MCDb(<<<<2, 0>>, <<1, 0>>>>),
                   MCDb(<<<<0, 0>>, <<1, 2>>>>)}

TwoDatabases == {MCInitialDb, MCDb(<<<<0, 0>>, <<1, 2>>>>)}

=============================================================================
