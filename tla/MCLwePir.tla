------------------------------ MODULE MCLwePir -------------------------------
(***************************************************************************)
(* A segment of 14 rows of two cells: SimplePIR puts 3 rows side by side,  *)
(* and the last of its 5 rows holds only 2.  Bytes for words, 2 bits for   *)
(* plaintexts, so that delta / 2 = 32 is within reach of errors.           *)
(***************************************************************************)
EXTENDS LwePir

MCKeystream == [i \in 0 .. 41 |-> (i * i * 37 + i * 101 + 59) % 256]

\* By rows.  The first column weighs enough for ternary errors to come up to
\* delta / 2, and passes it or not with the batches.
MCInitialDb ==
  [i \in 0 .. 27 |-> <<2, 2,  3, 1,  3, 1,  3, 0,  3, 2,  3, 1,  3, 1,
                       3, 0,  3, 2,  3, 1,  3, 3,  3, 0,  3, 2,  3, 1>>[i + 1]]

\* Rows that share a reshaped row, adjacent in the batch and adjacent as
\* columns; a row of its own in the partial last one; then rows out of order,
\* changes that repeat, cancel and are zero.
MCBatches == {
  << <<0, << <<0, 1>>, <<1, -1>> >> >>, <<1, << <<0, -2>> >> >>,
     <<13, << <<1, -1>> >> >> >>,
  << <<5, << <<1, 1>>, <<0, -1>>, <<1, 1>> >> >>, <<0, << <<1, 0>> >> >>,
     <<3, << <<0, -1>>, <<0, 1>> >> >>, <<12, << <<0, -1>>, <<1, -1>> >> >> >>,
  << <<0, << <<0, -1>> >> >>, <<1, << <<0, 2>>, <<1, 2>> >> >> >> }

Vec(s) == [i \in 0 .. Len(s) - 1 |-> s[i + 1] % q]

MCSecrets == [frodo  |-> {Vec(<<1, -1, 1>>)},
              simple |-> {Vec(<<200, 17, 94>>)}]

MCErrors ==
  [frodo  |-> {Vec(<<1, 1, 1, 1, 1, 1, 0, 0, 0, 1, 1, 1, 1, 1>>),
               Vec(<<-1, 1, 0, 0, 1, -1, 1, 0, -1, 1, 1, 1, 0, -1>>)},
   simple |-> {Vec(<<9, -4, 5, 0, 1>>), Vec(<<-6, -6, -6, 7, -5>>)}]

=============================================================================
