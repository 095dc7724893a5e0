----------------------------- MODULE LweKernels ------------------------------
(***************************************************************************)
(* The arithmetic of the two PIR backends on one segment: vectors and      *)
(* row-major matrices of words, addressed from 0 as the code does.  k is   *)
(* the number of database rows in a row of the matrix the backend works    *)
(* on: 1 for FrodoPIR, that of reshape_dims for SimplePIR.                 *)
(*                                                                         *)
(* Operators only.  Sums and differences of the code wrap, so a chain of   *)
(* wrapping operations is written as one sum modulo q.                     *)
(***************************************************************************)
EXTENDS Integers, Sequences, FiniteSetsExt, SequencesExt, TLC

CONSTANTS
  q,               \* the words: 2^32 in the code
  plaintext_bits,
  n_rows,          \* rows, and cells of a row, of the segment
  row_width,
  lwe_dim,
  CHACHA_BUFFER_WORDS

delta == q \div 2^plaintext_bits

ASSUME LweAssumption ==
  /\ {q, plaintext_bits, n_rows, row_width, lwe_dim, CHACHA_BUFFER_WORDS} \subseteq Nat \ {0}
  /\ q = delta * 2^plaintext_bits /\ delta % 2 = 0
  /\ 2^plaintext_bits \in Nat \ {0}   \* of powers the provers know nothing

Words     == 0 .. q - 1
Plaintext == 0 .. 2^plaintext_bits - 1

DivCeil(a, b)    == (a + b - 1) \div b

\* sample_ternary_into, with -1 as a word.
Ternary == {0, 1, q - 1}

-----------------------------------------------------------------------------
round_p_to_q(x) == (x * delta) % q

WrongRound(y) == y \div delta   \* truncates

round_q_to_p(y) == ((y + delta \div 2) % q) \div delta

\* The word as a number around zero.
Signed(y) == IF y < q \div 2 THEN y ELSE y - q

\* reshape_dims: the square root of n_rows / row_width rounded to the nearest
\* integer, halves up, and at least 1; then the rows and their width.
reshape_k ==
  CHOOSE k \in 1 .. n_rows :
    /\ 4 * n_rows < (2 * k + 1) * (2 * k + 1) * row_width
    /\ k = 1 \/ (2 * k - 1) * (2 * k - 1) * row_width <= 4 * n_rows

Rows(k)  == DivCeil(n_rows, k)
Width(k) == k * row_width

\* translate.
ReshapeRow(row, k)       == row \div k
ReshapeOff(row, off, k)  == (row % k) * row_width + off

-----------------------------------------------------------------------------
(***************************************************************************)
(* matvec_accumulate: blocks of R rows in one pass over the accumulator,   *)
(* then the rows left over.  The table of R by width differs by            *)
(* architecture, so R is a parameter.                                      *)
(***************************************************************************)
WrongMatvecAccumulate(acc, d, v, n, R) ==   \* without the rows left over
  LET width == Cardinality(DOMAIN acc)
  IN  [j \in DOMAIN acc |->
         (acc[j] + SumFunction([i \in 0 .. n - (n % R) - 1 |-> v[i] * d[i * width + j]])) % q]

MatvecAccumulate(acc, d, v, n, R) ==
  LET width == Cardinality(DOMAIN acc)
      full  == n - (n % R)
      Term(i, j)  == v[i] * d[i * width + j]
      Block(b, j) == SumFunction([r \in 0 .. R - 1 |-> Term(b * R + r, j)])
  IN  [j \in DOMAIN acc |->
         (acc[j] + SumFunction([b \in 0 .. (full \div R) - 1 |-> Block(b, j)])
                 + SumFunction([i \in full .. n - 1 |-> Term(i, j)])) % q]

Zeros(len) == [j \in 0 .. len - 1 |-> 0]

\* balanced_chunk_len, and where par_chunks_mut starts the chunk of item i.
BalancedChunkLen(total, unit, parts) == DivCeil(DivCeil(total, parts), unit) * unit
ChunkOffset(i, chunk) == (i \div chunk) * chunk

\* sample_a from the key stream of a seed.  In parallel, with more than one
\* thread, a worker seeks to the offset of its chunk.
SampleA(stream, k) == [i \in 0 .. Rows(k) * lwe_dim - 1 |-> stream[i]]

SampleAParallel(stream, k, threads) ==
  LET len   == Rows(k) * lwe_dim
      chunk == BalancedChunkLen(len, CHACHA_BUFFER_WORDS, threads)
      RngAt(offset) == [t \in 0 .. len - 1 - offset |-> stream[offset + t]]
  IN  [i \in 0 .. len - 1 |->
         LET offset == ChunkOffset(i, chunk) IN RngAt(offset)[i - offset]]

(***************************************************************************)
(* compute_hint: each database row adds to the part of a hint row its      *)
(* place in the reshaped row takes.  In parallel, a worker has a band of   *)
(* whole hint rows and indexes A from the first of them.                   *)
(***************************************************************************)
HintCell(a, db, k, k_idx, col) ==
  SumFunction([r \in {r \in 0 .. n_rows - 1 : r % k = col \div row_width} |->
                 a[ReshapeRow(r, k) * lwe_dim + k_idx] * db[r * row_width + (col % row_width)]]) % q

ComputeHint(a, db, k) ==
  [x \in 0 .. lwe_dim * Width(k) - 1 |-> HintCell(a, db, k, x \div Width(k), x % Width(k))]

ComputeHintParallel(a, db, k, threads) ==
  LET len   == lwe_dim * Width(k)
      chunk == BalancedChunkLen(len, Width(k), threads)
      Band(offset) == LET k0 == offset \div Width(k)
                          band_len == IF offset + chunk > len THEN len - offset ELSE chunk
                      IN  [y \in 0 .. band_len - 1 |->
                             HintCell(a, db, k, k0 + y \div Width(k), y % Width(k))]
  IN  [x \in 0 .. len - 1 |->
         LET offset == ChunkOffset(x, chunk) IN Band(offset)[x - offset]]

-----------------------------------------------------------------------------
(***************************************************************************)
(* A batch of row deltas is a sequence of <<row, cells>>, cells one of     *)
(* <<offset, change>>: in any order and with repetitions, as the kernels   *)
(* take them.                                                              *)
(***************************************************************************)
RowDeltas == (0 .. n_rows - 1) \X Seq((0 .. row_width - 1) \X Int)

\* What cells change at an offset.
RowChange(cells, off) ==
  SumFunction([x \in {x \in DOMAIN cells : cells[x][1] = off} |-> cells[x][2]])

\* What a batch changes at an offset of a row.
ChangeAt(batch, row, off) ==
  SumFunction([i \in {i \in DOMAIN batch : batch[i][1] = row} |-> RowChange(batch[i][2], off)])

\* A row of a batch densified: off_within is where it starts in the reshaped one.
Densify(dense, entry, k) ==
  LET off_within == ReshapeOff(entry[1], 0, k)
  IN  [col \in DOMAIN dense |-> (dense[col] + RowChange(entry[2], col - off_within)) % q]

\* One pass over the hint for each row of a batch: a rank-one update by a row
\* of A and the row's vector of changes.
Passes(a, hint, batch, vectors, k) ==
  [x \in DOMAIN hint |->
     (hint[x] + SumFunction([i \in DOMAIN batch |->
                  a[ReshapeRow(batch[i][1], k) * lwe_dim + x \div Width(k)]
                    * vectors[i][x % Width(k)]])) % q]

\* TouchedRuns::rebuild: the changes sorted by column, equal columns summed,
\* adjacent ones joined to runs of <<first column, length>>.  An unstable sort
\* may swap equal columns, which their sum does not tell.
RebuildRuns(row, cells, k) ==
  LET kept   == {x \in DOMAIN cells : cells[x][2] # 0}
      Col(x) == ReshapeOff(row, cells[x][1], k)
      scratch == CHOOSE s \in [1 .. Cardinality(kept) -> kept] :
                   \A i, j \in DOMAIN s :
                     i < j => \/ Col(s[i]) < Col(s[j])
                              \/ Col(s[i]) = Col(s[j]) /\ s[i] < s[j]
      Push(acc, x) ==
        LET n == Len(acc.deltas)
            m == Len(acc.runs)
            change == cells[x][2] % q
        IN  CASE Col(x) = acc.last     -> [acc EXCEPT !.deltas[n] = (@ + change) % q]
              [] Col(x) = acc.last + 1 -> [deltas |-> Append(acc.deltas, change),
                                           runs   |-> [acc.runs EXCEPT ![m][2] = @ + 1],
                                           last   |-> Col(x)]
              [] OTHER                 -> [deltas |-> Append(acc.deltas, change),
                                           runs   |-> Append(acc.runs, <<Col(x), 1>>),
                                           last   |-> Col(x)]
  IN  FoldLeft(Push, [deltas |-> <<>>, runs |-> <<>>, last |-> -2], scratch)

\* TouchedRuns::apply: each run takes the next of the deltas.
Fed(touched, j) == SumFunction([i \in 1 .. j - 1 |-> touched.runs[i][2]])

RunChange(touched, j, col) ==
  LET start == touched.runs[j][1]
  IN  IF col \in start .. start + touched.runs[j][2] - 1
      THEN touched.deltas[Fed(touched, j) + (col - start) + 1] ELSE 0

Touched(touched, k) ==
  [col \in 0 .. Width(k) - 1 |->
     SumFunction([j \in DOMAIN touched.runs |-> RunChange(touched, j, col)])]

\* A row without runs is skipped in the code: its pass would add nothing.
PatchEntryLevel(a, hint, batch, k) ==
  Passes(a, hint, batch,
         [i \in DOMAIN batch |-> Touched(RebuildRuns(batch[i][1], batch[i][2], k), k)], k)

\* FrodoPIR: a pass for each row, the buffer zeroed before it.
PatchRowLevelFrodo(a, hint, batch, k) ==
  Passes(a, hint, batch, [i \in DOMAIN batch |-> Densify(Zeros(Width(k)), batch[i], k)], k)

WrongCleared(dense, run, k) == dense   \* nothing is cleared

\* What a run of rows wrote, cleared cell by cell.
Cleared(dense, run, k) ==
  LET Wrote(entry, col) == \E x \in DOMAIN entry[2] : ReshapeOff(entry[1], entry[2][x][1], k) = col
  IN  [col \in DOMAIN dense |-> IF \E i \in DOMAIN run : Wrote(run[i], col) THEN 0 ELSE dense[col]]

\* SimplePIR: adjacent rows of one reshaped row share a pass, and all passes
\* one dense buffer.
PatchRowLevelSimple(a, hint, batch, k) ==
  LET EndsRun(i) == \/ i = Len(batch)
                    \/ ReshapeRow(batch[i + 1][1], k) # ReshapeRow(batch[i][1], k)
      Step(acc, i) ==
        LET dense == Densify(acc.dense, batch[i], k)
        IN  IF EndsRun(i)
            THEN [hint  |-> Passes(a, acc.hint, <<batch[i]>>, <<dense>>, k),
                  dense |-> Cleared(dense, SubSeq(batch, acc.start, i), k),
                  start |-> i + 1]
            ELSE [acc EXCEPT !.dense = dense]
  IN  FoldLeftDomain(Step, [hint |-> hint, dense |-> Zeros(Width(k)), start |-> 1], batch).hint

\* patch_slot_c: the dot product of secret and row of A, once per row.
PatchC(a, secret, c, batch, k) ==
  LET Dot(r) == SumFunction([i \in 0 .. lwe_dim - 1 |-> secret[i] * a[r * lwe_dim + i]])
      OffWithin(i) == ReshapeOff(batch[i][1], 0, k)
  IN  [j \in DOMAIN c |->
         (c[j] + SumFunction([i \in DOMAIN batch |->
                   Dot(ReshapeRow(batch[i][1], k)) * RowChange(batch[i][2], j - OffWithin(i))])) % q]

WrongRewind(a, b, pending, k) ==   \* the place in the reshaped row is ignored
  [j \in DOMAIN a |->
     (a[j] - SumFunction([cell \in {cell \in DOMAIN pending : cell[2] = j} |->
               b[ReshapeRow(cell[1], k)] * pending[cell]])) % q]

\* rewind_response: pending maps cells <<row, off>> to their summed changes.
Rewind(a, b, pending, k) ==
  [j \in DOMAIN a |->
     (a[j] - SumFunction([cell \in {cell \in DOMAIN pending : ReshapeOff(cell[1], cell[2], k) = j} |->
               b[ReshapeRow(cell[1], k)] * pending[cell]])) % q]

=============================================================================
