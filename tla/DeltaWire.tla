------------------------------ MODULE DeltaWire ------------------------------
(***************************************************************************)
(* The bit encoding of HintDeltaBundle of crate ikpir-common: the encoder  *)
(* as a function, the decoder as the machine that reads one part after the *)
(* other and checks it.                                                    *)
(*                                                                         *)
(* A stream is a sequence of fields, each with its width in bits; where a  *)
(* field starts and how wide it is follows from the fields before, so      *)
(* streams of equal fields are streams of equal bits.  A bundle names a    *)
(* row by its segment and its place there, a stream by its bucket.         *)
(***************************************************************************)
EXTENDS Integers, Sequences, FiniteSets, SequencesExt

CONSTANTS
  Arity, segment_size,  \* num_buckets is their product
  row_width,            \* cells of a row
  plaintext_bits,
  Epochs,               \* bound: the epochs sent
  Codes,                \* bound: the code points sent, valid or not
  MaxRows,              \* bound: the rows of a stream
  MaxDeltas             \* bound: its non-zero deltas

ASSUME WireAssumption ==
  /\ Arity \in Nat \ {0} /\ segment_size \in Nat \ {0}
  /\ row_width \in Nat \ {0}
  /\ plaintext_bits \in Nat \ {0}
  /\ Epochs \subseteq Nat
  /\ Codes \subseteq 0 .. 2 ^ (plaintext_bits + 1) - 1
  /\ MaxRows \in Nat /\ MaxDeltas \in Nat

-----------------------------------------------------------------------------
(* DeltaWireLayout::for_params.                                            *)

bitlen(x) == IF x = 0 THEN 0 ELSE CHOOSE n \in 1 .. x : 2 ^ (n - 1) <= x /\ x < 2 ^ n

num_buckets  == Arity * segment_size
bucket_bits  == bitlen(num_buckets - 1)
offset_bits  == bitlen(row_width - 1)
delta_bits   == plaintext_bits + 1
WrongMaxGap  == offset_bits \div delta_bits   \* counts one field of a run header
max_gap      == (2 * offset_bits + 1) \div delta_bits

p            == 2 ^ plaintext_bits
WrongMaxCode == 2 * p - 3
max_code     == 2 * p - 2

Segments == 0 .. Arity - 1
Offsets  == 0 .. row_width - 1
Deltas   == ({u - (p - 1) : u \in Codes} \cap (1 - p .. p - 1)) \ {0}

\* The bundles validate lets pass: no empty row, no zero delta.
RowCells == UNION {[D -> Deltas] : D \in (SUBSET Offsets) \ {{}}}
RowSets  == {S \in SUBSET (Segments \X (0 .. segment_size - 1)) : Cardinality(S) <= MaxRows}

SumOver(f(_), S) == FoldSet(LAMBDA x, n : n + f(x), 0, S)

NumDeltas(rs) == SumOver(LAMBDA r : Cardinality(DOMAIN rs[r]), DOMAIN rs)

Bundles == [epoch : Epochs,
            rows  : UNION {{rs \in [R -> RowCells] : NumDeltas(rs) <= MaxDeltas} : R \in RowSets}]

\* The bucket of a row, and back.
BucketOf(row) == row[1] * segment_size + row[2]

WrongRowOf(g) == <<g \div Arity, g % Arity>>
RowOf(g)      == <<g \div segment_size, g % segment_size>>

-----------------------------------------------------------------------------
(* encode.                                                                 *)

Field(w, v) == [width |-> w, value |-> v]

Bits(fields) == FoldLeft(LAMBDA n, f : n + f.width, 0, fields)

Ascending(S) == SetToSortSeq(S, LAMBDA a, b : a < b)

\* row_runs: a run goes on over a gap of at most max_gap zeros.
WrongRunStarts(cells) ==
  {b \in DOMAIN cells : \A a \in DOMAIN cells : a < b => b - a - 1 >= max_gap}

RunStarts(cells) ==
  {b \in DOMAIN cells : \A a \in DOMAIN cells : a < b => b - a - 1 > max_gap}

RunEnd(cells, starts, s) ==
  Max({o \in DOMAIN cells : s <= o /\ \A t \in starts : t <= s \/ o < t})

RunLen(cells, starts, s) == RunEnd(cells, starts, s) - s + 1

CodeAt(cells, o) == (IF o \in DOMAIN cells THEN cells[o] ELSE 0) + p - 1

RunFields(cells, s) ==
  LET len == RunLen(cells, RunStarts(cells), s)
  IN  <<Field(offset_bits, s), Field(offset_bits, len - 1)>>
        \o [k \in 1 .. len |-> Field(delta_bits, CodeAt(cells, s + k - 1))]

\* A flag before each run but the first, and one after the last.
RowFields(row, cells) ==
  LET starts == Ascending(RunStarts(cells))
  IN  <<Field(1, 1), Field(bucket_bits, BucketOf(row))>>
        \o FlattenSeq([i \in DOMAIN starts |->
             (IF i = 1 THEN <<>> ELSE <<Field(1, 1)>>) \o RunFields(cells, starts[i])])
        \o <<Field(1, 0)>>

Padding(n) == (8 - (n % 8)) % 8

\* Segment by segment, and row by row in each.
EncodeRows(b) ==
  LET order == SetToSortSeq(DOMAIN b.rows,
                            LAMBDA r, s : r[1] < s[1] \/ (r[1] = s[1] /\ r[2] < s[2]))
  IN  <<Field(64, b.epoch)>>
        \o FlattenSeq([i \in DOMAIN order |-> RowFields(order[i], b.rows[order[i]])])
        \o <<Field(1, 0)>>

Encode(b) == LET fields == EncodeRows(b) IN Append(fields, Field(Padding(Bits(fields)), 0))

\* wire_stats, and bits of DeltaWireLayout.
NumRuns(b) == SumOver(LAMBDA r : Cardinality(RunStarts(b.rows[r])), DOMAIN b.rows)

WrongNumCells(b) == NumDeltas(b.rows)

NumCells(b) ==
  SumOver(LAMBDA r : SumOver(LAMBDA s : RunLen(b.rows[r], RunStarts(b.rows[r]), s), RunStarts(b.rows[r])),
          DOMAIN b.rows)

StatedBits(b) == 64 + 1 + Cardinality(DOMAIN b.rows) * (1 + bucket_bits)
                        + NumRuns(b) * (2 * offset_bits + 1) + NumCells(b) * delta_bits

-----------------------------------------------------------------------------
(* decode.                                                                 *)

Errors == {"Truncated", "BucketOutOfRange", "OffsetOutOfRange", "DeltaOutOfRange",
           "NonCanonicalRows", "NonCanonicalRuns", "NonZeroPadding", "TrailingBytes"}

NoBucket == -1
NoRun    == -1
Nothing  == [epoch |-> -1, rows |-> <<>>]   \* any stream

VARIABLES
  sent,      \* the bundle whose encoding is read, or Nothing
  unread,    \* the fields of its encoding not yet read
  read,      \* the fields read
  at,        \* what is read next: "epoch", "rows", "run", "deltas", "runs" or
             \* "padding"; or the result, "Ok" or one of Errors
  epoch,
  rows,      \* the rows complete so far
  bucket,    \* prev_bucket
  cells,     \* the cells of the row
  run,       \* [start, len] of the run
  run_end    \* prev_run_end_excl

vars == <<sent, unread, read, at, epoch, rows, bucket, cells, run, run_end>>

\* These fields come next, in any stream or in that of the sent bundle.
Reads(fields) ==
  /\ sent # Nothing => IsPrefix(fields, unread)
  /\ unread' = SubSeq(unread, Len(fields) + 1, Len(unread))
  /\ read' = read \o fields
  /\ UNCHANGED sent

Init ==
  /\ sent \in Bundles \cup {Nothing}
  /\ unread = IF sent = Nothing THEN <<>> ELSE Encode(sent)
  /\ read = <<>>
  /\ at = "epoch"
  /\ epoch = 0
  /\ rows = <<>>
  /\ bucket = NoBucket
  /\ cells = <<>>
  /\ run = [start |-> 0, len |-> 0]
  /\ run_end = NoRun

ReadEpoch ==
  /\ at = "epoch"
  /\ \E e \in Epochs :
       /\ Reads(<<Field(64, e)>>)
       /\ epoch' = e
  /\ at' = "rows"
  /\ UNCHANGED <<rows, bucket, cells, run, run_end>>

EndRows ==
  /\ at = "rows"
  /\ Reads(<<Field(1, 0)>>)
  /\ at' = "padding"
  /\ UNCHANGED <<epoch, rows, bucket, cells, run, run_end>>

ReadRow ==
  /\ at = "rows"
  /\ Cardinality(DOMAIN rows) < MaxRows
  /\ \E g \in 0 .. 2 ^ bucket_bits - 1 :
       /\ Reads(<<Field(1, 1), Field(bucket_bits, g)>>)
       /\ \/ g >= num_buckets /\ at' = "BucketOutOfRange" /\ UNCHANGED bucket
          \/ g < num_buckets /\ g <= bucket /\ at' = "NonCanonicalRows" /\ UNCHANGED bucket
          \/ g < num_buckets /\ g > bucket /\ at' = "run" /\ bucket' = g
  /\ cells' = <<>>
  /\ run_end' = NoRun
  /\ UNCHANGED <<epoch, rows, run>>

\* A run overlaps the one before, or should be one with it.
WrongTooClose(start) == run_end # NoRun /\ start < run_end
TooClose(start)      == run_end # NoRun /\ start - run_end <= max_gap

ReadRunHeader ==
  /\ at = "run"
  /\ \E start, len_minus_1 \in 0 .. 2 ^ offset_bits - 1 :
       LET end == start + len_minus_1 + 1
       IN  /\ Reads(<<Field(offset_bits, start), Field(offset_bits, len_minus_1)>>)
           /\ \/ end > row_width /\ at' = "OffsetOutOfRange" /\ UNCHANGED <<run, run_end>>
              \/ end <= row_width /\ TooClose(start)
                   /\ at' = "NonCanonicalRuns" /\ UNCHANGED <<run, run_end>>
              \/ /\ end <= row_width /\ ~TooClose(start)
                 /\ at' = "deltas"
                 /\ run' = [start |-> start, len |-> len_minus_1 + 1]
                 /\ run_end' = end
  /\ UNCHANGED <<epoch, rows, bucket, cells>>

\* A run starts or ends with a zero, or has too many zeros in a row.
Slack(code) ==
  LET zero(k) == code[k] = p - 1
  IN  \/ zero(1) \/ zero(run.len)
      \/ \E k \in 1 .. run.len : k + max_gap <= run.len /\ \A i \in k .. k + max_gap : zero(i)

ReadDeltas ==
  /\ at = "deltas"
  /\ \E code \in [1 .. run.len -> Codes] :
       /\ Cardinality({k \in 1 .. run.len : code[k] # p - 1})
            <= MaxDeltas - Cardinality(DOMAIN cells) - NumDeltas(rows)
       /\ Reads([k \in 1 .. run.len |-> Field(delta_bits, code[k])])
       /\ \/ /\ \E k \in 1 .. run.len : code[k] > max_code
             /\ at' = "DeltaOutOfRange" /\ UNCHANGED cells
          \/ /\ \A k \in 1 .. run.len : code[k] <= max_code
             /\ Slack(code)
             /\ at' = "NonCanonicalRuns" /\ UNCHANGED cells
          \/ /\ \A k \in 1 .. run.len : code[k] <= max_code
             /\ ~Slack(code)
             /\ at' = "runs"
             /\ cells' = [o \in {run.start + k - 1 : k \in {i \in 1 .. run.len : code[i] # p - 1}} |->
                            code[o - run.start + 1] - (p - 1)] @@ cells
  /\ UNCHANGED <<epoch, rows, bucket, run, run_end>>

MoreRuns ==
  /\ at = "runs"
  /\ Reads(<<Field(1, 1)>>)
  /\ at' = "run"
  /\ UNCHANGED <<epoch, rows, bucket, cells, run, run_end>>

EndRow ==
  /\ at = "runs"
  /\ Reads(<<Field(1, 0)>>)
  /\ at' = "rows"
  /\ rows' = (RowOf(bucket) :> cells) @@ rows
  /\ UNCHANGED <<epoch, bucket, cells, run, run_end>>

\* The padding (bound: at most one bit of it is set), and whether bytes
\* follow it.
ReadPadding ==
  /\ at = "padding"
  /\ LET width == Padding(Bits(read))
     IN  \E v \in {0} \cup {2 ^ i : i \in 0 .. width - 1}, trailing \in BOOLEAN :
           /\ Reads(<<Field(width, v)>>)
           /\ sent # Nothing => ~trailing
           /\ at' = IF v # 0 THEN "NonZeroPadding" ELSE IF trailing THEN "TrailingBytes" ELSE "Ok"
  /\ UNCHANGED <<epoch, rows, bucket, cells, run, run_end>>

\* Any stream may end inside any part.
Truncate ==
  /\ sent = Nothing
  /\ at \notin Errors \cup {"Ok"}
  /\ at' = "Truncated"
  /\ UNCHANGED <<sent, unread, read, epoch, rows, bucket, cells, run, run_end>>

Next ==
  \/ ReadEpoch \/ EndRows \/ ReadRow \/ ReadRunHeader \/ ReadDeltas
  \/ MoreRuns \/ EndRow \/ ReadPadding \/ Truncate

\* A call of decode runs to its end.
Spec == Init /\ [][Next]_vars /\ WF_vars(Next)

-----------------------------------------------------------------------------
Decoded == [epoch |-> epoch, rows |-> rows]

\* No two streams decode to one bundle: what decode accepts is what encode
\* writes (docs/hint-delta-wire-format.md: "every decoder accepts only, the
\* canonical form").
AcceptedIsCanonical ==
  at = "Ok" => /\ \A g \in DOMAIN rows : DOMAIN rows[g] # {}
               /\ read = Encode(Decoded)

\* decode takes every bundle that encode can write, to its end, and returns
\* it: with the largest deltas of either sign, in every segment and row.
EncodedIsAccepted == (sent # Nothing) ~> (at = "Ok" /\ Decoded = sent)

\* The closed form of the size, by which encode allocates its buffer and
\* would write past its end, is the size (DeltaWireLayout::bits).
SizeAsStated == at = "Ok" => Bits(EncodeRows(Decoded)) = StatedBits(Decoded)

\* No other way to cut a row in runs is shorter (max_gap).
CutBits(cs, starts) ==
  SumOver(LAMBDA s : 2 * offset_bits + 1 + RunLen(cs, starts, s) * delta_bits, starts)

RunsAreShortest ==
  at = "Ok" =>
    \A g \in DOMAIN rows :
      \A starts \in SUBSET DOMAIN rows[g] :
        Min(DOMAIN rows[g]) \in starts =>
          CutBits(rows[g], RunStarts(rows[g])) <= CutBits(rows[g], starts)

=============================================================================
