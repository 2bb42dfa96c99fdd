------------------------------ MODULE LshFormat ------------------------------
(***************************************************************************)
(* The two file formats of the hash tables of an LSH index.                *)
(*                                                                         *)
(* FORMAT1: a table is N rows of C cells, each a t2 key and a point; the   *)
(* first unused cell of a row is marked with IFlag.  A table is read and   *)
(* written whole, so its cells are one sequence here: writing one past a   *)
(* row is writing into the next.                                           *)
(*                                                                         *)
(* FORMAT2: per table ([T1 t1 n [T2 t2 p+]+ ]* E), where n is the number   *)
(* of buckets and points of the row.                                       *)
(***************************************************************************)
EXTENDS LshRows

CONSTANTS
  N,                \* rows of a table
  C,                \* the most points of a row
  L                 \* tables

(* C is at most 10^6 (lshlib.cpp:1176), far below what a row's element     *)
(* count would have to be to look like a token.                            *)
ASSUME TablesAssumption == {N, C, L} \subseteq Nat \ {0} /\ N < Prime /\ 2 * C < PointLimit

Rows == 0 .. N - 1

EmptyTable == [t1 \in Rows |-> EmptyRow]

-----------------------------------------------------------------------------
(* FORMAT1.                                                                *)

ZeroCell == [hash |-> 0, point |-> 0]

Cells == 1 .. N * C

BlankTable1 == [i \in Cells |-> ZeroCell]

RowCells(t1) == t1 * C + 1 .. (t1 + 1) * C

Elements(buckets) ==
  FlattenSeq([i \in DOMAIN buckets |->
                [q \in DOMAIN buckets[i].pts |-> [hash |-> buckets[i].t2, point |-> buckets[i].pts[q]]]])

(* The mark behind a full row lands in the next one; behind the last row   *)
(* it lands outside the allocated table.                                   *)
WriteRow1(table, t1, buckets) ==
  LET new == Elements(buckets)
      at == t1 * C
  IN  [i \in Cells |-> IF i - at \in DOMAIN new THEN new[i - at]
                       ELSE IF i = at + Len(new) + 1 THEN [table[i] EXCEPT !.hash = IFlag]
                       ELSE table[i]]

(* A point for which the row has no unused cell is dropped.                *)
MergeCell1(table, t1, cell) ==
  LET unused == {i \in RowCells(t1) : table[i].hash = IFlag}
      i == Min(unused)
  IN  IF unused = {} THEN table
      ELSE [j \in Cells |-> IF j = i THEN cell
                            ELSE IF j = i + 1 /\ j \in RowCells(t1) THEN [table[j] EXCEPT !.hash = IFlag]
                            ELSE table[j]]

(* Mutant: new points are merged from the start of the row. *)
MergeRowOver(table, t1, buckets) == WriteRow1(table, t1, buckets)

MergeRow1(table, t1, buckets) ==
  FoldLeft(LAMBDA t, cell : MergeCell1(t, t1, cell), table, Elements(buckets))

(* Rows without points in core are left as the file has them: zeros in a   *)
(* new file.                                                               *)
WriteTable1(table, rows, merge) ==
  FoldLeft(LAMBDA t, t1 : IF rows[t1].count = 0 THEN t
                          ELSE IF merge THEN MergeRow1(t, t1, rows[t1].buckets)
                          ELSE WriteRow1(t, t1, rows[t1].buckets),
           table, [i \in 1 .. N |-> i - 1])

(* What a row is read as: its cells up to the first unused one.            *)
UsedCells(table, t1) ==
  {i \in RowCells(t1) : \A j \in RowCells(t1) : j <= i => table[j].hash # IFlag}

ReadRow1(table, t1) ==
  FoldLeft(LAMBDA row, i : InsertPoint(row, table[i].hash, table[i].point, C),
           EmptyRow, [i \in 1 .. Cardinality(UsedCells(table, t1)) |-> t1 * C + i])

ReadTable1(table) == [t1 \in Rows |-> ReadRow1(table, t1)]

(* Mutant: the unused cells are looked at, too. *)
ChainAll(table, t1, t2) == {table[i].point : i \in {j \in RowCells(t1) : table[j].hash = t2}}

(* serial_bucket_chain_point *)
Chain1(table, t1, t2) == {table[i].point : i \in {j \in UsedCells(table, t1) : table[j].hash = t2}}

-----------------------------------------------------------------------------
(* FORMAT2.                                                                *)

EncodeRow2(t1, row) ==
  IF row.count = 0 THEN <<>>
  ELSE <<TokenT1, t1, row.count + Len(row.buckets)>>
       \o FlattenSeq([i \in DOMAIN row.buckets |-> <<TokenT2, row.buckets[i].t2>> \o row.buckets[i].pts])

(* Mutant: no end of table. *)
TableWithoutEnd(rows) == FlattenSeq([i \in 1 .. N |-> EncodeRow2(i - 1, rows[i - 1])])

EncodeTable2(rows) ==
  FlattenSeq([i \in 1 .. N |-> EncodeRow2(i - 1, rows[i - 1])]) \o <<TokenEnd>>

EncodeTables2(tables) == FlattenSeq([x \in 1 .. L |-> EncodeTable2(tables[x])])

(* The state machine that reads the tables: which word it expects, the     *)
(* table and row it is in, the key and the points so far of the bucket,    *)
(* and how rows are built: as lists, onto those already in core            *)
(* (forMerge), or as arrays.                                               *)
Reader2(tables, forMerge) ==
  [expect |-> "table", x |-> 1, t1 |-> 0, n |-> 0, t2 |-> 0, pts |-> <<>>, buckets |-> <<>>,
   tables |-> tables, lists |-> forMerge]

Fail2(r) == [r EXCEPT !.expect = "error"]

EndTable2(r) == [r EXCEPT !.x = @ + 1, !.expect = IF r.x = L THEN "done" ELSE "table"]

(* A row is complete: for a query it becomes an array.                     *)
EndRow2(r) ==
  IF r.lists THEN r
  ELSE [r EXCEPT !.tables[r.x][r.t1] =
                    [words |-> ArrayWords(r.buckets), allocated |-> AllocatedWords(r.n)]]

EndBucket2(r) ==
  IF r.lists THEN r
  ELSE [r EXCEPT !.buckets = Append(@, [t2 |-> r.t2, pts |-> r.pts])]

(* A row that is an array already, in a damaged file, takes points in a    *)
(* list behind the array that nothing reads.                               *)
ListInsert(row, t2, p) == IF IsList(row) THEN InsertPoint(row, t2, p, C) ELSE row

AddPoint2(r, p) ==
  IF r.lists THEN [r EXCEPT !.tables[r.x][r.t1] = ListInsert(@, r.t2, p), !.pts = <<p>>]
  ELSE [r EXCEPT !.pts = Append(@, p)]

(* After the element count, or in its place in a file without counts.      *)
Chain2(r, word) ==
  IF word = TokenT2 THEN [r EXCEPT !.expect = "t2", !.t2 = 0, !.buckets = <<>>]
  ELSE IF word = TokenEnd THEN EndTable2(EndRow2([r EXCEPT !.buckets = <<>>]))
  ELSE Fail2(r)

ReadWord2(r, word) ==
  CASE r.expect = "table" -> IF word = TokenEnd THEN EndTable2(r)
                             ELSE IF word = TokenT1 THEN [r EXCEPT !.expect = "t1"]
                             ELSE Fail2(r)
    [] r.expect = "t1" -> IF word >= N THEN Fail2(r) ELSE [r EXCEPT !.t1 = word, !.expect = "count"]
    [] r.expect = "count" -> IF word \in {TokenT2, TokenEnd} THEN Chain2([r EXCEPT !.lists = TRUE], word)
                             ELSE [r EXCEPT !.n = word, !.expect = "chain"]
    [] r.expect = "chain" -> Chain2(r, word)
    [] r.expect = "t2" -> IF ~ r.lists /\ word < r.t2 THEN Fail2(r)
                          ELSE [r EXCEPT !.t2 = word, !.pts = <<>>, !.expect = "point"]
    [] r.expect = "point" ->
         IF word \notin {TokenT1, TokenT2, TokenEnd} THEN AddPoint2(r, word)
         ELSE IF r.pts = <<>> THEN Fail2(r)
         ELSE LET ended == EndBucket2(r)
              IN  IF word = TokenT2 THEN [ended EXCEPT !.expect = "t2"]
                  ELSE IF word = TokenT1 THEN [EndRow2(ended) EXCEPT !.expect = "t1"]
                  ELSE EndTable2(EndRow2(ended))
    [] OTHER -> r

(* "done", or the reading failed: an unexpected word, or the end of file.  *)
ReadTables2(words, tables, forMerge) == FoldLeft(ReadWord2, Reader2(tables, forMerge), words)

(* What a file of words holds after the first n of new were written over   *)
(* it.                                                                     *)
Overlay(words, new, n) ==
  [i \in 1 .. Max({n, Len(words)}) |-> IF i <= n THEN new[i] ELSE words[i]]
=============================================================================
