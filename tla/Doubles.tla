------------------------------ MODULE Doubles ------------------------------
(***************************************************************************)
(* The doubles the library adds up and compares: integers stand for the    *)
(* finite ones, without rounding.  Powers are logarithms, so silence has   *)
(* power -infinity.                                                        *)
(***************************************************************************)
EXTENDS Integers, Sequences

CONSTANTS NaN, NegInf, Infinity

ASSUME DoublesAssumption ==
  /\ {NaN, NegInf, Infinity} \cap Int = {}
  /\ NaN # NegInf /\ NaN # Infinity /\ NegInf # Infinity

AnyDouble == Int \cup {NaN, NegInf, Infinity}

Plus(x, y) == IF NaN \in {x, y} THEN NaN ELSE IF NegInf \in {x, y} THEN NegInf ELSE x + y

(* Subtraction of a finite number. *)
Minus(x, y) == IF x \in {NegInf, NaN} THEN x ELSE x - y

(* The sum of the n cells of a buffer from position i on, first to last. *)
WindowSum(buffer, i, n) ==
  LET sum[k \in 1 .. n] == IF k = 1 THEN buffer[i] ELSE Plus(sum[k - 1], buffer[i + k - 1])
  IN  sum[n]

(* Mutant: the sum slides whatever leaves the window. *)
SlidAlways(before, buffer, i, n) ==
  Plus(IF buffer[i - 1] \in Int THEN Minus(before, buffer[i - 1]) ELSE NaN, buffer[i + n - 1])

(* The sum slides by one cell, unless the cell that leaves is not finite:   *)
(* then the window is summed again.                                         *)
Slid(before, buffer, i, n) ==
  IF buffer[i - 1] \in Int THEN Plus(Minus(before, buffer[i - 1]), buffer[i + n - 1])
  ELSE WindowSum(buffer, i, n)

(* audiodb_sequence_sum, in place: windows of n cells have their sum in     *)
(* their first cell; the cells after those are left alone.                  *)
SequenceSum(buffer, n) ==
  LET last == Len(buffer) - n + 1
      sum[i \in 1 .. last] == IF i = 1 THEN WindowSum(buffer, 1, n) ELSE Slid(sum[i - 1], buffer, i, n)
  IN  [i \in 1 .. Len(buffer) |-> IF i <= last THEN sum[i] ELSE buffer[i]]
=============================================================================
