------------------------------- MODULE LshRows -------------------------------
(***************************************************************************)
(* One row of an LSH hash table (class H and class G of lshlib.cpp), in    *)
(* each form it takes: the linked lists that insertions build, the cells   *)
(* of a FORMAT1 file, the tokens of a FORMAT2 file, and the array that a   *)
(* query searches.  Operators only; LshIndex holds the state.              *)
(*                                                                         *)
(* The 32-bit words of the code are the numbers below Word, of which the   *)
(* last four are the tokens and the end marks: the code has SkipBase = 4,  *)
(* PointLimit = 2^30, and so Word = 2^32.                                  *)
(***************************************************************************)
EXTENDS Integers, Sequences, FiniteSetsExt, SequencesExt

CONSTANTS
  SkipBase,         \* 4: how many values two skip bits have
  PointLimit        \* 2^30: what is left of a word above which they lie

ASSUME WordAssumption == SkipBase \in Nat /\ SkipBase > 1 /\ PointLimit \in Nat /\ PointLimit > 7

Word == SkipBase * PointLimit

Prime == Word - 5                    \* UH_PRIME_DEFAULT
TokenT1 == Word - 4
TokenT2 == Word - 3
TokenEnd == Word - 2
IFlag == Word - 1                    \* an unused hashValue
EndOfRow == Word - 3                 \* LSH_CORE_ARRAY_END_ROW_TOKEN

MaxBlock == SkipBase * SkipBase      \* MAX_POINTS_IN_BUCKET_CORE_ARRAY

-----------------------------------------------------------------------------
(* Hash keys: (a . b) mod Prime, by folding the high half of each sum back *)
(* in.  One subtraction is enough because b comes from randr(), at most    *)
(* Word \div 8.                                                            *)

FoldHigh(h) == LET low == (h % Word) + 5 * (h \div Word)
               IN  IF low >= Prime THEN low - Prime ELSE low

ProductModPrime(a, b) ==
  LET h[i \in 0 .. Len(a)] == IF i = 0 THEN 0 ELSE FoldHigh(h[i - 1] + a[i] * b[i])
  IN  h[Len(a)]

-----------------------------------------------------------------------------
(* Linked lists: a collision count and buckets in ascending order of t2,   *)
(* each with a chain of points.                                            *)

EmptyRow == [count |-> 0, buckets |-> <<>>]       \* h[j][t1] = 0

(* The LSH_CORE_ARRAY_BIT of the row's head.                               *)
IsList(row) == "buckets" \in DOMAIN row

BucketInsert(buckets, t2, p) ==
  LET after == {i \in DOMAIN buckets : buckets[i].t2 >= t2}
      new == [t2 |-> t2, pts |-> <<p>>]
  IN  IF after = {} THEN Append(buckets, new)
      ELSE IF buckets[Min(after)].t2 = t2
           THEN [buckets EXCEPT ![Min(after)].pts = Append(@, p)]
           ELSE InsertAt(buckets, Min(after), new)

(* A row that counts C points takes no more, silently. *)
InsertPoint(row, t2, p, C) ==
  IF row.count < C
  THEN [count |-> row.count + 1, buckets |-> BucketInsert(row.buckets, t2, p)]
  ELSE row

(* bucket_chain_point: every bucket is looked at. *)
ListRetrieve(buckets, t2) ==
  UNION {Range(buckets[i].pts) : i \in {j \in DOMAIN buckets : buckets[j].t2 = t2}}

-----------------------------------------------------------------------------
(* The array of a row: for every block of up to MaxBlock points its t2 and *)
(* the points, the number of points less one in the top bits of the first  *)
(* two; a single point is followed by a filler.                            *)

(* Mutant: the number of points itself in the bits. *)
SkipOfAll(n) == n

SkipOf(n) == n - 1

BlockWords(t2, pts) ==
  LET skip == SkipOf(Len(pts))
  IN  IF Len(pts) = 1 THEN <<t2, pts[1], 0>>
      ELSE <<t2, pts[1] + (skip % SkipBase) * PointLimit,
                 pts[2] + (skip \div SkipBase) * PointLimit>>
             \o SubSeq(pts, 3, Len(pts))

Blocks(bucket) ==
  [b \in 1 .. (Len(bucket.pts) + MaxBlock - 1) \div MaxBlock |->
     BlockWords(bucket.t2,
                SubSeq(bucket.pts, (b - 1) * MaxBlock + 1, Min({b * MaxBlock, Len(bucket.pts)})))]

ArrayWords(buckets) ==
  FlattenSeq([i \in DOMAIN buckets |-> FlattenSeq(Blocks(buckets[i]))]) \o <<EndOfRow>>

(* What unserialize_hashtable_row_to_array allocates before it has seen    *)
(* the row, from the element count the file gives.                         *)
AllocatedWords(numElements) == 2 * numElements + 1

(* A block as the words from at on say: its key, the first two points and  *)
(* the number of points behind the first.                                  *)
BlockAt(words, at) ==
  LET p1 == words[at + 1]
      p2 == words[at + 2]
  IN  [t2 |-> words[at], first |-> p1 % PointLimit, second |-> p2 % PointLimit,
       skip |-> p1 \div PointLimit + (p2 \div PointLimit) * SkipBase]

PointsBehind(block) == IF block.skip > 1 THEN block.skip - 1 ELSE 0

Wild == -1                           \* a word beyond the array

PointsOf(words, at, block) ==
  {block.first} \cup (IF block.skip > 0 THEN {block.second} ELSE {})
    \cup {IF k <= Len(words) THEN words[k] ELSE Wild : k \in at + 3 .. at + 2 + PointsBehind(block)}

AtEnd(words, at) == at <= Len(words) /\ words[at] = EndOfRow

(* dump_core_hashtable_array: the keys and points of a row's array.        *)
DumpArray(words) ==
  LET from[at \in Nat] ==
        IF at + 2 > Len(words) THEN {<<Wild, Wild>>} ELSE
        LET block == BlockAt(words, at)
            next == at + 3 + PointsBehind(block)
        IN  {<<block.t2, p>> : p \in PointsOf(words, at, block)}
              \cup (IF AtEnd(words, next) THEN {} ELSE from[next])
  IN  from[1]

(* Mutant: the filler behind a single point is forgotten. *)
PassOverUnfilled(words, at, block) == at + 2 + block.skip

(* Where retrieve_from_core_hashtable_array looks for the next block when  *)
(* the key does not match: by one word too far behind a block of two       *)
(* points or more.                                                         *)
PassOver(words, at, block) == IF AtEnd(words, at + 3) THEN at + 3 ELSE at + 3 + block.skip

(* The points retrieve_from_core_hashtable_array reports; Wild among them  *)
(* when it reads on behind the array.                                      *)
ArrayRetrieve(words, t2) ==
  LET from[at \in Nat] ==
        IF at <= Len(words) /\ words[at] > t2 THEN {}
        ELSE IF at + 2 > Len(words) THEN {Wild}
        ELSE LET block == BlockAt(words, at)
                 found == block.t2 = t2
                 next == IF found THEN at + 3 + PointsBehind(block) ELSE PassOver(words, at, block)
             IN  (IF found THEN PointsOf(words, at, block) ELSE {})
                   \cup (IF AtEnd(words, next) THEN {} ELSE from[next])
  IN  from[1]
=============================================================================
