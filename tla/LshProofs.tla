------------------------------ MODULE LshProofs ------------------------------
(***************************************************************************)
(* The hash functions of an index file are written once, whatever number   *)
(* of indexers create it, merge into it and die; a search that reads the   *)
(* cells of a FORMAT1 file finds in a row what it finds in the row's       *)
(* loaded copy; what is written to a FORMAT2 file, alone or behind what is *)
(* merged, is read again, as lists and as arrays; and behind buckets of    *)
(* single points a query finds exactly what is stored.                     *)
(***************************************************************************)
EXTENDS LshIndex, OffsetsProofs, SequenceTheorems, TLAPS

(* a created the file and has yet to write its hash functions.             *)
Making(a) ==
  \/ pc[a] \in {"lock new", "header"}
  \/ job[a].isNew /\ pc[a] \in {"open", "functions"}

Jobs == [fmt : {1, 2}, isNew : BOOLEAN, table : Nat, own : SUBSET Points]

Labels == {"idle", "indexing", "indexed", "querying", "create", "lock new", "header", "open",
           "functions", "merge", "tables", "close", "dead"}

Typed ==
  /\ pc \in [Procs -> Labels] /\ job \in [Procs -> Jobs]
  /\ {"fmt", "funs"} \subseteq DOMAIN file

(* One process at most is making the file, and while it is the file has no *)
(* hash functions.                                                         *)
IInv ==
  /\ Typed
  /\ \A a, b \in Procs : Making(a) /\ Making(b) => a = b
  /\ \A a \in Procs : Making(a) => file.fmt \in {0, 1, 2} /\ file.funs = ZeroFuns
  /\ \A a \in Procs : pc[a] = "functions" => job[a].isNew

(* Nobody starts to make the file, and it keeps format and functions.      *)
LEMMA NoneStarts ==
  ASSUME IInv, Typed', file'.fmt = file.fmt, file'.funs = file.funs,
         \A a \in Procs : Making(a)' => Making(a),
         \A a \in Procs : pc'[a] = "functions" => job'[a].isNew
  PROVE  IInv'
BY DEF IInv

LEMMA OwnPoints == \A c : StoredIn(c) \in SUBSET Points
BY DEF StoredIn

(* The type of what the proof follows is kept by every step.               *)
LEMMA TypedNext ==
  ASSUME Typed, Next
  PROVE  Typed'
<1> USE DEF Typed, Labels
<1>1. PICK a \in Procs :
        \/ NewIndex(a) \/ OpenForInsert(a) \/ OpenForQuery(a) \/ EndQuery(a)
        \/ \E b \in Batches : InsertPoints(a, b[1], b[2])
        \/ \E fmt \in {1, 2} : Probe(a, fmt)
        \/ Index(a) \/ Crash(a)
  BY DEF Next
<1>2. NoJob \in Jobs
  BY DEF NoJob, Jobs
<1>3. ASSUME Die(a) PROVE pc' \in [Procs -> Labels] /\ job' \in [Procs -> Jobs]
  BY <1>2, <1>3 DEF Die
<1>4. CASE NewIndex(a)
  BY <1>4 DEF NewIndex
<1>5. CASE OpenForInsert(a)
  <2>1. CASE HasHeader
    <3>1. pc' = [pc EXCEPT ![a] = "indexing"] /\ UNCHANGED <<file, job>>
      BY <1>5, <2>1 DEF OpenForInsert
    <3>2. job' \in [Procs -> Jobs]
      BY <3>1 DEF Jobs
    <3> QED
      BY <3>1, <3>2
  <2>2. CASE ~ HasHeader
    BY <1>3, <1>5, <2>2 DEF OpenForInsert
  <2> QED
    BY <2>1, <2>2
<1>6. CASE OpenForQuery(a)
  BY <1>3, <1>6 DEF OpenForQuery
<1>7. CASE EndQuery(a)
  BY <1>7 DEF EndQuery
<1>8. CASE \E b \in Batches : InsertPoints(a, b[1], b[2])
  <2>1. PICK b \in Batches : InsertPoints(a, b[1], b[2])
    BY <1>8
  <2>2. CASE Refused(core[a], b[1])
    BY <1>3, <2>1, <2>2 DEF InsertPoints
  <2>3. CASE ~ Refused(core[a], b[1])
    <3>1. PICK own \in SUBSET Points : job' = [job EXCEPT ![a].own = own]
      BY <2>1, <2>3, OwnPoints DEF InsertPoints
    <3>2. job' \in [Procs -> Jobs]
      BY <3>1 DEF Jobs
    <3> QED
      BY <2>1, <2>3, <3>2 DEF InsertPoints
  <2> QED
    BY <2>2, <2>3
<1>9. CASE \E fmt \in {1, 2} : Probe(a, fmt)
  <2>1. PICK fmt \in {1, 2} : Probe(a, fmt)
    BY <1>9
  <2>2. PICK new \in BOOLEAN : job' = [job EXCEPT ![a].fmt = fmt, ![a].isNew = new]
    BY <2>1 DEF Probe
  <2>3. job' \in [Procs -> Jobs]
    <3>1. [job[a] EXCEPT !.fmt = fmt, !.isNew = new] \in Jobs
      <4>1. PICK old \in Jobs : old = job[a]
        OBVIOUS
      <4>2. [old EXCEPT !.fmt = fmt, !.isNew = new] \in Jobs
        BY DEF Jobs
      <4> QED
        BY <4>1, <4>2
    <3>2. job' = [job EXCEPT ![a] = [job[a] EXCEPT !.fmt = fmt, !.isNew = new]]
      BY <2>2 DEF Jobs
    <3> QED
      BY ONLY <3>1, <3>2, job \in [Procs -> Jobs]
  <2>4. pc' = [pc EXCEPT ![a] = IF file = NoFile THEN "create" ELSE "open"] /\ UNCHANGED file
    BY <2>1 DEF Probe
  <2> QED
    BY <2>3, <2>4
<1>10. CASE CreateFile(a)
  BY <1>3, <1>10 DEF CreateFile, EmptyFile, NoFile
<1>11. CASE LockNew(a)
  BY <1>11 DEF LockNew, Grants
<1>12. CASE WriteNewHeader(a)
  BY <1>12 DEF WriteNewHeader, BlankFile, NoFile
<1>13. CASE OpenLocked(a)
  <2>1. CASE HasHeader /\ CanMerge(job[a].fmt)
    BY <1>13, <2>1 DEF OpenLocked, Grants
  <2>2. CASE ~ (HasHeader /\ CanMerge(job[a].fmt))
    BY <1>3, <1>13, <2>2 DEF OpenLocked, Grants
  <2> QED
    BY <2>1, <2>2
<1>14. CASE WriteFunctions(a)
  BY <1>14 DEF WriteFunctions
<1>15. CASE WriteTable(a)
  <2>1. PICK k \in Nat : job' = [job EXCEPT ![a].table = k]
    <3>1. job[a].table \in Nat
      BY DEF Jobs
    <3>2. PICK k : k = job[a].table + 1
      OBVIOUS
    <3>3. job' = [job EXCEPT ![a].table = k]
      BY <1>15, <3>2 DEF WriteTable
    <3> HIDE DEF Typed
    <3>4. k \in Nat
      BY <3>1, <3>2
    <3> QED
      BY <3>3, <3>4
  <2>2. job' \in [Procs -> Jobs]
    BY <2>1 DEF Jobs
  <2>3. pc' \in [Procs -> Labels]
    BY <1>15 DEF WriteTable
  <2>4. {"fmt", "funs"} \subseteq DOMAIN file'
    BY <1>15 DEF WriteTable
  <2> QED
    BY <2>2, <2>3, <2>4
<1>16. CASE MergeOld(a)
  <2>1. Die(a) \/ (UNCHANGED job /\ pc' = [pc EXCEPT ![a] = "tables"])
    BY <1>16 DEF MergeOld
  <2>2. UNCHANGED file
    BY <1>16 DEF MergeOld
  <2> QED
    BY <1>3, <2>1, <2>2
<1>17. CASE WriteTokens(a)
  BY <1>17 DEF WriteTokens
<1>18. CASE CloseFile(a)
  <2>1. pc' = [pc EXCEPT ![a] = "idle"] /\ job' = [job EXCEPT ![a] = NoJob]
    BY <1>18 DEF CloseFile, Return
  <2>2. file' = file \/ file' = [file EXCEPT !.maxp = core[a].maxp]
    BY <1>18 DEF CloseFile, Return
  <2>3. {"fmt", "funs"} \subseteq DOMAIN file'
    BY <2>2
  <2>4. pc' \in [Procs -> Labels] /\ job' \in [Procs -> Jobs]
    BY <1>2, <2>1
  <2> QED
    BY <2>3, <2>4
<1>19. CASE Crash(a)
  <2>1. Die(a)
    BY <1>19 DEF Crash
  <2>2. file' = file \/ \E words : file' = [file EXCEPT !.words = words]
    BY <1>19 DEF Crash
  <2> QED
    BY <1>3, <2>1, <2>2
<1> QED
  BY <1>1, <1>4, <1>5, <1>6, <1>7, <1>8, <1>9, <1>10, <1>11, <1>12, <1>13, <1>14, <1>15,
     <1>16, <1>17, <1>18, <1>19 DEF Index

(* What a step does to the file and to those that make it.                 *)
Keeps == file'.fmt = file.fmt /\ file'.funs = file.funs

OthersStay(a) == \A b \in Procs \ {a} : pc'[b] = pc[b] /\ job'[b] = job[b]

(* A process that steps and is not making the file after it.               *)
LEMMA StepAside ==
  ASSUME IInv, Typed', NEW a \in Procs, OthersStay(a), Keeps,
         pc'[a] \notin {"lock new", "header", "functions"}, ~ (job'[a].isNew /\ pc'[a] = "open")
  PROVE  IInv'
<1>1. \A b \in Procs : Making(b)' => b # a /\ Making(b)
  BY DEF OthersStay, Making
<1>2. \A b \in Procs : pc'[b] = "functions" => b # a /\ pc[b] = "functions" /\ job'[b].isNew = job[b].isNew
  BY DEF OthersStay
<1> HIDE DEF Making
<1> QED
  BY <1>1, <1>2 DEF IInv, Keeps

(* Every step keeps the invariant, and the functions a file has.           *)
LEMMA Step ==
  ASSUME IInv, Next
  PROVE  IInv' /\ (file.funs # ZeroFuns => file'.funs = file.funs)
<1>1. PICK a \in Procs :
        \/ NewIndex(a) \/ OpenForInsert(a) \/ OpenForQuery(a) \/ EndQuery(a)
        \/ \E b \in Batches : InsertPoints(a, b[1], b[2])
        \/ \E fmt \in {1, 2} : Probe(a, fmt)
        \/ Index(a) \/ Crash(a)
  BY DEF Next
<1>2. Typed /\ Typed'
  BY TypedNext DEF IInv
<1>3. pc \in [Procs -> Labels] /\ job \in [Procs -> Jobs] /\ {"fmt", "funs"} \subseteq DOMAIN file
  BY <1>2 DEF Typed
<1>4. ASSUME Die(a) PROVE OthersStay(a) /\ pc'[a] = "dead"
  BY <1>3, <1>4 DEF Die, OthersStay
<1>5. ASSUME OthersStay(a), Keeps, pc'[a] \notin {"lock new", "header", "functions", "open"}
      PROVE  IInv' /\ (file.funs # ZeroFuns => file'.funs = file.funs)
  BY <1>2, <1>5, StepAside DEF Keeps
<1>6. CASE NewIndex(a) \/ EndQuery(a)
  <2>1. OthersStay(a) /\ Keeps /\ pc'[a] \in {"indexing", "idle"}
    BY <1>3, <1>6 DEF NewIndex, EndQuery, OthersStay, Keeps
  <2> QED
    BY <1>5, <2>1
<1>7. CASE OpenForInsert(a)
  <2>1. UNCHANGED file
    BY <1>7 DEF OpenForInsert
  <2>2. Die(a) \/ (UNCHANGED job /\ pc' = [pc EXCEPT ![a] = "indexing"])
    BY <1>7 DEF OpenForInsert
  <2>3. OthersStay(a) /\ pc'[a] \in {"dead", "indexing"}
    BY <1>3, <1>4, <2>2 DEF OthersStay
  <2> QED
    BY <1>5, <2>1, <2>3 DEF Keeps
<1>8. CASE OpenForQuery(a)
  <2>1. UNCHANGED file
    BY <1>8 DEF OpenForQuery
  <2>2. Die(a) \/ (job' = job /\ pc' = [pc EXCEPT ![a] = "querying"])
    BY <1>8 DEF OpenForQuery
  <2>3. OthersStay(a) /\ pc'[a] \in {"dead", "querying"}
    BY <1>3, <1>4, <2>2 DEF OthersStay
  <2> QED
    BY <1>5, <2>1, <2>3 DEF Keeps
<1>9. CASE \E b \in Batches : InsertPoints(a, b[1], b[2])
  <2>1. PICK b \in Batches : InsertPoints(a, b[1], b[2])
    BY <1>9
  <2>2. UNCHANGED file
    BY <2>1 DEF InsertPoints
  <2>3. Die(a) \/ \E own : job' = [job EXCEPT ![a].own = own] /\ pc' = [pc EXCEPT ![a] = "indexed"]
    BY <2>1 DEF InsertPoints
  <2>4. OthersStay(a) /\ pc'[a] \in {"dead", "indexed"}
    BY <1>3, <1>4, <2>3 DEF OthersStay
  <2> QED
    BY <1>5, <2>2, <2>4 DEF Keeps
<1>10. CASE \E fmt \in {1, 2} : Probe(a, fmt)
  <2>1. PICK fmt \in {1, 2} : Probe(a, fmt)
    BY <1>10
  <2>2. PICK new \in BOOLEAN : /\ new = (file = NoFile)
                               /\ job' = [job EXCEPT ![a].fmt = fmt, ![a].isNew = new]
                               /\ pc' = [pc EXCEPT ![a] = IF new THEN "create" ELSE "open"]
    BY <2>1 DEF Probe
  <2>3. job'[a].isNew = new /\ pc'[a] = (IF new THEN "create" ELSE "open")
    BY <1>3, <2>2 DEF Jobs
  <2>4. OthersStay(a) /\ Keeps
    BY <1>3, <2>1, <2>2 DEF OthersStay, Keeps, Probe
  <2> QED
    BY <1>2, <2>3, <2>4, StepAside DEF Keeps
<1>11. CASE CreateFile(a)
  <2>1. CASE file = NoFile
    <3>1. file.fmt = -1 /\ file.funs = ZeroFuns
      BY <2>1 DEF NoFile
    <3>2. \A b \in Procs : ~ Making(b)
      BY <3>1 DEF IInv
    <3>3. file'.fmt = 0 /\ file'.funs = ZeroFuns
      BY <1>11, <2>1 DEF CreateFile, EmptyFile, NoFile
    <3>4. job' = job /\ pc' = [pc EXCEPT ![a] = "lock new"]
      BY <1>11, <2>1 DEF CreateFile
    <3>5. \A b \in Procs : Making(b)' => b = a
      BY <1>3, <3>2, <3>4 DEF Making
    <3>6. \A b \in Procs : pc'[b] = "functions" => job'[b].isNew
      BY <1>3, <3>4 DEF IInv
    <3> QED
      BY <1>2, <3>1, <3>3, <3>5, <3>6 DEF IInv
  <2>2. CASE file # NoFile
    <3>1. Die(a) /\ UNCHANGED file
      BY <1>11, <2>2 DEF CreateFile
    <3> QED
      BY <1>4, <1>5, <3>1 DEF Keeps
  <2> QED
    BY <2>1, <2>2
<1>12. ASSUME Keeps, job' = job, \A b \in Procs : Making(b)' => Making(b),
              \A b \in Procs : pc'[b] = "functions" => job[b].isNew
       PROVE  IInv' /\ (file.funs # ZeroFuns => file'.funs = file.funs)
  BY <1>2, <1>12, NoneStarts DEF Keeps
<1>13. CASE LockNew(a)
  <2>1. pc[a] = "lock new" /\ pc' = [pc EXCEPT ![a] = "header"] /\ UNCHANGED <<file, job>>
    BY <1>13 DEF LockNew, Grants
  <2>2. \A b \in Procs : Making(b)' => Making(b)
    BY <1>3, <2>1 DEF Making
  <2>3. \A b \in Procs : pc'[b] = "functions" => job[b].isNew
    BY <1>3, <2>1 DEF IInv
  <2> QED
    BY <1>12, <2>1, <2>2, <2>3 DEF Keeps
<1>14. CASE WriteNewHeader(a)
  <2>1. pc[a] = "header" /\ pc' = [pc EXCEPT ![a] = "open"] /\ job' = job
        /\ file' = BlankFile(job[a].fmt, core[a].maxp)
    BY <1>14 DEF WriteNewHeader
  <2>2. Making(a) /\ file.funs = ZeroFuns
    BY <2>1 DEF IInv, Making
  <2>3. file'.fmt = job[a].fmt /\ file'.funs = ZeroFuns
    BY <2>1 DEF BlankFile, NoFile
  <2>4. job[a].fmt \in {1, 2}
    BY <1>3 DEF Jobs
  <2>5. \A b \in Procs : Making(b)' => Making(b)
    BY <1>3, <2>1 DEF Making
  <2>6. \A b \in Procs : pc'[b] = "functions" => job'[b].isNew
    BY <1>3, <2>1 DEF IInv
  <2> QED
    BY <1>2, <2>2, <2>3, <2>4, <2>5, <2>6 DEF IInv
<1>15. CASE OpenLocked(a)
  <2>1. CASE HasHeader /\ CanMerge(job[a].fmt)
    <3>1. pc[a] = "open" /\ UNCHANGED <<file, job>>
          /\ pc' = [pc EXCEPT ![a] = IF job[a].isNew THEN "functions"
                                     ELSE IF job[a].fmt = 1 THEN "tables" ELSE "merge"]
      BY <1>15, <2>1 DEF OpenLocked, Grants
    <3>2. \A b \in Procs : Making(b)' => Making(b)
      BY <1>3, <3>1 DEF Making
    <3>3. \A b \in Procs : pc'[b] = "functions" => job[b].isNew
      BY <1>3, <3>1 DEF IInv
    <3> QED
      BY <1>12, <3>1, <3>2, <3>3 DEF Keeps
  <2>2. CASE ~ (HasHeader /\ CanMerge(job[a].fmt))
    <3>1. Die(a) /\ UNCHANGED file
      BY <1>15, <2>2 DEF OpenLocked, Grants
    <3> QED
      BY <1>4, <1>5, <3>1 DEF Keeps
  <2> QED
    BY <2>1, <2>2
<1>16. CASE WriteFunctions(a)
  <2>1. pc[a] = "functions" /\ pc' = [pc EXCEPT ![a] = "tables"] /\ job' = job
        /\ file' = [file EXCEPT !.funs = core[a].funs]
    BY <1>16 DEF WriteFunctions
  <2>2. Making(a) /\ file.funs = ZeroFuns
    BY <2>1 DEF IInv, Making
  <2>3. \A b \in Procs : ~ Making(b)'
    <3>1. \A b \in Procs : Making(b)' => Making(b) /\ b # a
      BY <1>3, <2>1 DEF Making
    <3> QED
      BY <2>2, <3>1 DEF IInv
  <2>4. \A b \in Procs : pc'[b] = "functions" => job'[b].isNew
    BY <1>3, <2>1 DEF IInv
  <2> QED
    BY <1>2, <2>2, <2>3, <2>4 DEF IInv
<1>17. CASE WriteTable(a)
  <2>1. \E k : job' = [job EXCEPT ![a].table = k]
    BY <1>17 DEF WriteTable
  <2>2. \E label \in {"close", "tables"} : pc' = [pc EXCEPT ![a] = label]
    BY <1>17 DEF WriteTable
  <2>3. \E cells : file' = [file EXCEPT !.cells = cells]
    BY <1>17 DEF WriteTable
  <2>4. OthersStay(a) /\ pc'[a] \in {"close", "tables"}
    BY <1>3, <2>1, <2>2 DEF OthersStay
  <2>5. Keeps
    BY <1>3, <2>3 DEF Keeps
  <2> QED
    BY <1>5, <2>4, <2>5
<1>18. CASE MergeOld(a)
  <2>1. Die(a) \/ (UNCHANGED job /\ pc' = [pc EXCEPT ![a] = "tables"])
    BY <1>18 DEF MergeOld
  <2>2. UNCHANGED file
    BY <1>18 DEF MergeOld
  <2>3. OthersStay(a) /\ pc'[a] \in {"dead", "tables"}
    BY <1>3, <1>4, <2>1 DEF OthersStay
  <2> QED
    BY <1>5, <2>2, <2>3 DEF Keeps
<1>19. CASE WriteTokens(a)
  <2>1. UNCHANGED job /\ pc' = [pc EXCEPT ![a] = "close"]
        /\ \E words : file' = [file EXCEPT !.words = words]
    BY <1>19 DEF WriteTokens
  <2>2. OthersStay(a) /\ pc'[a] = "close" /\ Keeps
    BY <1>3, <2>1 DEF OthersStay, Keeps
  <2> QED
    BY <1>5, <2>2
<1>20. CASE CloseFile(a)
  <2>1. pc' = [pc EXCEPT ![a] = "idle"] /\ job' = [job EXCEPT ![a] = NoJob]
    BY <1>20 DEF CloseFile, Return
  <2>2. file' = file \/ file' = [file EXCEPT !.maxp = core[a].maxp]
    BY <1>20 DEF CloseFile, Return
  <2>3. OthersStay(a) /\ pc'[a] = "idle"
    BY <1>3, <2>1 DEF OthersStay
  <2>4. Keeps
    BY <1>3, <2>2 DEF Keeps
  <2> QED
    BY <1>5, <2>3, <2>4
<1>21. CASE Crash(a)
  <2>1. Die(a)
    BY <1>21 DEF Crash
  <2>2. file' = file \/ \E words : file' = [file EXCEPT !.words = words]
    BY <1>21 DEF Crash
  <2>3. Keeps
    BY <1>3, <2>2 DEF Keeps
  <2> QED
    BY <1>4, <1>5, <2>1, <2>3
<1> QED
  BY <1>1, <1>6, <1>7, <1>8, <1>9, <1>10, <1>11, <1>13, <1>14, <1>15, <1>16, <1>17, <1>18,
     <1>19, <1>20, <1>21 DEF Index

(* However many indexers race to create a file, merge into it and die, the *)
(* hash functions it has are never replaced (lshlib.cpp:1182, 827-876).    *)
THEOREM FunctionsStay == Spec => FunctionsFixed
<1>1. Init => IInv
  BY DEF Init, IInv, Typed, Labels, Jobs, NoJob, NoFile, Making
<1>2. IInv /\ [Next]_vars => IInv' /\ [file.funs # ZeroFuns => file'.funs = file.funs]_file
  <2>1. CASE Next
    BY <2>1, Step
  <2>2. CASE UNCHANGED vars
    BY <2>2 DEF vars, IInv, Typed, Making
  <2> QED
    BY <2>1, <2>2
<1> QED
  BY <1>1, <1>2, PTL DEF Spec, FunctionsFixed

-----------------------------------------------------------------------------
(* Rows as lists.                                                           *)

BucketsOf(H, P) == [t2 : H, pts : Seq(P)]

LEMMA SequenceFacts ==
  ASSUME NEW S, NEW s \in Seq(S)
  PROVE  Len(s) \in Nat /\ DOMAIN s = 1 .. Len(s) /\ \A i \in DOMAIN s : s[i] \in S
OBVIOUS

(* An element is put into a sequence, and the others keep their order.      *)
LEMMA PutIn ==
  ASSUME NEW S, NEW s \in Seq(S), NEW i \in 1 .. Len(s) + 1, NEW e \in S
  PROVE  /\ InsertAt(s, i, e) \in Seq(S) /\ Len(InsertAt(s, i, e)) = Len(s) + 1
         /\ \A m \in 1 .. Len(s) + 1 :
              InsertAt(s, i, e)[m] = IF m < i THEN s[m] ELSE IF m = i THEN e ELSE s[m - 1]
         /\ Range(InsertAt(s, i, e)) = Range(s) \cup {e}
<1> DEFINE a == SubSeq(s, 1, i - 1)
           z == SubSeq(s, i, Len(s))
           r == a \o <<e>> \o z
<1>1. /\ a \in Seq(S) /\ Len(a) = i - 1 /\ \A m \in 1 .. i - 1 : a[m] = s[m]
      /\ z \in Seq(S) /\ Len(z) = Len(s) - i + 1 /\ \A m \in 1 .. Len(s) - i + 1 : z[m] = s[i + m - 1]
  OBVIOUS
<1> HIDE DEF a, z
<1>2. /\ a \o <<e>> \in Seq(S) /\ Len(a \o <<e>>) = i
      /\ (\A m \in 1 .. i - 1 : (a \o <<e>>)[m] = s[m]) /\ (a \o <<e>>)[i] = e
  <2>0. <<e>> \in Seq(S) /\ Len(<<e>>) = 1 /\ <<e>>[1] = e
    OBVIOUS
  <2>1. PICK x : x = <<e>> /\ x \in Seq(S) /\ Len(x) = 1 /\ x[1] = e
    BY <2>0
  <2>2. a \in Seq(S) /\ x \in Seq(S)
    BY <1>1, <2>1
  <2>3. /\ a \o x \in Seq(S) /\ Len(a \o x) = Len(a) + Len(x)
        /\ \A m \in 1 .. Len(a) : (a \o x)[m] = a[m]
        /\ \A m \in 1 .. Len(x) : (a \o x)[Len(a) + m] = x[m]
    BY ONLY <2>2, ConcatProperties
  <2>4. (i - 1) + 1 = i /\ 1 \in 1 .. 1
    OBVIOUS
  <2> QED
    BY <1>1, <2>1, <2>3, <2>4
<1>3. PICK b : b = a \o <<e>>
  OBVIOUS
<1>4. /\ b \o z \in Seq(S) /\ Len(b \o z) = Len(s) + 1
      /\ \A m \in 1 .. Len(s) + 1 : (b \o z)[m] = IF m < i THEN s[m] ELSE IF m = i THEN e ELSE s[m - 1]
  <2>1. b \in Seq(S) /\ Len(b) = i /\ (\A m \in 1 .. i - 1 : b[m] = s[m]) /\ b[i] = e
    BY <1>2, <1>3
  <2>2. PICK n \in Nat : n = Len(s)
    OBVIOUS
  <2>3. b \o z \in Seq(S) /\ Len(b \o z) = n + 1
    <3>1. b \o z \in Seq(S) /\ Len(b \o z) = Len(b) + Len(z)
      BY <1>1, <2>1
    <3>2. i + (n - i + 1) = n + 1
      BY <2>2
    <3> QED
      BY <1>1, <2>1, <2>2, <3>1, <3>2
  <2>4. \A m \in 1 .. i : (b \o z)[m] = b[m]
    BY <1>1, <2>1
  <2>5. \A m \in i + 1 .. n + 1 : (b \o z)[m] = z[m - i]
    BY <1>1, <2>1, <2>2
  <2>6. \A m \in i + 1 .. n + 1 : z[m - i] = s[m - 1]
    <3>1. \A m \in i + 1 .. n + 1 : m - i \in 1 .. n - i + 1 /\ i + (m - i) - 1 = m - 1
      BY <2>2
    <3> QED
      BY <1>1, <2>2, <3>1
  <2>7. ASSUME NEW m \in 1 .. n + 1
        PROVE  (b \o z)[m] = IF m < i THEN s[m] ELSE IF m = i THEN e ELSE s[m - 1]
    <3>1. m \in 1 .. i - 1 \/ m = i \/ m \in i + 1 .. n + 1
      BY <2>2
    <3>2. m \in 1 .. i - 1 => m \in 1 .. i /\ m < i
      OBVIOUS
    <3>3. m \in i + 1 .. n + 1 => ~ (m < i) /\ m # i
      OBVIOUS
    <3>4. i \in 1 .. i /\ ~ (i < i)
      OBVIOUS
    <3> QED
      BY <2>1, <2>4, <2>5, <2>6, <3>1, <3>2, <3>3, <3>4
  <2> QED
    BY <2>2, <2>3, <2>7
<1>5. PICK t : t = r
  OBVIOUS
<1>6. /\ t \in Seq(S) /\ Len(t) = Len(s) + 1
      /\ \A m \in 1 .. Len(s) + 1 : t[m] = IF m < i THEN s[m] ELSE IF m = i THEN e ELSE s[m - 1]
  BY <1>3, <1>4, <1>5
<1>7. {t[m] : m \in 1 .. Len(s) + 1} = {s[m] : m \in 1 .. Len(s)} \cup {e}
  <2>1. ASSUME NEW m \in 1 .. Len(s) + 1
        PROVE  t[m] \in {s[q] : q \in 1 .. Len(s)} \cup {e}
    <3>1. CASE m < i
      BY <1>6, <3>1
    <3>2. CASE m > i
      <4>1. m - 1 \in 1 .. Len(s) /\ t[m] = s[m - 1]
        BY <1>6, <3>2
      <4> QED
        BY <4>1
    <3>3. CASE m = i
      BY <1>6, <3>3
    <3> QED
      BY <3>1, <3>2, <3>3
  <2>2. ASSUME NEW m \in 1 .. Len(s)
        PROVE  s[m] \in {t[q] : q \in 1 .. Len(s) + 1}
    <3>1. CASE m < i
      BY <1>6, <3>1
    <3>2. CASE ~ m < i
      <4>1. m + 1 \in 1 .. Len(s) + 1 /\ ~ (m + 1 < i) /\ m + 1 # i /\ (m + 1) - 1 = m
        BY <3>2
      <4>2. t[m + 1] = s[m]
        BY <1>6, <4>1
      <4> QED
        BY <4>1, <4>2
    <3> QED
      BY <3>1, <3>2
  <2>3. e \in {t[q] : q \in 1 .. Len(s) + 1}
    <3>1. t[i] = e /\ i \in 1 .. Len(s) + 1
      BY <1>6
    <3> QED
      BY <3>1
  <2> QED
    BY <2>1, <2>2, <2>3
<1>8. DOMAIN t = 1 .. Len(s) + 1 /\ DOMAIN s = 1 .. Len(s)
  BY <1>6
<1>9. Range(t) = Range(s) \cup {e}
  BY <1>7, <1>8 DEF Range
<1>10. InsertAt(s, i, e) = t
  BY <1>5 DEF InsertAt, a, z
<1> QED
  BY <1>6, <1>9, <1>10

LEMMA Retrieved ==
  ASSUME NEW buckets, NEW t2, NEW x
  PROVE  x \in ListRetrieve(buckets, t2)
           <=> \E b \in Range(buckets) : b.t2 = t2 /\ x \in Range(b.pts)
BY DEF ListRetrieve, Range

LEMMA RetrievedAt ==
  ASSUME NEW buckets, NEW t2, NEW x
  PROVE  x \in ListRetrieve(buckets, t2)
           <=> \E i \in DOMAIN buckets : buckets[i].t2 = t2 /\ x \in Range(buckets[i].pts)
BY DEF ListRetrieve

LEMMA OneMoreBack ==
  ASSUME NEW S, NEW s \in Seq(S), NEW e \in S
  PROVE  Append(s, e) \in Seq(S) /\ Range(Append(s, e)) = Range(s) \cup {e}
<1>1. PICK t : t = Append(s, e)
  OBVIOUS
<1>2. /\ t \in Seq(S) /\ DOMAIN t = 1 .. Len(s) + 1 /\ DOMAIN s = 1 .. Len(s) /\ Len(s) \in Nat
      /\ (\A m \in 1 .. Len(s) : t[m] = s[m]) /\ t[Len(s) + 1] = e
  BY <1>1
<1>3. {t[m] : m \in 1 .. Len(s) + 1} = {s[m] : m \in 1 .. Len(s)} \cup {e}
  <2>1. \A m \in 1 .. Len(s) + 1 : m \in 1 .. Len(s) \/ m = Len(s) + 1
    BY <1>2
  <2>2. \A m \in 1 .. Len(s) : m \in 1 .. Len(s) + 1
    BY <1>2
  <2>3. Len(s) + 1 \in 1 .. Len(s) + 1
    BY <1>2
  <2> QED
    BY <1>2, <2>1, <2>2, <2>3
<1> QED
  BY <1>1, <1>2, <1>3 DEF Range

(* A point that is inserted is found under its key, whichever of the three  *)
(* ways it goes in, and nothing else changes.                               *)
LEMMA InsertionFound ==
  ASSUME NEW H, NEW P, NEW buckets \in Seq(BucketsOf(H, P)), NEW t2 \in H, NEW p \in P
  PROVE  /\ BucketInsert(buckets, t2, p) \in Seq(BucketsOf(H, P))
         /\ \A t, x : x \in ListRetrieve(BucketInsert(buckets, t2, p), t)
                        <=> x \in ListRetrieve(buckets, t) \/ (t = t2 /\ x = p)
<1>s. PICK S : S = BucketsOf(H, P)
  OBVIOUS
<1> DEFINE after == {i \in DOMAIN buckets : buckets[i].t2 >= t2}
           new == [t2 |-> t2, pts |-> <<p>>]
           b == BucketInsert(buckets, t2, p)
<1>0. /\ DOMAIN buckets = 1 .. Len(buckets) /\ Len(buckets) \in Nat
      /\ \A i \in DOMAIN buckets : buckets[i] \in S
      /\ buckets \in Seq(S)
  <2>1. buckets \in Seq(S)
    BY <1>s
  <2> QED
    BY ONLY <2>1, SequenceFacts
<1>1. new \in S /\ new.t2 = t2 /\ \A x : x \in Range(new.pts) <=> x = p
  <2>1. <<p>> \in Seq(P) /\ DOMAIN <<p>> = {1} /\ <<p>>[1] = p
    OBVIOUS
  <2> QED
    BY <1>s, <2>1 DEF Range, BucketsOf
<1> HIDE DEF new
<1>2. ASSUME NEW d, Range(d) = Range(buckets) \cup {new}
      PROVE  \A t, x : x \in ListRetrieve(d, t) <=> x \in ListRetrieve(buckets, t) \/ (t = t2 /\ x = p)
  BY <1>1, <1>2, Retrieved
<1>3. CASE after = {}
  <2>1. b = Append(buckets, new)
    BY <1>3 DEF BucketInsert, new
  <2>2. b \in Seq(S) /\ Range(b) = Range(buckets) \cup {new}
    <3> HIDE DEF b, after
    <3> QED
      BY ONLY <1>0, <1>1, <2>1, OneMoreBack
  <2> QED
    BY <1>s, <1>2, <2>2
<1>4. ASSUME after # {}
      PROVE  Min(after) \in after
  <2>1. after \in SUBSET Nat
    BY <1>0
  <2> HIDE DEF after
  <2>2. \E m \in after : \A y \in after : m <= y
    BY <1>4, <2>1, LeastNatural
  <2> QED
    BY <2>2 DEF Min
<1>5. CASE after # {} /\ buckets[Min(after)].t2 # t2
  <2>1. b = InsertAt(buckets, Min(after), new)
    BY <1>5 DEF BucketInsert, new
  <2>2. Min(after) \in 1 .. Len(buckets) + 1
    <3>1. Min(after) \in DOMAIN buckets
      BY <1>4, <1>5
    <3>2. \A i \in DOMAIN buckets : i \in 1 .. Len(buckets) + 1
      BY <1>0
    <3> HIDE DEF after
    <3> QED
      BY <3>1, <3>2
  <2>3. b \in Seq(S) /\ Range(b) = Range(buckets) \cup {new}
    <3> HIDE DEF b, after
    <3> QED
      BY ONLY <1>0, <1>1, <2>1, <2>2, PutIn
  <2> QED
    BY <1>s, <1>2, <2>3
<1>6. CASE after # {} /\ buckets[Min(after)].t2 = t2
  <2>1. PICK i \in DOMAIN buckets : i = Min(after) /\ buckets[i].t2 = t2
    BY <1>4, <1>6
  <2>2. PICK old \in Seq(P) : old = buckets[i].pts
    BY <1>0, <1>s DEF BucketsOf
  <2>3. PICK more \in Seq(P) : more = Append(old, p) /\ Range(more) = Range(old) \cup {p}
    BY OneMoreBack
  <2>4. b = [buckets EXCEPT ![i].pts = more]
    BY <1>6, <2>1, <2>2, <2>3 DEF BucketInsert
  <2> HIDE DEF b, after
  <2>5. DOMAIN b = DOMAIN buckets /\ \A m \in DOMAIN buckets : m # i => b[m] = buckets[m]
    BY <2>4
  <2>6. b[i] \in S /\ b[i].t2 = buckets[i].t2 /\ b[i].pts = more
    <3>1. b[i] = [buckets[i] EXCEPT !.pts = more]
      BY <2>4
    <3>2. buckets[i] \in [t2 : H, pts : Seq(P)] /\ S = [t2 : H, pts : Seq(P)] /\ more \in Seq(P)
      BY <1>0, <1>s DEF BucketsOf
    <3> QED
      BY ONLY <3>1, <3>2
  <2>7. b \in Seq(S)
    <3>1. \A m \in 1 .. Len(buckets) : b[m] \in S
      BY <1>0, <2>5, <2>6
    <3>2. b = [m \in 1 .. Len(buckets) |-> b[m]]
      BY <1>0, <2>4
    <3> QED
      BY <1>0, <3>1, <3>2
  <2>8. ASSUME NEW t, NEW x
        PROVE  x \in ListRetrieve(b, t) <=> x \in ListRetrieve(buckets, t) \/ (t = t2 /\ x = p)
    <3>1. x \in ListRetrieve(b, t) <=> \E m \in DOMAIN buckets : b[m].t2 = t /\ x \in Range(b[m].pts)
      BY <2>5, RetrievedAt
    <3>2. x \in ListRetrieve(buckets, t)
            <=> \E m \in DOMAIN buckets : buckets[m].t2 = t /\ x \in Range(buckets[m].pts)
      BY RetrievedAt
    <3>3. x \in Range(b[i].pts) <=> x \in Range(buckets[i].pts) \/ x = p
      BY <2>2, <2>3, <2>6
    <3> QED
      BY <2>1, <2>5, <2>6, <3>1, <3>2, <3>3
  <2> QED
    BY <1>s, <2>7, <2>8 DEF b
<1> QED
  BY <1>s, <1>3, <1>5, <1>6

-----------------------------------------------------------------------------
(* Rows as cells.                                                           *)

LEMMA CellsOfRow ==
  ASSUME NEW t1 \in Rows
  PROVE  \E a \in Nat, c \in Nat \ {0} : a = t1 * C /\ c = C /\ RowCells(t1) = a + 1 .. a + c
<1>1. PICK c \in Nat \ {0}, t \in Nat : c = C /\ t = t1
  BY TablesAssumption DEF Rows
<1>2. t * c \in Nat /\ (t + 1) * c = t * c + c
  <2>1. PICK a \in Nat : a = t * c
    OBVIOUS
  <2>2. (t + 1) * c = t * c + 1 * c
    OBVIOUS
  <2> QED
    BY <2>1, <2>2
<1>3. PICK a \in Nat : a = t * c
  BY <1>2
<1> QED
  BY <1>1, <1>2, <1>3 DEF RowCells

(* The used cells are the first of the row.                                 *)
LEMMA UsedAreFirst ==
  ASSUME NEW table, NEW t1 \in Rows, NEW a \in Nat, NEW c \in Nat \ {0},
         RowCells(t1) = a + 1 .. a + c
  PROVE  \E u \in 0 .. c : /\ UsedCells(table, t1) = a + 1 .. a + u
                           /\ Cardinality(UsedCells(table, t1)) = u
<1> DEFINE ends == {n \in Nat : n < c /\ table[a + n + 1].hash = IFlag}
<1>1. \E u \in 0 .. c : UsedCells(table, t1) = a + 1 .. a + u
  <2>1. CASE ends = {}
    <3>1. \A j \in RowCells(t1) : table[j].hash # IFlag
      <4> SUFFICES ASSUME NEW j \in a + 1 .. a + c, table[j].hash = IFlag PROVE FALSE
        OBVIOUS
      <4>1. PICK n \in Nat : n = j - a - 1 /\ n < c /\ a + n + 1 = j
        <5>1. j - a - 1 \in Nat /\ j - a - 1 < c /\ a + (j - a - 1) + 1 = j
          OBVIOUS
        <5> QED
          BY <5>1
      <4>2. n \in ends
        BY <4>1
      <4> QED
        BY <2>1, <4>2
    <3>2. UsedCells(table, t1) = a + 1 .. a + c /\ c \in 0 .. c
      BY <3>1 DEF UsedCells
    <3> QED
      BY <3>2
  <2>2. CASE ends # {}
    <3>1. PICK u \in ends : \A n \in ends : u <= n
      <4>1. ends \in SUBSET Nat
        OBVIOUS
      <4> HIDE DEF ends
      <4> QED
        BY <2>2, <4>1, LeastNatural
    <3>2. u \in 0 .. c /\ u \in Nat /\ u < c /\ table[a + u + 1].hash = IFlag /\ a + u + 1 \in RowCells(t1)
      OBVIOUS
    <3>3. \A j \in a + 1 .. a + u : table[j].hash # IFlag
      <4> SUFFICES ASSUME NEW j \in a + 1 .. a + u, table[j].hash = IFlag PROVE FALSE
        OBVIOUS
      <4>1. PICK n \in Nat : n = j - a - 1 /\ n < u /\ a + n + 1 = j
        <5>1. j - a - 1 \in Nat /\ j - a - 1 < u /\ a + (j - a - 1) + 1 = j
          BY <3>2
        <5> QED
          BY <5>1
      <4>2. n \in ends
        BY <3>2, <4>1
      <4>3. u <= n
        BY <3>1, <4>2
      <4> QED
        BY <3>2, <4>1, <4>3
    <3> HIDE DEF ends
    <3>4. ASSUME NEW i \in a + 1 .. a + c
          PROVE  (\A j \in RowCells(t1) : j <= i => table[j].hash # IFlag) <=> i \in a + 1 .. a + u
      <4>1. CASE i \in a + 1 .. a + u
        <5>1. \A j \in a + 1 .. a + c : j <= i => j \in a + 1 .. a + u
          BY <3>2, <4>1
        <5> QED
          BY <3>3, <4>1, <5>1
      <4>2. CASE i \notin a + 1 .. a + u
        <5>1. a + u + 1 <= i
          BY <3>2, <4>2
        <5> QED
          BY <3>2, <4>2, <5>1
      <4> QED
        BY <4>1, <4>2
    <3>5. UsedCells(table, t1) = {i \in a + 1 .. a + c : i \in a + 1 .. a + u}
      BY <3>4 DEF UsedCells
    <3>6. \A i \in a + 1 .. a + u : i \in a + 1 .. a + c
      BY <3>2
    <3> QED
      BY <3>2, <3>5, <3>6
  <2> QED
    BY <2>1, <2>2
<1>2. PICK u \in 0 .. c : UsedCells(table, t1) = a + 1 .. a + u
  BY <1>1
<1>3. Cardinality(a + 1 .. a + u) = u
  <2>1. a + 1 \in Int /\ a + u \in Int
    OBVIOUS
  <2>2. Cardinality(a + 1 .. a + u) = IF a + 1 > a + u THEN 0 ELSE (a + u) - (a + 1) + 1
    BY ONLY <2>1, FS_Interval
  <2>3. (IF a + 1 > a + u THEN 0 ELSE (a + u) - (a + 1) + 1) = u
    OBVIOUS
  <2> QED
    BY <2>2, <2>3
<1> QED
  BY <1>2, <1>3

ListRead(table, t1, a, u) ==
  /\ IsList(ReadRow1(table, t1))
  /\ \A t, x : x \in ListRetrieve(ReadRow1(table, t1).buckets, t)
                 <=> \E i \in 1 .. u : table[a + i].hash = t /\ table[a + i].point = x

(* A row that is read from its first cells is a list and holds what they    *)
(* hold.                                                                    *)
LEMMA RowHolds ==
  ASSUME NEW table, NEW t1 \in Rows, NEW a \in Nat, a = t1 * C, NEW u \in Nat, u <= C,
         Cardinality(UsedCells(table, t1)) = u
  PROVE  ListRead(table, t1, a, u)
<1> DEFINE H == {table[a + i].hash : i \in 1 .. u}
           P == {table[a + i].point : i \in 1 .. u}
           S == BucketsOf(H, P)
           V == [count : Nat, buckets : Seq(S)]
           Add(row, i) == InsertPoint(row, table[a + i].hash, table[a + i].point, C)
           F == [vi \in V \X (1 .. u) |-> Add(vi[1], vi[2])]
           seq == [i \in 1 .. Cardinality(UsedCells(table, t1)) |-> t1 * C + i]
           Body(g) == [s \in SUBSET DOMAIN seq |->
                         IF s = {} THEN EmptyRow
                         ELSE InsertPoint(g[s \ {Max(s)}], table[seq[Max(s)]].hash, table[seq[Max(s)]].point, C)]
           iter == CHOOSE g : g = Body(g)
           Holds(row, m) ==
             \A t, x : x \in ListRetrieve(row.buckets, t)
                         <=> \E i \in 1 .. m : table[a + i].hash = t /\ table[a + i].point = x
<1>1. PICK c \in Nat \ {0} : c = C
  BY TablesAssumption
<1>2. EmptyRow \in V /\ EmptyRow.count = 0 /\ Holds(EmptyRow, 0)
  <2>1. <<>> \in Seq(S) /\ DOMAIN <<>> = {} /\ 1 .. 0 = {}
    OBVIOUS
  <2>2. EmptyRow \in V /\ EmptyRow.count = 0 /\ EmptyRow.buckets = <<>>
    <3> HIDE DEF S
    <3> QED
      BY <2>1 DEF EmptyRow
  <2>3. \A t, x : x \notin ListRetrieve(<<>>, t)
    BY <2>1, RetrievedAt
  <2> QED
    BY <2>1, <2>2, <2>3
<1>3. ASSUME NEW row \in V, NEW i \in 1 .. u
      PROVE  /\ Add(row, i) \in V
             /\ row.count < c => Add(row, i).count = row.count + 1
             /\ row.count < c => \A t, x : x \in ListRetrieve(Add(row, i).buckets, t)
                  <=> x \in ListRetrieve(row.buckets, t) \/ (t = table[a + i].hash /\ x = table[a + i].point)
  <2>1. PICK n \in Nat : n = row.count
    OBVIOUS
  <2>2. row.buckets \in Seq(S) /\ table[a + i].hash \in H /\ table[a + i].point \in P
    OBVIOUS
  <2> HIDE DEF H, P
  <2>3. PICK b : b = BucketInsert(row.buckets, table[a + i].hash, table[a + i].point)
    OBVIOUS
  <2>4. /\ b \in Seq(S)
        /\ \A t, x : x \in ListRetrieve(b, t)
             <=> x \in ListRetrieve(row.buckets, t) \/ (t = table[a + i].hash /\ x = table[a + i].point)
    <3>1. PICK bs, h, q : bs = row.buckets /\ h = table[a + i].hash /\ q = table[a + i].point
      OBVIOUS
    <3>2. bs \in Seq(S) /\ h \in H /\ q \in P
      BY <2>2, <3>1
    <3>4. /\ BucketInsert(bs, h, q) \in Seq(S)
          /\ \A t, x : x \in ListRetrieve(BucketInsert(bs, h, q), t)
                         <=> x \in ListRetrieve(bs, t) \/ (t = h /\ x = q)
      BY ONLY <3>2, InsertionFound
    <3>5. b = BucketInsert(bs, h, q)
      BY <2>3, <3>1
    <3> QED
      BY <3>1, <3>4, <3>5
  <2>5. CASE n < c
    <3>1. Add(row, i) = [count |-> n + 1, buckets |-> b]
      BY <1>1, <2>1, <2>3, <2>5 DEF InsertPoint
    <3> HIDE DEF Add
    <3>2. n + 1 \in Nat
      OBVIOUS
    <3> QED
      BY <2>1, <2>4, <3>1, <3>2
  <2>6. CASE ~ (n < c)
    <3>1. Add(row, i) = row
      BY <1>1, <2>1, <2>6 DEF InsertPoint
    <3> HIDE DEF Add
    <3> QED
      BY <2>1, <2>6, <3>1
  <2> QED
    BY <2>5, <2>6
<1>4. F \in [V \X (1 .. u) -> V]
  <2>1. \A vi \in V \X (1 .. u) : vi[1] \in V /\ vi[2] \in 1 .. u
    OBVIOUS
  <2> HIDE DEF V, Add
  <2> QED
    BY <1>3, <2>1
<1>5. PICK g0 \in [SUBSET (1 .. u) -> V] : Folds(g0, u, EmptyRow, F)
  <2> HIDE DEF V, F
  <2> QED
    BY <1>2, <1>4, FoldExists
<1>6. \A s \in SUBSET (1 .. u) : Max(s) = Highest(s)
  BY DEF Max, Highest
<1>7. DOMAIN seq = 1 .. u /\ \A i \in 1 .. u : seq[i] = a + i
  OBVIOUS
<1> HIDE DEF seq
<1>8. \A g : Body(g) = [s \in SUBSET (1 .. u) |-> Body(g)[s]]
  BY <1>7
<1>9. \A g : \A s \in SUBSET (1 .. u) :
        Body(g)[s] = IF s = {} THEN EmptyRow ELSE Add(g[s \ {Max(s)}], Max(s))
  <2> SUFFICES ASSUME NEW g, NEW s \in SUBSET (1 .. u)
               PROVE  Body(g)[s] = IF s = {} THEN EmptyRow ELSE Add(g[s \ {Max(s)}], Max(s))
    OBVIOUS
  <2>1. CASE s = {}
    BY <1>7, <2>1
  <2>2. CASE s # {}
    <3>1. PICK m \in 1 .. u : m = Max(s)
      BY <1>6, <2>2, HighestExists
    <3>2. Body(g)[s] = InsertPoint(g[s \ {m}], table[seq[m]].hash, table[seq[m]].point, C)
      BY <1>7, <2>2, <3>1
    <3>3. seq[m] = a + m
      BY <1>7
    <3> QED
      BY <2>2, <3>1, <3>2, <3>3
  <2> QED
    BY <2>1, <2>2
<1> HIDE DEF Body
<1>10. g0 = Body(g0)
  <2>1. ASSUME NEW s \in SUBSET (1 .. u)
        PROVE  g0[s] = Body(g0)[s]
    <3>1. CASE s = {}
      BY <1>5, <1>9, <3>1 DEF Folds
    <3>2. CASE s # {}
      <4>1. PICK m \in 1 .. u : m = Highest(s)
        BY <3>2, HighestExists
      <4>2. PICK r \in V : r = g0[s \ {m}]
        BY <1>5
      <4>3. <<r, m>> \in V \X (1 .. u) /\ g0[s] = F[<<r, m>>]
        BY <1>5, <3>2, <4>1, <4>2 DEF Folds
      <4>4. F[<<r, m>>] = Add(r, m)
        <5> HIDE DEF Add, V
        <5> QED
          BY <4>3
      <4>5. Max(s) = m
        BY <1>6, <4>1
      <4> HIDE DEF Add, V, F
      <4>6. Body(g0)[s] = Add(g0[s \ {Max(s)}], Max(s))
        BY <1>9, <3>2
      <4> QED
        BY <4>2, <4>3, <4>4, <4>5, <4>6
    <3> QED
      BY <3>1, <3>2
  <2>2. g0 = [s \in SUBSET (1 .. u) |-> g0[s]]
    BY <1>5
  <2>3. Body(g0) = [s \in SUBSET (1 .. u) |-> Body(g0)[s]]
    BY <1>8
  <2> HIDE DEF Add, V, F
  <2> QED
    BY ONLY <2>1, <2>2, <2>3
<1>11. iter = Body(iter)
  BY <1>10
<1>12. ReadRow1(table, t1) = iter[1 .. u]
  <2>1. ReadRow1(table, t1) = iter[DOMAIN seq]
    BY DEF ReadRow1, FoldLeft, MapThenFoldSet, Body, seq
  <2> QED
    BY <1>7, <2>1
<1> HIDE DEF iter
<1>13. iter[1 .. 0] = EmptyRow /\ \A m \in 0 .. u - 1 : iter[1 .. m + 1] = Add(iter[1 .. m], m + 1)
  <2>1. iter[1 .. 0] = EmptyRow
    <3>1. 1 .. 0 = {}
      OBVIOUS
    <3> QED
      BY <1>9, <1>11, <3>1
  <2>2. ASSUME NEW m \in 0 .. u - 1
        PROVE  iter[1 .. m + 1] = Add(iter[1 .. m], m + 1)
    <3>1. 1 .. m + 1 \in SUBSET (1 .. u) /\ (1 .. m + 1) \ {m + 1} = 1 .. m /\ m + 1 \in 1 .. m + 1
          /\ 1 .. m + 1 \subseteq Int /\ \A y \in 1 .. m + 1 : m + 1 >= y
      OBVIOUS
    <3>2. Highest(1 .. m + 1) = m + 1
      BY ONLY <3>1, HighestIs
    <3>3. Max(1 .. m + 1) = m + 1
      BY <1>6, <3>1, <3>2
    <3> HIDE DEF Add
    <3> QED
      BY <1>9, <1>11, <3>1, <3>3
  <2> QED
    BY <2>1, <2>2
<1> DEFINE G == {m \in Nat : m <= u => LET row == iter[1 .. m]
                                       IN  row \in V /\ row.count = m /\ Holds(row, m)}
<1>14. 0 \in G
  <2> HIDE DEF V, Holds
  <2> QED
    BY <1>2, <1>13
<1>15. ASSUME NEW m \in G
       PROVE  m + 1 \in G
  <2>1. m \in Nat
    OBVIOUS
  <2> SUFFICES ASSUME m + 1 <= u
               PROVE  iter[1 .. m + 1] \in V /\ iter[1 .. m + 1].count = m + 1 /\ Holds(iter[1 .. m + 1], m + 1)
    <3> HIDE DEF V, Holds
    <3> QED
      BY <2>1
  <2>2. PICK row : row = iter[1 .. m] /\ row \in V /\ row.count = m /\ Holds(row, m)
    <3> HIDE DEF V, Holds
    <3> QED
      BY <2>1
  <2>3. m + 1 \in 1 .. u /\ m \in 0 .. u - 1 /\ m < c
    BY <1>1, <2>1
  <2>4. iter[1 .. m + 1] = Add(row, m + 1)
    BY <1>13, <2>2, <2>3
  <2> HIDE DEF V, Add
  <2>5. /\ Add(row, m + 1) \in V /\ Add(row, m + 1).count = m + 1
        /\ \A t, x : x \in ListRetrieve(Add(row, m + 1).buckets, t)
             <=> \/ x \in ListRetrieve(row.buckets, t)
                 \/ t = table[a + (m + 1)].hash /\ x = table[a + (m + 1)].point
    <3>1. PICK k \in 1 .. u : k = m + 1
      BY <2>3
    <3>2. row \in V /\ row.count < c /\ row.count = m
      BY <2>2, <2>3
    <3> HIDE DEF Holds
    <3>3. /\ Add(row, k) \in V /\ Add(row, k).count = row.count + 1
          /\ \A t, x : x \in ListRetrieve(Add(row, k).buckets, t)
               <=> \/ x \in ListRetrieve(row.buckets, t)
                   \/ t = table[a + k].hash /\ x = table[a + k].point
      BY <1>3, <3>2
    <3> QED
      BY <3>1, <3>2, <3>3
  <2>6. \A i \in 1 .. m + 1 : i \in 1 .. m \/ i = m + 1
    BY <2>1
  <2>7. \A i \in 1 .. m : i \in 1 .. m + 1
    BY <2>1
  <2>8. Holds(Add(row, m + 1), m + 1)
    BY <2>2, <2>3, <2>5, <2>6, <2>7
  <2> HIDE DEF Holds
  <2> QED
    BY <2>4, <2>5, <2>8
<1> HIDE DEF G, V, Holds, Add, F
<1>16. G = Nat
  <2>1. G \in SUBSET Nat
    BY DEF G
  <2> QED
    BY <1>14, <1>15, <2>1, NatSetInduction
<1>17. Holds(iter[1 .. u], u) /\ iter[1 .. u] \in V
  BY <1>16 DEF G
<1>18. IsList(ReadRow1(table, t1))
  <2>1. DOMAIN iter[1 .. u] = {"count", "buckets"}
    BY <1>17 DEF V
  <2> QED
    BY <1>12, <2>1 DEF IsList
<1> QED
  BY <1>12, <1>17, <1>18 DEF Holds, ListRead

(* What a search of the cells on disk finds in a row is what is found after *)
(* the row was read into buckets, for any cells whatever.                   *)
THEOREM DiskMatchesCore == Spec => []DiskAndCoreAgree
<1>1. DiskAndCoreAgree
  <2> SUFFICES ASSUME file.fmt = 1, NEW j \in 1 .. L, NEW t1 \in Rows,
                      NEW t2 \in {file.cells[j][i].hash : i \in RowCells(t1)}
               PROVE  Chain1(file.cells[j], t1, t2) = ListRetrieve(ReadRow1(file.cells[j], t1).buckets, t2)
    BY DEF DiskAndCoreAgree
  <2>1. PICK table : table = file.cells[j]
    OBVIOUS
  <2>2. PICK a \in Nat, c \in Nat \ {0} : a = t1 * C /\ c = C /\ RowCells(t1) = a + 1 .. a + c
    BY CellsOfRow
  <2>3. PICK u \in 0 .. c : UsedCells(table, t1) = a + 1 .. a + u /\ Cardinality(UsedCells(table, t1)) = u
    BY <2>2, UsedAreFirst
  <2>4. u \in Nat /\ u <= C
    BY <2>2, <2>3
  <2>5. \A x : x \in ListRetrieve(ReadRow1(table, t1).buckets, t2)
                <=> \E i \in 1 .. u : table[a + i].hash = t2 /\ table[a + i].point = x
    <3>1. a \in Nat /\ a = t1 * C /\ t1 \in Rows /\ Cardinality(UsedCells(table, t1)) = u
      BY <2>2, <2>3
    <3>2. ListRead(table, t1, a, u)
      BY ONLY <2>4, <3>1, RowHolds
    <3> QED
      BY ONLY <3>2 DEF ListRead
  <2>6. \A x : x \in Chain1(table, t1, t2)
                <=> \E i \in a + 1 .. a + u : table[i].hash = t2 /\ table[i].point = x
    BY <2>3 DEF Chain1
  <2>7. \A i \in a + 1 .. a + u : i - a \in 1 .. u /\ a + (i - a) = i
    BY <2>3
  <2>8. \A i \in 1 .. u : a + i \in a + 1 .. a + u
    BY <2>3
  <2>9. \A x : x \in Chain1(table, t1, t2) <=> x \in ListRetrieve(ReadRow1(table, t1).buckets, t2)
    <3>1. ASSUME NEW x, NEW i \in a + 1 .. a + u, table[i].hash = t2, table[i].point = x
          PROVE  \E m \in 1 .. u : table[a + m].hash = t2 /\ table[a + m].point = x
      BY <2>7, <3>1
    <3>2. ASSUME NEW x, NEW m \in 1 .. u, table[a + m].hash = t2, table[a + m].point = x
          PROVE  \E i \in a + 1 .. a + u : table[i].hash = t2 /\ table[i].point = x
      BY <2>8, <3>2
    <3> QED
      BY <2>5, <2>6, <3>1, <3>2
  <2>10. \A x : x \in Chain1(table, t1, t2) => x \in ListRetrieve(ReadRow1(table, t1).buckets, t2)
    BY <2>9
  <2> QED
    BY <2>1, <2>9
<1> QED
  BY <1>1, PTL

(* A flattened sequence is built from the left.                             *)
Flattens(f, S, n, seqs) ==
  /\ f \in [0 .. n -> Seq(S)] /\ f[0] = <<>> /\ \A i \in 1 .. n : f[i] = f[i - 1] \o seqs[i]
  /\ FlattenSeq(seqs) = f[n]

LEMMA Flattening ==
  ASSUME NEW S, NEW n \in Nat, NEW seqs \in [1 .. n -> Seq(S)]
  PROVE  \E f : Flattens(f, S, n, seqs)
<1> DEFINE Builds(f, m) == f[0] = <<>> /\ \A i \in 1 .. m : f[i] = f[i - 1] \o seqs[i]
           Has(m) == m <= n => \E f \in [0 .. m -> Seq(S)] : Builds(f, m)
           T == {m \in Nat : Has(m)}
<1>1. 0 \in T
  <2>1. [i \in 0 .. 0 |-> <<>>] \in [0 .. 0 -> Seq(S)] /\ Builds([i \in 0 .. 0 |-> <<>>], 0)
    OBVIOUS
  <2> QED
    BY <2>1
<1>2. ASSUME NEW m \in T
      PROVE  m + 1 \in T
  <2>0. m \in Nat /\ m + 1 \in Nat /\ Has(m)
    <3> HIDE DEF Has
    <3> QED
      OBVIOUS
  <2> HIDE DEF T
  <2> SUFFICES ASSUME m + 1 <= n
               PROVE  \E f \in [0 .. m + 1 -> Seq(S)] : Builds(f, m + 1)
    BY <2>0 DEF T
  <2>1. PICK f \in [0 .. m -> Seq(S)] : Builds(f, m)
    <3>1. m <= n
      BY <2>0
    <3> QED
      BY <2>0, <3>1
  <2>2. PICK x : x = f[m] \o seqs[m + 1]
    OBVIOUS
  <2>3. x \in Seq(S)
    <3>1. f[m] \in Seq(S) /\ seqs[m + 1] \in Seq(S)
      BY <2>0
    <3> QED
      BY ONLY <2>2, <3>1, ConcatProperties
  <2> DEFINE g == [i \in 0 .. m + 1 |-> IF i = m + 1 THEN x ELSE f[i]]
  <2>4. g \in [0 .. m + 1 -> Seq(S)]
    BY <2>0, <2>3
  <2>5. g[0] = <<>>
    BY <2>0, <2>1
  <2>6. ASSUME NEW i \in 1 .. m + 1
        PROVE  g[i] = g[i - 1] \o seqs[i]
    <3>1. CASE i = m + 1
      <4>1. g[i] = x /\ g[i - 1] = f[m]
        BY <2>0, <3>1
      <4> QED
        BY ONLY <2>2, <3>1, <4>1
    <3>2. CASE i # m + 1
      <4>1. i \in 1 .. m /\ g[i] = f[i] /\ g[i - 1] = f[i - 1]
        BY <2>0, <3>2
      <4> QED
        BY ONLY <2>1, <4>1
    <3> QED
      BY <3>1, <3>2
  <2> HIDE DEF g
  <2> QED
    BY <2>4, <2>5, <2>6
<1> HIDE DEF T, Has
<1>3. T = Nat
  BY <1>1, <1>2, NatSetInduction DEF T
<1>t. Has(n) /\ n <= n
  BY <1>3 DEF T
<1>4. PICK f \in [0 .. n -> Seq(S)] : Builds(f, n)
  BY <1>t DEF Has
<1>f. n # 0 => f[1] = seqs[1]
  <2> SUFFICES ASSUME n # 0 PROVE f[1] = seqs[1]
    OBVIOUS
  <2>1. 1 \in 1 .. n /\ 1 - 1 = 0
    OBVIOUS
  <2>2. f[1] = <<>> \o seqs[1] /\ seqs[1] \in Seq(S)
    BY <1>4, <2>1
  <2>3. <<>> \o seqs[1] = seqs[1]
    BY ONLY <2>2, ConcatEmptySeq
  <2> QED
    BY <2>2, <2>3
<1>5. Len(seqs) = n /\ seqs \in Seq(Seq(S))
  OBVIOUS
<1> SUFFICES FlattenSeq(seqs) = f[n]
  BY <1>4 DEF Flattens
<1>6. CASE n = 0
  <2>1. seqs = <<>>
    BY <1>6
  <2> QED
    BY <1>4, <1>5, <1>6, <2>1 DEF FlattenSeq
<1>7. CASE n # 0
  <2> DEFINE Body(g) == [i \in 1 .. n |-> IF i = 1 THEN seqs[i] ELSE g[i - 1] \o seqs[i]]
             flat == CHOOSE g : g = Body(g)
             f1 == [i \in 1 .. n |-> f[i]]
  <2>1. f1 = Body(f1)
    <3>1. ASSUME NEW i \in 1 .. n
          PROVE  f[i] = IF i = 1 THEN seqs[i] ELSE f1[i - 1] \o seqs[i]
      <4>1. CASE i = 1
        BY <1>f, <1>7, <4>1
      <4>2. CASE i # 1
        <5>1. i - 1 \in 1 .. n
          BY <4>2
        <5>2. f1[i - 1] = f[i - 1]
          BY <5>1
        <5> HIDE DEF f1
        <5> QED
          BY <1>4, <4>2, <5>2
      <4> QED
        BY <4>1, <4>2
    <3> QED
      BY <3>1
  <2>2. flat = Body(flat)
    BY <2>1
  <2>3. FlattenSeq(seqs) = flat[n]
    BY <1>5, <1>7 DEF FlattenSeq
  <2> HIDE DEF flat, f1
  <2>4. flat[1] = seqs[1] /\ \A i \in 2 .. n : flat[i] = flat[i - 1] \o seqs[i]
    <3>1. \A i \in 1 .. n : Body(flat)[i] = IF i = 1 THEN seqs[i] ELSE flat[i - 1] \o seqs[i]
      OBVIOUS
    <3> HIDE DEF Body
    <3>2. \A i \in 1 .. n : flat[i] = IF i = 1 THEN seqs[i] ELSE flat[i - 1] \o seqs[i]
      BY <2>2, <3>1
    <3>3. 1 \in 1 .. n /\ \A i \in 2 .. n : i \in 1 .. n /\ i # 1
      BY <1>7
    <3> QED
      BY ONLY <3>2, <3>3
  <2> DEFINE G == {m \in Nat : m + 1 <= n => flat[m + 1] = f[m + 1]}
  <2>5. 0 \in G
    BY <1>f, <1>7, <2>4
  <2>6. ASSUME NEW m \in G
        PROVE  m + 1 \in G
    <3> SUFFICES ASSUME (m + 1) + 1 <= n
                 PROVE  flat[(m + 1) + 1] = f[(m + 1) + 1]
      OBVIOUS
    <3>1. PICK k \in 2 .. n : k = (m + 1) + 1 /\ k - 1 = m + 1
      OBVIOUS
    <3>2. flat[k - 1] = f[k - 1]
      <4>1. m + 1 <= n /\ m \in G
        OBVIOUS
      <4>2. flat[m + 1] = f[m + 1]
        BY <4>1
      <4> QED
        BY <3>1, <4>2
    <3>3. f[k] = f[k - 1] \o seqs[k]
      <4>1. k \in 1 .. n
        OBVIOUS
      <4> QED
        BY ONLY <1>4, <4>1
    <3> HIDE DEF G
    <3> QED
      BY <2>4, <3>1, <3>2, <3>3
  <2> HIDE DEF G
  <2>7. G = Nat
    BY <2>5, <2>6, NatSetInduction DEF G
  <2>8. flat[n] = f[n]
    <3>1. n - 1 \in G /\ (n - 1) + 1 = n
      BY <1>7, <2>7
    <3> QED
      BY <3>1 DEF G
  <2> QED
    BY <1>4, <2>3, <2>8
<1> QED
  BY <1>6, <1>7

LEMMA FlatIsSeq ==
  ASSUME NEW S, NEW n \in Nat, NEW seqs \in [1 .. n -> Seq(S)]
  PROVE  FlattenSeq(seqs) \in Seq(S)
<1>1. PICK f : Flattens(f, S, n, seqs)
  BY ONLY Flattening, n \in Nat, seqs \in [1 .. n -> Seq(S)]
<1>2. n \in 0 .. n
  OBVIOUS
<1> QED
  BY ONLY <1>1, <1>2 DEF Flattens

(* What a reader is in before each word, and after the last.                *)
Reads(run, words, r) == run[0] = r /\ \A k \in 1 .. Len(words) : run[k] = ReadWord2(run[k - 1], words[k])

(* Reading is one word after another, whatever they are.                    *)
LEMMA Reading ==
  ASSUME NEW S, NEW words \in Seq(S), NEW tables, NEW forMerge
  PROVE  \E run : /\ Reads(run, words, Reader2(tables, forMerge))
                  /\ ReadTables2(words, tables, forMerge) = run[Len(words)]
<1>1. PICK n \in Nat : n = Len(words) /\ DOMAIN words = 1 .. n
  OBVIOUS
<1>2. PICK b : b = Reader2(tables, forMerge)
  OBVIOUS
<1> DEFINE Next1(v, k) == ReadWord2(v, words[k])
           Fixed(g, m) == \A s \in SUBSET (1 .. m) :
                            g[s] = IF s = {} THEN b ELSE Next1(g[s \ {Highest(s)}], Highest(s))
           Has(m) == m <= n => \E g : Fixed(g, m)
           T == {m \in Nat : Has(m)}
           Body(g) == [s \in SUBSET DOMAIN words |->
                         IF s = {} THEN b ELSE ReadWord2(g[s \ {Max(s)}], words[Max(s)])]
           iter == CHOOSE g : g = Body(g)
<1>3. 0 \in T
  <2>1. \A s \in SUBSET (1 .. 0) : s = {}
    OBVIOUS
  <2>2. Fixed([s \in SUBSET (1 .. 0) |-> b], 0)
    <3> HIDE DEF Next1
    <3> QED
      BY <2>1
  <2> HIDE DEF Fixed
  <2> QED
    BY <2>2
<1>4. ASSUME NEW m \in T
      PROVE  m + 1 \in T
  <2>0. m \in Nat /\ m + 1 \in Nat /\ Has(m)
    <3> HIDE DEF Has
    <3> QED
      OBVIOUS
  <2> HIDE DEF T, Next1
  <2> SUFFICES ASSUME m + 1 <= n
               PROVE  \E g : Fixed(g, m + 1)
    <3> HIDE DEF Fixed
    <3> QED
      BY <2>0 DEF T
  <2>1. PICK h : Fixed(h, m)
    <3>1. m <= n
      BY <2>0
    <3> HIDE DEF Fixed
    <3> QED
      BY <2>0, <3>1
  <2> DEFINE g == [s \in SUBSET (1 .. m + 1) |-> IF m + 1 \in s THEN Next1(h[s \ {m + 1}], m + 1) ELSE h[s]]
  <2>3. \A s \in SUBSET (1 .. m + 1) : /\ s \ {m + 1} \in SUBSET (1 .. m)
                                       /\ m + 1 \notin s => s \in SUBSET (1 .. m)
    BY <2>0
  <2>4. \A s \in SUBSET (1 .. m) : s \in SUBSET (1 .. m + 1) /\ m + 1 \notin s
    BY <2>0
  <2>6. \A s \in SUBSET (1 .. m) : g[s] = h[s]
    BY <2>4
  <2>7. ASSUME NEW s \in SUBSET (1 .. m + 1)
        PROVE  g[s] = IF s = {} THEN b ELSE Next1(g[s \ {Highest(s)}], Highest(s))
    <3>1. CASE m + 1 \in s
      <4>1. Highest(s) = m + 1
        <5>1. \A y \in s : m + 1 >= y
          BY <2>0
        <5>2. s \subseteq Int
          BY <2>0
        <5> QED
          BY <3>1, <5>1, <5>2, HighestIs
      <4>2. g[s \ {m + 1}] = h[s \ {m + 1}]
        BY <2>3, <2>6
      <4>3. g[s] = Next1(h[s \ {m + 1}], m + 1)
        BY <3>1
      <4> HIDE DEF g
      <4> QED
        BY <3>1, <4>1, <4>2, <4>3
    <3>2. CASE m + 1 \notin s
      <4>1. s \in SUBSET (1 .. m) /\ s \ {Highest(s)} \in SUBSET (1 .. m)
        BY <2>3, <3>2
      <4>2. g[s] = h[s] /\ g[s \ {Highest(s)}] = h[s \ {Highest(s)}]
        BY <2>6, <4>1
      <4> HIDE DEF g
      <4> QED
        BY <2>1, <4>1, <4>2
    <3> QED
      BY <3>1, <3>2
  <2> HIDE DEF g
  <2> QED
    BY <2>7
<1> HIDE DEF T, Has
<1>5. T = Nat
  BY <1>3, <1>4, NatSetInduction DEF T
<1>6. Has(n) /\ n <= n
  BY <1>5 DEF T
<1>7. PICK g1 : Fixed(g1, n)
  <2> HIDE DEF Fixed
  <2> QED
    BY <1>6 DEF Has
<1> DEFINE g0 == [s \in SUBSET (1 .. n) |-> g1[s]]
<1>8. \A s \in SUBSET (1 .. n) : Max(s) = Highest(s)
  BY DEF Max, Highest
<1>9. \A g, s : s \in SUBSET (1 .. n) =>
        Body(g)[s] = IF s = {} THEN b ELSE Next1(g[s \ {Max(s)}], Max(s))
  BY <1>1
<1>10. \A g : Body(g) = [s \in SUBSET (1 .. n) |-> Body(g)[s]]
  BY <1>1
<1> HIDE DEF Next1, Body
<1>11. g0 = Body(g0)
  <2>1. ASSUME NEW s \in SUBSET (1 .. n)
        PROVE  g0[s] = Body(g0)[s]
    <3>1. g0[s \ {Max(s)}] = g1[s \ {Max(s)}] /\ g0[s] = g1[s]
      OBVIOUS
    <3>2. g1[s] = IF s = {} THEN b ELSE Next1(g1[s \ {Max(s)}], Max(s))
      BY <1>7, <1>8
    <3> HIDE DEF g0
    <3> QED
      BY <1>9, <3>1, <3>2
  <2>2. g0 = [s \in SUBSET (1 .. n) |-> g0[s]]
    OBVIOUS
  <2>3. Body(g0) = [s \in SUBSET (1 .. n) |-> Body(g0)[s]]
    BY <1>10
  <2> HIDE DEF g0
  <2> QED
    BY ONLY <2>1, <2>2, <2>3
<1>12. iter = Body(iter)
  BY <1>11
<1>13. ReadTables2(words, tables, forMerge) = iter[1 .. n]
  <2>1. ReadTables2(words, tables, forMerge) = iter[DOMAIN words]
    BY <1>2 DEF ReadTables2, FoldLeft, MapThenFoldSet, Body
  <2> QED
    BY <1>1, <2>1
<1> HIDE DEF iter
<1> DEFINE run == [m \in 0 .. n |-> iter[1 .. m]]
<1>14. run[0] = b
  <2>1. 1 .. 0 = {} /\ 1 .. 0 \in SUBSET (1 .. n)
    OBVIOUS
  <2>2. iter[1 .. 0] = b
    BY <1>9, <1>12, <2>1
  <2>3. run[0] = iter[1 .. 0]
    OBVIOUS
  <2> QED
    BY <2>2, <2>3
<1>15. ASSUME NEW k \in 1 .. n
       PROVE  run[k] = ReadWord2(run[k - 1], words[k])
  <2>1. 1 .. k \in SUBSET (1 .. n) /\ (1 .. k) \ {k} = 1 .. k - 1 /\ k \in 1 .. k
        /\ 1 .. k \subseteq Int /\ \A y \in 1 .. k : k >= y
    OBVIOUS
  <2>2. Highest(1 .. k) = k
    BY ONLY <2>1, HighestIs
  <2>3. Max(1 .. k) = k
    BY <1>8, <2>1, <2>2
  <2>4. iter[1 .. k] = Next1(iter[1 .. k - 1], k)
    BY <1>9, <1>12, <2>1, <2>3
  <2>5. run[k] = iter[1 .. k] /\ run[k - 1] = iter[1 .. k - 1]
    OBVIOUS
  <2> HIDE DEF run
  <2> QED
    BY <2>4, <2>5 DEF Next1
<1>16. run[n] = iter[1 .. n]
  OBVIOUS
<1> HIDE DEF run
<1> QED
  BY <1>1, <1>2, <1>13, <1>14, <1>15, <1>16 DEF Reads

-----------------------------------------------------------------------------
(* s stands in words behind position at.                                    *)
Spells(words, at, s) == at + Len(s) <= Len(words) /\ \A k \in 1 .. Len(s) : words[at + k] = s[k]

LEMMA SpellsParts ==
  ASSUME NEW S, NEW W, NEW words \in Seq(W), NEW at \in Nat, NEW a \in Seq(S), NEW z \in Seq(S),
         Spells(words, at, a \o z)
  PROVE  Spells(words, at, a) /\ Spells(words, at + Len(a), z)
<1>1. PICK s : s = a \o z
  OBVIOUS
<1>2. /\ Len(s) = Len(a) + Len(z)
      /\ \A i \in 1 .. Len(a) + Len(z) : s[i] = IF i <= Len(a) THEN a[i] ELSE z[i - Len(a)]
  BY <1>1, ConcatProperties
<1>3. at + Len(s) <= Len(words) /\ \A k \in 1 .. Len(s) : words[at + k] = s[k]
  BY <1>1 DEF Spells
<1>4. PICK la \in Nat, lz \in Nat, lw \in Nat : la = Len(a) /\ lz = Len(z) /\ lw = Len(words)
  OBVIOUS
<1>5. at + la <= lw /\ (at + la) + lz <= lw
  BY <1>2, <1>3, <1>4
<1>6. ASSUME NEW k \in 1 .. la
      PROVE  words[at + k] = a[k]
  <2>1. k \in 1 .. la + lz /\ k <= la
    OBVIOUS
  <2> QED
    BY <1>2, <1>3, <1>4, <2>1
<1>7. ASSUME NEW k \in 1 .. lz
      PROVE  words[(at + la) + k] = z[k]
  <2>1. PICK m \in 1 .. la + lz : m = la + k /\ ~ (m <= la) /\ m - la = k /\ at + m = (at + la) + k
    <3>1. la + k \in 1 .. la + lz /\ ~ (la + k <= la) /\ (la + k) - la = k /\ at + (la + k) = (at + la) + k
      OBVIOUS
    <3> QED
      BY <3>1
  <2>2. words[at + m] = s[m] /\ s[m] = z[m - la]
    BY <1>2, <1>3, <1>4, <2>1
  <2> QED
    BY <2>1, <2>2
<1> QED
  BY <1>4, <1>5, <1>6, <1>7 DEF Spells

(* pos is where the n parts of a flattened sequence begin and end.          *)
Standing(words, at, n, seqs, pos) ==
  /\ pos \in [0 .. n -> Nat] /\ pos[0] = at /\ pos[n] = at + Len(FlattenSeq(seqs))
  /\ \A i \in 1 .. n : Spells(words, pos[i - 1], seqs[i]) /\ pos[i] = pos[i - 1] + Len(seqs[i])

(* The parts stand one behind the other.                                    *)
LEMMA SpellsFlat ==
  ASSUME NEW S, NEW W, NEW words \in Seq(W), NEW at \in Nat, NEW n \in Nat, NEW seqs \in [1 .. n -> Seq(S)],
         Spells(words, at, FlattenSeq(seqs))
  PROVE  \E pos : Standing(words, at, n, seqs, pos)
<1>0. PICK f : Flattens(f, S, n, seqs)
  BY ONLY Flattening, n \in Nat, seqs \in [1 .. n -> Seq(S)]
<1>1. /\ f \in [0 .. n -> Seq(S)] /\ f[0] = <<>> /\ \A i \in 1 .. n : f[i] = f[i - 1] \o seqs[i]
      /\ FlattenSeq(seqs) = f[n]
  BY ONLY <1>0 DEF Flattens
<1> DEFINE G == {m \in Nat : m <= n => Spells(words, at, f[n - m])}
<1>2. 0 \in G
  BY <1>1
<1>3. ASSUME NEW m \in G
      PROVE  m + 1 \in G
  <2> SUFFICES ASSUME m + 1 <= n
               PROVE  Spells(words, at, f[n - (m + 1)])
    OBVIOUS
  <2>1. PICK k \in 1 .. n : k = n - m /\ k - 1 = n - (m + 1)
    OBVIOUS
  <2>2. Spells(words, at, f[k])
    <3>1. m \in G /\ m <= n
      OBVIOUS
    <3> QED
      BY <2>1, <3>1
  <2>3. f[k] = f[k - 1] \o seqs[k] /\ f[k - 1] \in Seq(S) /\ seqs[k] \in Seq(S)
    <3>1. k - 1 \in 0 .. n
      OBVIOUS
    <3>2. f[k - 1] \in Seq(S) /\ seqs[k] \in Seq(S)
      BY <1>1, <3>1
    <3> QED
      BY ONLY <1>1, <3>2, k \in 1 .. n
  <2>4. Spells(words, at, f[k - 1] \o seqs[k])
    BY ONLY <2>2, <2>3
  <2>5. Spells(words, at, f[k - 1])
    <3> HIDE DEF G
    <3> QED
      BY <2>3, <2>4, SpellsParts
  <2> QED
    BY <2>1, <2>5
<1> HIDE DEF G
<1>4. G = Nat
  BY <1>2, <1>3, NatSetInduction DEF G
<1>5. ASSUME NEW i \in 1 .. n
      PROVE  /\ Spells(words, at + Len(f[i - 1]), seqs[i])
             /\ at + Len(f[i]) = (at + Len(f[i - 1])) + Len(seqs[i])
  <2>1. n - i \in G /\ n - i <= n /\ n - (n - i) = i
    BY <1>4
  <2>2. Spells(words, at, f[i])
    BY <2>1 DEF G
  <2>3. f[i] = f[i - 1] \o seqs[i] /\ f[i - 1] \in Seq(S) /\ seqs[i] \in Seq(S)
    <3>1. i - 1 \in 0 .. n
      OBVIOUS
    <3>2. f[i - 1] \in Seq(S) /\ seqs[i] \in Seq(S)
      BY <1>1, <3>1
    <3> QED
      BY ONLY <1>1, <3>2, i \in 1 .. n
  <2>4. Spells(words, at, f[i - 1] \o seqs[i])
    BY ONLY <2>2, <2>3
  <2>5. Spells(words, at + Len(f[i - 1]), seqs[i])
    BY <2>3, <2>4, SpellsParts
  <2>6. Len(f[i - 1] \o seqs[i]) = Len(f[i - 1]) + Len(seqs[i])
    BY ONLY <2>3, ConcatProperties
  <2>7. Len(f[i]) = Len(f[i - 1]) + Len(seqs[i])
    BY ONLY <2>3, <2>6
  <2>8. Len(f[i - 1]) \in Nat /\ Len(seqs[i]) \in Nat
    BY <2>3
  <2> QED
    BY <2>5, <2>7, <2>8
<1> DEFINE pos == [i \in 0 .. n |-> at + Len(f[i])]
<1>6. pos \in [0 .. n -> Nat]
  <2>1. \A i \in 0 .. n : Len(f[i]) \in Nat
    OBVIOUS
  <2> QED
    BY <2>1
<1>7. pos[0] = at /\ pos[n] = at + Len(FlattenSeq(seqs))
  <2>1. 0 \in 0 .. n /\ n \in 0 .. n /\ Len(<<>>) = 0 /\ at + 0 = at
    OBVIOUS
  <2> QED
    BY <1>1, <2>1
<1>8. \A i \in 1 .. n : pos[i] = at + Len(f[i]) /\ pos[i - 1] = at + Len(f[i - 1])
  OBVIOUS
<1> HIDE DEF pos
<1>9. \A i \in 1 .. n : Spells(words, pos[i - 1], seqs[i]) /\ pos[i] = pos[i - 1] + Len(seqs[i])
  BY <1>5, <1>8
<1> QED
  BY <1>6, <1>7, <1>9 DEF Standing

(* Rows as insertions build them: buckets by ascending key, none empty, and *)
(* the count is that of the points.                                         *)
Keys == 0 .. Prime - 1

Sorted(bs) == \A i, m \in DOMAIN bs : i < m => bs[i].t2 < bs[m].t2

Filled(bs) == \A i \in DOMAIN bs : bs[i].pts # <<>>

Counts(f, bs, n) ==
  /\ f \in [0 .. Len(bs) -> Nat] /\ f[0] = 0 /\ f[Len(bs)] = n
  /\ \A i \in 1 .. Len(bs) : f[i] = f[i - 1] + Len(bs[i].pts)

Proper(bs, n) == Sorted(bs) /\ Filled(bs) /\ \E f : Counts(f, bs, n)

ListRows ==
  {row \in [count : 0 .. C, buckets : Seq(BucketsOf(Keys, Points))] : Proper(row.buckets, row.count)}

ListTables == [1 .. L -> [Rows -> ListRows]]

LEMMA NumbersAre ==
  /\ N \in Nat \ {0} /\ C \in Nat \ {0} /\ L \in Nat \ {0}
  /\ Word \in Nat /\ PointLimit \in Nat /\ Word >= 2 * PointLimit /\ PointLimit > 7
  /\ N < Prime /\ 2 * C < PointLimit
<1>1. PICK s \in Nat, p \in Nat : s = SkipBase /\ p = PointLimit /\ s > 1 /\ p > 7
  BY WordAssumption
<1>2. s * p \in Nat /\ s * p >= 2 * p
  <2>1. PICK d \in Nat : s = 2 + d
    <3>1. s - 2 \in Nat /\ s = 2 + (s - 2)
      BY <1>1
    <3> QED
      BY <3>1
  <2>2. s * p = 2 * p + d * p
    BY <2>1
  <2>3. d * p \in Nat /\ 2 * p \in Nat
    OBVIOUS
  <2>4. PICK x \in Nat, y \in Nat : x = d * p /\ y = 2 * p
    BY <2>3
  <2> QED
    BY <2>2, <2>4
<1>3. Word \in Nat /\ Word >= 2 * PointLimit
  BY ONLY <1>1, <1>2 DEF Word
<1> QED
  BY <1>1, <1>3, TablesAssumption

LEMMA EmptyRowListed == EmptyRow \in ListRows
<1>1. <<>> \in Seq(BucketsOf(Keys, Points)) /\ Len(<<>>) = 0 /\ DOMAIN <<>> = {}
  OBVIOUS
<1>2. Counts([i \in 0 .. 0 |-> 0], <<>>, 0)
  BY <1>1 DEF Counts
<1>3. 0 \in 0 .. C
  BY NumbersAre
<1> HIDE DEF Counts
<1> QED
  BY <1>1, <1>2, <1>3 DEF EmptyRow, ListRows, Proper, Sorted, Filled

(* A bucket that is put between those with lower and higher keys.           *)
LEMMA NewBucketProper ==
  ASSUME NEW bs, NEW b, NEW n \in Nat, NEW c \in Nat, NEW i \in 1 .. n + 1, NEW new, NEW p, NEW S,
         bs \in Seq(S), b \in Seq(S), Len(bs) = n, Len(b) = n + 1, \A e \in S : e.t2 \in Int /\ Len(e.pts) \in Nat,
         \A m \in 1 .. n + 1 : b[m] = IF m < i THEN bs[m] ELSE IF m = i THEN new ELSE bs[m - 1],
         new.t2 \in Int, new.pts = <<p>>,
         \A m \in 1 .. i - 1 : bs[m].t2 < new.t2, \A m \in i .. n : new.t2 < bs[m].t2,
         Proper(bs, c)
  PROVE  Proper(b, c + 1)
<1> DEFINE from(m) == IF m < i THEN m ELSE m - 1
<1>1. DOMAIN bs = 1 .. n /\ DOMAIN b = 1 .. n + 1 /\ \A m \in 1 .. n : bs[m].t2 \in Int /\ Len(bs[m].pts) \in Nat
  <2>1. \A m \in 1 .. n : bs[m] \in S
    OBVIOUS
  <2> QED
    BY <2>1
<1>2. b[i] = new /\ \A m \in 1 .. n + 1 : m # i => from(m) \in 1 .. n /\ b[m] = bs[from(m)]
  OBVIOUS
<1>3. ASSUME NEW x \in 1 .. n + 1, NEW y \in 1 .. n + 1, x < y
      PROVE  b[x].t2 < b[y].t2
  <2>1. CASE x = i
    <3>1. from(y) \in i .. n /\ b[y] = bs[from(y)]
      BY <1>2, <1>3, <2>1
    <3> QED
      BY <1>2, <2>1, <3>1
  <2>2. CASE y = i
    <3>1. from(x) \in 1 .. i - 1 /\ b[x] = bs[from(x)]
      BY <1>2, <1>3, <2>2
    <3> QED
      BY <1>2, <2>2, <3>1
  <2>3. CASE x # i /\ y # i
    <3>1. PICK u \in 1 .. n, v \in 1 .. n : u = from(x) /\ v = from(y) /\ u < v
      <4>1. from(x) \in 1 .. n /\ from(y) \in 1 .. n
        BY <1>2, <2>3
      <4>2. from(x) < from(y)
        BY <1>3, <2>3
      <4> QED
        BY <4>1, <4>2
    <3>2. b[x] = bs[u] /\ b[y] = bs[v]
      BY <1>2, <2>3, <3>1
    <3>3. bs[u].t2 < bs[v].t2
      BY <1>1, <3>1 DEF Proper, Sorted
    <3> QED
      BY <3>2, <3>3
  <2> QED
    BY <2>1, <2>2, <2>3
<1>4. Sorted(b)
  BY <1>1, <1>3 DEF Sorted
<1>5. Filled(b)
  <2>1. <<p>> # <<>>
    OBVIOUS
  <2> HIDE DEF from
  <2>2. \A m \in 1 .. n : bs[m].pts # <<>>
    BY <1>1 DEF Proper, Filled
  <2>3. \A m \in 1 .. n + 1 : b[m].pts # <<>>
    BY <1>2, <2>1, <2>2
  <2> QED
    BY <1>1, <2>3 DEF Filled
<1>6. PICK f : Counts(f, bs, c)
  BY DEF Proper
<1>7. f \in [0 .. n -> Nat] /\ f[0] = 0 /\ f[n] = c /\ \A m \in 1 .. n : f[m] = f[m - 1] + Len(bs[m].pts)
  BY <1>6 DEF Counts
<1> DEFINE g == [m \in 0 .. n + 1 |-> IF m < i THEN f[m] ELSE f[m - 1] + 1]
<1>8. g \in [0 .. n + 1 -> Nat]
  <2>1. \A m \in 0 .. n + 1 : IF m < i THEN m \in 0 .. n ELSE m - 1 \in 0 .. n
    OBVIOUS
  <2>2. \A m \in 0 .. n + 1 : IF m < i THEN f[m] \in Nat ELSE f[m - 1] \in Nat
    BY <1>7, <2>1
  <2>3. \A m \in 0 .. n + 1 : g[m] \in Nat
    BY <2>2
  <2> QED
    BY <2>3
<1>9. g[0] = 0 /\ g[n + 1] = c + 1
  BY <1>7
<1>10. ASSUME NEW m \in 1 .. n + 1
       PROVE  g[m] = g[m - 1] + Len(b[m].pts)
  <2>1. CASE m < i
    <3>1. g[m] = f[m] /\ g[m - 1] = f[m - 1] /\ m \in 1 .. n
      BY <2>1
    <3>2. b[m] = bs[m]
      BY <2>1
    <3> HIDE DEF g
    <3> QED
      BY <1>7, <3>1, <3>2
  <2>2. CASE m = i
    <3>1. g[m] = f[m - 1] + 1 /\ g[m - 1] = f[m - 1]
      BY <2>2
    <3>2. Len(b[m].pts) = 1
      <4>1. b[m].pts = <<p>> /\ Len(<<p>>) = 1
        BY <1>2, <2>2
      <4> QED
        BY <4>1
    <3> HIDE DEF g
    <3> QED
      BY <3>1, <3>2
  <2>3. CASE m > i
    <3>1. g[m] = f[m - 1] + 1 /\ g[m - 1] = f[m - 1 - 1] + 1 /\ m - 1 \in 1 .. n
      BY <2>3
    <3>2. b[m] = bs[m - 1]
      BY <2>3
    <3>3. f[m - 1] = f[m - 1 - 1] + Len(bs[m - 1].pts)
      BY <1>7, <3>1
    <3>4. f[m - 1 - 1] \in Nat /\ Len(bs[m - 1].pts) \in Nat
      <4>1. m - 1 - 1 \in 0 .. n
        BY <3>1
      <4> QED
        BY <1>1, <1>7, <3>1, <4>1
    <3> HIDE DEF g
    <3> QED
      BY <3>1, <3>2, <3>3, <3>4
  <2> QED
    BY <2>1, <2>2, <2>3
<1> HIDE DEF g, from
<1>11. Counts(g, b, c + 1)
  BY <1>8, <1>9, <1>10 DEF Counts
<1> QED
  BY <1>4, <1>5, <1>11 DEF Proper

(* A point that is appended to a bucket.                                    *)
LEMMA LargerBucketProper ==
  ASSUME NEW bs, NEW b, NEW n \in Nat, NEW c \in Nat, NEW i \in 1 .. n, NEW S,
         bs \in Seq(S), b \in Seq(S), Len(bs) = n, Len(b) = n, \A e \in S : e.t2 \in Int /\ Len(e.pts) \in Nat,
         \A m \in 1 .. n : m # i => b[m] = bs[m], b[i].t2 = bs[i].t2, Len(b[i].pts) = Len(bs[i].pts) + 1,
         b[i].pts # <<>>, Proper(bs, c)
  PROVE  Proper(b, c + 1)
<1>1. DOMAIN bs = 1 .. n /\ DOMAIN b = 1 .. n /\ \A m \in 1 .. n : bs[m].t2 \in Int /\ Len(bs[m].pts) \in Nat
  <2>1. \A m \in 1 .. n : bs[m] \in S
    OBVIOUS
  <2> QED
    BY <2>1
<1>2. \A m \in 1 .. n : b[m].t2 = bs[m].t2 /\ b[m].pts # <<>>
  BY <1>1 DEF Proper, Filled
<1>3. Sorted(b) /\ Filled(b)
  BY <1>1, <1>2 DEF Proper, Sorted, Filled
<1>6. PICK f : Counts(f, bs, c)
  BY DEF Proper
<1>7. f \in [0 .. n -> Nat] /\ f[0] = 0 /\ f[n] = c /\ \A m \in 1 .. n : f[m] = f[m - 1] + Len(bs[m].pts)
  BY <1>6 DEF Counts
<1> DEFINE g == [m \in 0 .. n |-> IF m < i THEN f[m] ELSE f[m] + 1]
<1>8. g \in [0 .. n -> Nat]
  <2>1. \A m \in 0 .. n : f[m] \in Nat /\ f[m] + 1 \in Nat
    BY ONLY <1>7
  <2>2. \A m \in 0 .. n : g[m] \in Nat
    BY ONLY <2>1
  <2> QED
    BY ONLY <2>2
<1>9. g[0] = 0 /\ g[n] = c + 1
  <2>1. 0 \in 0 .. n /\ n \in 0 .. n /\ 0 < i /\ ~ (n < i)
    BY ONLY n \in Nat, i \in 1 .. n
  <2> QED
    BY ONLY <1>7, <2>1
<1>10. ASSUME NEW m \in 1 .. n
       PROVE  g[m] = g[m - 1] + Len(b[m].pts)
  <2>0. f[m] = f[m - 1] + Len(bs[m].pts) /\ f[m - 1] \in Nat /\ Len(bs[m].pts) \in Nat
    <3>1. m - 1 \in 0 .. n
      OBVIOUS
    <3> QED
      BY <1>1, <1>7, <3>1
  <2>u. PICK u \in Nat, v \in Nat : u = f[m - 1] /\ v = Len(bs[m].pts) /\ f[m] = u + v
    BY <2>0
  <2>w. (u + v) + 1 = (u + 1) + v /\ (u + v) + 1 = u + (v + 1)
    OBVIOUS
  <2>1. CASE m < i
    <3>1. g[m] = f[m] /\ g[m - 1] = f[m - 1] /\ b[m] = bs[m]
      BY <2>1
    <3> HIDE DEF g
    <3> QED
      BY <2>u, <2>w, <3>1
  <2>2. CASE m = i
    <3>1. g[m] = f[m] + 1 /\ g[m - 1] = f[m - 1] /\ Len(b[m].pts) = Len(bs[m].pts) + 1
      BY <2>2
    <3> HIDE DEF g
    <3> QED
      BY <2>u, <2>w, <3>1
  <2>3. CASE m > i
    <3>1. g[m] = f[m] + 1 /\ g[m - 1] = f[m - 1] + 1 /\ b[m] = bs[m]
      BY <2>3
    <3> HIDE DEF g
    <3> QED
      BY <2>u, <2>w, <3>1
  <2> QED
    BY <2>1, <2>2, <2>3
<1> HIDE DEF g
<1>11. Counts(g, b, c + 1)
  BY <1>8, <1>9, <1>10 DEF Counts
<1> QED
  BY <1>3, <1>11 DEF Proper

LEMMA KeysAreNumbers ==
  /\ Keys \subseteq Nat
  /\ \A e \in BucketsOf(Keys, Points) : e.t2 \in Keys /\ e.t2 \in Int /\ e.pts \in Seq(Points) /\ Len(e.pts) \in Nat
<1>1. Keys \subseteq Nat
  BY DEF Keys
<1>2. ASSUME NEW e \in BucketsOf(Keys, Points)
      PROVE  e.t2 \in Keys /\ e.t2 \in Int /\ e.pts \in Seq(Points) /\ Len(e.pts) \in Nat
  <2>1. e.t2 \in Keys /\ e.pts \in Seq(Points)
    BY DEF BucketsOf
  <2>2. e.t2 \in Nat
    BY <1>1, <2>1
  <2>3. \A s \in Seq(Points) : Len(s) \in Nat
    OBVIOUS
  <2> QED
    BY <2>1, <2>2, <2>3
<1> QED
  BY <1>1, <1>2

(* Where the first bucket of a key not below t2 is.                         *)
LEMMA FirstAfter ==
  ASSUME NEW n \in Nat, NEW bs, DOMAIN bs = 1 .. n, NEW t2 \in Int, \A m \in 1 .. n : bs[m].t2 \in Int,
         {i \in DOMAIN bs : bs[i].t2 >= t2} # {}
  PROVE  LET i == Min({i \in DOMAIN bs : bs[i].t2 >= t2})
         IN  i \in 1 .. n /\ bs[i].t2 >= t2 /\ \A m \in 1 .. i - 1 : bs[m].t2 < t2
<1> DEFINE after == {i \in DOMAIN bs : bs[i].t2 >= t2}
<1>1. after \in SUBSET Nat
  OBVIOUS
<1>2. PICK i \in after : \A y \in after : i <= y
  <2>1. after # {}
    OBVIOUS
  <2> HIDE DEF after
  <2> QED
    BY <1>1, <2>1, LeastNatural
<1>3. Min(after) \in after /\ \A y \in after : Min(after) <= y
  <2> HIDE DEF after
  <2> QED
    BY <1>2 DEF Min
<1>4. PICK j : j = Min(after)
  OBVIOUS
<1>5. j \in 1 .. n /\ bs[j].t2 >= t2 /\ \A m \in 1 .. n : bs[m].t2 >= t2 => j <= m
  BY <1>3, <1>4
<1>6. \A m \in 1 .. j - 1 : bs[m].t2 < t2
  <2> SUFFICES ASSUME NEW m \in 1 .. j - 1 PROVE bs[m].t2 < t2
    OBVIOUS
  <2>1. m \in 1 .. n /\ ~ (j <= m)
    BY <1>5
  <2>2. ~ (bs[m].t2 >= t2) /\ bs[m].t2 \in Int
    BY <1>5, <2>1
  <2> QED
    BY <2>2
<1> QED
  BY <1>4, <1>5, <1>6

(* An insertion leaves a row as insertions build it.                        *)
LEMMA BucketInserted ==
  ASSUME NEW bs \in Seq(BucketsOf(Keys, Points)), NEW c \in Nat, Proper(bs, c), NEW t2 \in Keys, NEW p \in Points
  PROVE  BucketInsert(bs, t2, p) \in Seq(BucketsOf(Keys, Points)) /\ Proper(BucketInsert(bs, t2, p), c + 1)
<1>s. PICK S : S = BucketsOf(Keys, Points)
  OBVIOUS
<1> DEFINE after == {i \in DOMAIN bs : bs[i].t2 >= t2}
           new == [t2 |-> t2, pts |-> <<p>>]
<1>1. PICK b : b = BucketInsert(bs, t2, p)
  OBVIOUS
<1>2. b \in Seq(S)
  BY <1>s, <1>1, InsertionFound
<1>3. PICK n \in Nat : n = Len(bs) /\ DOMAIN bs = 1 .. n
  OBVIOUS
<1>4. bs \in Seq(S) /\ \A e \in S : e.t2 \in Int /\ e.pts \in Seq(Points) /\ Len(e.pts) \in Nat
  BY <1>s, KeysAreNumbers
<1>5. /\ t2 \in Int /\ \A m \in 1 .. n : bs[m].t2 \in Int /\ bs[m].pts \in Seq(Points)
      /\ \A m \in 1 .. n : bs[m] \in S
  <2>1. \A m \in 1 .. n : bs[m] \in S
    BY <1>3, <1>4
  <2> QED
    BY <1>4, <2>1, KeysAreNumbers
<1>6. new \in S /\ new.t2 = t2 /\ new.pts = <<p>>
  BY <1>s DEF BucketsOf
<1>7. ASSUME NEW i \in 1 .. n + 1, Len(b) = n + 1,
             \A m \in 1 .. n + 1 : b[m] = IF m < i THEN bs[m] ELSE IF m = i THEN new ELSE bs[m - 1],
             \A m \in 1 .. i - 1 : bs[m].t2 < t2, \A m \in i .. n : t2 < bs[m].t2
      PROVE  Proper(b, c + 1)
  <2> HIDE DEF new, after
  <2>1. PICK e : e = new
    OBVIOUS
  <2>2. /\ e.t2 \in Int /\ e.pts = <<p>> /\ (\A m \in 1 .. i - 1 : bs[m].t2 < e.t2) /\ \A m \in i .. n : e.t2 < bs[m].t2
        /\ \A m \in 1 .. n + 1 : b[m] = IF m < i THEN bs[m] ELSE IF m = i THEN e ELSE bs[m - 1]
    BY <1>5, <1>6, <1>7, <2>1
  <2>3. \A x \in S : x.t2 \in Int /\ Len(x.pts) \in Nat
    BY <1>4
  <2>4. bs \in Seq(S) /\ b \in Seq(S) /\ Len(bs) = n /\ Len(b) = n + 1 /\ Proper(bs, c)
    BY <1>2, <1>3, <1>4, <1>7
  <2> QED
    BY ONLY <2>2, <2>3, <2>4, n \in Nat, c \in Nat, i \in 1 .. n + 1, NewBucketProper
<1>8. CASE after = {}
  <2>1. b = Append(bs, new)
    BY <1>1, <1>8 DEF BucketInsert
  <2> HIDE DEF new
  <2>2. Len(b) = n + 1 /\ b[n + 1] = new /\ \A m \in 1 .. n : b[m] = bs[m]
    BY <1>3, <1>4, <1>6, <2>1
  <2>3. \A m \in 1 .. n + 1 : b[m] = IF m < n + 1 THEN bs[m] ELSE IF m = n + 1 THEN new ELSE bs[m - 1]
    <3>1. \A m \in 1 .. n + 1 : m = n + 1 \/ (m \in 1 .. n /\ m < n + 1)
      OBVIOUS
    <3>2. ~ (n + 1 < n + 1)
      OBVIOUS
    <3> QED
      BY <2>2, <3>1, <3>2
  <2>4. \A m \in 1 .. (n + 1) - 1 : bs[m].t2 < t2
    <3>1. \A m \in 1 .. n : ~ (bs[m].t2 >= t2)
      BY <1>3, <1>8
    <3> QED
      BY <1>5, <3>1
  <2>5. n + 1 \in 1 .. n + 1 /\ n + 1 .. n = {}
    OBVIOUS
  <2> HIDE DEF after
  <2>6. PICK k \in 1 .. n + 1 : k = n + 1
    BY <2>5
  <2>7. /\ \A m \in 1 .. n + 1 : b[m] = IF m < k THEN bs[m] ELSE IF m = k THEN new ELSE bs[m - 1]
        /\ \A m \in 1 .. k - 1 : bs[m].t2 < t2
        /\ \A m \in k .. n : t2 < bs[m].t2
    BY <2>3, <2>4, <2>5, <2>6
  <2> QED
    BY <1>s, <1>1, <1>2, <1>7, <2>2, <2>7
<1>9. ASSUME after # {}
      PROVE  \E i \in 1 .. n : i = Min(after) /\ bs[i].t2 >= t2 /\ \A m \in 1 .. i - 1 : bs[m].t2 < t2
  <2>1. LET i == Min(after) IN i \in 1 .. n /\ bs[i].t2 >= t2 /\ \A m \in 1 .. i - 1 : bs[m].t2 < t2
    BY <1>3, <1>5, <1>9, FirstAfter
  <2> QED
    BY <2>1
<1>10. CASE after # {}
  <2>1. PICK i \in 1 .. n : i = Min(after) /\ bs[i].t2 >= t2 /\ \A m \in 1 .. i - 1 : bs[m].t2 < t2
    BY <1>9, <1>10
  <2>2. CASE bs[i].t2 # t2
    <3>1. b = InsertAt(bs, i, new)
      BY <1>1, <1>10, <2>1, <2>2 DEF BucketInsert
    <3> HIDE DEF new, after
    <3>2. i \in 1 .. Len(bs) + 1
      BY <1>3
    <3>3. Len(b) = n + 1
          /\ \A m \in 1 .. n + 1 : b[m] = IF m < i THEN bs[m] ELSE IF m = i THEN new ELSE bs[m - 1]
      <4>1. bs \in Seq(S) /\ new \in S /\ i \in 1 .. Len(bs) + 1
        BY <1>4, <1>6, <3>2
      <4>2. /\ Len(InsertAt(bs, i, new)) = Len(bs) + 1
            /\ \A m \in 1 .. Len(bs) + 1 :
                 InsertAt(bs, i, new)[m] = IF m < i THEN bs[m] ELSE IF m = i THEN new ELSE bs[m - 1]
        BY ONLY <4>1, PutIn
      <4> QED
        BY ONLY <1>3, <3>1, <4>2
    <3>4. \A m \in i .. n : t2 < bs[m].t2
      <4>1. t2 < bs[i].t2
        BY <1>5, <2>1, <2>2
      <4> SUFFICES ASSUME NEW m \in i .. n, m # i PROVE t2 < bs[m].t2
        BY <4>1
      <4>2. m \in 1 .. n /\ i < m
        OBVIOUS
      <4>3. bs[i].t2 < bs[m].t2
        BY <1>3, <4>2 DEF Proper, Sorted
      <4> QED
        BY <1>5, <4>1, <4>2, <4>3
    <3>5. i \in 1 .. n + 1
      OBVIOUS
    <3> QED
      BY <1>s, <1>1, <1>2, <1>7, <2>1, <3>3, <3>4, <3>5
  <2>3. CASE bs[i].t2 = t2
    <3>1. PICK old \in Seq(Points) : old = bs[i].pts
      BY <1>5
    <3>2. PICK more \in Seq(Points) : more = Append(old, p) /\ Len(more) = Len(old) + 1 /\ more # <<>>
      <4>1. Append(old, p) \in Seq(Points) /\ Len(Append(old, p)) = Len(old) + 1 /\ Append(old, p) # <<>>
        OBVIOUS
      <4> QED
        BY <4>1
    <3>3. b = [bs EXCEPT ![i].pts = more]
      BY <1>1, <1>10, <2>1, <2>3, <3>1, <3>2 DEF BucketInsert
    <3> HIDE DEF after, new
    <3>4. DOMAIN b = 1 .. n /\ \A m \in 1 .. n : m # i => b[m] = bs[m]
      BY <1>3, <3>3
    <3>5. b[i] = [bs[i] EXCEPT !.pts = more]
      BY <1>3, <3>3
    <3>6. bs[i] \in [t2 : Keys, pts : Seq(Points)]
      BY <1>s, <1>5 DEF BucketsOf
    <3>7. b[i].t2 = bs[i].t2 /\ b[i].pts = more
      BY ONLY <3>5, <3>6
    <3>8. Len(b) = n
      BY <1>2, <3>4
    <3>9. \A x \in S : x.t2 \in Int /\ Len(x.pts) \in Nat
      BY <1>4
    <3>10. Len(b[i].pts) = Len(bs[i].pts) + 1 /\ b[i].pts # <<>>
      BY <3>1, <3>2, <3>7
    <3>11. bs \in Seq(S) /\ b \in Seq(S) /\ Len(bs) = n /\ Len(b) = n /\ Proper(bs, c)
      BY <1>2, <1>3, <1>4, <3>8
    <3>12. Proper(b, c + 1)
      BY ONLY <3>4, <3>7, <3>9, <3>10, <3>11, n \in Nat, c \in Nat, i \in 1 .. n, LargerBucketProper
    <3> QED
      BY <1>s, <1>1, <1>2, <3>12
  <2> QED
    BY <2>2, <2>3
<1> QED
  BY <1>8, <1>10

LEMMA PointInserted ==
  ASSUME NEW row \in ListRows, NEW t2 \in Keys, NEW p \in Points
  PROVE  InsertPoint(row, t2, p, C) \in ListRows
<1>1. /\ row.count \in 0 .. C /\ row.count \in Nat
      /\ row.buckets \in Seq(BucketsOf(Keys, Points)) /\ Proper(row.buckets, row.count)
  BY NumbersAre DEF ListRows
<1>2. PICK b : b = BucketInsert(row.buckets, t2, p) /\ b \in Seq(BucketsOf(Keys, Points)) /\ Proper(b, row.count + 1)
  BY <1>1, BucketInserted
<1>3. CASE row.count < C
  <2>1. InsertPoint(row, t2, p, C) = [count |-> row.count + 1, buckets |-> b]
    BY <1>2, <1>3 DEF InsertPoint
  <2>2. row.count + 1 \in 0 .. C
    BY <1>1, <1>3, NumbersAre
  <2> QED
    BY <1>2, <2>1, <2>2 DEF ListRows
<1>4. CASE ~ (row.count < C)
  BY <1>4 DEF InsertPoint
<1> QED
  BY <1>3, <1>4

LEMMA Multiples ==
  ASSUME NEW w \in Nat, NEW d \in Nat, NEW q \in Nat
  PROVE  w * d \in Nat /\ w * q \in Nat /\ (d >= q + 1 => w * d >= w * q + w)
<1>1. w * d \in Nat /\ w * q \in Nat
  OBVIOUS
<1>2. ASSUME d >= q + 1
      PROVE  w * d >= w * q + w
  <2>1. PICK e \in Nat : d = (q + 1) + e
    <3>1. d - (q + 1) \in Nat /\ d = (q + 1) + (d - (q + 1))
      BY <1>2
    <3> QED
      BY <3>1
  <2>2. w * d = (w * q + w) + w * e
    BY <2>1
  <2>3. PICK x \in Nat, y \in Nat : x = w * e /\ y = w * q + w
    OBVIOUS
  <2>4. w * d = y + x
    BY <2>2, <2>3
  <2>5. y + x >= y
    BY ONLY x \in Nat, y \in Nat
  <2> QED
    BY <2>3, <2>4, <2>5
<1> QED
  BY <1>1, <1>2

LEMMA ProductsBounded ==
  ASSUME NEW m \in Nat, NEW q \in Nat, NEW x \in 0 .. m, NEW y \in 0 .. q
  PROVE  x * y \in Nat /\ x * y <= m * q
<1>1. PICK a \in Nat, b \in Nat : m = x + a /\ q = y + b
  <2>1. m - x \in Nat /\ q - y \in Nat /\ m = x + (m - x) /\ q = y + (q - y)
    OBVIOUS
  <2> QED
    BY <2>1
<1>2. x \in Nat /\ y \in Nat
  OBVIOUS
<1>3. m * q = x * y + (x * b + a * y + a * b)
  BY <1>1, <1>2
<1>4. x * y \in Nat /\ x * b + a * y + a * b \in Nat
  BY <1>1, <1>2
<1>5. PICK u \in Nat, v \in Nat : u = x * y /\ v = x * b + a * y + a * b
  BY <1>4
<1>6. u <= u + v
  OBVIOUS
<1> QED
  BY ONLY <1>3, <1>4, <1>5, <1>6

(* Folding the high half in once is enough, as b is at most Word \div 8.    *)
LEMMA FoldedOnce ==
  ASSUME NEW h \in Keys, NEW x \in 0 .. Word - 1, NEW y \in 0 .. Word \div 8
  PROVE  FoldHigh(h + x * y) \in Keys
<1>1. PICK w \in Nat, q \in Nat : w = Word /\ w >= 16 /\ q = w \div 8 /\ 8 * q <= w
  <2>1. PICK w \in Nat : w = Word /\ w >= 16
    <3>1. PICK p \in Nat : p = PointLimit /\ p > 7 /\ Word >= 2 * p
      BY NumbersAre
    <3> QED
      BY <3>1, NumbersAre
  <2>2. w \div 8 \in Nat /\ 8 * (w \div 8) <= w
    OBVIOUS
  <2> QED
    BY <2>1, <2>2
<1>2. PICK z \in Nat : z = x * y /\ z <= (w - 1) * q
  <2>1. w - 1 \in Nat /\ x \in 0 .. w - 1 /\ y \in 0 .. q
    BY <1>1
  <2>2. x * y \in Nat /\ x * y <= (w - 1) * q
    BY ONLY <2>1, q \in Nat, ProductsBounded
  <2> QED
    BY <2>2
<1>3. PICK s \in Nat : s = h + x * y /\ s = h + z
  <2>1. h \in Nat
    BY KeysAreNumbers
  <2> QED
    BY <1>2, <2>1
<1>4. h \in 0 .. w - 6
  BY <1>1 DEF Keys, Prime
<1>5. PICK d \in Nat, r \in 0 .. w - 1 : d = s \div w /\ r = s % w /\ s = w * d + r
  <2>1. s \div w \in Nat /\ s % w \in 0 .. w - 1 /\ s = w * (s \div w) + (s % w)
    <3>1. w > 0
      BY <1>1
    <3>2. s \div w \in Nat
      BY ONLY <3>1, s \in Nat, w \in Nat
    <3>3. s % w \in 0 .. w - 1
      BY ONLY <3>1, s \in Nat, w \in Nat
    <3>4. s = w * (s \div w) + (s % w)
      BY ONLY <3>1, s \in Nat, w \in Nat
    <3> QED
      BY ONLY <3>2, <3>3, <3>4
  <2> QED
    BY <2>1
<1>6. PICK k \in Nat, m \in Nat : k = w * q /\ m = w * d /\ (d >= q + 1 => m >= k + w)
  BY Multiples
<1>7. z <= k - q
  <2>1. (w - 1) * q = w * q - q
    OBVIOUS
  <2> QED
    BY <1>2, <1>6, <2>1
<1>8. s <= (w - 6) + (k - q) /\ s = m + r
  BY <1>3, <1>4, <1>5, <1>6, <1>7
<1>9. d <= q /\ (d = q => m = k)
  <2>1. d = q => m = k
    BY <1>6
  <2>2. ~ (d >= q + 1)
    BY ONLY <1>6, <1>8, w \in Nat, q \in Nat, d \in Nat, r \in 0 .. w - 1, k \in Nat, m \in Nat, s \in Nat
  <2> QED
    BY <2>1, <2>2
<1>10. PICK low \in Nat : low = r + 5 * d
  OBVIOUS
<1>11. low < (w - 5) + (w - 5)
  <2>1. CASE d = q
    BY ONLY <1>1, <1>8, <1>9, <1>10, <2>1, w \in Nat, q \in Nat, r \in 0 .. w - 1, k \in Nat, m \in Nat, s \in Nat
  <2>2. CASE d <= q - 1
    BY ONLY <1>1, <1>10, <2>2, w \in Nat, q \in Nat, d \in Nat, r \in 0 .. w - 1
  <2> QED
    BY <1>9, <2>1, <2>2
<1>12. FoldHigh(h + x * y) = IF low >= w - 5 THEN low - (w - 5) ELSE low
  <2>1. FoldHigh(s) = IF r + 5 * d >= w - 5 THEN (r + 5 * d) - (w - 5) ELSE r + 5 * d
    BY ONLY <1>1, <1>5 DEF FoldHigh, Prime
  <2> QED
    BY ONLY <1>3, <1>10, <2>1
<1>13. Keys = 0 .. (w - 5) - 1
  BY ONLY <1>1 DEF Keys, Prime
<1> QED
  BY ONLY <1>1, <1>11, <1>12, <1>13, w \in Nat, low \in Nat

Hashes(a, b) ==
  a \in Seq(0 .. Word - 1) /\ b \in Seq(0 .. Word \div 8) /\ Len(b) = Len(a)

(* A key is a number below the prime.                                       *)
LEMMA KeyInRange ==
  ASSUME NEW a, NEW b, Hashes(a, b)
  PROVE  ProductModPrime(a, b) \in Keys
<1>1. PICK n \in Nat : n = Len(a) /\ n = Len(b)
  <2>1. \A S : \A s \in Seq(S) : Len(s) \in Nat
    OBVIOUS
  <2>2. Len(a) \in Nat /\ Len(b) = Len(a)
    BY <2>1 DEF Hashes
  <2> QED
    BY <2>2
<1>2. \A i \in 1 .. n : a[i] \in 0 .. Word - 1 /\ b[i] \in 0 .. Word \div 8
  <2>1. \A S : \A s \in Seq(S) : \A i \in 1 .. Len(s) : s[i] \in S
    OBVIOUS
  <2>2. PICK A, B : A = 0 .. Word - 1 /\ B = 0 .. Word \div 8
    OBVIOUS
  <2>3. a \in Seq(A) /\ b \in Seq(B)
    BY <2>2 DEF Hashes
  <2> QED
    BY ONLY <1>1, <2>1, <2>2, <2>3
<1> DEFINE Body(g) == [i \in 0 .. n |-> IF i = 0 THEN 0 ELSE FoldHigh(g[i - 1] + a[i] * b[i])]
           hash == CHOOSE g : g = Body(g)
           Upto(g, m) == g[0] = 0 /\ \A i \in 1 .. m : g[i] = FoldHigh(g[i - 1] + a[i] * b[i])
           Has(m) == m <= n => \E g \in [0 .. m -> Keys] : Upto(g, m)
           T == {m \in Nat : Has(m)}
<1>0. 0 \in Keys
  BY NumbersAre DEF Keys, Prime
<1>3. 0 \in T
  <2>1. [i \in 0 .. 0 |-> 0] \in [0 .. 0 -> Keys] /\ Upto([i \in 0 .. 0 |-> 0], 0)
    BY <1>0
  <2> QED
    BY <2>1
<1>4. ASSUME NEW m \in T
      PROVE  m + 1 \in T
  <2>0. m \in Nat /\ m + 1 \in Nat /\ Has(m)
    <3> HIDE DEF Has
    <3> QED
      OBVIOUS
  <2> HIDE DEF T
  <2> SUFFICES ASSUME m + 1 <= n
               PROVE  \E g \in [0 .. m + 1 -> Keys] : Upto(g, m + 1)
    BY <2>0 DEF T
  <2>1. PICK f \in [0 .. m -> Keys] : Upto(f, m)
    <3>1. m <= n
      BY <2>0
    <3> QED
      BY <2>0, <3>1
  <2>2. PICK v : v = FoldHigh(f[m] + a[m + 1] * b[m + 1])
    OBVIOUS
  <2>3. v \in Keys
    <3>1. f[m] \in Keys /\ m + 1 \in 1 .. n
      BY <2>0
    <3>2. a[m + 1] \in 0 .. Word - 1 /\ b[m + 1] \in 0 .. Word \div 8
      BY <1>2, <3>1
    <3> QED
      BY ONLY <2>2, <3>1, <3>2, FoldedOnce
  <2> DEFINE g == [i \in 0 .. m + 1 |-> IF i = m + 1 THEN v ELSE f[i]]
  <2>4. g \in [0 .. m + 1 -> Keys]
    BY <2>0, <2>3
  <2>5. g[0] = 0
    BY <2>0, <2>1
  <2>6. ASSUME NEW i \in 1 .. m + 1
        PROVE  g[i] = FoldHigh(g[i - 1] + a[i] * b[i])
    <3>1. CASE i = m + 1
      <4>1. g[i] = v /\ g[i - 1] = f[m]
        BY <2>0, <3>1
      <4> QED
        BY ONLY <2>2, <3>1, <4>1
    <3>2. CASE i # m + 1
      <4>1. i \in 1 .. m /\ g[i] = f[i] /\ g[i - 1] = f[i - 1]
        BY <2>0, <3>2
      <4> QED
        BY ONLY <2>1, <4>1
    <3> QED
      BY <3>1, <3>2
  <2> HIDE DEF g
  <2> QED
    BY <2>4, <2>5, <2>6
<1> HIDE DEF T, Has
<1>5. T = Nat
  BY <1>3, <1>4, NatSetInduction DEF T
<1>6. Has(n) /\ n <= n
  BY <1>5 DEF T
<1>7. PICK f \in [0 .. n -> Keys] : Upto(f, n)
  BY <1>6 DEF Has
<1>8. f = Body(f)
  <2>1. ASSUME NEW i \in 0 .. n
        PROVE  f[i] = IF i = 0 THEN 0 ELSE FoldHigh(f[i - 1] + a[i] * b[i])
    BY <1>7
  <2>2. f = [i \in 0 .. n |-> f[i]]
    BY <1>7
  <2> QED
    BY ONLY <2>1, <2>2
<1>9. hash = Body(hash)
  BY <1>8
<1>10. ProductModPrime(a, b) = hash[n]
  BY <1>1 DEF ProductModPrime
<1> HIDE DEF hash
<1>11. hash[0] = 0 /\ \A i \in 1 .. n : hash[i] = FoldHigh(hash[i - 1] + a[i] * b[i])
  <2>1. \A i \in 0 .. n : Body(hash)[i] = IF i = 0 THEN 0 ELSE FoldHigh(hash[i - 1] + a[i] * b[i])
    OBVIOUS
  <2> HIDE DEF Body
  <2>2. \A i \in 0 .. n : hash[i] = IF i = 0 THEN 0 ELSE FoldHigh(hash[i - 1] + a[i] * b[i])
    BY <1>9, <2>1
  <2>3. 0 \in 0 .. n /\ \A i \in 1 .. n : i \in 0 .. n /\ i # 0
    OBVIOUS
  <2> QED
    BY ONLY <2>2, <2>3
<1> DEFINE G == {m \in Nat : m <= n => hash[m] \in Keys}
<1>12. 0 \in G
  BY <1>0, <1>11
<1>13. ASSUME NEW m \in G
       PROVE  m + 1 \in G
  <2> SUFFICES ASSUME m + 1 <= n
               PROVE  hash[m + 1] \in Keys
    OBVIOUS
  <2>1. PICK k \in 1 .. n : k = m + 1 /\ k - 1 = m
    OBVIOUS
  <2>2. hash[k - 1] \in Keys
    <3>1. m \in G /\ m <= n
      OBVIOUS
    <3> QED
      BY <2>1, <3>1
  <2>3. hash[k] = FoldHigh(hash[k - 1] + a[k] * b[k])
    BY <1>11
  <2>4. a[k] \in 0 .. Word - 1 /\ b[k] \in 0 .. Word \div 8
    BY <1>2
  <2> HIDE DEF G
  <2> QED
    BY <2>1, <2>2, <2>3, <2>4, FoldedOnce
<1> HIDE DEF G
<1>14. G = Nat
  BY <1>12, <1>13, NatSetInduction DEF G
<1> QED
  BY <1>10, <1>14 DEF G

(* Points are inserted one after another.                                   *)
LEMMA Inserting ==
  ASSUME NEW S, NEW pts \in Seq(S), NEW b
  PROVE  \E run : /\ run[0] = b /\ \A k \in 1 .. Len(pts) : run[k] = InsertPointAll(run[k - 1], pts[k])
                  /\ FoldLeft(InsertPointAll, b, pts) = run[Len(pts)]
<1>1. PICK n \in Nat : n = Len(pts) /\ DOMAIN pts = 1 .. n
  OBVIOUS
<1> DEFINE Next1(v, k) == InsertPointAll(v, pts[k])
           Fixed(g, m) == \A s \in SUBSET (1 .. m) :
                            g[s] = IF s = {} THEN b ELSE Next1(g[s \ {Highest(s)}], Highest(s))
           Has(m) == m <= n => \E g : Fixed(g, m)
           T == {m \in Nat : Has(m)}
           Body(g) == [s \in SUBSET DOMAIN pts |->
                         IF s = {} THEN b ELSE InsertPointAll(g[s \ {Max(s)}], pts[Max(s)])]
           iter == CHOOSE g : g = Body(g)
<1>3. 0 \in T
  <2>1. \A s \in SUBSET (1 .. 0) : s = {}
    OBVIOUS
  <2>2. Fixed([s \in SUBSET (1 .. 0) |-> b], 0)
    <3> HIDE DEF Next1
    <3> QED
      BY <2>1
  <2> HIDE DEF Fixed
  <2> QED
    BY <2>2
<1>4. ASSUME NEW m \in T
      PROVE  m + 1 \in T
  <2>0. m \in Nat /\ m + 1 \in Nat /\ Has(m)
    <3> HIDE DEF Has
    <3> QED
      OBVIOUS
  <2> HIDE DEF T, Next1
  <2> SUFFICES ASSUME m + 1 <= n
               PROVE  \E g : Fixed(g, m + 1)
    <3> HIDE DEF Fixed
    <3> QED
      BY <2>0 DEF T
  <2>1. PICK h : Fixed(h, m)
    <3>1. m <= n
      BY <2>0
    <3> HIDE DEF Fixed
    <3> QED
      BY <2>0, <3>1
  <2> DEFINE g == [s \in SUBSET (1 .. m + 1) |-> IF m + 1 \in s THEN Next1(h[s \ {m + 1}], m + 1) ELSE h[s]]
  <2>3. \A s \in SUBSET (1 .. m + 1) : /\ s \ {m + 1} \in SUBSET (1 .. m)
                                       /\ m + 1 \notin s => s \in SUBSET (1 .. m)
    BY <2>0
  <2>4. \A s \in SUBSET (1 .. m) : s \in SUBSET (1 .. m + 1) /\ m + 1 \notin s
    BY <2>0
  <2>6. \A s \in SUBSET (1 .. m) : g[s] = h[s]
    BY <2>4
  <2>7. ASSUME NEW s \in SUBSET (1 .. m + 1)
        PROVE  g[s] = IF s = {} THEN b ELSE Next1(g[s \ {Highest(s)}], Highest(s))
    <3>1. CASE m + 1 \in s
      <4>1. Highest(s) = m + 1
        <5>1. \A y \in s : m + 1 >= y
          BY <2>0
        <5>2. s \subseteq Int
          BY <2>0
        <5> QED
          BY <3>1, <5>1, <5>2, HighestIs
      <4>2. g[s \ {m + 1}] = h[s \ {m + 1}]
        BY <2>3, <2>6
      <4>3. g[s] = Next1(h[s \ {m + 1}], m + 1)
        BY <3>1
      <4> HIDE DEF g
      <4> QED
        BY <3>1, <4>1, <4>2, <4>3
    <3>2. CASE m + 1 \notin s
      <4>1. s \in SUBSET (1 .. m) /\ s \ {Highest(s)} \in SUBSET (1 .. m)
        BY <2>3, <3>2
      <4>2. g[s] = h[s] /\ g[s \ {Highest(s)}] = h[s \ {Highest(s)}]
        BY <2>6, <4>1
      <4> HIDE DEF g
      <4> QED
        BY <2>1, <4>1, <4>2
    <3> QED
      BY <3>1, <3>2
  <2> HIDE DEF g
  <2> QED
    BY <2>7
<1> HIDE DEF T, Has
<1>5. T = Nat
  BY <1>3, <1>4, NatSetInduction DEF T
<1>6. Has(n) /\ n <= n
  BY <1>5 DEF T
<1>7. PICK g1 : Fixed(g1, n)
  <2> HIDE DEF Fixed
  <2> QED
    BY <1>6 DEF Has
<1> DEFINE g0 == [s \in SUBSET (1 .. n) |-> g1[s]]
<1>8. \A s \in SUBSET (1 .. n) : Max(s) = Highest(s)
  BY DEF Max, Highest
<1>9. \A g, s : s \in SUBSET (1 .. n) =>
        Body(g)[s] = IF s = {} THEN b ELSE Next1(g[s \ {Max(s)}], Max(s))
  BY <1>1
<1>10. \A g : Body(g) = [s \in SUBSET (1 .. n) |-> Body(g)[s]]
  BY <1>1
<1> HIDE DEF Next1, Body
<1>11. g0 = Body(g0)
  <2>1. ASSUME NEW s \in SUBSET (1 .. n)
        PROVE  g0[s] = Body(g0)[s]
    <3>1. g0[s \ {Max(s)}] = g1[s \ {Max(s)}] /\ g0[s] = g1[s]
      OBVIOUS
    <3>2. g1[s] = IF s = {} THEN b ELSE Next1(g1[s \ {Max(s)}], Max(s))
      BY <1>7, <1>8
    <3> HIDE DEF g0
    <3> QED
      BY <1>9, <3>1, <3>2
  <2>2. g0 = [s \in SUBSET (1 .. n) |-> g0[s]]
    OBVIOUS
  <2>3. Body(g0) = [s \in SUBSET (1 .. n) |-> Body(g0)[s]]
    BY <1>10
  <2> HIDE DEF g0
  <2> QED
    BY ONLY <2>1, <2>2, <2>3
<1>12. iter = Body(iter)
  BY <1>11
<1>13. FoldLeft(InsertPointAll, b, pts) = iter[1 .. n]
  <2>1. FoldLeft(InsertPointAll, b, pts) = iter[DOMAIN pts]
    BY DEF FoldLeft, MapThenFoldSet, Body
  <2> QED
    BY <1>1, <2>1
<1> HIDE DEF iter
<1> DEFINE run == [m \in 0 .. n |-> iter[1 .. m]]
<1>14. run[0] = b
  <2>1. 1 .. 0 = {} /\ 1 .. 0 \in SUBSET (1 .. n)
    OBVIOUS
  <2>2. iter[1 .. 0] = b
    BY <1>9, <1>12, <2>1
  <2>3. run[0] = iter[1 .. 0]
    OBVIOUS
  <2> QED
    BY <2>2, <2>3
<1>15. ASSUME NEW k \in 1 .. n
       PROVE  run[k] = InsertPointAll(run[k - 1], pts[k])
  <2>1. 1 .. k \in SUBSET (1 .. n) /\ (1 .. k) \ {k} = 1 .. k - 1 /\ k \in 1 .. k
        /\ 1 .. k \subseteq Int /\ \A y \in 1 .. k : k >= y
    OBVIOUS
  <2>2. Highest(1 .. k) = k
    BY ONLY <2>1, HighestIs
  <2>3. Max(1 .. k) = k
    BY <1>8, <2>1, <2>2
  <2>4. iter[1 .. k] = Next1(iter[1 .. k - 1], k)
    BY <1>9, <1>12, <2>1, <2>3
  <2>5. run[k] = iter[1 .. k] /\ run[k - 1] = iter[1 .. k - 1]
    OBVIOUS
  <2> HIDE DEF run
  <2> QED
    BY <2>4, <2>5 DEF Next1
<1>16. run[n] = iter[1 .. n]
  OBVIOUS
<1> HIDE DEF run
<1> QED
  BY <1>1, <1>13, <1>14, <1>15, <1>16


Usable(f) ==
  \A j \in 1 .. L, p \in Points : Hashes(f.g[j][p], f.r1[j]) /\ Hashes(f.g[j][p], f.r2[j])

LEMMA FunctionsUsable == Usable(ZeroFuns) /\ \A f \in Drawn : Usable(f)
<1>1. Usable(ZeroFuns)
  <2>0. PICK A, B : A = 0 .. Word - 1 /\ B = 0 .. Word \div 8
    OBVIOUS
  <2>1. 0 \in A /\ 0 \in B
    <3>1. PICK w \in Nat : w = Word /\ w >= 1
      BY NumbersAre
    <3>2. w \div 8 \in Nat
      OBVIOUS
    <3> QED
      BY <2>0, <3>1, <3>2
  <2>2. <<0, 0>> \in Seq(A) /\ <<0, 0>> \in Seq(B)
    BY ONLY <2>1
  <2>3. Hashes(<<0, 0>>, <<0, 0>>)
    BY <2>0, <2>2 DEF Hashes
  <2> QED
    BY <2>3 DEF Usable, ZeroFuns
<1>2. ASSUME NEW f \in Drawn, NEW j \in 1 .. L, NEW p \in Points
      PROVE  Hashes(f.g[j][p], f.r1[j]) /\ Hashes(f.g[j][p], f.r2[j])
  BY DrawnAssumption DEF Hashes
<1> QED
  BY <1>1, <1>2 DEF Usable

LEMMA PointsKey ==
  ASSUME NEW f, Usable(f), NEW j \in 1 .. L, NEW p \in Points
  PROVE  PointKey(f, j, p).t1 \in Rows /\ PointKey(f, j, p).t2 \in Keys
<1>1. Hashes(f.g[j][p], f.r1[j]) /\ Hashes(f.g[j][p], f.r2[j])
  BY DEF Usable
<1>2. PICK x \in Keys, y \in Keys : x = ProductModPrime(f.g[j][p], f.r1[j]) /\ y = ProductModPrime(f.g[j][p], f.r2[j])
  BY <1>1, KeyInRange
<1>3. x % N \in Rows
  <2>1. x \in Nat /\ N \in Nat \ {0}
    BY KeysAreNumbers, NumbersAre
  <2>2. x % N \in 0 .. N - 1
    BY ONLY <2>1
  <2> QED
    BY <2>2 DEF Rows
<1>4. PointKey(f, j, p) = [t1 |-> x % N, t2 |-> y]
  BY <1>2 DEF PointKey, KeyOf
<1> QED
  BY <1>3, <1>4

IsCore(c) == {"funs", "maxp", "tables"} \subseteq DOMAIN c

LEMMA PointInsertedAll ==
  ASSUME NEW c, IsCore(c), Usable(c.funs), NEW p \in Points
  PROVE  LET d == InsertPointAll(c, p)
         IN  IsCore(d) /\ d.funs = c.funs /\ (c.tables \in ListTables => d.tables \in ListTables)
<1> DEFINE row(j) == LET key == PointKey(c.funs, j, p)
                     IN  [c.tables[j] EXCEPT ![key.t1] = InsertPoint(@, key.t2, p, C)]
           new == [j \in 1 .. L |-> row(j)]
<1>1. ASSUME c.tables \in ListTables, NEW j \in 1 .. L
      PROVE  row(j) \in [Rows -> ListRows]
  <2>1. PICK tab \in [Rows -> ListRows] : tab = c.tables[j]
    BY <1>1 DEF ListTables
  <2>2. PICK key : key = PointKey(c.funs, j, p) /\ key.t1 \in Rows /\ key.t2 \in Keys
    BY PointsKey
  <2>3. PICK x : x = InsertPoint(tab[key.t1], key.t2, p, C) /\ x \in ListRows
    BY <2>2, PointInserted
  <2>4. row(j) = [tab EXCEPT ![key.t1] = x]
    BY <2>1, <2>2, <2>3
  <2> HIDE DEF row
  <2> QED
    BY <2>2, <2>3, <2>4
<1>2. c.tables \in ListTables => new \in ListTables
  <2> HIDE DEF row
  <2> QED
    BY <1>1 DEF ListTables
<1>3. InsertPointAll(c, p) = [c EXCEPT !.maxp = p, !.tables = new]
  BY DEF InsertPointAll
<1> HIDE DEF new
<1> QED
  BY <1>2, <1>3 DEF IsCore

LEMMA BatchInserted ==
  ASSUME NEW c, IsCore(c), Usable(c.funs), NEW pts \in Seq(Points)
  PROVE  LET d == FoldLeft(InsertPointAll, c, pts)
         IN  IsCore(d) /\ d.funs = c.funs /\ (c.tables \in ListTables => d.tables \in ListTables)
<1>1. PICK run : /\ run[0] = c /\ \A k \in 1 .. Len(pts) : run[k] = InsertPointAll(run[k - 1], pts[k])
                 /\ FoldLeft(InsertPointAll, c, pts) = run[Len(pts)]
  BY Inserting
<1> DEFINE Good(d) == IsCore(d) /\ d.funs = c.funs /\ (c.tables \in ListTables => d.tables \in ListTables)
           G == {m \in Nat : m <= Len(pts) => Good(run[m])}
<1>2. 0 \in G
  BY <1>1
<1>3. ASSUME NEW m \in G
      PROVE  m + 1 \in G
  <2> HIDE DEF Good
  <2> SUFFICES ASSUME m + 1 <= Len(pts)
               PROVE  Good(run[m + 1])
    OBVIOUS
  <2>1. PICK k \in 1 .. Len(pts) : k = m + 1 /\ k - 1 = m
    OBVIOUS
  <2>2. Good(run[k - 1])
    <3>1. m \in G /\ m <= Len(pts)
      OBVIOUS
    <3> QED
      BY <2>1, <3>1
  <2>3. run[k] = InsertPointAll(run[k - 1], pts[k]) /\ pts[k] \in Points
    BY <1>1
  <2> HIDE DEF G
  <2> QED
    BY <2>1, <2>2, <2>3, PointInsertedAll DEF Good
<1> HIDE DEF G, Good
<1>4. G = Nat
  BY <1>2, <1>3, NatSetInduction DEF G
<1>5. Good(run[Len(pts)])
  <2>1. Len(pts) \in Nat /\ Len(pts) <= Len(pts)
    OBVIOUS
  <2> QED
    BY <1>4, <2>1 DEF G
<1> QED
  BY <1>1, <1>5 DEF Good

LEMMA TokensAre ==
  /\ TokenT1 \in Nat /\ TokenT2 \in Nat /\ TokenEnd \in Nat
  /\ TokenT1 # TokenT2 /\ TokenT1 # TokenEnd /\ TokenT2 # TokenEnd
  /\ Points \subseteq Nat
  /\ \A p \in Points : p < PointLimit /\ p \notin {TokenT1, TokenT2, TokenEnd}
  /\ \A t1 \in Rows : t1 \in Nat /\ ~ (t1 >= N)
  /\ \A n \in 0 .. 2 * C : n \in Nat /\ n \notin {TokenT2, TokenEnd}
<1>1. PICK w \in Nat, l \in Nat, c \in Nat : w = Word /\ l = PointLimit /\ c = C /\ w >= 2 * l /\ l > 7 /\ 2 * c < l
  BY NumbersAre
<1>2. TokenT1 = w - 4 /\ TokenT2 = w - 3 /\ TokenEnd = w - 2
  BY <1>1 DEF TokenT1, TokenT2, TokenEnd
<1>3. \A p \in Points : p \in 0 .. l - 1
  BY <1>1, PointsAssumption
<1>4. \A t1 \in Rows : t1 \in Nat /\ ~ (t1 >= N)
  BY NumbersAre DEF Rows
<1>5. \A n \in 0 .. 2 * c : n \in Nat /\ n < l
  BY <1>1
<1>6. \A p \in Points : p \in Nat /\ p < l
  BY <1>3
<1>7. \A n \in Nat : n < l => n # w - 4 /\ n # w - 3 /\ n # w - 2
  BY <1>1
<1>8. w - 4 \in Nat /\ w - 3 \in Nat /\ w - 2 \in Nat /\ w - 4 # w - 3 /\ w - 4 # w - 2 /\ w - 3 # w - 2
  BY <1>1
<1> QED
  BY ONLY <1>1, <1>2, <1>4, <1>5, <1>6, <1>7, <1>8

IsReader(r) ==
  {"expect", "x", "t1", "n", "t2", "pts", "buckets", "tables", "lists"} \subseteq DOMAIN r

(* A reader in table x, of either mode; what it has made of the tables.     *)
Place(r, lists, x, t1, n, tables) ==
  IsReader(r) /\ r.lists = lists /\ r.x = x /\ r.t1 = t1 /\ r.n = n /\ r.tables = tables

(* It expects a bucket's key, the last one not being higher.                *)
ExpectsKey(r, key, done) ==
  r.expect = "t2" /\ r.t2 \in Nat /\ r.t2 <= key /\ (~ r.lists => r.buckets = done)

(* It has read a bucket up to some point.                                   *)
InBucket(r, key, pts, done) ==
  r.expect = "point" /\ r.t2 = key /\ (IF r.lists THEN r.pts # <<>> <=> pts # <<>> ELSE r.pts = pts /\ r.buckets = done)

LEMMA KeyRead ==
  ASSUME NEW r, NEW lists \in BOOLEAN, NEW x, NEW t1, NEW n, NEW tables, NEW key \in Keys, NEW done,
         Place(r, lists, x, t1, n, tables), ExpectsKey(r, key, done)
  PROVE  LET s == ReadWord2(r, key) IN Place(s, lists, x, t1, n, tables) /\ InBucket(s, key, <<>>, done)
<1>1. key \in Nat /\ ~ (key < r.t2)
  BY KeysAreNumbers DEF ExpectsKey
<1>2. ReadWord2(r, key) = [r EXCEPT !.t2 = key, !.pts = <<>>, !.expect = "point"]
  BY <1>1 DEF ReadWord2, ExpectsKey
<1> QED
  BY <1>2 DEF Place, IsReader, InBucket, ExpectsKey

(* A token behind the element count, or behind a bucket, starts a bucket.   *)
LEMMA BucketBegins ==
  ASSUME NEW r, NEW lists \in BOOLEAN, NEW x, NEW t1, NEW n, NEW tables, NEW key \in Keys, r.expect = "chain",
         Place(r, lists, x, t1, n, tables)
  PROVE  LET s == ReadWord2(r, TokenT2) IN Place(s, lists, x, t1, n, tables) /\ ExpectsKey(s, key, <<>>)
<1>1. ReadWord2(r, TokenT2) = [r EXCEPT !.expect = "t2", !.t2 = 0, !.buckets = <<>>]
  BY DEF ReadWord2, Chain2
<1>2. 0 <= key
  BY KeysAreNumbers
<1> QED
  BY <1>1, <1>2 DEF Place, IsReader, ExpectsKey

LEMMA BucketFollows ==
  ASSUME NEW r, NEW lists \in BOOLEAN, NEW x, NEW t1, NEW n, NEW tables, NEW last \in Keys, NEW key \in Keys,
         NEW pts, NEW done, last <= key, pts # <<>>,
         Place(r, lists, x, t1, n, tables), InBucket(r, last, pts, done)
  PROVE  LET s == ReadWord2(r, TokenT2)
         IN  Place(s, lists, x, t1, n, tables) /\ ExpectsKey(s, key, Append(done, [t2 |-> last, pts |-> pts]))
<1>1. r.pts # <<>> /\ r.t2 = last
  BY DEF InBucket, Place
<1>2. ReadWord2(r, TokenT2) = [EndBucket2(r) EXCEPT !.expect = "t2"]
  BY <1>1, TokensAre DEF ReadWord2, InBucket
<1>3. EndBucket2(r) = IF lists THEN r ELSE [r EXCEPT !.buckets = Append(@, [t2 |-> r.t2, pts |-> r.pts])]
  BY DEF EndBucket2, Place
<1>4. last \in Nat
  BY KeysAreNumbers
<1>5. CASE lists
  <2>1. ReadWord2(r, TokenT2) = [r EXCEPT !.expect = "t2"]
    BY <1>2, <1>3, <1>5
  <2> QED
    BY <1>1, <1>4, <1>5, <2>1 DEF Place, IsReader, ExpectsKey
<1>6. CASE ~ lists
  <2>1. r.buckets = done /\ r.pts = pts
    BY <1>6 DEF InBucket, Place
  <2>2. PICK more : more = Append(done, [t2 |-> last, pts |-> pts])
    OBVIOUS
  <2>3. EndBucket2(r) = [r EXCEPT !.buckets = more]
    BY <1>1, <1>3, <1>6, <2>1, <2>2
  <2>4. ReadWord2(r, TokenT2) = [[r EXCEPT !.buckets = more] EXCEPT !.expect = "t2"]
    BY <1>2, <2>3
  <2> QED
    BY <1>1, <1>4, <1>6, <2>2, <2>4 DEF Place, IsReader, ExpectsKey
<1> QED
  BY <1>5, <1>6

(* One more point of a list.                                                *)
LEMMA PrefixGrows ==
  ASSUME NEW pts \in Seq(Points), NEW l \in Nat, l = Len(pts), NEW m \in Nat, m + 1 <= l
  PROVE  /\ SubSeq(pts, 1, m) \in Seq(Points) /\ Len(SubSeq(pts, 1, m)) = m
         /\ SubSeq(pts, 1, m + 1) = Append(SubSeq(pts, 1, m), pts[m + 1])
OBVIOUS

(* The points of a bucket, for arrays: the tables stay as they are.         *)
LEMMA PointsKept ==
  ASSUME NEW words, NEW run, NEW r0, Reads(run, words, r0), NEW at \in Nat, NEW pts \in Seq(Points),
         Spells(words, at, pts), Len(words) \in Nat,
         NEW x, NEW t1, NEW n, NEW tables, NEW key, NEW done,
         Place(run[at], FALSE, x, t1, n, tables), InBucket(run[at], key, <<>>, done)
  PROVE  Place(run[at + Len(pts)], FALSE, x, t1, n, tables) /\ InBucket(run[at + Len(pts)], key, pts, done)
<1>0. PICK l \in Nat : l = Len(pts) /\ \A i \in 1 .. l : pts[i] \in Points
  OBVIOUS
<1> DEFINE Holds(m) == /\ Place(run[at + m], FALSE, x, t1, n, tables)
                       /\ InBucket(run[at + m], key, SubSeq(pts, 1, m), done)
           G == {m \in Nat : m <= l => Holds(m)}
<1>1. 0 \in G
  <2>1. SubSeq(pts, 1, 0) = <<>> /\ at + 0 = at
    OBVIOUS
  <2> HIDE DEF Place, InBucket
  <2> QED
    BY <2>1
<1>2. ASSUME NEW m \in G
      PROVE  m + 1 \in G
  <2>1. m \in Nat /\ (m <= l => Holds(m))
    <3> HIDE DEF Holds
    <3> QED
      OBVIOUS
  <2> SUFFICES ASSUME m + 1 <= l
               PROVE  Holds(m + 1)
    <3> HIDE DEF Holds
    <3> QED
      BY <2>1
  <2> HIDE DEF G
  <2>2. Holds(m)
    <3>1. m <= l
      BY <2>1
    <3> HIDE DEF Holds
    <3> QED
      BY <2>1, <3>1
  <2>3. PICK r : r = run[at + m]
    OBVIOUS
  <2>4. PICK k \in Nat : k = at + m /\ at + (m + 1) = k + 1 /\ (k + 1) - 1 = k /\ k + 1 \in 1 .. Len(words)
                         /\ words[k + 1] = pts[m + 1]
    <3>1. at + m \in Nat /\ at + (m + 1) = (at + m) + 1 /\ ((at + m) + 1) - 1 = at + m
          /\ m + 1 \in 1 .. l
      BY <1>0, <2>1
    <3>2. at + l <= Len(words) /\ words[at + (m + 1)] = pts[m + 1]
      BY <1>0, <3>1 DEF Spells
    <3>3. (at + m) + 1 \in 1 .. Len(words)
      BY <1>0, <2>1, <3>2
    <3> QED
      BY <3>1, <3>2, <3>3
  <2>5. PICK p \in Points : p = pts[m + 1]
    BY <1>0, <2>1
  <2>6. run[k + 1] = ReadWord2(r, p)
    BY <2>3, <2>4, <2>5 DEF Reads
  <2>7. r.expect = "point" /\ r.lists = FALSE /\ r.pts = SubSeq(pts, 1, m)
    BY <2>2, <2>3 DEF Place, InBucket
  <2>8. PICK more : more = SubSeq(pts, 1, m + 1) /\ more = Append(SubSeq(pts, 1, m), p)
    <3>1. SubSeq(pts, 1, m + 1) = Append(SubSeq(pts, 1, m), pts[m + 1])
      BY ONLY PrefixGrows, <1>0, <2>1, m + 1 <= l, pts \in Seq(Points), l \in Nat, m \in Nat
    <3> QED
      BY <2>5, <3>1
  <2>9. ReadWord2(r, p) = [r EXCEPT !.pts = more]
    <3>1. ReadWord2(r, p) = AddPoint2(r, p)
      BY <2>7, TokensAre DEF ReadWord2
    <3>2. AddPoint2(r, p) = [r EXCEPT !.pts = Append(@, p)]
      BY <2>7 DEF AddPoint2
    <3> QED
      BY <2>7, <2>8, <3>1, <3>2
  <2>10. /\ IsReader(r) /\ r.lists = FALSE /\ r.x = x /\ r.t1 = t1 /\ r.n = n /\ r.tables = tables
         /\ r.expect = "point" /\ r.t2 = key /\ r.buckets = done
    BY <2>2, <2>3 DEF Place, InBucket
  <2> HIDE DEF Holds
  <2>11. Place([r EXCEPT !.pts = more], FALSE, x, t1, n, tables) /\ InBucket([r EXCEPT !.pts = more], key, more, done)
    BY <2>10 DEF Place, IsReader, InBucket
  <2> QED
    BY <2>4, <2>6, <2>8, <2>9, <2>11 DEF Holds
<1> HIDE DEF G
<1>3. G = Nat
  BY <1>1, <1>2, NatSetInduction DEF G
<1>4. Holds(l)
  <2> HIDE DEF Holds
  <2> QED
    BY <1>3 DEF G
<1>5. SubSeq(pts, 1, l) = pts
  BY <1>0
<1> QED
  BY <1>0, <1>4, <1>5

(* A key above all others makes a bucket at the end, and further points go  *)
(* into it.                                                                 *)
LEMMA InsertedLast ==
  ASSUME NEW bs \in Seq(BucketsOf(Keys, Points)), NEW key \in Keys, \A i \in DOMAIN bs : bs[i].t2 < key, NEW p \in Points
  PROVE  /\ BucketInsert(bs, key, p) = Append(bs, [t2 |-> key, pts |-> <<p>>])
         /\ \A pts \in Seq(Points) : BucketInsert(Append(bs, [t2 |-> key, pts |-> pts]), key, p)
                                       = Append(bs, [t2 |-> key, pts |-> Append(pts, p)])
<1>s. PICK S : S = BucketsOf(Keys, Points)
  OBVIOUS
<1>0. PICK n \in Nat : n = Len(bs) /\ DOMAIN bs = 1 .. n /\ bs \in Seq(S)
  BY <1>s
<1>1. key \in Int /\ \A i \in 1 .. n : bs[i].t2 \in Int /\ ~ (bs[i].t2 >= key) /\ bs[i] \in S
  <2>1. \A i \in 1 .. n : bs[i] \in S
    BY <1>0
  <2>2. \A i \in 1 .. n : bs[i].t2 \in Int /\ bs[i].t2 < key
    BY <1>0, <1>s, <2>1, KeysAreNumbers
  <2>3. key \in Int
    BY KeysAreNumbers
  <2> QED
    BY <2>1, <2>2, <2>3
<1>2. {i \in DOMAIN bs : bs[i].t2 >= key} = {}
  BY <1>0, <1>1
<1>3. BucketInsert(bs, key, p) = Append(bs, [t2 |-> key, pts |-> <<p>>])
  BY <1>2 DEF BucketInsert
<1>4. ASSUME NEW pts \in Seq(Points)
      PROVE  BucketInsert(Append(bs, [t2 |-> key, pts |-> pts]), key, p) = Append(bs, [t2 |-> key, pts |-> Append(pts, p)])
  <2>1. PICK e \in S, d \in S : e = [t2 |-> key, pts |-> pts] /\ d = [t2 |-> key, pts |-> Append(pts, p)]
    <3>1. Append(pts, p) \in Seq(Points)
      OBVIOUS
    <3> QED
      BY <1>s, <3>1 DEF BucketsOf
  <2>2. e.t2 = key /\ d = [e EXCEPT !.pts = Append(@, p)]
    <3>1. PICK more : more = Append(pts, p)
      OBVIOUS
    <3>2. [[t2 |-> key, pts |-> pts] EXCEPT !.pts = more] = [t2 |-> key, pts |-> more]
      OBVIOUS
    <3>3. [e EXCEPT !.pts = Append(@, p)] = [e EXCEPT !.pts = more]
      BY <2>1, <3>1
    <3>4. e.t2 = key
      BY <2>1
    <3> QED
      BY <2>1, <3>1, <3>2, <3>3, <3>4
  <2>3. PICK a \in Seq(S) : a = Append(bs, e) /\ DOMAIN a = 1 .. n + 1 /\ a[n + 1] = e /\ \A m \in 1 .. n : a[m] = bs[m]
    <3>1. Append(bs, e) \in Seq(S) /\ Len(Append(bs, e)) = n + 1 /\ Append(bs, e)[n + 1] = e
          /\ \A m \in 1 .. n : Append(bs, e)[m] = bs[m]
      BY ONLY <1>0, bs \in Seq(S), e \in S, n \in Nat
    <3>2. \A q \in Seq(S) : DOMAIN q = 1 .. Len(q)
      OBVIOUS
    <3> QED
      BY ONLY <3>1, <3>2
  <2>4. {m \in DOMAIN a : a[m].t2 >= key} = {n + 1}
    <3>1. n + 1 \in 1 .. n + 1 /\ \A m \in 1 .. n + 1 : m \in 1 .. n \/ m = n + 1
      OBVIOUS
    <3>2. key >= key
      BY <1>1
    <3> QED
      BY <1>1, <2>2, <2>3, <3>1, <3>2
  <2>5. Min({n + 1}) = n + 1
    BY DEF Min
  <2>6. BucketInsert(a, key, p) = [a EXCEPT ![n + 1] = d]
    <3>1. BucketInsert(a, key, p) = [a EXCEPT ![n + 1].pts = Append(@, p)]
      BY <2>2, <2>3, <2>4, <2>5 DEF BucketInsert
    <3>2. n + 1 \in DOMAIN a
      BY <2>3
    <3>3. [a[n + 1] EXCEPT !.pts = Append(@, p)] = d
      BY <2>2, <2>3
    <3> QED
      BY ONLY <3>1, <3>2, <3>3
  <2>7. /\ Append(bs, d) \in Seq(S) /\ Len(Append(bs, d)) = n + 1 /\ Append(bs, d)[n + 1] = d
        /\ \A m \in 1 .. n : Append(bs, d)[m] = bs[m]
    BY ONLY <1>0, bs \in Seq(S), d \in S, n \in Nat
  <2>s. \A T : \A q \in Seq(T) : DOMAIN q = 1 .. Len(q) /\ q = [m \in 1 .. Len(q) |-> q[m]]
    OBVIOUS
  <2>8. PICK z \in Seq(S) : z = Append(bs, d) /\ DOMAIN z = 1 .. n + 1 /\ z = [m \in 1 .. n + 1 |-> z[m]]
    <3>1. PICK z \in Seq(S) : z = Append(bs, d) /\ Len(z) = n + 1
      BY ONLY <2>7
    <3>2. DOMAIN z = 1 .. Len(z) /\ z = [m \in 1 .. Len(z) |-> z[m]]
      BY ONLY <2>s, z \in Seq(S)
    <3> QED
      BY ONLY <3>1, <3>2, z \in Seq(S)
  <2>9. PICK c : c = [a EXCEPT ![n + 1] = d]
    OBVIOUS
  <2>10. DOMAIN c = 1 .. n + 1 /\ c[n + 1] = d /\ (\A m \in 1 .. n : c[m] = a[m]) /\ c = [m \in 1 .. n + 1 |-> c[m]]
    <3>1. DOMAIN a = 1 .. n + 1 /\ n + 1 \in 1 .. n + 1 /\ \A m \in 1 .. n : m \in 1 .. n + 1 /\ m # n + 1
      BY <2>3
    <3>2. c = [m \in DOMAIN a |-> IF m = n + 1 THEN d ELSE a[m]]
      <4>1. a = [m \in DOMAIN a |-> a[m]]
        BY ONLY <2>3, <2>s
      <4> QED
        BY <2>9, <4>1
    <3> QED
      BY ONLY <3>1, <3>2
  <2>12. \A m \in 1 .. n + 1 : c[m] = z[m]
    <3>1. \A m \in 1 .. n + 1 : m \in 1 .. n \/ m = n + 1
      OBVIOUS
    <3> QED
      BY <2>3, <2>7, <2>8, <2>10, <3>1
  <2>13. c = z
    BY ONLY <2>8, <2>10, <2>12
  <2> QED
    BY <2>1, <2>3, <2>6, <2>8, <2>9, <2>13
<1> QED
  BY <1>3, <1>4

(* The tables by table and row.                                             *)
Grid(tables) ==
  tables = [j \in 1 .. L |-> tables[j]] /\ \A j \in 1 .. L : tables[j] = [t \in Rows |-> tables[j][t]]

(* a row is what q points inserted behind the buckets of old make of it.    *)
Lengthened(old, key, q, row) ==
  IF q = <<>> THEN row = old
  ELSE row = [count |-> old.count + Len(q), buckets |-> Append(old.buckets, [t2 |-> key, pts |-> q])]

Above(old, key) == \A i \in DOMAIN old.buckets : old.buckets[i].t2 < key

LEMMA RowLengthened ==
  ASSUME NEW old \in ListRows, NEW key \in Keys, Above(old, key), NEW q \in Seq(Points), NEW p \in Points,
         old.count + Len(q) < C, NEW row, Lengthened(old, key, q, row)
  PROVE  Lengthened(old, key, Append(q, p), InsertPoint(row, key, p, C))
<1>1. PICK bs \in Seq(BucketsOf(Keys, Points)), c \in Nat : old.buckets = bs /\ old.count = c
  BY NumbersAre DEF ListRows
<1>2. \A i \in DOMAIN bs : bs[i].t2 < key
  BY <1>1 DEF Above
<1>3. Append(q, p) # <<>> /\ Len(Append(q, p)) = Len(q) + 1 /\ Len(q) \in Nat
  OBVIOUS
<1>4. row.count < C /\ row.count = c + Len(q)
  BY <1>1 DEF Lengthened
<1>5. InsertPoint(row, key, p, C) = [count |-> row.count + 1, buckets |-> BucketInsert(row.buckets, key, p)]
  BY <1>4 DEF InsertPoint
<1>6. BucketInsert(row.buckets, key, p) = Append(bs, [t2 |-> key, pts |-> Append(q, p)])
  <2>1. CASE q = <<>>
    <3>1. row.buckets = bs /\ Append(q, p) = <<p>>
      BY <1>1, <2>1 DEF Lengthened
    <3> QED
      BY <1>2, <3>1, InsertedLast
  <2>2. CASE q # <<>>
    <3>0. row = [count |-> old.count + Len(q), buckets |-> Append(old.buckets, [t2 |-> key, pts |-> q])]
      BY <2>2 DEF Lengthened
    <3>1. row.buckets = Append(bs, [t2 |-> key, pts |-> q])
      BY ONLY <1>1, <3>0
    <3>2. \A pts \in Seq(Points) : BucketInsert(Append(bs, [t2 |-> key, pts |-> pts]), key, p)
                                     = Append(bs, [t2 |-> key, pts |-> Append(pts, p)])
      BY ONLY <1>2, InsertedLast, key \in Keys, p \in Points, bs \in Seq(BucketsOf(Keys, Points))
    <3>3. BucketInsert(Append(bs, [t2 |-> key, pts |-> q]), key, p) = Append(bs, [t2 |-> key, pts |-> Append(q, p)])
      BY ONLY <3>2, q \in Seq(Points)
    <3> QED
      BY ONLY <3>1, <3>3
  <2> QED
    BY <2>1, <2>2
<1>7. row.count + 1 = c + Len(Append(q, p))
  BY <1>3, <1>4
<1> QED
  BY <1>1, <1>3, <1>5, <1>6, <1>7 DEF Lengthened

(* The points of a bucket, for lists: they are inserted into their row.     *)
LEMMA PointsListed ==
  ASSUME NEW words, NEW run, NEW r0, Reads(run, words, r0), NEW at \in Nat, NEW pts \in Seq(Points),
         Spells(words, at, pts), Len(words) \in Nat,
         NEW x \in 1 .. L, NEW t1 \in Rows, NEW n, NEW tables, Grid(tables), NEW key \in Keys, NEW done,
         Place(run[at], TRUE, x, t1, n, tables), InBucket(run[at], key, <<>>, done),
         tables[x][t1] \in ListRows
  PROVE  \E row \in ListRows :
           /\ Place(run[at + Len(pts)], TRUE, x, t1, n, [tables EXCEPT ![x][t1] = row])
           /\ InBucket(run[at + Len(pts)], key, pts, done)
           /\ (Above(tables[x][t1], key) /\ tables[x][t1].count + Len(pts) <= C)
                => Lengthened(tables[x][t1], key, pts, row)
<1>0. PICK l \in Nat : l = Len(pts) /\ \A i \in 1 .. l : pts[i] \in Points
  OBVIOUS
<1>o. PICK old \in ListRows, c \in Nat : old = tables[x][t1] /\ c = old.count
  BY NumbersAre DEF ListRows
<1> DEFINE Room == Above(old, key) /\ c + l <= C
           With(row) == [tables EXCEPT ![x][t1] = row]
           Holds(m) == \E row \in ListRows : /\ Place(run[at + m], TRUE, x, t1, n, With(row))
                                             /\ InBucket(run[at + m], key, SubSeq(pts, 1, m), done)
                                             /\ Room => Lengthened(old, key, SubSeq(pts, 1, m), row)
           G == {m \in Nat : m <= l => Holds(m)}
<1>1. 0 \in G
  <2>1. SubSeq(pts, 1, 0) = <<>> /\ at + 0 = at
    OBVIOUS
  <2>2. With(old) = tables
    BY <1>o DEF Grid
  <2>3. Lengthened(old, key, <<>>, old)
    BY DEF Lengthened
  <2> HIDE DEF Place, InBucket, With, Room
  <2>4. Holds(0)
    BY <2>1, <2>2, <2>3
  <2> HIDE DEF Holds
  <2> QED
    BY <2>4
<1>2. ASSUME NEW m \in G
      PROVE  m + 1 \in G
  <2>1. m \in Nat /\ (m <= l => Holds(m))
    <3> HIDE DEF Holds
    <3> QED
      OBVIOUS
  <2> SUFFICES ASSUME m + 1 <= l
               PROVE  Holds(m + 1)
    <3> HIDE DEF Holds
    <3> QED
      BY <2>1
  <2> HIDE DEF G
  <2>2. Holds(m)
    <3>1. m <= l
      BY <2>1
    <3> HIDE DEF Holds
    <3> QED
      BY <2>1, <3>1
  <2>3. PICK r, q : r = run[at + m] /\ q = SubSeq(pts, 1, m)
    OBVIOUS
  <2>a. PICK row \in ListRows : Place(r, TRUE, x, t1, n, With(row)) /\ InBucket(r, key, q, done)
                                /\ (Room => Lengthened(old, key, q, row))
    <3> HIDE DEF Place, InBucket, With, Room
    <3> QED
      BY <2>2, <2>3
  <2>4. PICK k \in Nat : k = at + m /\ at + (m + 1) = k + 1 /\ (k + 1) - 1 = k /\ k + 1 \in 1 .. Len(words)
                         /\ words[k + 1] = pts[m + 1]
    <3>1. at + m \in Nat /\ at + (m + 1) = (at + m) + 1 /\ ((at + m) + 1) - 1 = at + m
          /\ m + 1 \in 1 .. l
      BY ONLY <1>0, <2>1, at \in Nat, l \in Nat, m + 1 <= l
    <3>2. at + l <= Len(words) /\ words[at + (m + 1)] = pts[m + 1]
      BY <1>0, <3>1 DEF Spells
    <3>3. (at + m) + 1 \in 1 .. Len(words)
      BY <1>0, <2>1, <3>2
    <3> QED
      BY <3>1, <3>2, <3>3
  <2>5. PICK p \in Points : p = pts[m + 1]
    BY <1>0, <2>1
  <2>6. run[k + 1] = ReadWord2(r, p)
    BY <2>3, <2>4, <2>5 DEF Reads
  <2>7. r.expect = "point" /\ r.lists = TRUE /\ r.tables = With(row) /\ r.x = x /\ r.t1 = t1 /\ r.t2 = key
    BY <2>a DEF Place, InBucket
  <2>8. q \in Seq(Points) /\ Len(q) = m /\ SubSeq(pts, 1, m + 1) = Append(q, p)
    BY ONLY PrefixGrows, <1>0, <2>1, <2>3, <2>5, m + 1 <= l, pts \in Seq(Points), l \in Nat, m \in Nat
  <2>9. PICK new \in ListRows : new = InsertPoint(row, key, p, C)
    BY PointInserted
  <2>10. DOMAIN With(row) = 1 .. L /\ DOMAIN With(row)[x] = Rows /\ With(row)[x][t1] = row
         /\ [With(row) EXCEPT ![x][t1] = new] = With(new)
    BY DEF Grid
  <2>11. ReadWord2(r, p) = [r EXCEPT !.tables = With(new), !.pts = <<p>>]
    <3>1. ReadWord2(r, p) = AddPoint2(r, p)
      BY <2>7, TokensAre DEF ReadWord2
    <3>2. AddPoint2(r, p) = [r EXCEPT !.tables[r.x][r.t1] = ListInsert(@, r.t2, p), !.pts = <<p>>]
      BY <2>7 DEF AddPoint2
    <3>3. IsList(row)
      BY DEF ListRows, IsList
    <3>4. ListInsert(row, key, p) = new
      BY <2>9, <3>3 DEF ListInsert
    <3> HIDE DEF With
    <3>5. [r.tables EXCEPT ![x][t1] = ListInsert(@, key, p)] = With(new)
      <4>1. PICK tb : tb = With(row)
        OBVIOUS
      <4>2. [tb EXCEPT ![x][t1] = ListInsert(@, key, p)] = [tb EXCEPT ![x][t1] = ListInsert(tb[x][t1], key, p)]
        OBVIOUS
      <4>3. ListInsert(tb[x][t1], key, p) = new
        BY <2>10, <3>4, <4>1
      <4> QED
        BY <2>7, <2>10, <4>1, <4>2, <4>3
    <3>6. AddPoint2(r, p) = [r EXCEPT !.tables = With(new), !.pts = <<p>>]
      BY <2>7, <3>2, <3>5
    <3> QED
      BY <3>1, <3>6
  <2>12. IsReader(r) /\ r.n = n
    BY <2>a DEF Place
  <2>13. Place([r EXCEPT !.tables = With(new), !.pts = <<p>>], TRUE, x, t1, n, With(new))
    <3> HIDE DEF With
    <3> QED
      BY <2>7, <2>12 DEF Place, IsReader
  <2>14. InBucket([r EXCEPT !.tables = With(new), !.pts = <<p>>], key, Append(q, p), done)
    <3>1. <<p>> # <<>> /\ Append(q, p) # <<>>
      BY <2>8
    <3> HIDE DEF With
    <3> QED
      BY <2>7, <2>12, <3>1 DEF InBucket, IsReader
  <2>15. Room => Lengthened(old, key, Append(q, p), new)
    <3> SUFFICES ASSUME Room PROVE Lengthened(old, key, Append(q, p), new)
      OBVIOUS
    <3>1. old.count + Len(q) < C
      <4>1. C \in Nat /\ c + l <= C /\ m + 1 <= l
        BY NumbersAre
      <4>2. PICK u \in Nat : u = Len(q) /\ u = m
        BY ONLY <1>0, <2>1, <2>8
      <4>3. c + u < C
        BY ONLY <4>1, <4>2, c \in Nat, l \in Nat, u \in Nat
      <4> QED
        BY ONLY <1>o, <4>2, <4>3
    <3>2. Above(old, key) /\ Lengthened(old, key, q, row)
      BY <2>a
    <3> HIDE DEF Room
    <3> QED
      BY <2>8, <2>9, <3>1, <3>2, RowLengthened
  <2>16. run[at + (m + 1)] = [r EXCEPT !.tables = With(new), !.pts = <<p>>]
    BY <2>4, <2>6, <2>11
  <2> HIDE DEF With, Room
  <2> QED
    BY <2>8, <2>13, <2>14, <2>15, <2>16
<1> HIDE DEF G
<1>3. G = Nat
  BY <1>1, <1>2, NatSetInduction DEF G
<1>4. Holds(l)
  <2> HIDE DEF Holds
  <2> QED
    BY <1>3 DEF G
<1>5. SubSeq(pts, 1, l) = pts
  BY <1>0
<1>6. PICK row \in ListRows : /\ Place(run[at + l], TRUE, x, t1, n, [tables EXCEPT ![x][t1] = row])
                              /\ InBucket(run[at + l], key, pts, done)
                              /\ Above(old, key) /\ c + l <= C => Lengthened(old, key, pts, row)
  BY <1>4, <1>5
<1> QED
  BY <1>0, <1>o, <1>6

(* One word is read.                                                        *)
LEMMA WordRead ==
  ASSUME NEW words \in Seq(Nat), NEW run, NEW r0, Reads(run, words, r0), NEW at \in Nat, at + 1 <= Len(words)
  PROVE  run[at + 1] = ReadWord2(run[at], words[at + 1])
<1>1. PICK k \in Nat : k = at + 1 /\ k \in 1 .. Len(words) /\ k - 1 = at
  OBVIOUS
<1> QED
  BY <1>1 DEF Reads

(* A bucket with its token, key and points.                                 *)
BucketWords(b) == <<TokenT2, b.t2>> \o b.pts

LEMMA BucketSpelt ==
  ASSUME NEW words \in Seq(Nat), NEW at \in Nat, NEW b \in BucketsOf(Keys, Points), Spells(words, at, BucketWords(b))
  PROVE  /\ at + 2 + Len(b.pts) <= Len(words) /\ words[at + 1] = TokenT2 /\ words[at + 2] = b.t2
         /\ Spells(words, at + 2, b.pts) /\ BucketWords(b) \in Seq(Nat) /\ Len(BucketWords(b)) = 2 + Len(b.pts)
<1>1. TokenT2 \in Nat /\ b.t2 \in Nat /\ b.pts \in Seq(Points) /\ Points \subseteq Nat
  BY TokensAre, KeysAreNumbers
<1>2. PICK h \in Seq(Nat) : h = <<TokenT2, b.t2>> /\ Len(h) = 2 /\ h[1] = TokenT2 /\ h[2] = b.t2
  <2>1. \A a, c \in Nat : <<a, c>> \in Seq(Nat) /\ Len(<<a, c>>) = 2 /\ <<a, c>>[1] = a /\ <<a, c>>[2] = c
    OBVIOUS
  <2>2. <<TokenT2, b.t2>> \in Seq(Nat) /\ Len(<<TokenT2, b.t2>>) = 2
        /\ <<TokenT2, b.t2>>[1] = TokenT2 /\ <<TokenT2, b.t2>>[2] = b.t2
    BY <1>1
  <2> QED
    BY ONLY <2>2
<1>3. PICK p \in Seq(Nat) : p = b.pts
  <2>1. \A S, T : S \subseteq T => Seq(S) \subseteq Seq(T)
    OBVIOUS
  <2> QED
    BY ONLY <1>1, <2>1
<1>4. Spells(words, at, h) /\ Spells(words, at + 2, p)
  <2>1. Spells(words, at, h \o p)
    BY <1>2, <1>3 DEF BucketWords
  <2> QED
    BY <1>2, <2>1, SpellsParts
<1>5. at + 2 + Len(p) <= Len(words) /\ words[at + 1] = h[1] /\ words[at + 2] = h[2]
  <2>1. \A m \in 1 .. 2 : words[at + m] = h[m]
    BY ONLY <1>2, <1>4 DEF Spells
  <2>2. 1 \in 1 .. 2 /\ 2 \in 1 .. 2
    OBVIOUS
  <2> QED
    BY ONLY <1>4, <2>1, <2>2 DEF Spells
<1>6. h \o p \in Seq(Nat) /\ Len(h \o p) = 2 + Len(p)
  BY <1>2
<1> QED
  BY <1>2, <1>3, <1>4, <1>5, <1>6 DEF BucketWords

Put(tables, x, t1, row) == [tables EXCEPT ![x][t1] = row]

LEMMA Putting ==
  ASSUME NEW tables, Grid(tables), NEW x \in 1 .. L, NEW t1 \in Rows, NEW row
  PROVE  /\ Grid(Put(tables, x, t1, row)) /\ Put(tables, x, t1, row)[x][t1] = row
         /\ \A new : Put(Put(tables, x, t1, row), x, t1, new) = Put(tables, x, t1, new)
         /\ Put(tables, x, t1, tables[x][t1]) = tables
         /\ \A j \in 1 .. L, t \in Rows : j # x \/ t # t1 => Put(tables, x, t1, row)[j][t] = tables[j][t]
BY DEF Grid, Put

(* What a bucket makes of its row.                                          *)
Added(lists, old, b, new) ==
  IF lists THEN /\ new \in ListRows
                /\ (Above(old, b.t2) /\ old.count + Len(b.pts) <= C)
                     => new = [count |-> old.count + Len(b.pts), buckets |-> Append(old.buckets, b)]
  ELSE new = old

LEMMA BucketRead ==
  ASSUME NEW words \in Seq(Nat), NEW run, NEW r0, Reads(run, words, r0), NEW at \in Nat,
         NEW b \in BucketsOf(Keys, Points), b.pts # <<>>, Spells(words, at, BucketWords(b)), NEW lists \in BOOLEAN,
         NEW x \in 1 .. L, NEW t1 \in Rows, NEW n, NEW tables, Grid(tables), NEW done,
         Place(ReadWord2(run[at], TokenT2), lists, x, t1, n, tables),
         ExpectsKey(ReadWord2(run[at], TokenT2), b.t2, done),
         lists => tables[x][t1] \in ListRows
  PROVE  \E row : /\ Place(run[at + Len(BucketWords(b))], lists, x, t1, n, Put(tables, x, t1, row))
                  /\ InBucket(run[at + Len(BucketWords(b))], b.t2, b.pts, done)
                  /\ Added(lists, tables[x][t1], b, row)
<1>1. b.t2 \in Keys /\ b.pts \in Seq(Points) /\ b = [t2 |-> b.t2, pts |-> b.pts] /\ Len(b.pts) \in Nat
  <2>1. \A K, P : \A e \in [t2 : K, pts : Seq(P)] : e.t2 \in K /\ e.pts \in Seq(P) /\ e = [t2 |-> e.t2, pts |-> e.pts]
    OBVIOUS
  <2>2. b.t2 \in Keys /\ b.pts \in Seq(Points) /\ b = [t2 |-> b.t2, pts |-> b.pts]
    BY ONLY <2>1, b \in BucketsOf(Keys, Points) DEF BucketsOf
  <2> QED
    BY ONLY <2>2
<1>b. /\ at + 2 + Len(b.pts) <= Len(words) /\ words[at + 1] = TokenT2 /\ words[at + 2] = b.t2
      /\ Spells(words, at + 2, b.pts) /\ BucketWords(b) \in Seq(Nat) /\ Len(BucketWords(b)) = 2 + Len(b.pts)
  BY ONLY BucketSpelt, words \in Seq(Nat), at \in Nat, b \in BucketsOf(Keys, Points), Spells(words, at, BucketWords(b))
<1>l. PICK l \in Nat, ll \in Nat : l = Len(b.pts) /\ ll = Len(words)
  <2>1. \A s \in Seq(Nat) : Len(s) \in Nat
    OBVIOUS
  <2>2. Len(words) \in Nat
    BY ONLY <2>1, words \in Seq(Nat)
  <2> QED
    BY ONLY <1>1, <2>2
<1>2. PICK k \in Nat : k = at + 1 /\ k + 1 = at + 2 /\ at + Len(BucketWords(b)) = (k + 1) + Len(b.pts)
  <2>1. PICK k \in Nat : k = at + 1
    OBVIOUS
  <2>2. PICK m : m = Len(BucketWords(b)) /\ m = 2 + l
    BY ONLY <1>b, <1>l
  <2>3. k + 1 = at + 2 /\ at + m = (k + 1) + l
    BY ONLY <2>1, <2>2, k \in Nat, l \in Nat, at \in Nat
  <2> QED
    BY ONLY <2>1, <2>2, <2>3, <1>l, k \in Nat
<1>3. run[k] = ReadWord2(run[at], TokenT2) /\ run[k + 1] = ReadWord2(run[k], b.t2)
  <2>1. at + 2 <= Len(words) /\ k + 1 <= Len(words) /\ at + 1 <= Len(words)
    <3>1. at + 2 + l <= ll
      BY ONLY <1>b, <1>l
    <3>2. at + 2 <= ll /\ k + 1 <= ll /\ at + 1 <= ll
      BY ONLY <3>1, <1>2, l \in Nat, ll \in Nat, at \in Nat, k \in Nat
    <3> QED
      BY ONLY <3>2, <1>l
  <2>2. \A i \in Nat : i + 1 <= Len(words) => run[i + 1] = ReadWord2(run[i], words[i + 1])
    BY ONLY WordRead, words \in Seq(Nat), Reads(run, words, r0)
  <2> QED
    BY ONLY <1>b, <1>2, <2>1, <2>2, k \in Nat, at \in Nat
<1>4. Place(run[k + 1], lists, x, t1, n, tables) /\ InBucket(run[k + 1], b.t2, <<>>, done)
  <2>1. \A r : (Place(r, lists, x, t1, n, tables) /\ ExpectsKey(r, b.t2, done)) =>
               Place(ReadWord2(r, b.t2), lists, x, t1, n, tables) /\ InBucket(ReadWord2(r, b.t2), b.t2, <<>>, done)
    BY ONLY <1>1, KeyRead, lists \in BOOLEAN
  <2> QED
    BY ONLY <1>3, <2>1, Place(ReadWord2(run[at], TokenT2), lists, x, t1, n, tables),
            ExpectsKey(ReadWord2(run[at], TokenT2), b.t2, done)
<1>5. Spells(words, k + 1, b.pts) /\ Len(words) \in Nat
  BY ONLY <1>2, <1>b, <1>l, ll \in Nat
<1>6. CASE lists
  <2>1. Place(run[k + 1], TRUE, x, t1, n, tables) /\ tables[x][t1] \in ListRows
    BY <1>4, <1>6
  <2>2. PICK row \in ListRows :
           /\ Place(run[(k + 1) + Len(b.pts)], TRUE, x, t1, n, [tables EXCEPT ![x][t1] = row])
           /\ InBucket(run[(k + 1) + Len(b.pts)], b.t2, b.pts, done)
           /\ (Above(tables[x][t1], b.t2) /\ tables[x][t1].count + Len(b.pts) <= C)
                => Lengthened(tables[x][t1], b.t2, b.pts, row)
    <3>1. k + 1 \in Nat
      OBVIOUS
    <3> HIDE DEF Spells, Place, InBucket, Reads, Above, Lengthened
    <3> QED
      BY ONLY <1>1, <1>4, <1>5, <2>1, <3>1, Reads(run, words, r0), x \in 1 .. L, t1 \in Rows, Grid(tables), PointsListed
  <2>3. Added(lists, tables[x][t1], b, row)
    BY <1>1, <1>6, <2>2 DEF Added, Lengthened
  <2> QED
    BY <1>2, <1>6, <2>2, <2>3 DEF Put
<1>7. CASE ~ lists
  <2>1. Place(run[k + 1], FALSE, x, t1, n, tables)
    BY <1>4, <1>7
  <2>2. Place(run[(k + 1) + Len(b.pts)], FALSE, x, t1, n, tables) /\ InBucket(run[(k + 1) + Len(b.pts)], b.t2, b.pts, done)
    <3>1. k + 1 \in Nat
      OBVIOUS
    <3> QED
      BY ONLY <1>1, <1>4, <1>5, <2>1, <3>1, Reads(run, words, r0), PointsKept
  <2>3. Put(tables, x, t1, tables[x][t1]) = tables
    BY Putting
  <2> QED
    BY <1>2, <1>7, <2>2, <2>3 DEF Added
<1> QED
  BY <1>6, <1>7

(* No row counts fewer points than it has buckets.                          *)
LEMMA CountsGrow ==
  ASSUME NEW S, NEW bs \in Seq(S), \A e \in S : Len(e.pts) \in Nat, NEW f, NEW n, Counts(f, bs, n), NEW i \in 0 .. Len(bs)
  PROVE  f[i] \in Nat /\ f[i] <= n /\ n \in Nat /\ (Filled(bs) => f[i] >= i)
<1>0. PICK l \in Nat : l = Len(bs) /\ DOMAIN bs = 1 .. l /\ \A m \in 1 .. l : bs[m] \in S
  OBVIOUS
<1>1. /\ \A m \in 0 .. l : f[m] \in Nat
      /\ f[0] = 0 /\ f[l] = n /\ \A m \in 1 .. l : f[m] = f[m - 1] + Len(bs[m].pts) /\ Len(bs[m].pts) \in Nat
  <2>1. f \in [0 .. l -> Nat]
    BY ONLY <1>0, Counts(f, bs, n) DEF Counts
  <2>2. \A m \in 0 .. l : f[m] \in Nat
    BY ONLY <2>1
  <2> QED
    BY ONLY <1>0, <2>2, \A e \in S : Len(e.pts) \in Nat, Counts(f, bs, n) DEF Counts
<1>p. PICK d : d = [m \in 1 .. l |-> Len(bs[m].pts)]
  OBVIOUS
<1>q. \A m \in 1 .. l : f[m] = f[m - 1] + d[m] /\ d[m] \in Nat /\ d[m] = Len(bs[m].pts) /\ m - 1 \in 0 .. l
  BY ONLY <1>0, <1>1, <1>p, l \in Nat
<1> DEFINE G == {k \in Nat : k <= l => f[k] >= k}
           H == {k \in Nat : i + k <= l => f[i] <= f[i + k]}
<1>2. i \in 0 .. l /\ l - i \in Nat /\ i + (l - i) = l
  BY <1>0
<1>3. ASSUME Filled(bs)
      PROVE  f[i] >= i
  <2>1. \A m \in 1 .. l : d[m] >= 1
    <3>1. \A m \in 1 .. l : Len(bs[m].pts) # 0
      <4>1. \A m \in 1 .. l : bs[m].pts # <<>>
        BY ONLY <1>0, <1>3 DEF Filled
      <4> QED
        BY ONLY <1>0, <1>1, <4>1, EmptySeq
    <3> QED
      BY ONLY <1>q, <3>1
  <2>2. 0 \in G
    BY <1>1
  <2>3. ASSUME NEW k \in G
        PROVE  k + 1 \in G
    <3>1. k \in Nat /\ (k <= l => f[k] >= k)
      OBVIOUS
    <3> SUFFICES ASSUME k + 1 <= l PROVE f[k + 1] >= k + 1
      BY <3>1
    <3> HIDE DEF G
    <3>2. k + 1 \in 1 .. l /\ (k + 1) - 1 = k /\ k \in 0 .. l
      BY <1>0, <3>1
    <3>3. f[k + 1] = f[k] + d[k + 1] /\ d[k + 1] >= 1 /\ d[k + 1] \in Nat /\ f[k] \in Nat
      BY ONLY <1>1, <1>q, <2>1, <3>2
    <3>4. f[k] >= k
      BY <1>0, <3>1, <3>2
    <3> QED
      BY ONLY <3>1, <3>3, <3>4
  <2> HIDE DEF G
  <2>4. G = Nat
    BY ONLY <2>2, <2>3, NatSetInduction DEF G
  <2> QED
    BY ONLY <1>2, <2>4, l \in Nat DEF G
<1>4. f[i] <= n
  <2>1. 0 \in H
    BY <1>0, <1>1, <1>2
  <2>2. ASSUME NEW k \in H
        PROVE  k + 1 \in H
    <3>1. k \in Nat /\ (i + k <= l => f[i] <= f[i + k])
      OBVIOUS
    <3> SUFFICES ASSUME i + (k + 1) <= l PROVE f[i] <= f[i + (k + 1)]
      BY <3>1
    <3> HIDE DEF H
    <3>2. PICK m \in 1 .. l : m = i + (k + 1) /\ m - 1 = i + k /\ i + k \in 0 .. l
      BY <1>0, <1>2, <3>1
    <3>3. f[m] = f[m - 1] + d[m] /\ d[m] \in Nat /\ f[m - 1] \in Nat
      BY ONLY <1>1, <1>q, <3>2, m \in 1 .. l
    <3>4. f[i] <= f[i + k] /\ f[i] \in Nat
      BY <1>0, <1>1, <1>2, <3>1, <3>2
    <3> QED
      BY ONLY <3>2, <3>3, <3>4
  <2> HIDE DEF H
  <2>3. H = Nat
    BY ONLY <2>1, <2>2, NatSetInduction DEF H
  <2>4. PICK k \in Nat : i + k = l
    BY <1>2
  <2>5. \A m \in Nat : i + m <= l => f[i] <= f[i + m]
    BY ONLY <2>3 DEF H
  <2> QED
    <3>1. i + k <= l
      BY ONLY <2>4, l \in Nat
    <3>2. f[i] <= f[i + k]
      BY ONLY <2>5, <3>1, k \in Nat
    <3>3. f[i + k] = f[l]
      BY ONLY <2>4
    <3> QED
      BY ONLY <1>1, <3>2, <3>3
<1>5. f[i] \in Nat /\ n \in Nat
  <2>1. l \in 0 .. l
    OBVIOUS
  <2> QED
    BY ONLY <1>1, <1>2, <2>1
<1> QED
  BY ONLY <1>3, <1>4, <1>5

(* What is known of a row as insertions build it.                           *)
LEMMA RowParts ==
  ASSUME NEW row \in ListRows
  PROVE  \E nb \in Nat : \E f :
           /\ nb = Len(row.buckets) /\ DOMAIN row.buckets = 1 .. nb /\ row.buckets \in Seq(BucketsOf(Keys, Points))
           /\ row = [count |-> row.count, buckets |-> row.buckets] /\ row.count \in 0 .. C
           /\ \A i \in 1 .. nb : row.buckets[i] \in BucketsOf(Keys, Points) /\ row.buckets[i].pts # <<>>
           /\ \A i, m \in 1 .. nb : i < m => row.buckets[i].t2 < row.buckets[m].t2
           /\ f[0] = 0 /\ f[nb] = row.count
           /\ \A i \in 1 .. nb : f[i] = f[i - 1] + Len(row.buckets[i].pts)
           /\ \A i \in 0 .. nb : f[i] \in Nat /\ f[i] <= row.count /\ f[i] >= i
<1>1. /\ row = [count |-> row.count, buckets |-> row.buckets] /\ row.count \in 0 .. C
      /\ row.buckets \in Seq(BucketsOf(Keys, Points)) /\ Proper(row.buckets, row.count)
  BY DEF ListRows
<1>2. PICK bs \in Seq(BucketsOf(Keys, Points)) : bs = row.buckets
  BY <1>1
<1>c. PICK c : c = row.count
  OBVIOUS
<1>3. PICK nb \in Nat : nb = Len(bs) /\ DOMAIN bs = 1 .. nb /\ \A i \in 1 .. nb : bs[i] \in BucketsOf(Keys, Points)
  OBVIOUS
<1>4. PICK f : Counts(f, bs, c) /\ Sorted(bs) /\ Filled(bs)
  BY <1>1, <1>2, <1>c DEF Proper
<1>5. \A i \in 0 .. nb : f[i] \in Nat /\ f[i] <= c /\ f[i] >= i
  BY ONLY <1>3, <1>4, CountsGrow, KeysAreNumbers, bs \in Seq(BucketsOf(Keys, Points))
<1>6. f[0] = 0 /\ f[nb] = c /\ \A i \in 1 .. nb : f[i] = f[i - 1] + Len(bs[i].pts)
  BY ONLY <1>3, <1>4 DEF Counts
<1>7. /\ \A i \in 1 .. nb : bs[i].pts # <<>>
      /\ \A i, m \in 1 .. nb : i < m => bs[i].t2 < bs[m].t2
  BY ONLY <1>3, <1>4 DEF Filled, Sorted
<1> QED
  BY ONLY <1>1, <1>2, <1>c, <1>3, <1>5, <1>6, <1>7

LEMMA RowOfNone ==
  ASSUME NEW row \in ListRows, row.count = 0
  PROVE  row = EmptyRow
<1>1. PICK nb \in Nat : \E f : /\ nb = Len(row.buckets) /\ row.buckets \in Seq(BucketsOf(Keys, Points))
                           /\ row = [count |-> row.count, buckets |-> row.buckets]
                           /\ f[nb] = row.count /\ \A i \in 0 .. nb : f[i] \in Nat /\ f[i] >= i
  BY ONLY RowParts, row \in ListRows
<1>2. nb = 0
  <2>1. nb \in 0 .. nb
    OBVIOUS
  <2> QED
    BY ONLY <1>1, <2>1, row.count = 0, nb \in Nat
<1>3. row.buckets = <<>>
  BY ONLY <1>1, <1>2, EmptySeq
<1> QED
  BY <1>1, <1>3 DEF EmptyRow

(* What the first i buckets of a row make of the row they are read into.    *)
Partial(lists, old, bs, f, i, new) ==
  IF lists THEN new \in ListRows /\ (old = EmptyRow => new = [count |-> f[i], buckets |-> SubSeq(bs, 1, i)])
  ELSE new = old

LEMMA OneBucketMore ==
  ASSUME NEW lists \in BOOLEAN, NEW old, NEW nb \in Nat, NEW bs \in Seq(BucketsOf(Keys, Points)), nb = Len(bs), NEW f,
         NEW c \in 0 .. C,
         \A m \in 1 .. nb : f[m] = f[m - 1] + Len(bs[m].pts),
         \A m \in 0 .. nb : f[m] \in Nat /\ f[m] <= c,
         \A m, q \in 1 .. nb : m < q => bs[m].t2 < bs[q].t2,
         NEW i \in Nat, i + 1 <= nb, NEW row, Partial(lists, old, bs, f, i, row),
         NEW new, Added(lists, row, bs[i + 1], new)
  PROVE  Partial(lists, old, bs, f, i + 1, new)
<1>1. CASE ~ lists
  BY <1>1 DEF Partial, Added
<1>2. CASE lists
  <2>1. PICK k \in Nat : k = i + 1 /\ k - 1 = i /\ k \in 1 .. nb /\ i \in 0 .. nb /\ k \in 0 .. nb
    OBVIOUS
  <2>2. new \in ListRows
    BY <1>2 DEF Added
  <2> SUFFICES ASSUME old = EmptyRow
               PROVE  new = [count |-> f[k], buckets |-> SubSeq(bs, 1, k)]
    BY <1>2, <2>1, <2>2 DEF Partial
  <2>3. row = [count |-> f[i], buckets |-> SubSeq(bs, 1, i)]
    BY <1>2 DEF Partial
  <2>4. SubSeq(bs, 1, k) = Append(SubSeq(bs, 1, i), bs[k]) /\ SubSeq(bs, 1, i) \in Seq(BucketsOf(Keys, Points))
        /\ Len(SubSeq(bs, 1, i)) = i /\ \A m \in 1 .. i : SubSeq(bs, 1, i)[m] = bs[m]
    BY <2>1
  <2>5. Above(row, bs[k].t2)
    <3>1. DOMAIN row.buckets = 1 .. i /\ \A m \in 1 .. i : row.buckets[m] = bs[m]
      <4>1. \A T : \A q \in Seq(T) : DOMAIN q = 1 .. Len(q)
        OBVIOUS
      <4>2. DOMAIN SubSeq(bs, 1, i) = 1 .. i
        BY ONLY <2>4, <4>1
      <4>3. row.buckets = SubSeq(bs, 1, i)
        BY <2>3
      <4> QED
        BY ONLY <2>4, <4>2, <4>3
    <3>2. \A m \in 1 .. i : m \in 1 .. nb /\ m < k
      BY <2>1
    <3>3. \A m \in 1 .. i : bs[m].t2 < bs[k].t2
      BY ONLY <2>1, <3>2, \A m, q \in 1 .. nb : m < q => bs[m].t2 < bs[q].t2
    <3> QED
      BY ONLY <3>1, <3>3 DEF Above
  <2>6. row.count + Len(bs[k].pts) = f[k] /\ f[k] <= C
    <3>1. row.count = f[i]
      BY <2>3
    <3>2. f[k] = f[i] + Len(bs[k].pts)
      BY <2>1
    <3>3. f[k] <= c /\ f[k] \in Nat /\ c \in Nat /\ c <= C /\ C \in Nat
      BY <2>1, NumbersAre
    <3> QED
      BY ONLY <3>1, <3>2, <3>3
  <2>7. new = [count |-> row.count + Len(bs[k].pts), buckets |-> Append(row.buckets, bs[k])]
    BY ONLY <1>2, <2>1, <2>5, <2>6, Added(lists, row, bs[i + 1], new) DEF Added
  <2> QED
    BY <2>3, <2>4, <2>6, <2>7
<1> QED
  BY <1>1, <1>2

(* The buckets of a row.                                                    *)
RowBuckets(bs) == FlattenSeq([i \in DOMAIN bs |-> BucketWords(bs[i])])

(* A reader in the last bucket of a row that it read into row t1.           *)
AtRowsEnd(r, lists, x, t1, n, tables, row) ==
  \E new, done : \E last \in BucketsOf(Keys, Points) :
    /\ Place(r, lists, x, t1, n, Put(tables, x, t1, new)) /\ InBucket(r, last.t2, last.pts, done)
    /\ last.pts # <<>> /\ row.buckets = Append(done, last)
    /\ IF lists THEN new \in ListRows /\ (tables[x][t1] = EmptyRow => new = row) ELSE new = tables[x][t1]

LEMMA BucketsRead ==
  ASSUME NEW words \in Seq(Nat), NEW run, NEW r0, Reads(run, words, r0), NEW at \in Nat,
         NEW row \in ListRows, row.count # 0, Spells(words, at, RowBuckets(row.buckets)), NEW lists \in BOOLEAN,
         NEW x \in 1 .. L, NEW t1 \in Rows, NEW n, NEW tables, Grid(tables), lists => tables[x][t1] \in ListRows,
         Place(run[at], lists, x, t1, n, tables), run[at].expect = "chain"
  PROVE  AtRowsEnd(run[at + Len(RowBuckets(row.buckets))], lists, x, t1, n, tables, row)
<1>1. PICK nb \in Nat : \E f :
        /\ nb = Len(row.buckets) /\ DOMAIN row.buckets = 1 .. nb /\ row.buckets \in Seq(BucketsOf(Keys, Points))
        /\ row = [count |-> row.count, buckets |-> row.buckets] /\ row.count \in 0 .. C
        /\ \A i \in 1 .. nb : row.buckets[i] \in BucketsOf(Keys, Points) /\ row.buckets[i].pts # <<>>
        /\ \A i, m \in 1 .. nb : i < m => row.buckets[i].t2 < row.buckets[m].t2
        /\ f[0] = 0 /\ f[nb] = row.count
        /\ \A i \in 1 .. nb : f[i] = f[i - 1] + Len(row.buckets[i].pts)
        /\ \A i \in 0 .. nb : f[i] \in Nat /\ f[i] <= row.count /\ f[i] >= i
  BY ONLY RowParts, row \in ListRows
<1>b. PICK bs \in Seq(BucketsOf(Keys, Points)) : bs = row.buckets
  BY <1>1
<1>c. PICK c \in 0 .. C : c = row.count
  BY <1>1
<1>2. PICK f :
        /\ nb = Len(bs) /\ DOMAIN bs = 1 .. nb
        /\ row = [count |-> c, buckets |-> bs]
        /\ \A i \in 1 .. nb : bs[i] \in BucketsOf(Keys, Points) /\ bs[i].pts # <<>>
        /\ \A i, m \in 1 .. nb : i < m => bs[i].t2 < bs[m].t2
        /\ f[0] = 0 /\ f[nb] = c
        /\ \A i \in 1 .. nb : f[i] = f[i - 1] + Len(bs[i].pts)
        /\ \A i \in 0 .. nb : f[i] \in Nat /\ f[i] <= c /\ f[i] >= i
  BY ONLY <1>1, <1>b, <1>c
<1>3. nb # 0
  BY ONLY <1>2, <1>c, row.count # 0
<1>o. PICK old : old = tables[x][t1]
  OBVIOUS
<1>s. PICK seqs \in [1 .. nb -> Seq(Nat)] : seqs = [i \in DOMAIN bs |-> BucketWords(bs[i])]
  <2>1. \A b \in BucketsOf(Keys, Points) : BucketWords(b) \in Seq(Nat)
    <3> TAKE b \in BucketsOf(Keys, Points)
    <3>1. TokenT2 \in Nat /\ b.t2 \in Nat /\ b.pts \in Seq(Points) /\ Points \subseteq Nat
      BY TokensAre, KeysAreNumbers
    <3>2. \A S, T : S \subseteq T => Seq(S) \subseteq Seq(T)
      OBVIOUS
    <3>3. \A p, q \in Seq(Nat) : p \o q \in Seq(Nat)
      OBVIOUS
    <3>4. <<TokenT2, b.t2>> \in Seq(Nat) /\ b.pts \in Seq(Nat)
      <4>1. <<TokenT2, b.t2>> \in Seq(Nat)
        BY <3>1
      <4> QED
        BY ONLY <3>1, <3>2, <4>1
    <3> QED
      BY ONLY <3>3, <3>4 DEF BucketWords
  <2> QED
    BY ONLY <1>2, <2>1
<1>4. PICK pos \in [0 .. nb -> Nat] :
        /\ pos[0] = at /\ pos[nb] = at + Len(RowBuckets(bs))
        /\ \A i \in 1 .. nb : Spells(words, pos[i - 1], seqs[i]) /\ pos[i] = pos[i - 1] + Len(seqs[i])
  <2>1. RowBuckets(bs) = FlattenSeq(seqs)
    BY ONLY <1>s DEF RowBuckets
  <2>2. Spells(words, at, FlattenSeq(seqs))
    BY ONLY <1>b, <2>1, Spells(words, at, RowBuckets(row.buckets))
  <2>3. \E p : Standing(words, at, nb, seqs, p)
    BY ONLY <2>2, SpellsFlat, words \in Seq(Nat), at \in Nat, nb \in Nat, seqs \in [1 .. nb -> Seq(Nat)]
  <2> QED
    BY ONLY <2>1, <2>3 DEF Standing
<1>5. \A i \in 1 .. nb : i - 1 \in 0 .. nb /\ pos[i - 1] \in Nat
                         /\ Spells(words, pos[i - 1], BucketWords(bs[i])) /\ pos[i] = pos[i - 1] + Len(BucketWords(bs[i]))
  <2>1. \A i \in 1 .. nb : seqs[i] = BucketWords(bs[i])
    BY ONLY <1>2, <1>s
  <2>2. \A i \in 1 .. nb : i - 1 \in 0 .. nb
    OBVIOUS
  <2> QED
    BY ONLY <1>4, <2>1, <2>2
<1> DEFINE Holds(i) == \E new : /\ Place(run[pos[i]], lists, x, t1, n, Put(tables, x, t1, new))
                                /\ IF i = 0 THEN run[pos[i]].expect = "chain"
                                   ELSE InBucket(run[pos[i]], bs[i].t2, bs[i].pts, SubSeq(bs, 1, i - 1))
                                /\ Partial(lists, old, bs, f, i, new)
           G == {i \in Nat : i <= nb => Holds(i)}
<1>6. Holds(0)
  <2>1. Put(tables, x, t1, old) = tables
    BY Putting, <1>o
  <2>2. Partial(lists, old, bs, f, 0, old)
    <3>1. SubSeq(bs, 1, 0) = <<>>
      OBVIOUS
    <3> QED
      BY <1>2, <1>o, <3>1 DEF Partial, EmptyRow
  <2> QED
    BY ONLY <1>4, <2>1, <2>2, Place(run[at], lists, x, t1, n, tables), run[at].expect = "chain"
<1>7. ASSUME NEW i \in Nat, i + 1 <= nb, Holds(i)
      PROVE  Holds(i + 1)
  <2>1. PICK k \in 1 .. nb : k = i + 1 /\ k - 1 = i /\ (i # 0 => i \in 1 .. nb /\ i < k) /\ k # 0
    BY ONLY i \in Nat, nb \in Nat, i + 1 <= nb
  <2>2. PICK new : /\ Place(run[pos[i]], lists, x, t1, n, Put(tables, x, t1, new))
                   /\ IF i = 0 THEN run[pos[i]].expect = "chain"
                      ELSE InBucket(run[pos[i]], bs[i].t2, bs[i].pts, SubSeq(bs, 1, i - 1))
                   /\ Partial(lists, old, bs, f, i, new)
    <3> HIDE DEF Place, InBucket, Partial, Put
    <3> QED
      BY <1>7
  <2>3. PICK T : T = Put(tables, x, t1, new) /\ Grid(T) /\ T[x][t1] = new
                 /\ (\A z : Put(T, x, t1, z) = Put(tables, x, t1, z)) /\ (lists => T[x][t1] \in ListRows)
    <3>1. lists => new \in ListRows
      BY ONLY <2>2 DEF Partial
    <3> QED
      BY ONLY <3>1, Putting, x \in 1 .. L, t1 \in Rows, Grid(tables)
  <2>k. PICK key \in Keys : key = bs[k].t2
    BY <1>2, <2>1, KeysAreNumbers
  <2>4. PICK r, done : r = run[pos[i]] /\ key = bs[k].t2 /\ done = SubSeq(bs, 1, i)
    BY <2>k
  <2>5. Place(ReadWord2(r, TokenT2), lists, x, t1, n, T) /\ ExpectsKey(ReadWord2(r, TokenT2), key, done)
    <3>1. CASE i = 0
      <4>1. done = <<>>
        BY <2>4, <3>1
      <4>2. r.expect = "chain" /\ Place(r, lists, x, t1, n, T)
        BY ONLY <2>2, <2>3, <2>4, <3>1
      <4> QED
        BY ONLY <4>1, <4>2, BucketBegins, lists \in BOOLEAN, key \in Keys
    <3>2. CASE i # 0
      <4>l. PICK last \in Keys : last = bs[i].t2
        BY <1>2, <2>1, <3>2, KeysAreNumbers
      <4>1. PICK pts, d : last = bs[i].t2 /\ pts = bs[i].pts /\ d = SubSeq(bs, 1, i - 1)
        BY <4>l
      <4>2. Place(r, lists, x, t1, n, T) /\ InBucket(r, last, pts, d)
        BY ONLY <2>2, <2>3, <2>4, <3>2, <4>1
      <4>3. last <= key /\ pts # <<>>
        <5>1. last < key
          BY ONLY <1>2, <2>1, <2>4, <3>2, <4>1
        <5>2. last \in Int /\ key \in Int
          BY KeysAreNumbers
        <5> QED
          BY ONLY <1>2, <2>1, <3>2, <4>1, <5>1, <5>2
      <4>4. Place(ReadWord2(r, TokenT2), lists, x, t1, n, T)
            /\ ExpectsKey(ReadWord2(r, TokenT2), key, Append(d, [t2 |-> last, pts |-> pts]))
        BY ONLY <4>2, <4>3, BucketFollows, lists \in BOOLEAN, key \in Keys, last \in Keys
      <4>5. Append(d, [t2 |-> last, pts |-> pts]) = done
        <5>1. bs[i] = [t2 |-> last, pts |-> pts]
          <6>1. \A S : \A e \in BucketsOf(Keys, S) : e = [t2 |-> e.t2, pts |-> e.pts]
            BY DEF BucketsOf
          <6>2. bs[i] \in BucketsOf(Keys, Points)
            BY ONLY <1>2, <2>1, <3>2
          <6> QED
            BY ONLY <4>1, <6>1, <6>2
        <5>2. SubSeq(bs, 1, i) = Append(SubSeq(bs, 1, i - 1), bs[i])
          BY <1>2, <2>1, <3>2
        <5> QED
          BY ONLY <2>4, <4>1, <5>1, <5>2
      <4> QED
        BY ONLY <4>4, <4>5
    <3> QED
      BY <3>1, <3>2
  <2>6. PICK z : /\ Place(run[pos[k]], lists, x, t1, n, Put(T, x, t1, z))
                 /\ InBucket(run[pos[k]], bs[k].t2, bs[k].pts, done)
                 /\ Added(lists, T[x][t1], bs[k], z)
    <3>0. Grid(T) /\ (lists => T[x][t1] \in ListRows)
      BY ONLY <2>3
    <3>1. PICK p \in Nat, b \in BucketsOf(Keys, Points) : p = pos[i] /\ b = bs[k]
      BY <1>2, <1>4, <1>5, <2>1
    <3>2. Spells(words, p, BucketWords(b)) /\ pos[k] = p + Len(BucketWords(b)) /\ b.pts # <<>>
      BY ONLY <1>2, <1>5, <2>1, <3>1
    <3>3. Place(ReadWord2(run[p], TokenT2), lists, x, t1, n, T) /\ ExpectsKey(ReadWord2(run[p], TokenT2), b.t2, done)
      BY ONLY <2>4, <2>5, <3>1
    <3>4. \E z : /\ Place(run[p + Len(BucketWords(b))], lists, x, t1, n, Put(T, x, t1, z))
                 /\ InBucket(run[p + Len(BucketWords(b))], b.t2, b.pts, done)
                 /\ Added(lists, T[x][t1], b, z)
      BY ONLY BucketRead, <3>0, <3>2, <3>3, words \in Seq(Nat), Reads(run, words, r0), p \in Nat,
              b \in BucketsOf(Keys, Points), lists \in BOOLEAN, x \in 1 .. L, t1 \in Rows
    <3> QED
      BY ONLY <3>1, <3>2, <3>4
  <2>7. Partial(lists, old, bs, f, k, z)
    <3>1. Added(lists, new, bs[i + 1], z)
      BY ONLY <2>1, <2>3, <2>6
    <3>2. Partial(lists, old, bs, f, i + 1, z)
      BY ONLY OneBucketMore, <1>2, <1>7, <2>2, <3>1, lists \in BOOLEAN, nb \in Nat, c \in 0 .. C, i \in Nat,
              bs \in Seq(BucketsOf(Keys, Points))
    <3> QED
      BY ONLY <2>1, <3>2
  <2>8. Place(run[pos[k]], lists, x, t1, n, Put(tables, x, t1, z))
    BY ONLY <2>3, <2>6
  <2>9. InBucket(run[pos[k]], bs[k].t2, bs[k].pts, SubSeq(bs, 1, k - 1))
    BY ONLY <2>1, <2>4, <2>6
  <2>10. Holds(k)
    BY ONLY <2>1, <2>7, <2>8, <2>9
  <2> HIDE DEF Holds
  <2> QED
    BY ONLY <2>1, <2>10
<1> HIDE DEF Holds
<1>8. G = Nat
  <2>1. 0 \in G
    BY <1>6
  <2>2. ASSUME NEW i \in G PROVE i + 1 \in G
    <3>1. i \in Nat /\ (i + 1 <= nb => i <= nb) /\ (i <= nb => Holds(i))
      <4>1. i \in Nat /\ (i <= nb => Holds(i))
        BY ONLY i \in G DEF G
      <4> QED
        BY ONLY <4>1, nb \in Nat
    <3>2. i + 1 <= nb => Holds(i + 1)
      BY ONLY <1>7, <3>1
    <3> QED
      BY ONLY <3>1, <3>2 DEF G
  <2> QED
    BY ONLY <2>1, <2>2, NatSetInduction DEF G
<1>9. Holds(nb)
  <2> HIDE DEF Holds
  <2>1. nb \in G /\ nb <= nb
    BY ONLY <1>8, nb \in Nat
  <2> QED
    BY ONLY <2>1 DEF G
<1>10. PICK new : /\ Place(run[pos[nb]], lists, x, t1, n, Put(tables, x, t1, new))
                  /\ InBucket(run[pos[nb]], bs[nb].t2, bs[nb].pts, SubSeq(bs, 1, nb - 1))
                  /\ Partial(lists, old, bs, f, nb, new)
  BY ONLY <1>3, <1>9 DEF Holds
<1>11. PICK last \in BucketsOf(Keys, Points) : last = bs[nb] /\ last.pts # <<>>
  BY <1>2, <1>3
<1>12. bs = Append(SubSeq(bs, 1, nb - 1), bs[nb]) /\ SubSeq(bs, 1, nb) = bs
  BY <1>2, <1>3
<1>13. IF lists THEN new \in ListRows /\ (old = EmptyRow => new = row) ELSE new = old
  BY ONLY <1>2, <1>10, <1>12 DEF Partial
<1> QED
  BY ONLY <1>b, <1>o, <1>4, <1>10, <1>11, <1>12, <1>13, nb \in Nat DEF AtRowsEnd

(* A reader between the rows of table x, tables being what it has made of   *)
(* them.                                                                    *)
Between(r, lists, x, tables) ==
  /\ IsReader(r) /\ r.lists = lists /\ r.x = x
  /\ \/ r.expect = "table" /\ r.tables = tables
     \/ r.expect = "point" /\ r.pts # <<>> /\ EndRow2(EndBucket2(r)).tables = tables

(* A reader behind table x.                                                 *)
Behind(r, lists, x, tables) ==
  /\ IsReader(r) /\ r.lists = lists /\ r.x = x + 1 /\ r.tables = tables
  /\ r.expect = IF x = L THEN "done" ELSE "table"

LEMMA TokenBetween ==
  ASSUME NEW r, NEW lists \in BOOLEAN, NEW x, NEW tables, Between(r, lists, x, tables)
  PROVE  /\ LET s == ReadWord2(r, TokenT1)
            IN  IsReader(s) /\ s.lists = lists /\ s.x = x /\ s.expect = "t1" /\ s.tables = tables
         /\ Behind(ReadWord2(r, TokenEnd), lists, x, tables)
<1>0. IsReader(r) /\ r.lists = lists /\ r.x = x
  BY DEF Between
<1>t. TokenT1 # TokenT2 /\ TokenT1 # TokenEnd /\ TokenT2 # TokenEnd
  BY TokensAre
<1>1. CASE r.expect = "table" /\ r.tables = tables
  <2>1. ReadWord2(r, TokenT1) = [r EXCEPT !.expect = "t1"] /\ ReadWord2(r, TokenEnd) = EndTable2(r)
    BY ONLY <1>1, <1>t DEF ReadWord2
  <2>2. EndTable2(r) = [r EXCEPT !.x = @ + 1, !.expect = IF r.x = L THEN "done" ELSE "table"]
    BY DEF EndTable2
  <2> QED
    BY ONLY <1>0, <1>1, <2>1, <2>2 DEF IsReader, Behind
<1>2. CASE r.expect = "point" /\ r.pts # <<>> /\ EndRow2(EndBucket2(r)).tables = tables
  <2>1. PICK e : e = EndBucket2(r)
    OBVIOUS
  <2>2. IsReader(e) /\ e.lists = lists /\ e.x = x
    BY ONLY <1>0, <2>1 DEF EndBucket2, IsReader
  <2>3. PICK d : d = EndRow2(e)
    OBVIOUS
  <2>4. IsReader(d) /\ d.lists = lists /\ d.x = x
    <3>1. CASE e.lists
      BY ONLY <2>2, <2>3, <3>1 DEF EndRow2
    <3>2. CASE ~ e.lists
      <4>1. \E t : d = [e EXCEPT !.tables = t]
        BY ONLY <2>3, <3>2 DEF EndRow2
      <4> QED
        BY ONLY <2>2, <4>1 DEF IsReader
    <3> QED
      BY <3>1, <3>2
  <2>5. d.tables = tables
    BY ONLY <1>2, <2>1, <2>3
  <2>6. ReadWord2(r, TokenT1) = [d EXCEPT !.expect = "t1"] /\ ReadWord2(r, TokenEnd) = EndTable2(d)
    BY ONLY <1>2, <1>t, <2>1, <2>3 DEF ReadWord2
  <2>7. EndTable2(d) = [d EXCEPT !.x = @ + 1, !.expect = IF d.x = L THEN "done" ELSE "table"]
    BY DEF EndTable2
  <2> QED
    BY ONLY <2>4, <2>5, <2>6, <2>7 DEF IsReader, Behind
<1> QED
  BY <1>1, <1>2 DEF Between

(* The token of a row, its number and its element count.                    *)
LEMMA HeadRead ==
  ASSUME NEW words \in Seq(Nat), NEW run, NEW r0, Reads(run, words, r0), NEW at \in Nat, at + 3 <= Len(words),
         NEW t1 \in Rows, NEW n \in 0 .. 2 * C,
         words[at + 1] = TokenT1, words[at + 2] = t1, words[at + 3] = n,
         NEW lists \in BOOLEAN, NEW x, NEW tables, Between(run[at], lists, x, tables)
  PROVE  Place(run[at + 3], lists, x, t1, n, tables) /\ run[at + 3].expect = "chain"
<1>1. PICK a \in Nat, b \in Nat, c \in Nat : a = at + 1 /\ b = at + 2 /\ c = at + 3 /\ a + 1 = b /\ b + 1 = c
  OBVIOUS
<1>2. a <= Len(words) /\ b <= Len(words) /\ c <= Len(words)
  <2>1. PICK l \in Nat : l = Len(words)
    OBVIOUS
  <2> QED
    BY <1>1, <2>1
<1>3. run[a] = ReadWord2(run[at], TokenT1) /\ run[b] = ReadWord2(run[a], t1) /\ run[c] = ReadWord2(run[b], n)
  <2>1. \A i \in Nat : i + 1 <= Len(words) => run[i + 1] = ReadWord2(run[i], words[i + 1])
    BY ONLY WordRead, words \in Seq(Nat), Reads(run, words, r0)
  <2>2. run[at + 1] = ReadWord2(run[at], words[at + 1]) /\ run[a + 1] = ReadWord2(run[a], words[a + 1])
        /\ run[b + 1] = ReadWord2(run[b], words[b + 1])
    BY ONLY <1>1, <1>2, <2>1, at \in Nat, a \in Nat, b \in Nat
  <2>3. words[a] = TokenT1 /\ words[b] = t1 /\ words[c] = n
    BY <1>1
  <2> QED
    BY ONLY <1>1, <2>2, <2>3
<1>4. PICK r, s : r = run[a] /\ s = run[b]
  OBVIOUS
<1>5. IsReader(r) /\ r.lists = lists /\ r.x = x /\ r.expect = "t1" /\ r.tables = tables
  <2>1. r = ReadWord2(run[at], TokenT1)
    BY ONLY <1>3, <1>4
  <2> QED
    BY ONLY <2>1, TokenBetween, lists \in BOOLEAN, Between(run[at], lists, x, tables)
<1>6. s = [r EXCEPT !.t1 = t1, !.expect = "count"]
  <2>1. ~ (t1 >= N)
    BY TokensAre
  <2>2. s = ReadWord2(r, t1)
    BY ONLY <1>3, <1>4
  <2> QED
    BY ONLY <1>5, <2>1, <2>2 DEF ReadWord2
<1>7. IsReader(s) /\ s.lists = lists /\ s.x = x /\ s.t1 = t1 /\ s.expect = "count" /\ s.tables = tables
  BY ONLY <1>5, <1>6 DEF IsReader
<1>8. run[c] = [s EXCEPT !.n = n, !.expect = "chain"]
  <2>1. n \notin {TokenT2, TokenEnd}
    BY TokensAre
  <2>2. run[c] = ReadWord2(s, n)
    BY ONLY <1>3, <1>4
  <2> QED
    BY ONLY <1>7, <2>1, <2>2 DEF ReadWord2
<1>9. Place([s EXCEPT !.n = n, !.expect = "chain"], lists, x, t1, n, tables)
      /\ [s EXCEPT !.n = n, !.expect = "chain"].expect = "chain"
  BY ONLY <1>7 DEF Place, IsReader
<1> QED
  BY ONLY <1>1, <1>8, <1>9

(* The array of a row.                                                      *)
ArrayOf(row) == [words |-> ArrayWords(row.buckets), allocated |-> AllocatedWords(row.count + Len(row.buckets))]

(* What a row of the file makes of a row in core.                           *)
RowResult(lists, old, row, new) ==
  IF lists THEN new \in ListRows /\ (old = EmptyRow => new = row)
  ELSE new = IF row.count = 0 THEN old ELSE ArrayOf(row)

LEMMA RowWords ==
  ASSUME NEW row \in ListRows, NEW t1 \in Rows
  PROVE  /\ RowBuckets(row.buckets) \in Seq(Nat) /\ row.count + Len(row.buckets) \in 0 .. 2 * C
         /\ EncodeRow2(t1, row) \in Seq(Nat)
         /\ row.count # 0 => EncodeRow2(t1, row) = <<TokenT1, t1, row.count + Len(row.buckets)>> \o RowBuckets(row.buckets)
<1>1. PICK nb \in Nat : \E f :
        /\ nb = Len(row.buckets) /\ DOMAIN row.buckets = 1 .. nb /\ row.buckets \in Seq(BucketsOf(Keys, Points))
        /\ row.count \in 0 .. C /\ f[nb] = row.count
        /\ \A i \in 0 .. nb : f[i] \in Nat /\ f[i] <= row.count /\ f[i] >= i
  BY ONLY RowParts, row \in ListRows
<1>2. nb <= row.count
  <2>1. nb \in 0 .. nb
    OBVIOUS
  <2> QED
    BY ONLY <1>1, <2>1
<1>3. row.count + Len(row.buckets) \in 0 .. 2 * C
  <2>1. PICK c \in Nat, d \in Nat : c = C /\ d = row.count /\ d <= c
    <3>1. C \in Nat
      BY NumbersAre
    <3>2. row.count \in Nat /\ row.count <= C
      BY ONLY <1>1, <3>1
    <3> QED
      BY ONLY <3>1, <3>2
  <2>2. d + nb \in 0 .. 2 * c
    BY ONLY <1>2, <2>1, c \in Nat, d \in Nat, nb \in Nat
  <2> QED
    BY ONLY <1>1, <2>1, <2>2
<1>4. PICK bs \in Seq(BucketsOf(Keys, Points)) : bs = row.buckets /\ DOMAIN bs = 1 .. nb
  BY <1>1
<1>5. [i \in DOMAIN bs |-> BucketWords(bs[i])] \in [1 .. nb -> Seq(Nat)]
  <2>1. \A b \in BucketsOf(Keys, Points) : BucketWords(b) \in Seq(Nat)
    <3> TAKE b \in BucketsOf(Keys, Points)
    <3>1. TokenT2 \in Nat /\ b.t2 \in Nat /\ b.pts \in Seq(Points) /\ Points \subseteq Nat
      BY TokensAre, KeysAreNumbers
    <3>2. \A S, T : S \subseteq T => Seq(S) \subseteq Seq(T)
      OBVIOUS
    <3>3. \A p, q \in Seq(Nat) : p \o q \in Seq(Nat)
      OBVIOUS
    <3>4. <<TokenT2, b.t2>> \in Seq(Nat) /\ b.pts \in Seq(Nat)
      <4>1. <<TokenT2, b.t2>> \in Seq(Nat)
        BY <3>1
      <4> QED
        BY ONLY <3>1, <3>2, <4>1
    <3> QED
      BY ONLY <3>3, <3>4 DEF BucketWords
  <2>2. \A i \in 1 .. nb : bs[i] \in BucketsOf(Keys, Points)
    BY <1>4
  <2> QED
    BY ONLY <1>4, <2>1, <2>2
<1>6. RowBuckets(bs) \in Seq(Nat)
  <2>1. PICK seqs \in [1 .. nb -> Seq(Nat)] : seqs = [i \in DOMAIN bs |-> BucketWords(bs[i])]
    BY <1>5
  <2>2. FlattenSeq(seqs) \in Seq(Nat)
    BY ONLY FlatIsSeq, nb \in Nat, seqs \in [1 .. nb -> Seq(Nat)]
  <2> QED
    BY <2>1, <2>2 DEF RowBuckets
<1>7. PICK h \in Seq(Nat) : h = <<TokenT1, t1, row.count + Len(row.buckets)>>
  <2>1. TokenT1 \in Nat /\ t1 \in Nat
    BY TokensAre
  <2>2. \A a, b, c \in Nat : <<a, b, c>> \in Seq(Nat)
    OBVIOUS
  <2>3. row.count + Len(row.buckets) \in Nat
    BY <1>3, NumbersAre
  <2>4. <<TokenT1, t1, row.count + Len(row.buckets)>> \in Seq(Nat)
    BY ONLY <2>1, <2>2, <2>3
  <2> QED
    BY <2>4
<1>8. h \o RowBuckets(bs) \in Seq(Nat) /\ <<>> \in Seq(Nat)
  BY <1>6
<1>9. EncodeRow2(t1, row) = IF row.count = 0 THEN <<>> ELSE h \o RowBuckets(bs)
  BY <1>4, <1>7 DEF EncodeRow2, RowBuckets, BucketWords
<1> QED
  BY ONLY <1>3, <1>4, <1>6, <1>7, <1>8, <1>9

(* What stands behind the words of a row, for a reader in its last bucket.  *)
LEMMA RowEnds ==
  ASSUME NEW r, NEW lists \in BOOLEAN, NEW x, NEW t1, NEW n, NEW tables,
         NEW last \in BucketsOf(Keys, Points), NEW done, last.pts # <<>>,
         Place(r, lists, x, t1, n, tables), InBucket(r, last.t2, last.pts, done)
  PROVE  Between(r, lists, x, IF lists THEN tables
                              ELSE [tables EXCEPT ![x][t1] = [words |-> ArrayWords(Append(done, last)), allocated |-> AllocatedWords(n)]])
<1>1. /\ IsReader(r) /\ r.lists = lists /\ r.x = x /\ r.t1 = t1 /\ r.n = n /\ r.tables = tables
      /\ r.expect = "point" /\ r.t2 = last.t2
  BY DEF Place, InBucket
<1>2. r.pts # <<>>
  BY ONLY <1>1, last.pts # <<>>, InBucket(r, last.t2, last.pts, done), lists \in BOOLEAN DEF InBucket
<1>3. CASE lists
  <2>1. EndRow2(EndBucket2(r)) = r
    BY ONLY <1>1, <1>3 DEF EndRow2, EndBucket2
  <2> QED
    BY ONLY <1>1, <1>2, <1>3, <2>1 DEF Between
<1>4. CASE ~ lists
  <2>1. r.pts = last.pts /\ r.buckets = done
    BY ONLY <1>1, <1>4, InBucket(r, last.t2, last.pts, done) DEF InBucket
  <2>2. last = [t2 |-> r.t2, pts |-> r.pts]
    <3>1. last = [t2 |-> last.t2, pts |-> last.pts]
      BY DEF BucketsOf
    <3> QED
      BY ONLY <1>1, <2>1, <3>1
  <2>3. PICK bs : bs = Append(done, last)
    OBVIOUS
  <2>4. EndBucket2(r) = [r EXCEPT !.buckets = bs]
    BY ONLY <1>1, <1>4, <2>1, <2>2, <2>3 DEF EndBucket2, IsReader
  <2>5. PICK e : e = [r EXCEPT !.buckets = bs]
    OBVIOUS
  <2>6. e.lists = FALSE /\ e.x = x /\ e.t1 = t1 /\ e.n = n /\ e.tables = tables /\ e.buckets = bs /\ IsReader(e)
    BY ONLY <1>1, <1>4, <2>5 DEF IsReader
  <2>7. PICK array : array = [words |-> ArrayWords(bs), allocated |-> AllocatedWords(n)]
    OBVIOUS
  <2>8. EndRow2(e) = [e EXCEPT !.tables[x][t1] = array]
    BY ONLY <2>6, <2>7 DEF EndRow2
  <2>9. EndRow2(e).tables = [tables EXCEPT ![x][t1] = array]
    BY ONLY <2>6, <2>8 DEF IsReader
  <2> QED
    BY ONLY <1>1, <1>2, <1>4, <2>3, <2>4, <2>5, <2>7, <2>9 DEF Between
<1> QED
  BY <1>3, <1>4

LEMMA RowRead ==
  ASSUME NEW words \in Seq(Nat), NEW run, NEW r0, Reads(run, words, r0), NEW at \in Nat,
         NEW row \in ListRows, NEW t1 \in Rows, Spells(words, at, EncodeRow2(t1, row)), NEW lists \in BOOLEAN,
         NEW x \in 1 .. L, NEW tables, Grid(tables), lists => tables[x][t1] \in ListRows,
         Between(run[at], lists, x, tables)
  PROVE  \E new : /\ Between(run[at + Len(EncodeRow2(t1, row))], lists, x, Put(tables, x, t1, new))
                  /\ RowResult(lists, tables[x][t1], row, new)
<1>o. PICK old : old = tables[x][t1]
  OBVIOUS
<1>1. CASE row.count = 0
  <2>1. Len(EncodeRow2(t1, row)) = 0 /\ at + 0 = at
    BY <1>1 DEF EncodeRow2
  <2>2. Put(tables, x, t1, old) = tables
    BY <1>o, Putting
  <2>3. RowResult(lists, old, row, old)
    BY <1>1, <1>o, RowOfNone DEF RowResult
  <2> QED
    BY ONLY <1>o, <2>1, <2>2, <2>3, Between(run[at], lists, x, tables)
<1>2. CASE row.count # 0
  <2>1. PICK z \in Seq(Nat) : z = RowBuckets(row.buckets)
    BY RowWords
  <2>2. PICK n \in 0 .. 2 * C : n = row.count + Len(row.buckets)
    BY RowWords
  <2>3. EncodeRow2(t1, row) = <<TokenT1, t1, n>> \o z
    BY <1>2, <2>1, <2>2, RowWords
  <2>4. PICK h \in Seq(Nat) : h = <<TokenT1, t1, n>> /\ Len(h) = 3 /\ h[1] = TokenT1 /\ h[2] = t1 /\ h[3] = n
    <3>1. TokenT1 \in Nat /\ t1 \in Nat /\ n \in Nat
      BY TokensAre
    <3>2. <<TokenT1, t1, n>> \in Seq(Nat) /\ Len(<<TokenT1, t1, n>>) = 3 /\ <<TokenT1, t1, n>>[1] = TokenT1
          /\ <<TokenT1, t1, n>>[2] = t1 /\ <<TokenT1, t1, n>>[3] = n
      BY <3>1
    <3> QED
      BY ONLY <3>2
  <2>5. Spells(words, at, h) /\ Spells(words, at + 3, z)
    <3>1. Spells(words, at, h \o z)
      BY ONLY <2>3, <2>4, Spells(words, at, EncodeRow2(t1, row))
    <3>2. Spells(words, at, h) /\ Spells(words, at + Len(h), z)
      BY ONLY <3>1, SpellsParts, words \in Seq(Nat), at \in Nat, h \in Seq(Nat), z \in Seq(Nat)
    <3> QED
      BY ONLY <2>4, <3>2
  <2>6. at + 3 <= Len(words) /\ words[at + 1] = TokenT1 /\ words[at + 2] = t1 /\ words[at + 3] = n
    <3>1. 1 \in 1 .. 3 /\ 2 \in 1 .. 3 /\ 3 \in 1 .. 3
      OBVIOUS
    <3> QED
      BY ONLY <2>4, <2>5, <3>1 DEF Spells
  <2>7. PICK m \in Nat : m = at + 3
    OBVIOUS
  <2>8. Place(run[m], lists, x, t1, n, tables) /\ run[m].expect = "chain"
    <3>1. Place(run[at + 3], lists, x, t1, n, tables) /\ run[at + 3].expect = "chain"
      BY ONLY HeadRead, <2>6, words \in Seq(Nat), Reads(run, words, r0), at \in Nat, t1 \in Rows, n \in 0 .. 2 * C,
              lists \in BOOLEAN, Between(run[at], lists, x, tables)
    <3> QED
      BY ONLY <2>7, <3>1
  <2>9. at + Len(EncodeRow2(t1, row)) = m + Len(z)
    <3>1. Len(h \o z) = 3 + Len(z) /\ Len(z) \in Nat
      BY <2>4
    <3>2. PICK l \in Nat : l = Len(z)
      BY <3>1
    <3>3. at + (3 + l) = m + l
      BY ONLY <2>7, at \in Nat, l \in Nat
    <3> QED
      BY ONLY <2>3, <2>4, <3>1, <3>2, <3>3
  <2>z. Spells(words, m, RowBuckets(row.buckets))
    BY ONLY <2>1, <2>5, <2>7
  <2>p. PICK new, done : \E last \in BucketsOf(Keys, Points) :
           /\ Place(run[m + Len(z)], lists, x, t1, n, Put(tables, x, t1, new))
           /\ InBucket(run[m + Len(z)], last.t2, last.pts, done)
           /\ last.pts # <<>> /\ row.buckets = Append(done, last)
           /\ IF lists THEN new \in ListRows /\ (tables[x][t1] = EmptyRow => new = row) ELSE new = tables[x][t1]
    <3>1. PICK w : w = RowBuckets(row.buckets) /\ w = z
      BY <2>1
    <3>2. AtRowsEnd(run[m + Len(RowBuckets(row.buckets))], lists, x, t1, n, tables, row)
      BY ONLY BucketsRead, <1>2, <2>z, <2>8, words \in Seq(Nat), Reads(run, words, r0), m \in Nat,
              row \in ListRows, lists \in BOOLEAN, x \in 1 .. L, t1 \in Rows, Grid(tables), lists => tables[x][t1] \in ListRows
    <3> QED
      BY ONLY <3>1, <3>2 DEF AtRowsEnd
  <2>10. PICK last \in BucketsOf(Keys, Points) :
           /\ Place(run[m + Len(z)], lists, x, t1, n, Put(tables, x, t1, new))
           /\ InBucket(run[m + Len(z)], last.t2, last.pts, done)
           /\ last.pts # <<>> /\ row.buckets = Append(done, last)
           /\ IF lists THEN new \in ListRows /\ (tables[x][t1] = EmptyRow => new = row) ELSE new = tables[x][t1]
    BY ONLY <2>p
  <2>11. Between(run[m + Len(z)], lists, x,
                 IF lists THEN Put(tables, x, t1, new)
                 ELSE [Put(tables, x, t1, new) EXCEPT ![x][t1] = [words |-> ArrayWords(Append(done, last)), allocated |-> AllocatedWords(n)]])
    BY ONLY RowEnds, <2>10, lists \in BOOLEAN, last \in BucketsOf(Keys, Points)
  <2>12. CASE lists
    BY ONLY <1>o, <2>9, <2>10, <2>11, <2>12 DEF RowResult
  <2>13. CASE ~ lists
    <3>0. new = tables[x][t1]
      BY ONLY <2>10, <2>13
    <3>1. Put(tables, x, t1, new) = tables
      BY ONLY <3>0, Putting, x \in 1 .. L, t1 \in Rows, Grid(tables)
    <3>2. ArrayOf(row) = [words |-> ArrayWords(Append(done, last)), allocated |-> AllocatedWords(n)]
      BY ONLY <2>2, <2>10 DEF ArrayOf
    <3>3. Between(run[m + Len(z)], lists, x, Put(tables, x, t1, ArrayOf(row)))
      BY ONLY <2>11, <2>13, <3>1, <3>2 DEF Put
    <3>4. RowResult(lists, tables[x][t1], row, ArrayOf(row))
      BY ONLY <1>2, <2>13 DEF RowResult
    <3> QED
      BY ONLY <2>9, <3>3, <3>4
  <2> QED
    BY <2>12, <2>13
<1> QED
  BY <1>1, <1>2

TableRows(rows) == FlattenSeq([i \in 1 .. N |-> EncodeRow2(i - 1, rows[i - 1])])

(* What a table of the file makes of table x in core.                       *)
TableResult(lists, x, old, rows, new) ==
  /\ Grid(new) /\ \A j \in 1 .. L : j # x => new[j] = old[j]
  /\ \A t \in Rows : RowResult(lists, old[x][t], rows[t], new[x][t])

(* The same of its first i rows.                                            *)
RowsResult(lists, x, old, rows, i, new) ==
  /\ Grid(new) /\ \A j \in 1 .. L : j # x => new[j] = old[j]
  /\ \A t \in Rows : IF t < i THEN RowResult(lists, old[x][t], rows[t], new[x][t]) ELSE new[x][t] = old[x][t]

LEMMA OneRowMore ==
  ASSUME NEW lists, NEW x \in 1 .. L, NEW old, NEW rows, NEW i \in Rows, NEW mid, RowsResult(lists, x, old, rows, i, mid),
         NEW row, RowResult(lists, mid[x][i], rows[i], row)
  PROVE  RowsResult(lists, x, old, rows, i + 1, Put(mid, x, i, row))
<1>0. \A t \in Rows : t \in Int
  BY DEF Rows
<1>1. Grid(mid)
  BY DEF RowsResult
<1>2. PICK new : new = Put(mid, x, i, row)
  OBVIOUS
<1>3. /\ Grid(new) /\ new[x][i] = row
      /\ \A j \in 1 .. L, t \in Rows : j # x \/ t # i => new[j][t] = mid[j][t]
  BY ONLY Putting, <1>1, <1>2, x \in 1 .. L, i \in Rows
<1>4. \A j \in 1 .. L : j # x => new[j] = old[j]
  <2>1. \A j \in 1 .. L : j # x => new[j] = mid[j]
    BY <1>1, <1>2 DEF Grid, Put
  <2> QED
    BY ONLY <2>1, RowsResult(lists, x, old, rows, i, mid) DEF RowsResult
<1>5. ASSUME NEW t \in Rows
      PROVE  IF t < i + 1 THEN RowResult(lists, old[x][t], rows[t], new[x][t]) ELSE new[x][t] = old[x][t]
  <2>1. IF t < i THEN RowResult(lists, old[x][t], rows[t], mid[x][t]) ELSE mid[x][t] = old[x][t]
    BY DEF RowsResult
  <2>2. t \in Int /\ i \in Int
    BY <1>0
  <2>3. CASE t = i
    <3>1. ~ (t < i) /\ t < i + 1
      BY ONLY <2>2, <2>3
    <3>2. mid[x][i] = old[x][i]
      BY ONLY <2>1, <2>3, <3>1
    <3> QED
      BY ONLY <1>3, <2>3, <3>1, <3>2, RowResult(lists, mid[x][i], rows[i], row)
  <2>4. CASE t # i
    <3>1. (t < i + 1) <=> (t < i)
      BY ONLY <2>2, <2>4
    <3>2. new[x][t] = mid[x][t]
      BY ONLY <1>3, <2>4, t \in Rows, x \in 1 .. L
    <3> QED
      BY ONLY <2>1, <3>1, <3>2
  <2> QED
    BY ONLY <2>3, <2>4
<1> QED
  BY ONLY <1>2, <1>3, <1>4, <1>5 DEF RowsResult

LEMMA RowsRead ==
  ASSUME NEW words \in Seq(Nat), NEW run, NEW r0, Reads(run, words, r0), NEW at \in Nat,
         NEW rows \in [Rows -> ListRows], Spells(words, at, TableRows(rows)), NEW lists \in BOOLEAN,
         NEW x \in 1 .. L, NEW tables, Grid(tables), lists => \A t \in Rows : tables[x][t] \in ListRows,
         Between(run[at], lists, x, tables)
  PROVE  \E new : /\ Between(run[at + Len(TableRows(rows))], lists, x, new)
                  /\ TableResult(lists, x, tables, rows, new)
<1>0. PICK n \in Nat : n = N /\ Rows = 0 .. n - 1
  BY NumbersAre DEF Rows
<1>1. \A i \in 1 .. n : i - 1 \in Rows /\ rows[i - 1] \in ListRows
  <2>1. \A i \in 1 .. n : i - 1 \in Rows
    BY ONLY <1>0, n \in Nat
  <2> QED
    BY ONLY <2>1, rows \in [Rows -> ListRows]
<1>s. PICK seqs \in [1 .. n -> Seq(Nat)] : seqs = [i \in 1 .. N |-> EncodeRow2(i - 1, rows[i - 1])]
  <2>1. \A i \in 1 .. n : EncodeRow2(i - 1, rows[i - 1]) \in Seq(Nat)
    BY ONLY <1>1, RowWords
  <2> QED
    BY ONLY <1>0, <2>1
<1>2. PICK pos : Standing(words, at, n, seqs, pos)
  <2>1. Spells(words, at, FlattenSeq(seqs))
    BY ONLY <1>s, Spells(words, at, TableRows(rows)) DEF TableRows
  <2> QED
    BY ONLY <2>1, SpellsFlat, words \in Seq(Nat), at \in Nat, n \in Nat, seqs \in [1 .. n -> Seq(Nat)]
<1>3. /\ pos \in [0 .. n -> Nat] /\ pos[0] = at /\ pos[n] = at + Len(TableRows(rows))
      /\ \A i \in 1 .. n : Spells(words, pos[i - 1], EncodeRow2(i - 1, rows[i - 1]))
                           /\ pos[i] = pos[i - 1] + Len(EncodeRow2(i - 1, rows[i - 1]))
  <2>1. \A i \in 1 .. n : seqs[i] = EncodeRow2(i - 1, rows[i - 1])
    BY ONLY <1>0, <1>s
  <2> QED
    BY ONLY <1>2, <1>s, <2>1 DEF Standing, TableRows
<1> DEFINE Holds(i) == \E new : Between(run[pos[i]], lists, x, new) /\ RowsResult(lists, x, tables, rows, i, new)
           G == {i \in Nat : i <= n => Holds(i)}
<1>4. Holds(0)
  <2>1. RowsResult(lists, x, tables, rows, 0, tables)
    <3>1. \A t \in Rows : ~ (t < 0)
      BY DEF Rows
    <3> QED
      BY <3>1 DEF RowsResult
  <2> QED
    BY ONLY <1>3, <2>1, Between(run[at], lists, x, tables)
<1>5. ASSUME NEW i \in Nat, i + 1 <= n, Holds(i)
      PROVE  Holds(i + 1)
  <2>1. PICK k \in 1 .. n : k = i + 1 /\ k - 1 = i /\ i \in 0 .. n
    BY ONLY i \in Nat, n \in Nat, i + 1 <= n
  <2>2. PICK mid : Between(run[pos[i]], lists, x, mid) /\ RowsResult(lists, x, tables, rows, i, mid)
    BY ONLY <1>5
  <2>3. i \in Rows /\ rows[i] \in ListRows /\ pos[i] \in Nat
    BY ONLY <1>1, <1>3, <2>1
  <2>4. Grid(mid) /\ mid[x][i] = tables[x][i] /\ (lists => mid[x][i] \in ListRows)
    <3>1. ~ (i < i)
      BY ONLY i \in Nat
    <3>2. Grid(mid) /\ mid[x][i] = tables[x][i]
      BY ONLY <2>2, <2>3, <3>1 DEF RowsResult
    <3> QED
      BY ONLY <2>3, <3>2, lists => \A t \in Rows : tables[x][t] \in ListRows
  <2>5. PICK p \in Nat : p = pos[i]
    BY ONLY <2>3
  <2>6. Spells(words, p, EncodeRow2(i, rows[i])) /\ pos[k] = p + Len(EncodeRow2(i, rows[i]))
    BY ONLY <1>3, <2>1, <2>5
  <2>7. Between(run[p], lists, x, mid)
    BY ONLY <2>2, <2>5
  <2>8. PICK row : Between(run[p + Len(EncodeRow2(i, rows[i]))], lists, x, Put(mid, x, i, row))
                   /\ RowResult(lists, mid[x][i], rows[i], row)
    <3>1. PICK rw \in ListRows : rw = rows[i]
      BY ONLY <2>3
    <3>2. Spells(words, p, EncodeRow2(i, rw))
      BY ONLY <2>6, <3>1
    <3>3. i \in Rows /\ Grid(mid) /\ (lists => mid[x][i] \in ListRows)
      BY ONLY <2>3, <2>4
    <3>4. \E row : Between(run[p + Len(EncodeRow2(i, rw))], lists, x, Put(mid, x, i, row)) /\ RowResult(lists, mid[x][i], rw, row)
      BY ONLY RowRead, <2>7, <3>2, <3>3, words \in Seq(Nat), Reads(run, words, r0), p \in Nat, lists \in BOOLEAN,
              x \in 1 .. L, rw \in ListRows
    <3> QED
      BY ONLY <3>1, <3>4
  <2>9. RowsResult(lists, x, tables, rows, k, Put(mid, x, i, row))
    <3>1. RowsResult(lists, x, tables, rows, i + 1, Put(mid, x, i, row))
      BY ONLY OneRowMore, <2>2, <2>3, <2>8, x \in 1 .. L
    <3> QED
      BY ONLY <2>1, <3>1
  <2>10. Holds(k)
    BY ONLY <2>6, <2>8, <2>9
  <2> HIDE DEF Holds
  <2> QED
    BY ONLY <2>1, <2>10
<1> HIDE DEF Holds
<1>6. G = Nat
  <2>1. 0 \in G
    BY <1>4
  <2>2. ASSUME NEW i \in G PROVE i + 1 \in G
    <3>1. i + 1 <= n => i <= n
      OBVIOUS
    <3> QED
      BY <1>5, <3>1
  <2> QED
    BY ONLY <2>1, <2>2, NatSetInduction DEF G
<1>7. Holds(n)
  BY ONLY <1>6, n \in Nat DEF G
<1>8. PICK new : Between(run[pos[n]], lists, x, new) /\ RowsResult(lists, x, tables, rows, n, new)
  BY ONLY <1>7 DEF Holds
<1>9. \A t \in Rows : t < n
  BY ONLY <1>0, n \in Nat
<1>10. TableResult(lists, x, tables, rows, new)
  BY ONLY <1>8, <1>9 DEF RowsResult, TableResult
<1> QED
  BY ONLY <1>3, <1>8, <1>10

LEMMA TableWords ==
  ASSUME NEW rows \in [Rows -> ListRows]
  PROVE  TableRows(rows) \in Seq(Nat) /\ EncodeTable2(rows) \in Seq(Nat)
<1>0. PICK n \in Nat : n = N /\ Rows = 0 .. n - 1
  BY NumbersAre DEF Rows
<1>1. \A i \in 1 .. n : i - 1 \in Rows /\ rows[i - 1] \in ListRows
  <2>1. \A i \in 1 .. n : i - 1 \in Rows
    BY ONLY <1>0, n \in Nat
  <2> QED
    BY ONLY <2>1, rows \in [Rows -> ListRows]
<1>2. PICK seqs \in [1 .. n -> Seq(Nat)] : seqs = [i \in 1 .. N |-> EncodeRow2(i - 1, rows[i - 1])]
  <2>1. \A i \in 1 .. n : EncodeRow2(i - 1, rows[i - 1]) \in Seq(Nat)
    BY ONLY <1>1, RowWords
  <2> QED
    BY ONLY <1>0, <2>1
<1>3. FlattenSeq(seqs) \in Seq(Nat)
  BY ONLY FlatIsSeq, n \in Nat, seqs \in [1 .. n -> Seq(Nat)]
<1>4. PICK z \in Seq(Nat) : z = TableRows(rows)
  BY ONLY <1>2, <1>3 DEF TableRows
<1>5. <<TokenEnd>> \in Seq(Nat)
  BY TokensAre
<1>6. z \o <<TokenEnd>> \in Seq(Nat)
  BY <1>5
<1> QED
  BY ONLY <1>4, <1>6 DEF EncodeTable2, TableRows

LEMMA TableRead ==
  ASSUME NEW words \in Seq(Nat), NEW run, NEW r0, Reads(run, words, r0), NEW at \in Nat,
         NEW rows \in [Rows -> ListRows], Spells(words, at, EncodeTable2(rows)), NEW lists \in BOOLEAN,
         NEW x \in 1 .. L, NEW tables, Grid(tables), lists => \A t \in Rows : tables[x][t] \in ListRows,
         Between(run[at], lists, x, tables)
  PROVE  \E new : /\ Behind(run[at + Len(EncodeTable2(rows))], lists, x, new)
                  /\ TableResult(lists, x, tables, rows, new)
<1>1. PICK z \in Seq(Nat) : z = TableRows(rows)
  BY TableWords
<1>2. PICK e \in Seq(Nat) : e = <<TokenEnd>> /\ Len(e) = 1 /\ e[1] = TokenEnd
  <2>1. <<TokenEnd>> \in Seq(Nat) /\ Len(<<TokenEnd>>) = 1 /\ <<TokenEnd>>[1] = TokenEnd
    BY TokensAre
  <2> QED
    BY ONLY <2>1
<1>3. EncodeTable2(rows) = z \o e
  BY <1>1, <1>2 DEF EncodeTable2, TableRows
<1>4. Spells(words, at, z) /\ Spells(words, at + Len(z), e)
  <2>1. Spells(words, at, z \o e)
    BY ONLY <1>3, Spells(words, at, EncodeTable2(rows))
  <2> QED
    BY ONLY <2>1, SpellsParts, words \in Seq(Nat), at \in Nat, z \in Seq(Nat), e \in Seq(Nat)
<1>5. PICK p \in Nat : p = at + Len(z)
  OBVIOUS
<1>6. p + 1 <= Len(words) /\ words[p + 1] = TokenEnd
  <2>1. 1 \in 1 .. 1
    OBVIOUS
  <2> QED
    BY ONLY <1>2, <1>4, <1>5, <2>1 DEF Spells
<1>7. PICK new : Between(run[at + Len(TableRows(rows))], lists, x, new) /\ TableResult(lists, x, tables, rows, new)
  <2>1. Spells(words, at, TableRows(rows))
    BY ONLY <1>1, <1>4
  <2> QED
    BY ONLY RowsRead, <2>1, words \in Seq(Nat), Reads(run, words, r0), at \in Nat, rows \in [Rows -> ListRows],
            lists \in BOOLEAN, x \in 1 .. L, Grid(tables), lists => \A t \in Rows : tables[x][t] \in ListRows,
            Between(run[at], lists, x, tables)
<1>8. Between(run[p], lists, x, new)
  BY ONLY <1>1, <1>5, <1>7
<1>9. run[p + 1] = ReadWord2(run[p], TokenEnd)
  BY ONLY WordRead, <1>6, words \in Seq(Nat), Reads(run, words, r0), p \in Nat
<1>10. Behind(run[p + 1], lists, x, new)
  <2>1. PICK r : r = run[p]
    OBVIOUS
  <2>2. Between(r, lists, x, new)
    BY ONLY <1>8, <2>1
  <2>3. Behind(ReadWord2(r, TokenEnd), lists, x, new)
    BY ONLY TokenBetween, <2>2, lists \in BOOLEAN
  <2> QED
    BY ONLY <1>9, <2>1, <2>3
<1>11. at + Len(EncodeTable2(rows)) = p + 1
  <2>1. Len(z \o e) = Len(z) + 1 /\ Len(z) \in Nat
    BY <1>2
  <2>2. PICK l \in Nat : l = Len(z)
    BY <2>1
  <2> QED
    BY ONLY <1>3, <1>5, <2>1, <2>2, l \in Nat, at \in Nat
<1> QED
  BY ONLY <1>7, <1>10, <1>11

(* What the file's tables make of those in core.                            *)
TablesResult(lists, old, T, new) ==
  Grid(new) /\ \A j \in 1 .. L, t \in Rows : RowResult(lists, old[j][t], T[j][t], new[j][t])

(* The same of the first i tables.                                          *)
UpTo(lists, old, T, i, new) ==
  /\ Grid(new)
  /\ \A j \in 1 .. L : IF j <= i THEN \A t \in Rows : RowResult(lists, old[j][t], T[j][t], new[j][t]) ELSE new[j] = old[j]

LEMMA OneTableMore ==
  ASSUME NEW lists, NEW old, NEW T, NEW i \in Nat, i + 1 <= L, NEW mid, UpTo(lists, old, T, i, mid),
         NEW new, TableResult(lists, i + 1, mid, T[i + 1], new)
  PROVE  UpTo(lists, old, T, i + 1, new)
<1>1. PICK k \in 1 .. L : k = i + 1
  BY NumbersAre
<1>2. /\ Grid(new) /\ \A j \in 1 .. L : j # k => new[j] = mid[j]
      /\ \A t \in Rows : RowResult(lists, mid[k][t], T[k][t], new[k][t])
  BY ONLY <1>1, TableResult(lists, i + 1, mid, T[i + 1], new) DEF TableResult
<1>3. mid[k] = old[k]
  <2>1. ~ (k <= i)
    BY ONLY <1>1, i \in Nat
  <2> QED
    BY ONLY <2>1, k \in 1 .. L, UpTo(lists, old, T, i, mid) DEF UpTo
<1>4. ASSUME NEW j \in 1 .. L
      PROVE  IF j <= k THEN \A t \in Rows : RowResult(lists, old[j][t], T[j][t], new[j][t]) ELSE new[j] = old[j]
  <2>1. CASE j = k
    <3>1. j <= k
      BY <2>1
    <3> QED
      BY ONLY <1>2, <1>3, <2>1, <3>1
  <2>2. CASE j # k
    <3>1. (j <= k) <=> (j <= i)
      BY ONLY <1>1, <2>2, i \in Nat, j \in 1 .. L
    <3>2. new[j] = mid[j]
      BY ONLY <1>2, <2>2, j \in 1 .. L
    <3>3. IF j <= i THEN \A t \in Rows : RowResult(lists, old[j][t], T[j][t], mid[j][t]) ELSE mid[j] = old[j]
      BY ONLY j \in 1 .. L, UpTo(lists, old, T, i, mid) DEF UpTo
    <3> QED
      BY ONLY <3>1, <3>2, <3>3
  <2> QED
    BY ONLY <2>1, <2>2
<1> QED
  BY ONLY <1>1, <1>2, <1>4 DEF UpTo

(* All tables, for a reader before the first.                               *)
LEMMA AllRead ==
  ASSUME NEW words \in Seq(Nat), NEW run, NEW r0, Reads(run, words, r0), NEW T \in ListTables,
         Spells(words, 0, EncodeTables2(T)), NEW lists \in BOOLEAN,
         NEW tables, Grid(tables), lists => \A j \in 1 .. L, t \in Rows : tables[j][t] \in ListRows,
         Between(run[0], lists, 1, tables)
  PROVE  \E m \in 0 .. Len(words) : \E new :
           run[m].expect = "done" /\ run[m].tables = new /\ TablesResult(lists, tables, T, new)
<1>0. PICK n \in Nat : n = L /\ n # 0
  BY NumbersAre
<1>1. \A i \in 1 .. n : T[i] \in [Rows -> ListRows]
  BY ONLY <1>0, T \in ListTables DEF ListTables
<1>s. PICK seqs \in [1 .. n -> Seq(Nat)] : seqs = [i \in 1 .. L |-> EncodeTable2(T[i])]
  <2>1. \A i \in 1 .. n : EncodeTable2(T[i]) \in Seq(Nat)
    BY ONLY <1>1, TableWords
  <2> QED
    BY ONLY <1>0, <2>1
<1>2. PICK pos : Standing(words, 0, n, seqs, pos)
  <2>1. Spells(words, 0, FlattenSeq(seqs)) /\ 0 \in Nat
    BY ONLY <1>s, Spells(words, 0, EncodeTables2(T)) DEF EncodeTables2
  <2> QED
    BY ONLY <2>1, SpellsFlat, words \in Seq(Nat), n \in Nat, seqs \in [1 .. n -> Seq(Nat)]
<1>3. /\ pos \in [0 .. n -> Nat] /\ pos[0] = 0 /\ pos[n] = 0 + Len(EncodeTables2(T))
      /\ \A i \in 1 .. n : Spells(words, pos[i - 1], EncodeTable2(T[i]))
                           /\ pos[i] = pos[i - 1] + Len(EncodeTable2(T[i]))
  <2>1. \A i \in 1 .. n : seqs[i] = EncodeTable2(T[i])
    BY ONLY <1>0, <1>s
  <2> QED
    BY ONLY <1>2, <1>s, <2>1 DEF Standing, EncodeTables2
<1> DEFINE Holds(i) == \E new : /\ IF i = 0 THEN Between(run[pos[i]], lists, 1, new) ELSE Behind(run[pos[i]], lists, i, new)
                                /\ UpTo(lists, tables, T, i, new)
           G == {i \in Nat : i <= n => Holds(i)}
<1>4. Holds(0)
  <2>1. UpTo(lists, tables, T, 0, tables)
    <3>1. \A j \in 1 .. L : ~ (j <= 0)
      BY NumbersAre
    <3> QED
      BY <3>1 DEF UpTo
  <2> QED
    BY ONLY <1>3, <2>1, Between(run[0], lists, 1, tables)
<1>5. ASSUME NEW i \in Nat, i + 1 <= n, Holds(i)
      PROVE  Holds(i + 1)
  <2>1. PICK k \in 1 .. n : k = i + 1 /\ k - 1 = i /\ i \in 0 .. n /\ k # 0 /\ i # n
    BY ONLY i \in Nat, n \in Nat, i + 1 <= n
  <2>2. PICK mid : /\ IF i = 0 THEN Between(run[pos[i]], lists, 1, mid) ELSE Behind(run[pos[i]], lists, i, mid)
                   /\ UpTo(lists, tables, T, i, mid)
    BY ONLY <1>5
  <2>3. PICK p \in Nat : p = pos[i]
    BY ONLY <1>3, <2>1
  <2>4. Between(run[p], lists, k, mid)
    <3>1. CASE i = 0
      <4>1. k = 1
        BY ONLY <2>1, <3>1
      <4> QED
        BY ONLY <2>2, <2>3, <3>1, <4>1
    <3>2. CASE i # 0
      <4>1. Behind(run[p], lists, i, mid)
        BY ONLY <2>2, <2>3, <3>2
      <4> QED
        BY ONLY <1>0, <2>1, <4>1 DEF Behind, Between
    <3> QED
      BY ONLY <3>1, <3>2
  <2>5. Spells(words, p, EncodeTable2(T[k])) /\ pos[k] = p + Len(EncodeTable2(T[k]))
    BY ONLY <1>3, <2>1, <2>3
  <2>6. Grid(mid) /\ (lists => \A t \in Rows : mid[k][t] \in ListRows) /\ k \in 1 .. L
    <3>1. ~ (k <= i)
      BY ONLY <2>1, i \in Nat
    <3>2. k \in 1 .. L
      BY ONLY <1>0, k \in 1 .. n
    <3>3. mid[k] = tables[k] /\ Grid(mid)
      BY ONLY <2>2, <3>1, <3>2 DEF UpTo
    <3> QED
      BY ONLY <3>2, <3>3, lists => \A j \in 1 .. L, t \in Rows : tables[j][t] \in ListRows
  <2>7. PICK new : Behind(run[pos[k]], lists, k, new) /\ TableResult(lists, k, mid, T[k], new)
    <3>1. PICK rows \in [Rows -> ListRows] : rows = T[k]
      BY ONLY <1>1, k \in 1 .. n
    <3>2. Spells(words, p, EncodeTable2(rows))
      BY ONLY <2>5, <3>1
    <3>3. \E new : /\ Behind(run[p + Len(EncodeTable2(rows))], lists, k, new)
                   /\ TableResult(lists, k, mid, rows, new)
      BY ONLY TableRead, <2>4, <2>6, <3>2, words \in Seq(Nat), Reads(run, words, r0), p \in Nat, lists \in BOOLEAN,
              rows \in [Rows -> ListRows]
    <3> QED
      BY ONLY <2>5, <3>1, <3>3
  <2>8. UpTo(lists, tables, T, k, new)
    <3>1. TableResult(lists, i + 1, mid, T[i + 1], new) /\ i + 1 <= L
      BY ONLY <1>0, <1>5, <2>1, <2>7
    <3>2. UpTo(lists, tables, T, i + 1, new)
      BY ONLY OneTableMore, <2>2, <3>1, i \in Nat
    <3> QED
      BY ONLY <2>1, <3>2
  <2>9. Holds(k)
    BY ONLY <2>1, <2>7, <2>8
  <2> HIDE DEF Holds
  <2> QED
    BY ONLY <2>1, <2>9
<1> HIDE DEF Holds
<1>6. G = Nat
  <2>1. 0 \in G
    BY <1>4
  <2>2. ASSUME NEW i \in G PROVE i + 1 \in G
    <3>1. i + 1 <= n => i <= n
      OBVIOUS
    <3> QED
      BY <1>5, <3>1
  <2> QED
    BY ONLY <2>1, <2>2, NatSetInduction DEF G
<1>7. Holds(n)
  BY ONLY <1>6, n \in Nat DEF G
<1>8. PICK new : Behind(run[pos[n]], lists, n, new) /\ UpTo(lists, tables, T, n, new)
  BY ONLY <1>0, <1>7 DEF Holds
<1>9. TablesResult(lists, tables, T, new)
  <2>1. \A j \in 1 .. L : j <= n
    BY ONLY <1>0, n \in Nat
  <2> QED
    BY ONLY <1>8, <2>1 DEF UpTo, TablesResult
<1>10. pos[n] \in 0 .. Len(words)
  <2>1. pos[n] \in Nat /\ pos[n] = 0 + Len(EncodeTables2(T))
    <3>1. n \in 0 .. n
      OBVIOUS
    <3> QED
      BY ONLY <1>3, <3>1
  <2>2. 0 + Len(EncodeTables2(T)) <= Len(words)
    BY ONLY Spells(words, 0, EncodeTables2(T)) DEF Spells
  <2>3. Len(words) \in Nat
    OBVIOUS
  <2> QED
    BY ONLY <2>1, <2>2, <2>3
<1>11. run[pos[n]].expect = "done" /\ run[pos[n]].tables = new
  BY ONLY <1>0, <1>8 DEF Behind
<1> QED
  BY ONLY <1>9, <1>10, <1>11

(* A reader that is done stays so.                                          *)
LEMMA StaysDone ==
  ASSUME NEW words \in Seq(Nat), NEW run, NEW r0, Reads(run, words, r0), NEW m \in 0 .. Len(words), run[m].expect = "done"
  PROVE  run[Len(words)] = run[m]
<1>1. PICK l \in Nat : l = Len(words)
  OBVIOUS
<1> DEFINE G == {i \in Nat : m + i <= l => run[m + i] = run[m]}
<1>2. 0 \in G
  <2>1. m + 0 = m
    OBVIOUS
  <2> QED
    BY <2>1
<1>3. ASSUME NEW i \in G PROVE i + 1 \in G
  <2>1. i \in Nat /\ (m + i <= l => run[m + i] = run[m])
    OBVIOUS
  <2> SUFFICES ASSUME m + (i + 1) <= l PROVE run[m + (i + 1)] = run[m]
    BY <2>1
  <2> HIDE DEF G
  <2>2. PICK k \in Nat : k = m + i /\ m + (i + 1) = k + 1 /\ k + 1 <= Len(words)
    BY <1>1, <2>1
  <2>3. run[k] = run[m]
    BY <1>1, <2>1, <2>2
  <2>4. run[k + 1] = ReadWord2(run[k], words[k + 1])
    BY ONLY WordRead, <2>2, words \in Seq(Nat), Reads(run, words, r0), k \in Nat
  <2>5. PICK r, w : r = run[k] /\ w = words[k + 1]
    OBVIOUS
  <2>6. ReadWord2(r, w) = r
    <3>1. r.expect = "done"
      BY ONLY <2>3, <2>5, run[m].expect = "done"
    <3> QED
      BY ONLY <3>1 DEF ReadWord2
  <2> QED
    BY ONLY <2>2, <2>3, <2>4, <2>5, <2>6
<1> HIDE DEF G
<1>4. G = Nat
  BY ONLY <1>2, <1>3, NatSetInduction DEF G
<1>5. PICK i \in Nat : m + i = l
  <2>1. m \in 0 .. l
    BY <1>1
  <2>2. l - m \in Nat /\ m + (l - m) = l
    BY ONLY <2>1, l \in Nat
  <2> QED
    BY ONLY <2>2
<1>6. run[m + i] = run[m]
  <2>1. m + i <= l
    BY <1>5
  <2> QED
    BY ONLY <1>4, <2>1, i \in Nat DEF G
<1>7. run[m + i] = run[l]
  BY ONLY <1>5
<1> QED
  BY ONLY <1>1, <1>6, <1>7

(* A file of tokens begins with the words of such tables.                   *)
Written(words) == \E T \in ListTables : Spells(words, 0, EncodeTables2(T))

(* What is read from a file that was written: its tables.                   *)
LEMMA TablesRead ==
  ASSUME NEW words \in Seq(Nat), NEW T \in ListTables, Spells(words, 0, EncodeTables2(T)), NEW forMerge \in BOOLEAN,
         NEW tables, Grid(tables), forMerge => \A j \in 1 .. L, t \in Rows : tables[j][t] \in ListRows
  PROVE  LET read == ReadTables2(words, tables, forMerge)
         IN  read.expect = "done" /\ TablesResult(forMerge, tables, T, read.tables)
<1>1. PICK run : /\ Reads(run, words, Reader2(tables, forMerge))
                 /\ ReadTables2(words, tables, forMerge) = run[Len(words)]
  BY Reading
<1>2. Between(run[0], forMerge, 1, tables)
  BY ONLY <1>1 DEF Reads, Reader2, Between, IsReader
<1>3. PICK m \in 0 .. Len(words) : \E new :
        run[m].expect = "done" /\ run[m].tables = new /\ TablesResult(forMerge, tables, T, new)
  BY ONLY AllRead, <1>1, <1>2, words \in Seq(Nat), T \in ListTables, Spells(words, 0, EncodeTables2(T)), forMerge \in BOOLEAN,
          Grid(tables), forMerge => \A j \in 1 .. L, t \in Rows : tables[j][t] \in ListRows
<1>4. run[Len(words)] = run[m]
  BY ONLY StaysDone, <1>1, <1>3, words \in Seq(Nat), m \in 0 .. Len(words)
<1> QED
  BY ONLY <1>1, <1>3, <1>4

LEMMA EmptyTablesListed == EmptyTables \in ListTables /\ Grid(EmptyTables) /\ \A j \in 1 .. L, t \in Rows : EmptyTables[j][t] = EmptyRow
<1>1. EmptyTable \in [Rows -> ListRows]
  BY EmptyRowListed DEF EmptyTable
<1> QED
  BY <1>1 DEF EmptyTables, EmptyTable, ListTables, Grid

LEMMA ListTablesGrid ==
  \A tables \in ListTables : Grid(tables) /\ \A j \in 1 .. L, t \in Rows : tables[j][t] \in ListRows
BY DEF ListTables, Grid

(* The words of a new file are none of tables.                              *)
LEMMA ZeroWordFails ==
  ASSUME NEW tables, NEW forMerge
  PROVE  ReadTables2(<< 0 >>, tables, forMerge).expect = "error"
<1>1. << 0 >> \in Seq(Nat) /\ Len(<< 0 >>) = 1 /\ << 0 >>[1] = 0 /\ 1 \in 1 .. Len(<< 0 >>) /\ 1 - 1 = 0
  OBVIOUS
<1>w. PICK words \in Seq(Nat) : words = << 0 >>
  BY <1>1
<1>2. PICK run : /\ Reads(run, words, Reader2(tables, forMerge))
                 /\ ReadTables2(words, tables, forMerge) = run[Len(words)]
  BY Reading
<1>3. run[1] = ReadWord2(Reader2(tables, forMerge), 0)
  BY ONLY <1>1, <1>w, <1>2 DEF Reads
<1>4. 0 # TokenEnd /\ 0 # TokenT1
  <2>1. PICK w \in Nat, l \in Nat : w = Word /\ l = PointLimit /\ w >= 2 * l /\ l > 7
    BY NumbersAre
  <2>2. TokenT1 = w - 4 /\ TokenEnd = w - 2
    BY <2>1 DEF TokenT1, TokenEnd
  <2> QED
    BY <2>1, <2>2
<1>5. ReadWord2(Reader2(tables, forMerge), 0) = Fail2(Reader2(tables, forMerge))
  BY <1>4 DEF ReadWord2, Reader2
<1>6. Fail2(Reader2(tables, forMerge)).expect = "error"
  BY DEF Fail2, Reader2
<1> QED
  BY ONLY <1>1, <1>w, <1>2, <1>3, <1>5, <1>6

LEMMA EncodingWords ==
  ASSUME NEW T \in ListTables
  PROVE  EncodeTables2(T) \in Seq(Nat)
<1>0. PICK n \in Nat : n = L
  BY NumbersAre
<1>1. \A i \in 1 .. n : EncodeTable2(T[i]) \in Seq(Nat)
  BY <1>0, TableWords DEF ListTables
<1>2. PICK seqs \in [1 .. n -> Seq(Nat)] : seqs = [i \in 1 .. L |-> EncodeTable2(T[i])]
  BY ONLY <1>0, <1>1
<1>3. FlattenSeq(seqs) \in Seq(Nat)
  BY ONLY FlatIsSeq, n \in Nat, seqs \in [1 .. n -> Seq(Nat)]
<1> QED
  BY ONLY <1>2, <1>3 DEF EncodeTables2

(* The tokens of tables, written over whatever the file had.                *)
LEMMA TablesWritten ==
  ASSUME NEW T \in ListTables, NEW words \in Seq(Nat)
  PROVE  LET new == EncodeTables2(T)
         IN  Overlay(words, new, Len(new)) \in Seq(Nat) /\ Written(Overlay(words, new, Len(new)))
<1>1. PICK new \in Seq(Nat) : new = EncodeTables2(T)
  BY EncodingWords
<1>2. PICK n \in Nat, k \in Nat : n = Len(new) /\ k = Len(words)
  OBVIOUS
<1>3. PICK m \in Nat : m = Max({n, k}) /\ n <= m /\ (m > n => m = k)
  <2>1. Max({n, k}) \in {n, k} /\ \A i \in {n, k} : Max({n, k}) >= i
    <3>1. \E i \in {n, k} : \A j \in {n, k} : i >= j
      <4>1. CASE n >= k
        BY <4>1
      <4>2. CASE ~ (n >= k)
        BY <4>2
      <4> QED
        BY <4>1, <4>2
    <3> QED
      BY <3>1 DEF Max
  <2> QED
    BY <2>1
<1>4. PICK z : z = Overlay(words, new, Len(new))
  OBVIOUS
<1>5. z = [i \in 1 .. m |-> IF i <= n THEN new[i] ELSE words[i]]
  BY ONLY <1>2, <1>3, <1>4 DEF Overlay
<1>6. \A i \in 1 .. m : (IF i <= n THEN new[i] ELSE words[i]) \in Nat
  <2>1. \A i \in 1 .. n : new[i] \in Nat
    BY <1>2
  <2>2. \A i \in 1 .. k : words[i] \in Nat
    BY <1>2
  <2>3. \A i \in 1 .. m : i <= n => i \in 1 .. n
    OBVIOUS
  <2>4. \A i \in 1 .. m : ~ (i <= n) => i \in 1 .. k
    BY <1>3
  <2> QED
    BY ONLY <2>1, <2>2, <2>3, <2>4
<1>7. z \in Seq(Nat) /\ Len(z) = m
  <2>1. z \in [1 .. m -> Nat]
    BY ONLY <1>5, <1>6
  <2> QED
    BY <2>1
<1>8. Spells(z, 0, new)
  <2>1. \A i \in 1 .. n : i \in 1 .. m /\ i <= n /\ 0 + i = i
    BY <1>3
  <2>2. \A i \in 1 .. n : z[0 + i] = new[i]
    BY ONLY <1>5, <2>1
  <2>3. 0 + Len(new) <= Len(z)
    BY <1>2, <1>3, <1>7
  <2> QED
    BY ONLY <1>2, <2>2, <2>3 DEF Spells
<1> QED
  BY ONLY <1>1, <1>4, <1>7, <1>8, T \in ListTables DEF Written

(* What is loaded of a file, for a merge or a query.                        *)
LEMMA MergedTables ==
  ASSUME NEW words \in Seq(Nat), words = << 0 >> \/ Written(words), NEW tables \in ListTables
  PROVE  LET read == ReadTables2(words, tables, TRUE)
         IN  read.expect = "done" => read.tables \in ListTables
<1>1. CASE words = << 0 >>
  BY <1>1, ZeroWordFails
<1>2. CASE Written(words)
  <2>1. PICK T \in ListTables : Spells(words, 0, EncodeTables2(T))
    BY <1>2 DEF Written
  <2>2. PICK new : new = ReadTables2(words, tables, TRUE).tables
    OBVIOUS
  <2>3. Grid(tables) /\ \A j \in 1 .. L, t \in Rows : tables[j][t] \in ListRows
    BY ListTablesGrid
  <2>4. TablesResult(TRUE, tables, T, new)
    BY ONLY <2>1, <2>2, <2>3, TablesRead, words \in Seq(Nat), T \in ListTables
  <2>5. \A j \in 1 .. L, t \in Rows : new[j][t] \in ListRows
    BY ONLY <2>4 DEF TablesResult, RowResult
  <2>6. \A j \in 1 .. L : new[j] \in [Rows -> ListRows]
    BY ONLY <2>4, <2>5 DEF TablesResult, Grid
  <2>7. new \in ListTables
    BY ONLY <2>4, <2>6 DEF TablesResult, Grid, ListTables
  <2> QED
    BY ONLY <2>2, <2>7
<1> QED
  BY <1>1, <1>2

LEMMA QueryLoads ==
  ASSUME NEW words \in Seq(Nat), Written(words)
  PROVE  ReadTables2(words, EmptyTables, FALSE).expect = "done"
<1>1. PICK T \in ListTables : Spells(words, 0, EncodeTables2(T))
  BY DEF Written
<1> QED
  BY ONLY <1>1, EmptyTablesListed, TablesRead, words \in Seq(Nat), T \in ListTables

-----------------------------------------------------------------------------
(* A process that is going to write its tables has them as lists.           *)
Filling == {"indexing", "indexed", "create", "lock new", "header", "open", "functions", "merge", "tables"}

AfterCreation == {"lock new", "header", "open", "functions", "merge", "tables", "close"}

Whole(a) ==
  /\ IsCore(core[a]) /\ Usable(core[a].funs)
  /\ job[a].isNew => pc[a] \in {"create", "lock new", "header", "open", "functions", "tables", "close"}
  /\ pc[a] \in {"create", "lock new", "header", "functions"} => job[a].isNew
  /\ pc[a] \in AfterCreation => file.fmt # -1
  /\ Creating(a) /\ pc[a] \in {"open", "functions", "tables"} => file.fmt = job[a].fmt
  /\ ~ torn /\ pc[a] \in Filling => core[a].tables \in ListTables

Formats == {-1, 0, 1, 2}

FileWhole ==
  /\ {"fmt", "maxp", "funs", "cells", "words"} \subseteq DOMAIN file
  /\ file.fmt \in Formats /\ (file.fmt = -1 <=> file = NoFile) /\ Usable(file.funs)

(* One process at most creates the file; a file without a header is one     *)
(* that is being created, or was when its creator died; and the words of a  *)
(* FORMAT2 file are those of tables once it is created.                     *)
Created ==
  /\ \A a, b \in Procs : Creating(a) /\ Creating(b) => a = b
  /\ ~ torn /\ file.fmt = 0 => Unfinished
  /\ ~ torn /\ file.fmt = 2 => file.words \in Seq(Nat) /\ (file.words = << 0 >> \/ Written(file.words))
  /\ ~ torn /\ file.fmt = 2 /\ ~ Unfinished => Written(file.words)

LInv == Typed /\ DOMAIN core = Procs /\ (\A a \in Procs : Whole(a)) /\ FileWhole /\ Created

LEMMA LoadableBecause == LInv => LoadableWhenFree
<1> SUFFICES ASSUME LInv, file # NoFile, ~ torn, ~ Unfinished
             PROVE  HasHeader /\ LoadedTables.expect = "done"
  BY DEF LoadableWhenFree
<1>1. file.fmt \in {1, 2}
  BY DEF LInv, FileWhole, Created, Formats
<1>2. HasHeader
  BY <1>1 DEF HasHeader
<1>3. LoadedTables.expect = "done"
  <2>1. CASE file.fmt = 1
    BY <2>1 DEF LoadedTables
  <2>2. CASE file.fmt = 2
    <3>1. PICK words \in Seq(Nat) : words = file.words /\ Written(words)
      BY <2>2 DEF LInv, Created
    <3>2. ReadTables2(words, EmptyTables, FALSE).expect = "done"
      BY ONLY <3>1, QueryLoads, words \in Seq(Nat)
    <3> QED
      BY ONLY <2>2, <3>1, <3>2 DEF LoadedTables
  <2> QED
    BY <1>1, <2>1, <2>2
<1> QED
  BY <1>2, <1>3

LEMMA WholeInit == Init => LInv
<1> SUFFICES ASSUME Init PROVE LInv
  OBVIOUS
<1> USE DEF Init
<1>1. Typed
  <2>1. NoJob \in Jobs
    BY DEF NoJob, Jobs
  <2> QED
    BY <2>1 DEF Typed, Labels, NoFile
<1>2. FileWhole
  BY FunctionsUsable DEF FileWhole, NoFile, Formats
<1>3. \A a \in Procs : ~ Creating(a)
  BY DEF Creating, NoJob
<1>4. \A a \in Procs : Whole(a)
  BY <1>3, FunctionsUsable DEF Whole, NoCore, IsCore, NoJob, AfterCreation, Filling
<1>5. Created
  BY <1>3 DEF Created, NoFile, Unfinished
<1> QED
  BY <1>1, <1>2, <1>4, <1>5 DEF LInv

(* Others are as they were, and see a file of the same format.              *)
OthersKept(a) == \A b \in Procs \ {a} : pc'[b] = pc[b] /\ job'[b] = job[b] /\ core'[b] = core[b]

LEMMA OthersWhole ==
  ASSUME NEW a \in Procs, OthersKept(a), file'.fmt = file.fmt, torn => torn', NEW b \in Procs \ {a}, Whole(b)
  PROVE  Whole(b)' /\ (Creating(b)' <=> Creating(b))
<1>1. pc'[b] = pc[b] /\ job'[b] = job[b] /\ core'[b] = core[b]
  BY DEF OthersKept
<1>2. Creating(b)' <=> Creating(b)
  BY <1>1 DEF Creating
<1> QED
  BY <1>1, <1>2 DEF Whole

(* A step that neither begins nor ends a creation and leaves the words.     *)
LEMMA Quiet ==
  ASSUME LInv, Typed', DOMAIN core' = Procs, NEW a \in Procs, OthersKept(a), FileWhole', torn' = torn,
         file'.fmt = file.fmt, file'.words = file.words, Creating(a)' <=> Creating(a), Whole(a)'
  PROVE  LInv'
<1>1. \A b \in Procs \ {a} : Whole(b)' /\ (Creating(b)' <=> Creating(b))
  BY OthersWhole DEF LInv
<1>2. \A b \in Procs : Creating(b)' <=> Creating(b)
  BY <1>1
<1>3. Unfinished' <=> Unfinished
  BY ONLY <1>2 DEF Unfinished
<1>4. Created'
  <2>1. \A b, d \in Procs : Creating(b)' /\ Creating(d)' => b = d
    BY ONLY <1>2, LInv DEF LInv, Created
  <2> HIDE DEF Creating, Unfinished, Written
  <2> QED
    BY ONLY <1>3, <2>1, LInv, torn' = torn, file'.fmt = file.fmt, file'.words = file.words DEF LInv, Created, Written
<1> QED
  BY <1>1, <1>4 DEF LInv

(* The same, when the file is left alone.                                   *)
LEMMA QuietAside ==
  ASSUME LInv, Typed', DOMAIN core' = Procs, NEW a \in Procs, OthersKept(a), file' = file, torn' = torn,
         Creating(a)' <=> Creating(a), Whole(a)'
  PROVE  LInv'
<1>1. FileWhole'
  BY DEF LInv, FileWhole
<1> QED
  BY <1>1, Quiet

LEMMA DeadWhole ==
  ASSUME LInv, NEW a \in Procs, Die(a)
  PROVE  /\ DOMAIN core' = Procs /\ OthersKept(a) /\ ~ Creating(a)' /\ Whole(a)'
<1>1. pc'[a] = "dead" /\ core'[a] = NoCore /\ job'[a] = NoJob /\ DOMAIN core' = Procs /\ OthersKept(a)
  BY DEF LInv, Typed, Die, OthersKept
<1>2. ~ Creating(a)'
  BY <1>1 DEF Creating, NoJob
<1>3. Whole(a)'
  BY <1>1, <1>2, FunctionsUsable DEF Whole, NoCore, IsCore, NoJob, AfterCreation, Filling
<1> QED
  BY <1>1, <1>2, <1>3

(* A process that dies without having begun to create the file.             *)
LEMMA DiesQuietly ==
  ASSUME LInv, Typed', NEW a \in Procs, Die(a), file' = file, torn' = torn, ~ Creating(a)
  PROVE  LInv'
BY DeadWhole, QuietAside

LEMMA OpeningWhole ==
  ASSUME LInv, Typed', NEW a \in Procs, NewIndex(a) \/ OpenForInsert(a) \/ OpenForQuery(a) \/ EndQuery(a)
  PROVE  LInv'
<1>0. pc \in [Procs -> Labels] /\ job \in [Procs -> Jobs] /\ DOMAIN core = Procs /\ Whole(a) /\ FileWhole
  BY DEF LInv, Typed
<1>1. pc[a] \in {"idle", "querying"} /\ file' = file /\ torn' = torn
  BY DEF NewIndex, OpenForInsert, OpenForQuery, EndQuery, Start
<1>2. ~ job[a].isNew /\ ~ Creating(a)
  BY <1>0, <1>1 DEF Whole, Creating
<1>3. CASE Die(a)
  BY <1>1, <1>2, <1>3, DiesQuietly
<1>4. CASE ~ Die(a)
  <2>1. PICK c, l : /\ core' = [core EXCEPT ![a] = c] /\ pc' = [pc EXCEPT ![a] = l] /\ job' = job
                    /\ l \in {"idle", "querying", "indexing"}
                    /\ IsCore(c) /\ Usable(c.funs) /\ (l = "indexing" => c.tables \in ListTables)
    <3>1. CASE NewIndex(a)
      <4>1. PICK f \in Drawn : core' = [core EXCEPT ![a] = [funs |-> f, maxp |-> 0, tables |-> EmptyTables]]
        BY <3>1 DEF NewIndex
      <4>2. PICK c : c = [funs |-> f, maxp |-> 0, tables |-> EmptyTables]
        OBVIOUS
      <4>3. IsCore(c) /\ Usable(c.funs) /\ c.tables \in ListTables
        BY <4>2, FunctionsUsable, EmptyTablesListed DEF IsCore
      <4> QED
        BY <3>1, <4>1, <4>2, <4>3 DEF NewIndex
    <3>2. CASE OpenForInsert(a)
      <4>2. PICK c : c = [funs |-> file.funs, maxp |-> file.maxp, tables |-> EmptyTables]
        OBVIOUS
      <4>3. IsCore(c) /\ Usable(c.funs) /\ c.tables \in ListTables
        BY <1>0, <4>2, EmptyTablesListed DEF IsCore, FileWhole
      <4> QED
        BY <1>4, <3>2, <4>2, <4>3 DEF OpenForInsert
    <3>3. CASE OpenForQuery(a)
      <4>2. PICK c : c = [funs |-> file.funs, maxp |-> file.maxp, tables |-> LoadedTables.tables]
        OBVIOUS
      <4>3. IsCore(c) /\ Usable(c.funs)
        BY <1>0, <4>2 DEF IsCore, FileWhole
      <4> QED
        BY <1>4, <3>3, <4>2, <4>3 DEF OpenForQuery
    <3>4. CASE EndQuery(a)
      <4>1. PICK c : c = NoCore
        OBVIOUS
      <4>2. IsCore(c) /\ Usable(c.funs)
        BY <4>1, FunctionsUsable DEF NoCore, IsCore
      <4>3. core' = [core EXCEPT ![a] = c] /\ pc' = [pc EXCEPT ![a] = "idle"] /\ job' = job
        BY <3>4, <4>1 DEF EndQuery
      <4>4. PICK l : l = "idle"
        OBVIOUS
      <4>5. l \in {"idle", "querying", "indexing"} /\ l # "indexing" /\ pc' = [pc EXCEPT ![a] = l]
        BY ONLY <4>3, <4>4
      <4> QED
        BY ONLY <4>2, <4>3, <4>5
    <3> QED
      BY <3>1, <3>2, <3>3, <3>4
  <2>2. pc'[a] = l /\ core'[a] = c /\ job'[a] = job[a] /\ DOMAIN core' = Procs /\ OthersKept(a)
    BY <1>0, <2>1 DEF OthersKept
  <2>3. ~ Creating(a)'
    BY <1>2, <2>2 DEF Creating
  <2>4. Whole(a)'
    BY <1>2, <2>1, <2>2, <2>3 DEF Whole, AfterCreation, Filling
  <2> QED
    BY <1>1, <1>2, <2>2, <2>3, <2>4, QuietAside
<1> QED
  BY <1>3, <1>4

LEMMA BatchPoints ==
  ASSUME NEW b \in Batches
  PROVE  [i \in 1 .. b[2] - b[1] + 1 |-> b[1] + i - 1] \in Seq(Points)
<1>1. PICK x \in Nat, y \in Nat : x = b[1] /\ y = b[2] /\ \A p \in x .. y : p \in Points
  BY BatchesAssumption, TokensAre
<1>2. CASE x <= y
  <2>1. PICK n \in Nat : n = y - x + 1
    BY <1>2
  <2>2. \A i \in 1 .. n : x + i - 1 \in x .. y
    BY <2>1
  <2>3. [i \in 1 .. n |-> x + i - 1] \in [1 .. n -> Points]
    BY <1>1, <2>2
  <2>4. [i \in 1 .. n |-> x + i - 1] \in Seq(Points)
    <3>1. \A s \in [1 .. n -> Points] : s \in Seq(Points)
      OBVIOUS
    <3> QED
      BY ONLY <2>3, <3>1
  <2> QED
    BY <1>1, <2>1, <2>4
<1>3. CASE y < x
  <2>1. 1 .. y - x + 1 = 1 .. 0
    BY <1>3
  <2>2. [i \in 1 .. 0 |-> x + i - 1] \in Seq(Points)
    OBVIOUS
  <2> QED
    BY <1>1, <2>1, <2>2
<1> QED
  BY <1>2, <1>3

LEMMA InsertingWhole ==
  ASSUME LInv, Typed', NEW a \in Procs, NEW b \in Batches, InsertPoints(a, b[1], b[2])
  PROVE  LInv'
<1>0. pc \in [Procs -> Labels] /\ job \in [Procs -> Jobs] /\ DOMAIN core = Procs /\ Whole(a)
  BY DEF LInv, Typed
<1>1. pc[a] = "indexing" /\ file' = file /\ torn' = torn
  BY DEF InsertPoints
<1>2. ~ job[a].isNew /\ ~ Creating(a) /\ IsCore(core[a]) /\ Usable(core[a].funs)
      /\ (~ torn => core[a].tables \in ListTables)
  BY <1>0, <1>1 DEF Whole, Creating, Filling
<1>3. CASE Die(a)
  BY <1>1, <1>2, <1>3, DiesQuietly
<1>4. CASE ~ Die(a)
  <2>1. PICK pts \in Seq(Points) : pts = [i \in 1 .. b[2] - b[1] + 1 |-> b[1] + i - 1]
    BY BatchPoints
  <2>2. PICK c : c = FoldLeft(InsertPointAll, core[a], pts)
    OBVIOUS
  <2>3. /\ core' = [core EXCEPT ![a] = c]
        /\ pc' = [pc EXCEPT ![a] = "indexed"]
        /\ \E own : job' = [job EXCEPT ![a].own = own]
    BY <1>4, <2>1, <2>2 DEF InsertPoints
  <2>4. pc'[a] = "indexed" /\ core'[a] = c /\ DOMAIN core' = Procs /\ OthersKept(a) /\ job'[a].isNew = job[a].isNew
    BY <1>0, <2>3 DEF OthersKept, Jobs
  <2>5. IsCore(c) /\ Usable(c.funs) /\ (~ torn => c.tables \in ListTables)
    BY <1>2, <2>2, BatchInserted
  <2>6. ~ Creating(a)'
    BY <1>2, <2>4 DEF Creating
  <2>7. Whole(a)'
    BY <1>1, <1>2, <2>4, <2>5, <2>6 DEF Whole, AfterCreation, Filling
  <2> QED
    BY <1>1, <1>2, <2>4, <2>6, <2>7, QuietAside
<1> QED
  BY <1>3, <1>4

(* A step of a process that writes the file, or dies.                       *)
LEMMA Writing ==
  ASSUME LInv, Typed', DOMAIN core' = Procs, NEW a \in Procs, OthersKept(a), FileWhole', torn => torn',
         file'.fmt = file.fmt, Creating(a)' => Creating(a), Whole(a)',
         (~ torn /\ file.fmt = 0 => Unfinished) => (~ torn' /\ file.fmt = 0 => Unfinished'),
         ~ torn' /\ file.fmt = 2 => file'.words \in Seq(Nat) /\ (file'.words = << 0 >> \/ Written(file'.words)),
         ~ torn' /\ file.fmt = 2 /\ ~ Unfinished' => Written(file'.words)
  PROVE  LInv'
<1>1. \A b \in Procs \ {a} : Whole(b)' /\ (Creating(b)' <=> Creating(b))
  BY OthersWhole DEF LInv
<1>2. \A b \in Procs : Creating(b)' => Creating(b)
  BY <1>1
<1>3. \A b, d \in Procs : Creating(b)' /\ Creating(d)' => b = d
  BY ONLY <1>2, LInv DEF LInv, Created
<1>4. ~ torn' /\ file.fmt = 0 => Unfinished'
  BY ONLY LInv, (~ torn /\ file.fmt = 0 => Unfinished) => (~ torn' /\ file.fmt = 0 => Unfinished') DEF LInv, Created
<1>5. Created'
  <2> HIDE DEF Creating, Unfinished, Written
  <2> QED
    BY <1>3, <1>4 DEF Created, Written
<1> QED
  BY <1>1, <1>5 DEF LInv

LEMMA OthersUncreating ==
  ASSUME NEW a \in Procs, OthersKept(a), file'.fmt # -1, torn' = torn, NEW b \in Procs \ {a}, Whole(b), ~ Creating(b)
  PROVE  Whole(b)' /\ ~ Creating(b)'
<1>1. pc'[b] = pc[b] /\ job'[b] = job[b] /\ core'[b] = core[b]
  BY DEF OthersKept
<1>2. ~ Creating(b)'
  BY <1>1 DEF Creating
<1> QED
  BY <1>1, <1>2 DEF Whole

(* The file is made and gets its header by one process.                     *)
LEMMA BeginsFile ==
  ASSUME LInv, Typed', DOMAIN core' = Procs, NEW a \in Procs, OthersKept(a), FileWhole', torn' = torn,
         file'.fmt # -1, \A b \in Procs \ {a} : ~ Creating(b), Creating(a)', Whole(a)',
         file'.fmt = 2 => file'.words = << 0 >>
  PROVE  LInv'
<1>1. \A b \in Procs \ {a} : Whole(b)' /\ ~ Creating(b)'
  BY OthersUncreating DEF LInv
<1>2. Unfinished'
  BY DEF Unfinished
<1>3. \A b, d \in Procs : Creating(b)' /\ Creating(d)' => b = d
  BY <1>1
<1>4. << 0 >> \in Seq(Nat)
  OBVIOUS
<1>5. Created'
  <2> HIDE DEF Creating, Unfinished, Written
  <2> QED
    BY <1>2, <1>3, <1>4 DEF Created
<1> QED
  BY <1>1, <1>5 DEF LInv

LEMMA ProbeWhole ==
  ASSUME LInv, Typed', NEW a \in Procs, NEW fmt \in {1, 2}, Probe(a, fmt)
  PROVE  LInv'
<1>0. pc \in [Procs -> Labels] /\ job \in [Procs -> Jobs] /\ DOMAIN core = Procs /\ Whole(a) /\ FileWhole
  BY DEF LInv, Typed
<1>1. pc[a] = "indexed" /\ file' = file /\ torn' = torn /\ core' = core
  BY DEF Probe
<1>2. ~ Creating(a) /\ IsCore(core[a]) /\ Usable(core[a].funs) /\ (~ torn => core[a].tables \in ListTables)
  BY <1>0, <1>1 DEF Whole, Creating, Filling
<1>3. PICK new \in BOOLEAN : /\ new = (file = NoFile)
                             /\ job' = [job EXCEPT ![a].fmt = fmt, ![a].isNew = new]
                             /\ pc' = [pc EXCEPT ![a] = IF new THEN "create" ELSE "open"]
  BY DEF Probe
<1>4. job'[a].isNew = new /\ pc'[a] = (IF new THEN "create" ELSE "open") /\ OthersKept(a) /\ DOMAIN core' = Procs
  BY <1>0, <1>1, <1>3 DEF OthersKept, Jobs
<1>5. ~ Creating(a)'
  BY <1>4 DEF Creating
<1>6. new <=> file.fmt = -1
  BY <1>0, <1>3 DEF FileWhole
<1>7. Whole(a)'
  BY <1>1, <1>2, <1>4, <1>5, <1>6 DEF Whole, AfterCreation, Filling
<1> QED
  BY <1>1, <1>2, <1>4, <1>5, <1>7, QuietAside

LEMMA CreateWhole ==
  ASSUME LInv, Typed', NEW a \in Procs, CreateFile(a)
  PROVE  LInv'
<1>0. pc \in [Procs -> Labels] /\ job \in [Procs -> Jobs] /\ DOMAIN core = Procs /\ Whole(a) /\ FileWhole
  BY DEF LInv, Typed
<1>1. pc[a] = "create" /\ torn' = torn
  BY DEF CreateFile
<1>2. ~ Creating(a) /\ job[a].isNew /\ IsCore(core[a]) /\ Usable(core[a].funs) /\ (~ torn => core[a].tables \in ListTables)
  BY <1>0, <1>1 DEF Whole, Creating, Filling
<1>3. CASE file = NoFile
  <2>1. file' = EmptyFile /\ pc' = [pc EXCEPT ![a] = "lock new"] /\ UNCHANGED <<core, job>>
    BY <1>3 DEF CreateFile
  <2>2. \A b \in Procs : ~ Creating(b)
    <3>1. file.fmt = -1
      BY <1>0, <1>3 DEF FileWhole
    <3> QED
      BY <3>1 DEF LInv, Whole, Creating, AfterCreation
  <2>3. pc'[a] = "lock new" /\ job'[a] = job[a] /\ core'[a] = core[a] /\ OthersKept(a) /\ DOMAIN core' = Procs
    BY <1>0, <2>1 DEF OthersKept
  <2>4. Creating(a)'
    BY <1>2, <2>3 DEF Creating
  <2>5. file'.fmt = 0 /\ FileWhole'
    <3>1. /\ file'.fmt = 0 /\ file'.funs = ZeroFuns
          /\ {"fmt", "maxp", "funs", "cells", "words"} \subseteq DOMAIN file'
      BY <2>1 DEF EmptyFile, NoFile
    <3>2. file' # NoFile
      BY <3>1 DEF NoFile
    <3>3. Usable(file'.funs)
      BY <3>1, FunctionsUsable
    <3>4. file'.fmt \in Formats /\ (file'.fmt = -1 <=> file' = NoFile)
      BY <3>1, <3>2 DEF Formats
    <3> QED
      BY <3>1, <3>3, <3>4 DEF FileWhole
  <2>6. Whole(a)'
    <3>1. pc[a] \in Filling
      BY <1>1 DEF Filling
    <3>2. /\ IsCore(core'[a]) /\ Usable(core'[a].funs) /\ job'[a].isNew /\ file'.fmt # -1
          /\ (~ torn' => core'[a].tables \in ListTables)
      <4>0. file'.fmt # -1
        BY ONLY <2>5
      <4>1. job'[a].isNew /\ file'.fmt # -1
        <5>1. job'[a] = job[a]
          BY ONLY <2>3
        <5>2. job[a].isNew
          BY ONLY <1>2
        <5> QED
          BY ONLY <5>1, <5>2, <4>0
      <4>2. core'[a] = core[a] /\ torn' = torn
        BY ONLY <1>1, <2>3
      <4>3. IsCore(core[a]) /\ Usable(core[a].funs) /\ (~ torn => core[a].tables \in ListTables)
        BY ONLY <1>2
      <4> QED
        BY ONLY <4>1, <4>2, <4>3
    <3> HIDE DEF IsCore, Usable, ListTables
    <3> QED
      BY ONLY <2>3, <3>2 DEF Whole, Creating
  <2>7. file'.fmt # -1 /\ file'.fmt # 2 /\ \A b \in Procs \ {a} : ~ Creating(b)
    BY <2>2, <2>5
  <2> QED
    BY <1>1, <2>3, <2>4, <2>5, <2>6, <2>7, BeginsFile
<1>4. CASE file # NoFile
  <2>1. Die(a) /\ file' = file
    BY <1>4 DEF CreateFile
  <2> QED
    BY <1>1, <1>2, <2>1, DiesQuietly
<1> QED
  BY <1>3, <1>4

LEMMA LockWhole ==
  ASSUME LInv, Typed', NEW a \in Procs, LockNew(a)
  PROVE  LInv'
<1>0. pc \in [Procs -> Labels] /\ job \in [Procs -> Jobs] /\ DOMAIN core = Procs /\ Whole(a)
  BY DEF LInv, Typed
<1>1. /\ pc[a] = "lock new" /\ torn' = torn /\ file' = file /\ core' = core /\ job' = job
      /\ pc' = [pc EXCEPT ![a] = "header"]
  BY DEF LockNew, Grants
<1>2. job[a].isNew /\ Creating(a)
  BY <1>0, <1>1 DEF Whole, Creating
<1>3. pc'[a] = "header" /\ OthersKept(a) /\ DOMAIN core' = Procs
  BY <1>0, <1>1 DEF OthersKept
<1>4. Creating(a)'
  BY <1>1, <1>2, <1>3 DEF Creating
<1>5. Whole(a)'
  BY <1>0, <1>1, <1>2, <1>3 DEF Whole, AfterCreation, Filling
<1> QED
  BY <1>1, <1>2, <1>3, <1>4, <1>5, QuietAside

LEMMA HeaderWhole ==
  ASSUME LInv, Typed', NEW a \in Procs, WriteNewHeader(a)
  PROVE  LInv'
<1>0. pc \in [Procs -> Labels] /\ job \in [Procs -> Jobs] /\ DOMAIN core = Procs /\ Whole(a)
  BY DEF LInv, Typed
<1>1. /\ pc[a] = "header" /\ torn' = torn /\ core' = core /\ job' = job
      /\ file' = BlankFile(job[a].fmt, core[a].maxp) /\ pc' = [pc EXCEPT ![a] = "open"]
  BY DEF WriteNewHeader
<1>2. job[a].isNew /\ Creating(a)
  BY <1>0, <1>1 DEF Whole, Creating
<1>3. pc'[a] = "open" /\ OthersKept(a) /\ DOMAIN core' = Procs
  BY <1>0, <1>1 DEF OthersKept
<1>4. Creating(a)'
  BY <1>1, <1>2, <1>3 DEF Creating
<1>5. \A b \in Procs \ {a} : ~ Creating(b)
  BY <1>2 DEF LInv, Created
<1>6. job[a].fmt \in {1, 2}
  BY <1>0 DEF Jobs
<1>7. /\ file'.fmt = job[a].fmt /\ file'.words = (IF job[a].fmt = 1 THEN <<>> ELSE << 0 >>)
      /\ file'.funs = ZeroFuns /\ {"fmt", "maxp", "funs", "cells", "words"} \subseteq DOMAIN file'
  BY <1>1 DEF BlankFile, NoFile
<1>8. file' # NoFile
  BY <1>6, <1>7 DEF NoFile
<1>9. FileWhole'
  BY <1>6, <1>7, <1>8, FunctionsUsable DEF FileWhole, Formats
<1>10. Whole(a)'
  BY <1>0, <1>1, <1>2, <1>3, <1>6, <1>7 DEF Whole, AfterCreation, Filling
<1>11. file'.fmt # -1 /\ (file'.fmt = 2 => file'.words = << 0 >>)
  BY <1>6, <1>7
<1> QED
  BY <1>1, <1>3, <1>4, <1>5, <1>9, <1>10, <1>11, BeginsFile

LEMMA OpenWhole ==
  ASSUME LInv, Typed', NEW a \in Procs, OpenLocked(a)
  PROVE  LInv'
<1>0. pc \in [Procs -> Labels] /\ job \in [Procs -> Jobs] /\ DOMAIN core = Procs /\ Whole(a) /\ FileWhole
  BY DEF LInv, Typed
<1>1. pc[a] = "open" /\ torn' = torn /\ file' = file
  BY DEF OpenLocked, Grants
<1>2. job[a].fmt \in {1, 2} /\ job[a].isNew \in BOOLEAN
  BY <1>0 DEF Jobs
<1>3. CASE HasHeader /\ CanMerge(job[a].fmt)
  <2>1. PICK l : /\ pc' = [pc EXCEPT ![a] = l] /\ core' = core /\ job' = job
                 /\ l = IF job[a].isNew THEN "functions" ELSE IF job[a].fmt = 1 THEN "tables" ELSE "merge"
    BY <1>3 DEF OpenLocked, Grants
  <2>2. pc'[a] = l /\ OthersKept(a) /\ DOMAIN core' = Procs
    BY <1>0, <2>1 DEF OthersKept
  <2>3. Creating(a)' <=> Creating(a)
    BY <1>1, <2>1, <2>2 DEF Creating
  <2>4. Whole(a)'
    BY <1>0, <1>1, <2>1, <2>2 DEF Whole, AfterCreation, Filling, Creating
  <2> QED
    BY <1>1, <2>2, <2>3, <2>4, QuietAside
<1>4. CASE ~ (HasHeader /\ CanMerge(job[a].fmt))
  <2>1. Die(a)
    BY <1>4 DEF OpenLocked, Grants
  <2>2. ~ Creating(a)
    <3>1. SUFFICES ASSUME Creating(a) PROVE FALSE
      OBVIOUS
    <3>2. file.fmt = job[a].fmt
      BY <1>0, <1>1, <3>1 DEF Whole
    <3> QED
      BY <1>2, <1>4, <3>2 DEF HasHeader, CanMerge
  <2> QED
    BY <1>1, <2>1, <2>2, DiesQuietly
<1> QED
  BY <1>3, <1>4

LEMMA FunctionsWhole ==
  ASSUME LInv, Typed', NEW a \in Procs, WriteFunctions(a)
  PROVE  LInv'
<1>0. pc \in [Procs -> Labels] /\ job \in [Procs -> Jobs] /\ DOMAIN core = Procs /\ Whole(a) /\ FileWhole
  BY DEF LInv, Typed
<1>1. /\ pc[a] = "functions" /\ torn' = torn /\ core' = core /\ job' = job
      /\ file' = [file EXCEPT !.funs = core[a].funs] /\ pc' = [pc EXCEPT ![a] = "tables"]
  BY DEF WriteFunctions
<1>2. job[a].isNew /\ Creating(a) /\ file.fmt # -1 /\ Usable(core[a].funs)
  BY <1>0, <1>1 DEF Whole, Creating, AfterCreation
<1>3. pc'[a] = "tables" /\ OthersKept(a) /\ DOMAIN core' = Procs
  BY <1>0, <1>1 DEF OthersKept
<1>4. Creating(a)'
  BY <1>1, <1>2, <1>3 DEF Creating
<1>5. /\ file'.fmt = file.fmt /\ file'.words = file.words /\ file'.funs = core[a].funs
      /\ {"fmt", "maxp", "funs", "cells", "words"} \subseteq DOMAIN file'
  BY <1>0, <1>1 DEF FileWhole
<1>6. FileWhole'
  <2>1. file' # NoFile
    BY <1>2, <1>5 DEF NoFile
  <2> QED
    BY <1>0, <1>2, <1>5, <2>1 DEF FileWhole
<1>7. Whole(a)'
  BY <1>0, <1>1, <1>2, <1>3, <1>5 DEF Whole, AfterCreation, Filling
<1> QED
  BY <1>1, <1>2, <1>3, <1>4, <1>5, <1>6, <1>7, Quiet

LEMMA CellsWhole ==
  ASSUME LInv, Typed', NEW a \in Procs, WriteTable(a)
  PROVE  LInv'
<1>0. pc \in [Procs -> Labels] /\ job \in [Procs -> Jobs] /\ DOMAIN core = Procs /\ Whole(a) /\ FileWhole
  BY DEF LInv, Typed
<1>1. pc[a] = "tables" /\ job[a].fmt = 1 /\ torn' = torn /\ core' = core
  BY DEF WriteTable
<1>2. PICK l, k, cells : /\ pc' = [pc EXCEPT ![a] = l] /\ job' = [job EXCEPT ![a].table = k] /\ l \in {"tables", "close"}
                         /\ file' = [file EXCEPT !.cells = cells]
  <2>1. PICK l : pc' = [pc EXCEPT ![a] = l] /\ l = IF job[a].table = L THEN "close" ELSE "tables"
    BY DEF WriteTable
  <2>2. PICK j : j = job[a].table
    OBVIOUS
  <2>3. PICK cells : cells = [file.cells EXCEPT ![j] = WriteTable1(@, core[a].tables[j], ~ job[a].isNew)]
    OBVIOUS
  <2>4. file' = [file EXCEPT !.cells = cells]
    BY <2>2, <2>3 DEF WriteTable
  <2>5. job' = [job EXCEPT ![a].table = j + 1]
    BY <2>2 DEF WriteTable
  <2> QED
    BY ONLY <2>1, <2>4, <2>5
<1>3. /\ pc'[a] = l /\ OthersKept(a) /\ DOMAIN core' = Procs /\ core'[a] = core[a]
      /\ job'[a].isNew = job[a].isNew /\ job'[a].fmt = job[a].fmt
  BY <1>0, <1>1, <1>2 DEF OthersKept, Jobs
<1>4. file.fmt # -1 /\ (Creating(a) => file.fmt = 1)
  BY <1>0, <1>1 DEF Whole, AfterCreation
<1>5. /\ file'.fmt = file.fmt /\ file'.words = file.words /\ file'.funs = file.funs
      /\ {"fmt", "maxp", "funs", "cells", "words"} \subseteq DOMAIN file'
  BY <1>0, <1>2 DEF FileWhole
<1>6. FileWhole'
  <2>1. file' # NoFile
    BY <1>4, <1>5 DEF NoFile
  <2> QED
    BY <1>0, <1>4, <1>5, <2>1 DEF FileWhole
<1>7. Creating(a)' => Creating(a)
  BY <1>1, <1>3 DEF Creating
<1>8. Whole(a)'
  BY <1>0, <1>1, <1>2, <1>3, <1>4, <1>5, <1>7 DEF Whole, AfterCreation, Filling, Creating
<1>9. ASSUME file.fmt # 1
      PROVE  Unfinished' <=> Unfinished
  <2>1. ~ Creating(a) /\ ~ Creating(a)'
    BY <1>4, <1>7, <1>9
  <2>2. \A b \in Procs : Creating(b)' <=> Creating(b)
    BY <2>1, <1>1, <1>5, OthersWhole, <1>3 DEF LInv
  <2> QED
    BY ONLY <2>2 DEF Unfinished
<1>10. /\ (~ torn /\ file.fmt = 0 => Unfinished) => (~ torn' /\ file.fmt = 0 => Unfinished')
       /\ ~ torn' /\ file.fmt = 2 => file'.words \in Seq(Nat) /\ (file'.words = << 0 >> \/ Written(file'.words))
       /\ ~ torn' /\ file.fmt = 2 /\ ~ Unfinished' => Written(file'.words)
  <2> HIDE DEF Unfinished, Written
  <2>1. /\ ~ torn /\ file.fmt = 2 => file.words \in Seq(Nat) /\ (file.words = << 0 >> \/ Written(file.words))
        /\ ~ torn /\ file.fmt = 2 /\ ~ Unfinished => Written(file.words)
    BY DEF LInv, Created
  <2> QED
    BY ONLY <1>1, <1>5, <1>9, <2>1
<1> QED
  BY <1>1, <1>3, <1>5, <1>6, <1>7, <1>8, <1>10, Writing

LEMMA MergeWhole ==
  ASSUME LInv, Typed', NEW a \in Procs, MergeOld(a)
  PROVE  LInv'
<1>0. pc \in [Procs -> Labels] /\ job \in [Procs -> Jobs] /\ DOMAIN core = Procs /\ Whole(a) /\ FileWhole
  BY DEF LInv, Typed
<1>1. pc[a] = "merge" /\ torn' = torn /\ file' = file
  BY DEF MergeOld
<1>2. ~ job[a].isNew /\ ~ Creating(a)
  BY <1>0, <1>1 DEF Whole, Creating
<1>3. CASE Die(a)
  BY <1>1, <1>2, <1>3, DiesQuietly
<1>4. CASE ~ Die(a)
  <2>1. file.fmt = 2
    BY <1>4 DEF MergeOld
  <2>2. PICK read : /\ read = ReadTables2(file.words, core[a].tables, TRUE) /\ read.expect = "done"
                    /\ core' = [core EXCEPT ![a].tables = read.tables]
                    /\ pc' = [pc EXCEPT ![a] = "tables"] /\ job' = job
    <3>1. PICK read : read = ReadTables2(file.words, core[a].tables, TRUE)
      OBVIOUS
    <3>2. IF read.expect = "done"
          THEN /\ core' = [core EXCEPT ![a].tables = read.tables]
               /\ pc' = [pc EXCEPT ![a] = "tables"] /\ job' = job
          ELSE Die(a)
      <4>1. (IF file.fmt = 2 THEN ReadTables2(file.words, core[a].tables, TRUE) ELSE [expect |-> "error"]) = read
        BY ONLY <2>1, <3>1
      <4> QED
        BY ONLY <4>1, MergeOld(a) DEF MergeOld
    <3> QED
      BY ONLY <1>4, <3>1, <3>2
  <2>3. PICK c : c = [core[a] EXCEPT !.tables = read.tables]
    OBVIOUS
  <2>4. core' = [core EXCEPT ![a] = c] /\ IsCore(c) /\ c.funs = core[a].funs /\ c.tables = read.tables
    BY <1>0, <2>2, <2>3 DEF Whole, IsCore
  <2>5. pc'[a] = "tables" /\ core'[a] = c /\ job'[a] = job[a] /\ OthersKept(a) /\ DOMAIN core' = Procs
    BY <1>0, <2>2, <2>4 DEF OthersKept
  <2>6. ~ torn => read.tables \in ListTables
    <3>1. SUFFICES ASSUME ~ torn PROVE read.tables \in ListTables
      OBVIOUS
    <3>2. PICK words \in Seq(Nat) : words = file.words /\ (words = << 0 >> \/ Written(words))
      BY <2>1, <3>1 DEF LInv, Created
    <3>3. PICK tables \in ListTables : tables = core[a].tables
      BY <1>0, <1>1, <3>1 DEF Whole, Filling
    <3> QED
      BY <2>2, <3>2, <3>3, MergedTables
  <2>7. ~ Creating(a)'
    BY <1>2, <2>5 DEF Creating
  <2>8. Whole(a)'
    BY <1>0, <1>1, <1>2, <2>1, <2>4, <2>5, <2>6, <2>7 DEF Whole, AfterCreation, Filling
  <2> QED
    BY <1>1, <1>2, <2>5, <2>7, <2>8, QuietAside
<1> QED
  BY <1>3, <1>4

LEMMA TokensWhole ==
  ASSUME LInv, Typed', NEW a \in Procs, WriteTokens(a)
  PROVE  LInv'
<1>0. pc \in [Procs -> Labels] /\ job \in [Procs -> Jobs] /\ DOMAIN core = Procs /\ Whole(a) /\ FileWhole
  BY DEF LInv, Typed
<1>1. pc[a] = "tables" /\ job[a].fmt = 2 /\ torn' = torn /\ core' = core /\ job' = job /\ pc' = [pc EXCEPT ![a] = "close"]
  BY DEF WriteTokens
<1>2. PICK new, words : /\ new = EncodeTables2(core[a].tables) /\ words = Overlay(file.words, new, Len(new))
                        /\ file' = [file EXCEPT !.words = words]
  BY DEF WriteTokens
<1>3. pc'[a] = "close" /\ OthersKept(a) /\ DOMAIN core' = Procs
  BY <1>0, <1>1 DEF OthersKept
<1>4. file.fmt # -1 /\ (Creating(a) => file.fmt = 2)
  BY <1>0, <1>1 DEF Whole, AfterCreation
<1>5. /\ file'.fmt = file.fmt /\ file'.words = words /\ file'.funs = file.funs
      /\ {"fmt", "maxp", "funs", "cells", "words"} \subseteq DOMAIN file'
  BY <1>0, <1>2 DEF FileWhole
<1>6. FileWhole'
  <2>1. file' # NoFile
    BY <1>4, <1>5 DEF NoFile
  <2> QED
    BY <1>0, <1>4, <1>5, <2>1 DEF FileWhole
<1>7. ~ Creating(a)'
  BY <1>3 DEF Creating
<1>8. Whole(a)'
  BY <1>0, <1>1, <1>3, <1>4, <1>5, <1>7 DEF Whole, AfterCreation, Filling
<1>9. ASSUME file.fmt # 2
      PROVE  Unfinished' <=> Unfinished
  <2>1. ~ Creating(a)
    BY <1>4, <1>9
  <2>2. \A b \in Procs : Creating(b)' <=> Creating(b)
    BY <2>1, <1>7, <1>1, <1>5, OthersWhole, <1>3 DEF LInv
  <2> QED
    BY ONLY <2>2 DEF Unfinished
<1>10. ~ torn /\ file.fmt = 2 => words \in Seq(Nat) /\ Written(words)
  <2>1. SUFFICES ASSUME ~ torn, file.fmt = 2 PROVE words \in Seq(Nat) /\ Written(words)
    OBVIOUS
  <2>2. PICK old \in Seq(Nat) : old = file.words
    BY <2>1 DEF LInv, Created
  <2>3. PICK T \in ListTables : T = core[a].tables
    BY <1>0, <1>1, <2>1 DEF Whole, Filling
  <2> QED
    BY <1>2, <2>2, <2>3, TablesWritten
<1>11. /\ (~ torn /\ file.fmt = 0 => Unfinished) => (~ torn' /\ file.fmt = 0 => Unfinished')
       /\ ~ torn' /\ file.fmt = 2 => file'.words \in Seq(Nat) /\ (file'.words = << 0 >> \/ Written(file'.words))
       /\ ~ torn' /\ file.fmt = 2 /\ ~ Unfinished' => Written(file'.words)
  <2> HIDE DEF Unfinished, Written
  <2> QED
    BY ONLY <1>1, <1>5, <1>9, <1>10
<1> QED
  BY <1>1, <1>3, <1>5, <1>6, <1>7, <1>8, <1>11, Writing

LEMMA CloseWhole ==
  ASSUME LInv, Typed', NEW a \in Procs, CloseFile(a)
  PROVE  LInv'
<1>0. pc \in [Procs -> Labels] /\ job \in [Procs -> Jobs] /\ DOMAIN core = Procs /\ Whole(a) /\ FileWhole
  BY DEF LInv, Typed
<1>1. /\ pc[a] = "close" /\ torn' = torn /\ pc' = [pc EXCEPT ![a] = "idle"] /\ core' = [core EXCEPT ![a] = NoCore]
      /\ job' = [job EXCEPT ![a] = NoJob]
  BY DEF CloseFile, Return
<1>2. file' = file \/ file' = [file EXCEPT !.maxp = core[a].maxp]
  BY DEF CloseFile, Return
<1>3. pc'[a] = "idle" /\ core'[a] = NoCore /\ job'[a] = NoJob /\ OthersKept(a) /\ DOMAIN core' = Procs
  BY <1>0, <1>1 DEF OthersKept
<1>4. file.fmt # -1 /\ ~ Creating(a) /\ ~ Creating(a)'
  BY <1>0, <1>1, <1>3 DEF Whole, AfterCreation, Creating, NoJob
<1>5. /\ file'.fmt = file.fmt /\ file'.words = file.words /\ file'.funs = file.funs
      /\ {"fmt", "maxp", "funs", "cells", "words"} \subseteq DOMAIN file'
  BY <1>0, <1>2 DEF FileWhole
<1>6. FileWhole'
  <2>1. file' # NoFile
    BY <1>4, <1>5 DEF NoFile
  <2> QED
    BY <1>0, <1>4, <1>5, <2>1 DEF FileWhole
<1>7. Whole(a)'
  BY <1>3, <1>4, FunctionsUsable DEF Whole, NoCore, IsCore, NoJob, AfterCreation, Filling
<1> QED
  BY <1>1, <1>3, <1>4, <1>5, <1>6, <1>7, Quiet

LEMMA CrashWhole ==
  ASSUME LInv, Typed', NEW a \in Procs, Crash(a)
  PROVE  LInv'
<1>0. pc \in [Procs -> Labels] /\ job \in [Procs -> Jobs] /\ DOMAIN core = Procs /\ Whole(a) /\ FileWhole
  BY DEF LInv, Typed
<1>1. Die(a) /\ torn' = (torn \/ pc[a] \in {"functions", "tables", "close"}
                              \/ (job[a].isNew /\ pc[a] \in {"lock new", "header", "open"}))
  BY DEF Crash
<1>2. CASE pc[a] \in {"functions", "tables", "close"} \/ (job[a].isNew /\ pc[a] \in {"lock new", "header", "open"})
  <2>1. torn'
    BY <1>1, <1>2
  <2>2. file' = file \/ \E words : file' = [file EXCEPT !.words = words]
    <3>1. CASE pc[a] = "tables" /\ job[a].fmt = 2
      BY <3>1 DEF Crash
    <3>2. CASE ~ (pc[a] = "tables" /\ job[a].fmt = 2)
      BY <3>2 DEF Crash
    <3> QED
      BY <3>1, <3>2
  <2>3. /\ file'.fmt = file.fmt /\ file'.funs = file.funs
        /\ {"fmt", "maxp", "funs", "cells", "words"} \subseteq DOMAIN file'
    BY <1>0, <2>2 DEF FileWhole
  <2>4. file.fmt # -1
    BY <1>0, <1>2 DEF Whole, AfterCreation
  <2>5. FileWhole'
    <3>1. file' # NoFile
      BY <2>3, <2>4 DEF NoFile
    <3> QED
      BY <1>0, <2>3, <2>4, <3>1 DEF FileWhole
  <2>6. DOMAIN core' = Procs /\ OthersKept(a) /\ ~ Creating(a)' /\ Whole(a)'
    BY <1>1, DeadWhole
  <2> QED
    BY <2>1, <2>3, <2>5, <2>6, Writing
<1>3. CASE ~ (pc[a] \in {"functions", "tables", "close"} \/ (job[a].isNew /\ pc[a] \in {"lock new", "header", "open"}))
  <2>1. file' = file
    BY <1>3 DEF Crash
  <2>2. ~ Creating(a)
    BY <1>0, <1>3 DEF Whole, Creating
  <2>3. torn' <=> torn
    BY <1>1, <1>3
  <2>4. DOMAIN core' = Procs /\ OthersKept(a) /\ ~ Creating(a)' /\ Whole(a)'
    BY <1>1, DeadWhole
  <2>5. FileWhole'
    BY <1>0, <2>1 DEF FileWhole
  <2>6. Unfinished' <=> Unfinished
    <3>1. \A b \in Procs : Creating(b)' <=> Creating(b)
      BY <2>1, <2>2, <2>3, <2>4, OthersWhole DEF LInv
    <3> QED
      BY ONLY <3>1 DEF Unfinished
  <2>7. /\ (~ torn /\ file.fmt = 0 => Unfinished) => (~ torn' /\ file.fmt = 0 => Unfinished')
        /\ ~ torn' /\ file.fmt = 2 => file'.words \in Seq(Nat) /\ (file'.words = << 0 >> \/ Written(file'.words))
        /\ ~ torn' /\ file.fmt = 2 /\ ~ Unfinished' => Written(file'.words)
    <3> HIDE DEF Unfinished, Written
    <3>1. /\ ~ torn /\ file.fmt = 2 => file.words \in Seq(Nat) /\ (file.words = << 0 >> \/ Written(file.words))
          /\ ~ torn /\ file.fmt = 2 /\ ~ Unfinished => Written(file.words)
      BY DEF LInv, Created
    <3> QED
      BY ONLY <2>1, <2>3, <2>6, <3>1
  <2> QED
    BY <2>1, <2>3, <2>4, <2>5, <2>7, Writing
<1> QED
  BY <1>2, <1>3

LEMMA WholeNext ==
  ASSUME LInv, Next
  PROVE  LInv'
<1>1. PICK a \in Procs :
        \/ NewIndex(a) \/ OpenForInsert(a) \/ OpenForQuery(a) \/ EndQuery(a)
        \/ \E b \in Batches : InsertPoints(a, b[1], b[2])
        \/ \E fmt \in {1, 2} : Probe(a, fmt)
        \/ Index(a) \/ Crash(a)
  BY DEF Next
<1>2. Typed'
  BY TypedNext DEF LInv
<1>3. CASE NewIndex(a) \/ OpenForInsert(a) \/ OpenForQuery(a) \/ EndQuery(a)
  BY <1>2, <1>3, OpeningWhole
<1>4. CASE \E b \in Batches : InsertPoints(a, b[1], b[2])
  BY <1>2, <1>4, InsertingWhole
<1>5. CASE \E fmt \in {1, 2} : Probe(a, fmt)
  BY <1>2, <1>5, ProbeWhole
<1>6. CASE Index(a)
  BY <1>2, <1>6, CreateWhole, LockWhole, HeaderWhole, OpenWhole, FunctionsWhole, CellsWhole, MergeWhole, TokensWhole,
     CloseWhole DEF Index
<1>7. CASE Crash(a)
  BY <1>2, <1>7, CrashWhole
<1> QED
  BY <1>1, <1>3, <1>4, <1>5, <1>6, <1>7

LEMMA WholeKept == LInv /\ [Next]_vars => LInv'
<1>1. LInv /\ UNCHANGED vars => LInv'
  <2> SUFFICES ASSUME LInv, UNCHANGED vars PROVE LInv'
    OBVIOUS
  <2>1. /\ file' = file /\ lock' = lock /\ pc' = pc /\ core' = core /\ job' = job /\ acked' = acked
        /\ torn' = torn /\ jobs' = jobs
    BY DEF vars
  <2>2. Typed' /\ DOMAIN core' = Procs /\ FileWhole'
    BY <2>1 DEF LInv, FileWhole, Typed
  <2>3. \A b \in Procs : Creating(b)' = Creating(b)
    BY <2>1 DEF Creating
  <2>4. \A b \in Procs : Whole(b)'
    BY <2>1, <2>3 DEF LInv, Whole
  <2>5. Unfinished' = Unfinished
    BY <2>1 DEF Unfinished, Creating
  <2>6. Created'
    <3> HIDE DEF Unfinished, Written
    <3>1. Created
      BY DEF LInv
    <3> QED
      BY ONLY <2>1, <2>3, <2>5, <3>1 DEF Created
  <2> QED
    BY <2>2, <2>4, <2>6 DEF LInv
<1> QED
  BY <1>1, WholeNext

LEMMA WholeAlways == Spec => []LInv
BY WholeInit, WholeKept, PTL DEF Spec

(* An index that nobody is creating and that no writer died in can be       *)
(* loaded: what indexers write, alone or behind what they merge, is what    *)
(* the reading state machine accepts (lshlib.cpp:1183-1277, 1380-1505).     *)
THEOREM IndexLoads == Spec => []LoadableWhenFree
BY WholeAlways, LoadableBecause, PTL

-----------------------------------------------------------------------------
(* Two digits of a word are told apart again.                               *)
Apart(p, k, m) == (p + k * m) % m = p /\ (p + k * m) \div m = k

LEMMA Digits ==
  ASSUME NEW m \in Nat, m > 0, NEW p \in 0 .. m - 1, NEW k \in Nat
  PROVE  Apart(p, k, m)
<1>1. PICK s \in Nat, c \in Nat : s = p + k * m /\ c = m * k /\ s = p + c
  <2>1. k * m \in Nat /\ k * m = m * k
    OBVIOUS
  <2> QED
    BY <2>1
<1>2. PICK q \in Nat, r \in 0 .. m - 1 : q = s \div m /\ r = s % m /\ s = m * q + r
  <2>1. s \div m \in Nat /\ s % m \in 0 .. m - 1 /\ s = m * (s \div m) + (s % m)
    BY ONLY s \in Nat, m \in Nat, m > 0
  <2> QED
    BY <2>1
<1>3. PICK d \in Nat : d = m * q
  OBVIOUS
<1>4. (q >= k + 1 => d >= c + m) /\ (k >= q + 1 => c >= d + m)
  BY ONLY <1>1, <1>3, Multiples, m \in Nat, q \in Nat, k \in Nat
<1>5. q = k
  <2>1. p + c = d + r
    BY ONLY <1>1, <1>2, <1>3
  <2> QED
    BY ONLY <1>4, <2>1, q \in Nat, k \in Nat, c \in Nat, d \in Nat, p \in 0 .. m - 1, r \in 0 .. m - 1, m \in Nat
<1>6. r = p
  BY ONLY <1>1, <1>2, <1>3, <1>5, r \in 0 .. m - 1, p \in 0 .. m - 1, c \in Nat, m \in Nat
<1> QED
  BY ONLY <1>1, <1>2, <1>5, <1>6 DEF Apart

(* How many words a block of n points takes.                                *)
WordsOf(n) == IF n = 1 THEN 3 ELSE n + 1

LEMMA SkipNumbers ==
  /\ SkipBase \in Nat /\ SkipBase > 1 /\ PointLimit \in Nat /\ PointLimit > 0 /\ MaxBlock \in Nat /\ MaxBlock >= 2
  /\ Points \subseteq 0 .. PointLimit - 1 /\ Points \subseteq Nat /\ Keys \subseteq Nat
  /\ EndOfRow \in Nat /\ \A key \in Keys : key < EndOfRow
<1>1. SkipBase \in Nat /\ SkipBase > 1 /\ PointLimit \in Nat /\ PointLimit > 0
  BY WordAssumption
<1>2. MaxBlock \in Nat /\ MaxBlock >= 2
  <2>1. PICK b \in Nat : b = SkipBase /\ b >= 1 + 1
    BY <1>1
  <2>2. b * b \in Nat /\ b * b >= b * 1 + b
    BY ONLY <2>1, Multiples, b \in Nat, 1 \in Nat
  <2>3. b * 1 = b
    OBVIOUS
  <2>4. PICK c \in Nat : c = b * b
    BY <2>2
  <2> QED
    BY ONLY <2>1, <2>2, <2>3, <2>4, b \in Nat, c \in Nat DEF MaxBlock
<1>3. Points \subseteq 0 .. PointLimit - 1
  BY PointsAssumption
<1>4. EndOfRow \in Nat /\ \A key \in Keys : key < EndOfRow /\ key \in Nat
  <2>1. PICK w \in Nat : w = Word /\ w > 14
    <3>1. PICK l \in Nat : l = PointLimit /\ l > 7 /\ Word >= 2 * l
      BY NumbersAre
    <3> QED
      BY <3>1, NumbersAre
  <2> QED
    BY ONLY <2>1, w \in Nat DEF EndOfRow, Keys, Prime
<1> QED
  BY <1>1, <1>2, <1>3, <1>4

(* The words of a block.                                                    *)
BlockHas(w, key, q, n) ==
  /\ w \in Seq(Nat) /\ Len(w) = WordsOf(n) /\ w[1] = key
  /\ n = 1 => w[2] = q[1] /\ w[3] = 0
  /\ n > 1 => /\ w[2] = q[1] + ((n - 1) % SkipBase) * PointLimit
              /\ w[3] = q[2] + ((n - 1) \div SkipBase) * PointLimit
              /\ \A i \in 3 .. n : w[i + 1] = q[i]

LEMMA BlockSpelt ==
  ASSUME NEW key \in Keys, NEW q \in Seq(Points), NEW n \in Nat, n = Len(q), n # 0
  PROVE  BlockHas(BlockWords(key, q), key, q, n)
<1>1. key \in Nat /\ \A i \in 1 .. n : q[i] \in Points /\ q[i] \in Nat
  <2>1. \A i \in 1 .. n : q[i] \in Points
    OBVIOUS
  <2> QED
    BY ONLY <2>1, SkipNumbers, key \in Keys
<1>2. CASE n = 1
  <2>1. BlockWords(key, q) = <<key, q[1], 0>>
    BY <1>2 DEF BlockWords
  <2>3. key \in Nat /\ q[1] \in Nat /\ 0 \in Nat
    <3>1. 1 \in 1 .. n
      BY ONLY <1>2
    <3> QED
      BY ONLY <1>1, <3>1
  <2>4. PICK z : z = <<key, q[1], 0>> /\ z \in Seq(Nat) /\ Len(z) = 3 /\ z[1] = key /\ z[2] = q[1] /\ z[3] = 0
    <3>1. PICK a \in Nat, b \in Nat : a = key /\ b = q[1]
      BY ONLY <2>3
    <3>2. PICK z : z = <<a, b, 0>>
      OBVIOUS
    <3>3. z \in Seq(Nat) /\ Len(z) = 3 /\ z[1] = a /\ z[2] = b /\ z[3] = 0
      BY ONLY <3>2, a \in Nat, b \in Nat
    <3> QED
      BY ONLY <3>1, <3>2, <3>3
  <2> QED
    BY ONLY <1>2, <2>1, <2>4 DEF WordsOf, BlockHas
<1>3. CASE n > 1
  <2>1. PICK a, b : a = q[1] + ((n - 1) % SkipBase) * PointLimit /\ b = q[2] + ((n - 1) \div SkipBase) * PointLimit
    OBVIOUS
  <2>2. a \in Nat /\ b \in Nat
    <3>1. PICK x \in Nat, y \in Nat : x = (n - 1) % SkipBase /\ y = (n - 1) \div SkipBase
      <4>1. n - 1 \in Nat
        BY <1>3
      <4>2. \A u, v \in Nat : v > 1 => u % v \in Nat /\ u \div v \in Nat
        OBVIOUS
      <4> QED
        BY ONLY <4>1, <4>2, SkipNumbers
    <3>2. x * PointLimit \in Nat /\ y * PointLimit \in Nat
      BY ONLY SkipNumbers, x \in Nat, y \in Nat
    <3>3. q[1] \in Nat /\ q[2] \in Nat
      <4>1. 1 \in 1 .. n /\ 2 \in 1 .. n
        BY ONLY <1>3, n \in Nat
      <4> QED
        BY ONLY <1>1, <4>1
    <3>4. \A u, v \in Nat : u + v \in Nat
      OBVIOUS
    <3> QED
      BY ONLY <2>1, <3>1, <3>2, <3>3, <3>4
  <2>3. PICK h \in Seq(Nat) : h = <<key, a, b>> /\ Len(h) = 3 /\ h[1] = key /\ h[2] = a /\ h[3] = b
    <3>1. PICK k \in Nat, c \in Nat, d \in Nat : k = key /\ c = a /\ d = b
      BY ONLY <1>1, <2>2
    <3>2. PICK z : z = <<k, c, d>>
      OBVIOUS
    <3>3. z \in Seq(Nat) /\ Len(z) = 3 /\ z[1] = k /\ z[2] = c /\ z[3] = d
      BY ONLY <3>2, k \in Nat, c \in Nat, d \in Nat
    <3> QED
      BY ONLY <3>1, <3>2, <3>3
  <2>4. PICK t \in Seq(Nat) : t = SubSeq(q, 3, n) /\ Len(t) = n - 2 /\ \A i \in 1 .. n - 2 : t[i] = q[i + 2]
    <3>1. SubSeq(q, 3, n) = [i \in 1 .. n - 2 |-> q[i + 2]]
      BY <1>3
    <3>2. \A i \in 1 .. n - 2 : i + 2 \in 1 .. n
      OBVIOUS
    <3>3. PICK m \in Nat : m = n - 2
      BY <1>3
    <3>4. [i \in 1 .. m |-> q[i + 2]] \in Seq(Nat) /\ Len([i \in 1 .. m |-> q[i + 2]]) = m
      <4>1. \A i \in 1 .. m : q[i + 2] \in Nat
        BY ONLY <1>1, <3>2, <3>3
      <4>2. [i \in 1 .. m |-> q[i + 2]] \in [1 .. m -> Nat]
        BY ONLY <4>1
      <4> QED
        BY <4>2
    <3> QED
      BY ONLY <3>1, <3>3, <3>4
  <2>5. BlockWords(key, q) = h \o t
    <3>n. n # 1
      BY ONLY <1>3, n \in Nat
    <3>1. Len(q) # 1
      BY ONLY <3>n, n = Len(q), Zenon
    <3>2. BlockWords(key, q) = <<key, q[1] + ((Len(q) - 1) % SkipBase) * PointLimit,
                                 q[2] + ((Len(q) - 1) \div SkipBase) * PointLimit>> \o SubSeq(q, 3, Len(q))
      BY ONLY <3>1 DEF BlockWords, SkipOf
    <3> QED
      BY ONLY <2>1, <2>3, <2>4, <3>2, n = Len(q)
  <2>6. PICK z \in Seq(Nat) : z = h \o t /\ Len(z) = n + 1 /\ z[1] = h[1] /\ z[2] = h[2] /\ z[3] = h[3]
                              /\ \A i \in 1 .. n - 2 : z[3 + i] = t[i]
    <3>1. h \o t \in Seq(Nat) /\ Len(h \o t) = 3 + Len(t)
          /\ (\A i \in 1 .. 3 : (h \o t)[i] = h[i]) /\ (\A i \in 1 .. Len(t) : (h \o t)[3 + i] = t[i])
      BY ONLY <2>3, h \in Seq(Nat), t \in Seq(Nat)
    <3>2. 3 + (n - 2) = n + 1 /\ 1 \in 1 .. 3 /\ 2 \in 1 .. 3 /\ 3 \in 1 .. 3
      OBVIOUS
    <3>3. 3 + Len(t) = n + 1 /\ Len(t) = n - 2
      BY ONLY <2>4, <3>2
    <3>4. \A i \in 1 .. n - 2 : (h \o t)[3 + i] = t[i]
      BY ONLY <3>1, <3>3
    <3>5. PICK z : z = h \o t
      OBVIOUS
    <3> QED
      BY ONLY <3>1, <3>2, <3>3, <3>4, <3>5
  <2>7. \A i \in 3 .. n : z[i + 1] = q[i]
    <3> SUFFICES ASSUME NEW i \in 3 .. n PROVE z[i + 1] = q[i]
      OBVIOUS
    <3>1. PICK m \in 1 .. n - 2 : m = i - 2 /\ 3 + m = i + 1 /\ m + 2 = i
      BY ONLY i \in 3 .. n, n \in Nat
    <3>2. z[3 + m] = t[m]
      BY ONLY <2>6, m \in 1 .. n - 2
    <3>3. t[m] = q[m + 2]
      BY ONLY <2>4, m \in 1 .. n - 2
    <3> QED
      BY ONLY <3>1, <3>2, <3>3
  <2>8. n # 1
    BY ONLY <1>3, n \in Nat
  <2> QED
    BY ONLY <1>3, <2>1, <2>3, <2>5, <2>6, <2>7, <2>8 DEF WordsOf, BlockHas
<1> QED
  BY <1>2, <1>3

(* A block where it is read.                                                *)
LEMMA BlockRead ==
  ASSUME NEW words \in Seq(Nat), NEW o \in Nat, NEW key \in Keys, NEW q \in Seq(Points), NEW n \in Nat, n = Len(q), n # 0,
         Spells(words, o, BlockWords(key, q)), NEW block, block = BlockAt(words, o + 1)
  PROVE  /\ words[o + 1] = key /\ (o + 1) + 2 <= Len(words)
         /\ block.t2 = key /\ block.skip = n - 1 /\ PointsBehind(block) \in Nat
         /\ (o + 1) + 3 + PointsBehind(block) = (o + WordsOf(n)) + 1
         /\ PointsOf(words, o + 1, block) = Range(q)
<1>0. BlockHas(BlockWords(key, q), key, q, n)
  BY BlockSpelt, Zenon
<1>1. PICK w \in Seq(Nat), k \in Nat : w = BlockWords(key, q) /\ k = WordsOf(n) /\ k = Len(w) /\ k >= 3
  <2>1. BlockWords(key, q) \in Seq(Nat) /\ Len(BlockWords(key, q)) = WordsOf(n)
    BY ONLY <1>0 DEF BlockHas
  <2>2. WordsOf(n) \in Nat /\ WordsOf(n) >= 3
    BY ONLY n \in Nat, n # 0 DEF WordsOf
  <2> QED
    BY ONLY <2>1, <2>2
<1>2. PICK l \in Nat : l = Len(words) /\ o + k <= l /\ \A i \in 1 .. k : words[o + i] = w[i]
  <2>1. Spells(words, o, w) /\ Len(words) \in Nat
    BY ONLY <1>1, Spells(words, o, BlockWords(key, q)), words \in Seq(Nat)
  <2>2. o + k <= Len(words) /\ \A i \in 1 .. k : words[o + i] = w[i]
    BY ONLY <1>1, <2>1 DEF Spells
  <2> QED
    BY ONLY <2>1, <2>2
<1>3. words[o + 1] = w[1] /\ words[o + 2] = w[2] /\ words[o + 3] = w[3] /\ (o + 1) + 2 <= l
  <2>1. 1 \in 1 .. k /\ 2 \in 1 .. k /\ 3 \in 1 .. k /\ (o + 1) + 2 <= l
    BY ONLY <1>1, <1>2, o \in Nat, k \in Nat, l \in Nat
  <2> QED
    BY ONLY <1>2, <2>1
<1>4. w[1] = key
  BY ONLY <1>0, <1>1 DEF BlockHas
<1>5. PICK p1, p2 : p1 = w[2] /\ p2 = w[3]
  OBVIOUS
<1>6. block = [t2 |-> key, first |-> p1 % PointLimit, second |-> p2 % PointLimit,
               skip |-> p1 \div PointLimit + (p2 \div PointLimit) * SkipBase]
  <2>1. (o + 1) + 1 = o + 2 /\ (o + 1) + 2 = o + 3
    BY ONLY o \in Nat
  <2>2. words[(o + 1) + 1] = p1 /\ words[(o + 1) + 2] = p2 /\ words[o + 1] = key
    BY ONLY <1>3, <1>4, <1>5, <2>1
  <2> QED
    BY ONLY <2>2, block = BlockAt(words, o + 1) DEF BlockAt
<1>7. \A i \in 1 .. n : q[i] \in Points /\ q[i] \in 0 .. PointLimit - 1
  <2>1. \A i \in 1 .. n : q[i] \in Points
    OBVIOUS
  <2> QED
    BY ONLY <2>1, SkipNumbers
<1>8. CASE n = 1
  <2>1. q[1] \in 0 .. PointLimit - 1 /\ p1 = q[1] /\ p2 = 0
    <3>1. 1 \in 1 .. n
      BY ONLY <1>8
    <3>2. w[2] = q[1] /\ w[3] = 0
      BY ONLY <1>0, <1>1, <1>8 DEF BlockHas
    <3> QED
      BY ONLY <1>5, <1>7, <3>1, <3>2
  <2>2. /\ p1 % PointLimit = q[1] /\ p1 \div PointLimit = 0
        /\ p2 % PointLimit = 0 /\ p2 \div PointLimit = 0
    <3>1. PICK m \in Nat, p \in Nat : m = PointLimit /\ m > 0 /\ p = p1 /\ p \in 0 .. m - 1
      <4>1. PointLimit \in Nat /\ PointLimit > 0
        BY ONLY SkipNumbers
      <4>2. \A m \in Nat : \A p \in 0 .. m - 1 : p \in Nat
        OBVIOUS
      <4> QED
        BY ONLY <2>1, <4>1, <4>2
    <3>2. p % m = p /\ p \div m = 0 /\ 0 % m = 0 /\ 0 \div m = 0
      BY ONLY m \in Nat, p \in Nat, <3>1
    <3> QED
      BY ONLY <2>1, <3>1, <3>2
  <2>3. block.t2 = key /\ block.first = q[1] /\ block.skip = 0
    <3>1. 0 + 0 * SkipBase = 0
      BY ONLY SkipNumbers
    <3> QED
      BY ONLY <1>6, <2>2, <3>1
  <2>4. PointsBehind(block) = 0
    BY ONLY <2>3 DEF PointsBehind
  <2>5. PointsOf(words, o + 1, block) = {q[1]}
    <3>1. {IF j <= Len(words) THEN words[j] ELSE Wild : j \in (o + 1) + 3 .. (o + 1) + 2 + 0} = {}
      <4>1. (o + 1) + 3 .. (o + 1) + 2 + 0 = {}
        BY ONLY o \in Nat
      <4> QED
        BY ONLY <4>1
    <3>2. ~ (block.skip > 0)
      BY ONLY <2>3
    <3> QED
      BY ONLY <2>3, <2>4, <3>1, <3>2 DEF PointsOf
  <2>6. Range(q) = {q[1]}
    <3>1. DOMAIN q = {1}
      <4>1. DOMAIN q = 1 .. n
        OBVIOUS
      <4>2. 1 .. 1 = {1}
        OBVIOUS
      <4> QED
        BY ONLY <1>8, <4>1, <4>2
    <3> QED
      BY ONLY <3>1 DEF Range
  <2>7. (o + 1) + 3 + 0 = (o + 3) + 1 /\ 3 = WordsOf(n) /\ 0 = n - 1
    BY ONLY <1>8, o \in Nat DEF WordsOf
  <2> QED
    BY ONLY <1>2, <1>3, <1>4, <2>3, <2>4, <2>5, <2>6, <2>7, 0 \in Nat
<1>9. CASE n > 1
  <2> DEFINE d1 == (n - 1) % SkipBase
             d2 == (n - 1) \div SkipBase
  <2>1. PICK x \in Nat, y \in Nat : x = d1 /\ y = d2 /\ x + y * SkipBase = n - 1
    <3>1. PICK m \in Nat, b \in Nat : m = n - 1 /\ b = SkipBase /\ b > 1
      BY ONLY <1>9, n \in Nat, SkipNumbers
    <3>2. m % b \in Nat /\ m \div b \in Nat /\ m = b * (m \div b) + (m % b)
      BY ONLY <3>1, m \in Nat, b \in Nat
    <3>3. PICK x \in Nat, y \in Nat : x = m % b /\ y = m \div b /\ m = b * y + x
      BY ONLY <3>2
    <3>4. b * y = y * b /\ y * b \in Nat
      BY ONLY b \in Nat, y \in Nat
    <3>5. x + y * b = m
      BY ONLY <3>3, <3>4, x \in Nat, m \in Nat
    <3> QED
      BY ONLY <3>1, <3>3, <3>5
  <2>2. p1 = q[1] + x * PointLimit /\ p2 = q[2] + y * PointLimit /\ \A i \in 3 .. n : w[i + 1] = q[i]
    BY ONLY <1>0, <1>1, <1>5, <1>9, <2>1 DEF BlockHas
  <2>3. q[1] \in 0 .. PointLimit - 1 /\ q[2] \in 0 .. PointLimit - 1
    <3>1. 1 \in 1 .. n /\ 2 \in 1 .. n
      BY ONLY <1>9, n \in Nat
    <3> QED
      BY ONLY <1>7, <3>1
  <2>4. /\ p1 % PointLimit = q[1] /\ p1 \div PointLimit = x
        /\ p2 % PointLimit = q[2] /\ p2 \div PointLimit = y
    <3>1. PICK m \in Nat : m = PointLimit /\ m > 0
      BY ONLY SkipNumbers
    <3>2. q[1] \in 0 .. m - 1 /\ q[2] \in 0 .. m - 1
      BY ONLY <2>3, <3>1
    <3>3. PICK a \in 0 .. m - 1, b \in 0 .. m - 1 : a = q[1] /\ b = q[2]
      BY ONLY <3>2
    <3>4. /\ (a + x * m) % m = a /\ (a + x * m) \div m = x
          /\ (b + y * m) % m = b /\ (b + y * m) \div m = y
      <4>1. Apart(a, x, m) /\ Apart(b, y, m)
        BY ONLY <3>1, Digits, m \in Nat, a \in 0 .. m - 1, b \in 0 .. m - 1, x \in Nat, y \in Nat
      <4> QED
        BY ONLY <4>1 DEF Apart
    <3>5. p1 = a + x * m /\ p2 = b + y * m
      BY ONLY <2>2, <3>1, <3>3
    <3> QED
      BY ONLY <3>1, <3>3, <3>4, <3>5
  <2>5. block.t2 = key /\ block.first = q[1] /\ block.second = q[2] /\ block.skip = n - 1
    BY ONLY <1>6, <2>1, <2>4
  <2>6. PointsBehind(block) = n - 2
    <3>1. IF n - 1 > 1 THEN (n - 1) - 1 = n - 2 ELSE 0 = n - 2
      BY ONLY <1>9, n \in Nat
    <3> QED
      BY ONLY <2>5, <3>1 DEF PointsBehind
  <2>7. PointsOf(words, o + 1, block) = Range(q)
    <3>1. block.skip > 0
      BY ONLY <1>9, <2>5, n \in Nat
    <3> DEFINE more == {IF j <= Len(words) THEN words[j] ELSE Wild : j \in (o + 1) + 3 .. (o + 1) + 2 + (n - 2)}
    <3>2. PointsOf(words, o + 1, block) = {q[1]} \cup {q[2]} \cup more
      BY ONLY <2>5, <2>6, <3>1 DEF PointsOf
    <3>3. k = n + 1
      BY ONLY <1>1, <1>9, n \in Nat DEF WordsOf
    <3>4. ASSUME NEW i \in 3 .. n PROVE q[i] \in more
      <4>1. PICK j \in Nat : j = o + (i + 1) /\ j \in (o + 1) + 3 .. (o + 1) + 2 + (n - 2) /\ j <= l /\ i + 1 \in 1 .. k
        BY ONLY i \in 3 .. n, n \in Nat, o \in Nat, k \in Nat, l \in Nat, <3>3, <1>2
      <4>2. words[j] = q[i]
        BY ONLY <1>2, <2>2, <4>1, i \in 3 .. n
      <4> QED
        BY ONLY <1>2, <4>1, <4>2
    <3>5. ASSUME NEW j \in (o + 1) + 3 .. (o + 1) + 2 + (n - 2)
          PROVE  \E i \in 3 .. n : (IF j <= Len(words) THEN words[j] ELSE Wild) = q[i]
      <4>1. PICK i \in 3 .. n : j = o + (i + 1) /\ j <= l /\ i + 1 \in 1 .. k
        <5>1. j - (o + 1) \in 3 .. n /\ j = o + ((j - (o + 1)) + 1) /\ j <= l /\ (j - (o + 1)) + 1 \in 1 .. k
          BY ONLY j \in (o + 1) + 3 .. (o + 1) + 2 + (n - 2), n \in Nat, o \in Nat, k \in Nat, l \in Nat, <3>3, <1>2
        <5> QED
          BY ONLY <5>1
      <4>2. words[j] = q[i]
        BY ONLY <1>2, <2>2, <4>1, i \in 3 .. n
      <4> QED
        BY ONLY <1>2, <4>1, <4>2, i \in 3 .. n
    <3>6. \A v : v \in more <=> \E i \in 3 .. n : v = q[i]
      BY ONLY <3>4, <3>5
    <3>7. DOMAIN q = 1 .. n /\ 1 .. n = {1} \cup {2} \cup 3 .. n
      BY <1>9
    <3>8. \A v : v \in Range(q) <=> \E i \in 1 .. n : v = q[i]
      BY ONLY <3>7 DEF Range
    <3> HIDE DEF more
    <3> QED
      BY ONLY <3>2, <3>6, <3>7, <3>8
  <2>8. (o + 1) + 3 + (n - 2) = (o + (n + 1)) + 1 /\ n + 1 = WordsOf(n) /\ n - 2 \in Nat
    BY ONLY <1>9, o \in Nat, n \in Nat DEF WordsOf
  <2> QED
    BY ONLY <1>2, <1>3, <1>4, <2>5, <2>6, <2>7, <2>8
<1> QED
  BY <1>8, <1>9

(* A walk that always goes on further behind, and not for ever.             *)
Walks(f, val, go, nxt) == f = [at \in Nat |-> val[at] \cup (IF at \in go THEN f[nxt[at]] ELSE {})]

LEMMA WalkExists ==
  ASSUME NEW n \in Nat, NEW val, NEW go, NEW nxt, \A at \in Nat : at \in go => at <= n /\ nxt[at] \in Nat /\ nxt[at] > at
  PROVE  \E f : Walks(f, val, go, nxt)
<1> DEFINE Fits(g, at) == g[at] = val[at] \cup (IF at \in go THEN g[nxt[at]] ELSE {})
           Has(d) == \E g : g = [at \in Nat |-> g[at]] /\ \A at \in Nat : at + d > n => Fits(g, at)
           T == {d \in Nat : Has(d)}
<1>1. 0 \in T
  <2> DEFINE g == [at \in Nat |-> val[at]]
  <2>1. g = [at \in Nat |-> g[at]]
    OBVIOUS
  <2>2. ASSUME NEW at \in Nat, at + 0 > n PROVE Fits(g, at)
    <3>1. at \notin go
      BY <2>2
    <3> QED
      BY <3>1
  <2> HIDE DEF g, Fits
  <2>3. Has(0)
    BY <2>1, <2>2
  <2> HIDE DEF Has
  <2> QED
    BY <2>3
<1>2. ASSUME NEW d \in T PROVE d + 1 \in T
  <2>0. d \in Nat /\ d + 1 \in Nat /\ Has(d)
    <3> HIDE DEF Has
    <3> QED
      OBVIOUS
  <2>1. PICK g : g = [at \in Nat |-> g[at]] /\ \A at \in Nat : at + d > n => Fits(g, at)
    <3> HIDE DEF Fits
    <3> QED
      BY <2>0
  <2> HIDE DEF T
  <2>2. CASE d > n
    <3>1. \A at \in Nat : at + d > n
      BY <2>0, <2>2
    <3> HIDE DEF Fits
    <3>2. Has(d + 1)
      BY <2>1, <3>1
    <3> HIDE DEF Has
    <3> QED
      BY <2>0, <3>2 DEF T
  <2>3. CASE d <= n
    <3>1. PICK k \in Nat : k = n - d /\ k + d = n
      BY <2>0, <2>3
    <3> DEFINE new == val[k] \cup (IF k \in go THEN g[nxt[k]] ELSE {})
               h == [at \in Nat |-> IF at = k THEN new ELSE g[at]]
    <3>2. h = [at \in Nat |-> h[at]]
      OBVIOUS
    <3>3. ASSUME NEW at \in Nat, at + (d + 1) > n PROVE Fits(h, at)
      <4>1. at >= k
        BY ONLY <2>0, <3>1, <3>3, at \in Nat, k \in Nat, n \in Nat
      <4>2. at \in go => nxt[at] \in Nat /\ nxt[at] # k
        BY <4>1
      <4>3. at \in go => h[nxt[at]] = g[nxt[at]]
        <5> HIDE DEF new
        <5> QED
          BY ONLY <4>2 DEF h
      <4>4. CASE at = k
        <5> QED
          BY ONLY <4>3, <4>4, at \in Nat DEF h, new, Fits
      <4>5. CASE at # k
        <5>1. at + d > n
          BY ONLY <2>0, <3>1, <4>1, <4>5, at \in Nat, k \in Nat, n \in Nat
        <5>2. g[at] = val[at] \cup (IF at \in go THEN g[nxt[at]] ELSE {})
          BY ONLY <2>1, <5>1, at \in Nat DEF Fits
        <5>3. h[at] = g[at]
          BY ONLY <4>5, at \in Nat DEF h
        <5> HIDE DEF h
        <5> QED
          BY ONLY <4>3, <5>2, <5>3 DEF Fits
      <4> QED
        BY ONLY <4>4, <4>5
    <3> HIDE DEF h, Fits
    <3>4. Has(d + 1)
      BY ONLY <3>2, <3>3 DEF Has
    <3> HIDE DEF Has
    <3> QED
      BY <2>0, <3>4 DEF T
  <2> QED
    BY <2>0, <2>2, <2>3
<1> HIDE DEF Has
<1>3. T = Nat
  <2> HIDE DEF T
  <2>1. T \in SUBSET Nat
    BY DEF T
  <2> QED
    BY ONLY <1>1, <1>2, <2>1, NatSetInduction
<1>4. Has(n + 1)
  BY <1>3
<1>5. PICK g : g = [at \in Nat |-> g[at]] /\ \A at \in Nat : at + (n + 1) > n => Fits(g, at)
  <2> HIDE DEF Fits
  <2> QED
    BY <1>4 DEF Has
<1>6. \A at \in Nat : at + (n + 1) > n
  OBVIOUS
<1>7. \A at \in Nat : g[at] = val[at] \cup (IF at \in go THEN g[nxt[at]] ELSE {})
  BY ONLY <1>5, <1>6 DEF Fits
<1>8. g = [at \in Nat |-> val[at] \cup (IF at \in go THEN g[nxt[at]] ELSE {})]
  BY ONLY <1>5, <1>7
<1> QED
  BY ONLY <1>8 DEF Walks

(* What the walks over an array make of the words from at on.               *)
DumpAt(f, words, at) ==
  IF at + 2 > Len(words) THEN {<<Wild, Wild>>}
  ELSE LET block == BlockAt(words, at)
           next == at + 3 + PointsBehind(block)
       IN  {<<block.t2, p>> : p \in PointsOf(words, at, block)} \cup (IF AtEnd(words, next) THEN {} ELSE f[next])

RetrieveAt(f, words, t2, at) ==
  IF at <= Len(words) /\ words[at] > t2 THEN {}
  ELSE IF at + 2 > Len(words) THEN {Wild}
  ELSE LET block == BlockAt(words, at)
           found == block.t2 = t2
           next == IF found THEN at + 3 + PointsBehind(block) ELSE PassOver(words, at, block)
       IN  (IF found THEN PointsOf(words, at, block) ELSE {}) \cup (IF AtEnd(words, next) THEN {} ELSE f[next])

LEMMA SkipIsNumber ==
  ASSUME NEW words \in Seq(Nat), NEW at \in Nat, at + 2 <= Len(words)
  PROVE  LET block == BlockAt(words, at)
         IN  /\ PointsBehind(block) \in Nat /\ block.skip \in Nat
             /\ PassOver(words, at, block) \in Nat /\ PassOver(words, at, block) > at
<1>1. words[at + 1] \in Nat /\ words[at + 2] \in Nat
  <2>1. PICK l \in Nat : l = Len(words) /\ \A i \in 1 .. l : words[i] \in Nat
    OBVIOUS
  <2>2. at + 1 \in 1 .. l /\ at + 2 \in 1 .. l
    BY ONLY <2>1, at \in Nat, l \in Nat, at + 2 <= Len(words)
  <2> QED
    BY ONLY <2>1, <2>2
<1>2. PICK p1 \in Nat, p2 \in Nat : p1 = words[at + 1] /\ p2 = words[at + 2]
  BY ONLY <1>1
<1>3. PICK a \in Nat, b \in Nat : a = p1 \div PointLimit /\ b = (p2 \div PointLimit) * SkipBase
  <2>1. PICK m \in Nat, s \in Nat : m = PointLimit /\ s = SkipBase /\ m > 0
    BY ONLY SkipNumbers
  <2>2. p1 \div m \in Nat /\ p2 \div m \in Nat
    BY ONLY <2>1, p1 \in Nat, p2 \in Nat, m \in Nat
  <2>3. PICK y \in Nat : y = p2 \div m
    BY ONLY <2>2
  <2>4. y * s \in Nat
    BY ONLY y \in Nat, s \in Nat
  <2> QED
    BY ONLY <2>1, <2>2, <2>3, <2>4
<1>4. PICK block : block = BlockAt(words, at)
  OBVIOUS
<1>5. block.skip = a + b
  BY ONLY <1>2, <1>3, <1>4 DEF BlockAt
<1>6. PICK k \in Nat : k = block.skip
  BY ONLY <1>5, a \in Nat, b \in Nat
<1>7. PointsBehind(block) \in Nat
  <2>1. (IF k > 1 THEN k - 1 ELSE 0) \in Nat
    BY ONLY k \in Nat
  <2> QED
    BY ONLY <1>6, <2>1 DEF PointsBehind
<1>8. PassOver(words, at, block) \in Nat /\ PassOver(words, at, block) > at
  <2>1. PassOver(words, at, block) = at + 3 \/ PassOver(words, at, block) = at + 3 + k
    BY ONLY <1>6 DEF PassOver
  <2> QED
    BY ONLY <2>1, at \in Nat, k \in Nat
<1> QED
  BY ONLY <1>4, <1>6, <1>7, <1>8

LEMMA DumpWalk ==
  ASSUME NEW words \in Seq(Nat)
  PROVE  \E f : DumpArray(words) = f[1] /\ \A at \in Nat : f[at] = DumpAt(f, words, at)
<1>1. PICK l \in Nat : l = Len(words)
  OBVIOUS
<1> DEFINE nxt == [at \in Nat |-> at + 3 + PointsBehind(BlockAt(words, at))]
           go == {at \in Nat : ~ (at + 2 > l) /\ ~ AtEnd(words, nxt[at])}
           val == [at \in Nat |-> IF at + 2 > l THEN {<<Wild, Wild>>}
                                  ELSE {<<BlockAt(words, at).t2, p>> : p \in PointsOf(words, at, BlockAt(words, at))}]
<1>2. ASSUME NEW at \in Nat, at \in go PROVE at <= l /\ nxt[at] \in Nat /\ nxt[at] > at
  <2>1. at + 2 <= l /\ at <= l
    BY ONLY <1>2, at \in Nat, l \in Nat
  <2>2. PICK k \in Nat : k = PointsBehind(BlockAt(words, at))
    BY ONLY <1>1, <2>1, SkipIsNumber, words \in Seq(Nat), at \in Nat
  <2>3. nxt[at] = at + 3 + k
    BY ONLY <2>2, at \in Nat
  <2> QED
    BY ONLY <2>1, <2>3, at \in Nat, k \in Nat
<1>3. PICK f : Walks(f, val, go, nxt)
  <2> HIDE DEF val, go, nxt
  <2> QED
    BY ONLY <1>2, WalkExists, l \in Nat
<1>4. ASSUME NEW at \in Nat
      PROVE  val[at] \cup (IF at \in go THEN f[nxt[at]] ELSE {}) = DumpAt(f, words, at)
  <2>1. PICK k : k = at + 3 + PointsBehind(BlockAt(words, at)) /\ k = nxt[at]
    BY ONLY at \in Nat
  <2>2. CASE at + 2 > l
    <3>1. at \notin go
      BY ONLY <2>2
    <3>2. val[at] = {<<Wild, Wild>>}
      BY ONLY <2>2, at \in Nat
    <3> HIDE DEF val, go, nxt
    <3> QED
      BY ONLY <1>1, <2>2, <3>1, <3>2 DEF DumpAt
  <2>3. CASE ~ (at + 2 > l)
    <3>1. at \in go <=> ~ AtEnd(words, k)
      BY ONLY <2>1, <2>3, at \in Nat
    <3>2. val[at] = {<<BlockAt(words, at).t2, p>> : p \in PointsOf(words, at, BlockAt(words, at))}
      BY ONLY <2>3, at \in Nat
    <3> HIDE DEF val, go, nxt
    <3> QED
      BY ONLY <1>1, <2>1, <2>3, <3>1, <3>2 DEF DumpAt
  <2> QED
    BY ONLY <2>2, <2>3
<1> HIDE DEF val, go, nxt
<1> DEFINE Body(g) == [at \in Nat |-> DumpAt(g, words, at)]
           from == CHOOSE g : g = Body(g)
<1>5. f = Body(f)
  BY ONLY <1>3, <1>4 DEF Walks
<1>6. from = Body(from)
  <2> HIDE DEF Body
  <2> QED
    BY ONLY <1>5
<1>7. DumpArray(words) = from[1]
  BY DEF DumpArray, DumpAt
<1> HIDE DEF from
<1>8. \A at \in Nat : from[at] = DumpAt(from, words, at)
  BY ONLY <1>6
<1> QED
  BY ONLY <1>7, <1>8

LEMMA RetrieveWalk ==
  ASSUME NEW words \in Seq(Nat), NEW t2
  PROVE  \E f : ArrayRetrieve(words, t2) = f[1] /\ \A at \in Nat : f[at] = RetrieveAt(f, words, t2, at)
<1>1. PICK l \in Nat : l = Len(words)
  OBVIOUS
<1> DEFINE behind(at) == IF BlockAt(words, at).t2 = t2 THEN at + 3 + PointsBehind(BlockAt(words, at))
                         ELSE PassOver(words, at, BlockAt(words, at))
           higher(at) == at <= l /\ words[at] > t2
           nxt == [at \in Nat |-> behind(at)]
           go == {at \in Nat : ~ higher(at) /\ ~ (at + 2 > l) /\ ~ AtEnd(words, nxt[at])}
           val == [at \in Nat |-> IF higher(at) THEN {} ELSE IF at + 2 > l THEN {Wild}
                                  ELSE IF BlockAt(words, at).t2 = t2 THEN PointsOf(words, at, BlockAt(words, at)) ELSE {}]
<1>2. ASSUME NEW at \in Nat, at \in go PROVE at <= l /\ nxt[at] \in Nat /\ nxt[at] > at
  <2>1. at + 2 <= l /\ at <= l
    <3> HIDE DEF higher
    <3> QED
      BY ONLY <1>2, at \in Nat, l \in Nat
  <2>2. PICK k \in Nat : k = PointsBehind(BlockAt(words, at))
    BY ONLY <1>1, <2>1, SkipIsNumber, words \in Seq(Nat), at \in Nat
  <2>3. PICK p \in Nat : p = PassOver(words, at, BlockAt(words, at)) /\ p > at
    BY ONLY <1>1, <2>1, SkipIsNumber, words \in Seq(Nat), at \in Nat
  <2>4. nxt[at] = at + 3 + k \/ nxt[at] = p
    BY ONLY <2>2, <2>3, at \in Nat
  <2> QED
    BY ONLY <2>1, <2>3, <2>4, at \in Nat, k \in Nat, p \in Nat
<1>3. PICK f : Walks(f, val, go, nxt)
  <2> HIDE DEF val, go, nxt
  <2> QED
    BY ONLY <1>2, WalkExists, l \in Nat
<1>4. ASSUME NEW at \in Nat
      PROVE  val[at] \cup (IF at \in go THEN f[nxt[at]] ELSE {}) = RetrieveAt(f, words, t2, at)
  <2>1. PICK k : k = behind(at) /\ k = nxt[at]
    BY ONLY at \in Nat
  <2>h. higher(at) <=> at <= Len(words) /\ words[at] > t2
    BY ONLY <1>1
  <2> HIDE DEF higher
  <2>2. CASE higher(at)
    <3>1. at \notin go /\ val[at] = {}
      BY ONLY <2>2, at \in Nat
    <3> HIDE DEF val, go, nxt
    <3> QED
      BY ONLY <2>h, <2>2, <3>1 DEF RetrieveAt
  <2>3. CASE ~ higher(at) /\ at + 2 > l
    <3>1. at \notin go
      BY ONLY <2>3
    <3>2. val[at] = {Wild}
      BY ONLY <2>3, at \in Nat
    <3> HIDE DEF val, go, nxt
    <3> QED
      BY ONLY <1>1, <2>h, <2>3, <3>1, <3>2 DEF RetrieveAt
  <2>4. CASE ~ higher(at) /\ ~ (at + 2 > l)
    <3>1. at \in go <=> ~ AtEnd(words, k)
      BY ONLY <2>1, <2>4, at \in Nat
    <3>2. val[at] = IF BlockAt(words, at).t2 = t2 THEN PointsOf(words, at, BlockAt(words, at)) ELSE {}
      BY ONLY <2>4, at \in Nat
    <3>3. RetrieveAt(f, words, t2, at)
            = (IF BlockAt(words, at).t2 = t2 THEN PointsOf(words, at, BlockAt(words, at)) ELSE {})
                \cup (IF AtEnd(words, behind(at)) THEN {} ELSE f[behind(at)])
      BY ONLY <1>1, <2>h, <2>4 DEF RetrieveAt
    <3> HIDE DEF val, go, nxt, behind
    <3> QED
      BY ONLY <2>1, <3>1, <3>2, <3>3
  <2> QED
    BY ONLY <2>2, <2>3, <2>4
<1> HIDE DEF val, go, nxt
<1> DEFINE Body(g) == [at \in Nat |-> RetrieveAt(g, words, t2, at)]
           from == CHOOSE g : g = Body(g)
<1>5. f = Body(f)
  BY ONLY <1>3, <1>4 DEF Walks
<1>6. from = Body(from)
  <2> HIDE DEF Body
  <2> QED
    BY ONLY <1>5
<1>7. ArrayRetrieve(words, t2) = from[1]
  BY DEF ArrayRetrieve, RetrieveAt
<1> HIDE DEF from
<1>8. \A at \in Nat : from[at] = RetrieveAt(from, words, t2, at)
  BY ONLY <1>6
<1> QED
  BY ONLY <1>7, <1>8

(* What is left to find behind each of n parts adds up.                     *)
Together(ent, n) == UNION {ent[i] : i \in 1 .. n}

LEMMA Chained ==
  ASSUME NEW n \in Nat, NEW ent, NEW rest, \A i \in 1 .. n : rest[i - 1] = ent[i] \cup rest[i]
  PROVE  rest[0] = Together(ent, n) \cup rest[n]
<1> DEFINE some(k) == UNION {ent[i] : i \in k + 1 .. n}
           G == {m \in Nat : m <= n => rest[n - m] = some(n - m) \cup rest[n]}
<1>1. 0 \in G
  <2>1. n - 0 = n /\ n + 1 .. n = {}
    OBVIOUS
  <2>2. some(n) = {}
    BY ONLY <2>1
  <2> QED
    BY ONLY <2>1, <2>2, 0 \in Nat
<1>2. ASSUME NEW m \in G PROVE m + 1 \in G
  <2>1. m \in Nat /\ m + 1 \in Nat
    OBVIOUS
  <2> SUFFICES ASSUME m + 1 <= n PROVE rest[n - (m + 1)] = some(n - (m + 1)) \cup rest[n]
    OBVIOUS
  <2>2. PICK k \in 1 .. n : k = n - m /\ k - 1 = n - (m + 1)
    BY ONLY <2>1, m + 1 <= n, n \in Nat
  <2>3. rest[k] = some(k) \cup rest[n]
    <3>1. m <= n
      BY ONLY <2>1, m + 1 <= n, n \in Nat
    <3> QED
      BY ONLY <2>2, <3>1, m \in G
  <2>4. rest[k - 1] = ent[k] \cup rest[k]
    OBVIOUS
  <2>5. some(k - 1) = ent[k] \cup some(k)
    <3>1. (k - 1) + 1 .. n = {k} \cup k + 1 .. n
      OBVIOUS
    <3> QED
      BY ONLY <3>1
  <2> HIDE DEF some
  <2> QED
    BY ONLY <2>2, <2>3, <2>4, <2>5
<1>3. n \in G
  <2> HIDE DEF G
  <2>1. G \subseteq Nat
    BY DEF G
  <2>2. G = Nat
    BY ONLY <1>1, <1>2, <2>1, NatSetInduction
  <2> QED
    BY <2>2
<1>4. PICK z : z = n - n /\ z = 0
  OBVIOUS
<1>5. rest[z] = some(z) \cup rest[n]
  <2> HIDE DEF some
  <2> QED
    BY ONLY <1>3, <1>4, n \in Nat
<1>6. some(0) = Together(ent, n)
  <2>1. 0 + 1 = 1
    OBVIOUS
  <2> QED
    BY ONLY <2>1 DEF Together
<1>7. rest[0] = some(0) \cup rest[n]
  <2> HIDE DEF some
  <2> QED
    BY ONLY <1>4, <1>5
<1> HIDE DEF some
<1> QED
  BY ONLY <1>6, <1>7

(* Every place is in one of the pieces between cuts.                        *)
Cuts(c, nb, len) ==
  /\ c \in [0 .. nb -> Nat] /\ c[0] = 0 /\ c[nb] = len
  /\ \A i \in 1 .. nb : c[i - 1] < c[i] /\ (i < nb => c[i] >= c[i - 1] + 2)

LEMMA CutBetween ==
  ASSUME NEW nb \in Nat, NEW len \in Nat, NEW c, Cuts(c, nb, len)
  PROVE  /\ \A k \in 1 .. len : \E i \in 1 .. nb : c[i - 1] < k /\ k <= c[i]
         /\ \A i \in 0 .. nb : c[i] <= len
<1> DEFINE In(m) == \A k \in Nat : k >= 1 /\ k <= c[m] => \E i \in 1 .. nb : c[i - 1] < k /\ k <= c[i]
           G == {m \in Nat : m <= nb => In(m)}
<1>0. \A m \in 0 .. nb : c[m] \in Nat
  BY DEF Cuts
<1>1. 0 \in G
  BY DEF Cuts
<1>2. ASSUME NEW m \in G PROVE m + 1 \in G
  <2>1. m \in Nat /\ m + 1 \in Nat
    OBVIOUS
  <2> SUFFICES ASSUME m + 1 <= nb, NEW k \in Nat, k >= 1, k <= c[m + 1]
               PROVE  \E i \in 1 .. nb : c[i - 1] < k /\ k <= c[i]
    OBVIOUS
  <2>2. In(m) /\ m + 1 \in 1 .. nb /\ (m + 1) - 1 = m /\ c[m] \in Nat
    <3>1. m <= nb /\ m \in 0 .. nb /\ m + 1 \in 1 .. nb /\ (m + 1) - 1 = m
      BY ONLY <2>1, m + 1 <= nb, nb \in Nat
    <3> HIDE DEF In
    <3> QED
      BY <1>0, <3>1
  <2>3. CASE k <= c[m]
    BY ONLY <2>2, <2>3, k \in Nat, k >= 1
  <2>4. CASE ~ (k <= c[m])
    <3>1. c[(m + 1) - 1] < k
      BY ONLY <2>2, <2>4, k \in Nat
    <3> QED
      BY ONLY <2>2, <3>1, k <= c[m + 1]
  <2> QED
    BY <2>3, <2>4
<1>3. nb \in G
  <2> HIDE DEF G
  <2>1. G \subseteq Nat
    BY DEF G
  <2>2. G = Nat
    BY ONLY <1>1, <1>2, <2>1, NatSetInduction
  <2> QED
    BY <2>2
<1>4. In(nb)
  BY ONLY <1>3, nb \in Nat
<1>5. \A k \in 1 .. len : \E i \in 1 .. nb : c[i - 1] < k /\ k <= c[i]
  <2>1. c[nb] = len
    BY DEF Cuts
  <2>2. \A k \in 1 .. len : k \in Nat /\ k >= 1 /\ k <= len
    OBVIOUS
  <2> QED
    BY ONLY <1>4, <2>1, <2>2
<1> DEFINE D == {m \in Nat : m <= nb => c[nb - m] <= len}
<1>6. 0 \in D
  BY DEF Cuts
<1>7. ASSUME NEW m \in D PROVE m + 1 \in D
  <2> SUFFICES ASSUME m + 1 <= nb PROVE c[nb - (m + 1)] <= len
    OBVIOUS
  <2>1. PICK k \in 1 .. nb : k = nb - m /\ k - 1 = nb - (m + 1)
    OBVIOUS
  <2>2. c[k] <= len
    BY <2>1
  <2>3. c[k - 1] < c[k] /\ c[k - 1] \in Nat /\ c[k] \in Nat
    BY DEF Cuts
  <2> QED
    BY ONLY <2>1, <2>2, <2>3, len \in Nat
<1>8. D = Nat
  <2> HIDE DEF D
  <2>1. D \subseteq Nat
    BY DEF D
  <2> QED
    BY ONLY <1>6, <1>7, <2>1, NatSetInduction
<1>9. ASSUME NEW i \in 0 .. nb PROVE c[i] <= len
  <2>1. PICK m \in Nat : m = nb - i /\ nb - m = i /\ m <= nb
    <3>1. nb - i \in Nat /\ nb - (nb - i) = i /\ nb - i <= nb
      OBVIOUS
    <3> QED
      BY ONLY <3>1
  <2>2. m \in D
    BY ONLY <1>8, m \in Nat
  <2> QED
    BY ONLY <2>1, <2>2
<1> QED
  BY <1>5, <1>9

(* The blocks of a bucket are the pieces of its points between cuts.        *)
Piece(pts, c, i) == SubSeq(pts, c[i - 1] + 1, c[i])

CutAt(c, nb, b) ==
  /\ Cuts(c, nb, Len(b.pts))
  /\ Blocks(b) = [i \in 1 .. nb |-> BlockWords(b.t2, Piece(b.pts, c, i))]

LEMMA BlocksCut ==
  ASSUME NEW b, NEW len \in Nat, len = Len(b.pts), len > 0
  PROVE  \E nb \in Nat : nb > 0 /\ \E c : CutAt(c, nb, b)
<1>1. PICK m \in Nat : m = MaxBlock /\ m >= 2
  BY ONLY SkipNumbers
<1>2. PICK nb \in Nat : nb = (len + m - 1) \div m
  <2>1. len + m - 1 \in Nat
    BY ONLY <1>1, len \in Nat, m \in Nat
  <2>2. PICK s \in Nat : s = len + m - 1
    BY ONLY <2>1
  <2>3. s \div m \in Nat
    BY ONLY <1>1, s \in Nat, m \in Nat
  <2> QED
    BY ONLY <2>2, <2>3
<1>3. PICK w \in Nat : w = m * nb /\ len <= w /\ w < len + m
  <2>1. PICK s \in Nat : s = len + m - 1
    BY ONLY <1>1, len \in Nat, m \in Nat
  <2>2. s \div m \in Nat /\ s % m \in 0 .. m - 1 /\ s = m * (s \div m) + (s % m)
    BY ONLY <1>1, s \in Nat, m \in Nat
  <2>3. PICK r \in 0 .. m - 1 : s = m * nb + r
    BY ONLY <1>2, <2>1, <2>2
  <2>4. PICK w \in Nat : w = m * nb
    BY ONLY m \in Nat, nb \in Nat
  <2>5. s = w + r
    BY ONLY <2>3, <2>4
  <2> QED
    BY ONLY <1>1, <2>1, <2>4, <2>5, m \in Nat, w \in Nat, len \in Nat, r \in 0 .. m - 1
<1>4. nb > 0
  <2>1. m * 0 = 0
    OBVIOUS
  <2>2. w > 0
    BY ONLY <1>3, w \in Nat, len \in Nat, len > 0
  <2>3. nb # 0
    BY ONLY <1>3, <2>1, <2>2
  <2> QED
    BY ONLY <2>3, nb \in Nat
<1> DEFINE at(i) == i * m
           c == [i \in 0 .. nb |-> IF i = nb THEN len ELSE at(i)]
<1>5. \A i \in Nat : at(i) \in Nat /\ at(i) = m * i
  OBVIOUS
<1>6. ASSUME NEW i \in 1 .. nb
      PROVE  /\ at(i - 1) \in Nat /\ at(i) = at(i - 1) + m /\ at(i - 1) < len /\ (i < nb => at(i) < len)
  <2>1. PICK j \in Nat : j = i - 1 /\ i = j + 1 /\ i \in Nat
    BY ONLY i \in 1 .. nb, nb \in Nat
  <2>2. at(j) \in Nat /\ at(i) \in Nat /\ at(i) = at(j) + m
    <3>1. (j + 1) * m = j * m + m
      BY ONLY j \in Nat, m \in Nat
    <3> QED
      BY ONLY <1>5, <2>1, <3>1
  <2>3. \A k \in Nat : k < nb => at(k) + m <= w
    <3> SUFFICES ASSUME NEW k \in Nat, k < nb PROVE at(k) + m <= w
      OBVIOUS
    <3>1. m * nb >= m * k + m
      <4>1. nb >= k + 1
        BY ONLY k < nb, k \in Nat, nb \in Nat
      <4> QED
        BY ONLY Multiples, <4>1, m \in Nat, k \in Nat, nb \in Nat
    <3>2. PICK a \in Nat : a = m * k /\ a = at(k)
      BY ONLY <1>5, k \in Nat
    <3>3. w >= a + m
      BY ONLY <1>3, <3>1, <3>2
    <3> HIDE DEF at
    <3> QED
      BY ONLY <3>2, <3>3, a \in Nat, m \in Nat, w \in Nat
  <2> HIDE DEF at
  <2>4. j < nb /\ (i < nb => i \in Nat)
    BY ONLY <2>1, i \in 1 .. nb, nb \in Nat
  <2>5. PICK x \in Nat, y \in Nat : x = at(j) /\ y = at(i) /\ y = x + m
    BY ONLY <2>2
  <2>6. x + m <= w /\ (i < nb => y + m <= w)
    BY ONLY <2>1, <2>3, <2>4, <2>5
  <2>7. x < len /\ (i < nb => y < len)
    BY ONLY <1>3, <2>6, x \in Nat, y \in Nat, w \in Nat, len \in Nat, m \in Nat
  <2> QED
    BY ONLY <2>1, <2>5, <2>7
<1>7. ASSUME NEW i \in 1 .. nb
      PROVE  /\ i - 1 \in 0 .. nb /\ i \in 0 .. nb /\ c[i - 1] = at(i - 1) /\ c[i] = IF i = nb THEN len ELSE at(i)
  <2>1. i - 1 \in 0 .. nb /\ i \in 0 .. nb /\ i - 1 # nb
    BY ONLY i \in 1 .. nb, nb \in Nat
  <2> HIDE DEF at
  <2> QED
    BY ONLY <2>1
<1>8. c[0] = 0 /\ c[nb] = len /\ c \in [0 .. nb -> Nat]
  <2>1. 0 \in 0 .. nb /\ nb \in 0 .. nb /\ 0 # nb /\ at(0) = 0
    BY ONLY <1>1, <1>4, nb \in Nat, m \in Nat
  <2>2. \A i \in 0 .. nb : i \in Nat
    OBVIOUS
  <2> HIDE DEF at
  <2> QED
    BY ONLY <1>5, <2>1, <2>2, len \in Nat
<1> HIDE DEF c
<1>9. ASSUME NEW i \in 1 .. nb PROVE c[i - 1] < c[i] /\ (i < nb => c[i] >= c[i - 1] + 2)
  <2> HIDE DEF at
  <2>1. PICK x \in Nat : x = at(i - 1) /\ at(i) = x + m /\ x < len /\ c[i - 1] = x
    BY ONLY <1>6, <1>7, i \in 1 .. nb
  <2>2. c[i] = IF i = nb THEN len ELSE x + m
    BY ONLY <1>7, <2>1, i \in 1 .. nb
  <2>3. CASE i = nb
    <3>1. ~ (i < nb)
      BY ONLY <2>3, nb \in Nat
    <3> QED
      BY ONLY <2>1, <2>2, <2>3, <3>1
  <2>4. CASE i # nb
    BY ONLY <1>1, <2>1, <2>2, <2>4, x \in Nat, m \in Nat
  <2> QED
    BY <2>3, <2>4
<1>10. Cuts(c, nb, len)
  <2> HIDE DEF at
  <2> QED
    BY ONLY <1>8, <1>9 DEF Cuts
<1>11. ASSUME NEW i \in 1 .. nb
       PROVE  SubSeq(b.pts, (i - 1) * m + 1, Min({i * m, len})) = Piece(b.pts, c, i)
  <2>1. c[i - 1] = (i - 1) * m
    BY ONLY <1>7, i \in 1 .. nb
  <2>2. Min({i * m, len}) = c[i]
    <3>1. PICK y \in Nat : y = i * m
      BY ONLY i \in 1 .. nb, nb \in Nat, m \in Nat
    <3>2. IF i = nb THEN y >= len ELSE y < len
      <4>1. CASE i = nb
        <5>1. y = w
          BY ONLY <1>3, <3>1, <4>1, m \in Nat, nb \in Nat
        <5> QED
          BY ONLY <1>3, <4>1, <5>1, w \in Nat, len \in Nat
      <4>2. CASE i # nb
        <5>1. i < nb
          BY ONLY <4>2, i \in 1 .. nb, nb \in Nat
        <5>2. at(i) < len
          <6> HIDE DEF at
          <6> QED
            BY ONLY <1>6, <5>1, i \in 1 .. nb
        <5> QED
          BY ONLY <3>1, <4>2, <5>2
      <4> QED
        BY <4>1, <4>2
    <3>3. c[i] = IF i = nb THEN len ELSE y
      BY ONLY <1>7, <3>1, i \in 1 .. nb
    <3>4. c[i] \in {y, len} /\ \A z \in {y, len} : c[i] <= z
      <4>1. IF i = nb THEN c[i] = len /\ y >= len ELSE c[i] = y /\ y < len
        BY ONLY <3>2, <3>3
      <4> QED
        BY ONLY <4>1, y \in Nat, len \in Nat
    <3>5. ASSUME NEW x \in {y, len}, \A z \in {y, len} : x <= z PROVE x = c[i]
      <4>1. x \in Nat /\ c[i] \in Nat /\ x <= c[i] /\ c[i] <= x
        BY ONLY <3>4, <3>5, y \in Nat, len \in Nat
      <4> QED
        BY ONLY <4>1
    <3>6. Min({y, len}) = c[i]
      BY ONLY <3>4, <3>5 DEF Min
    <3> QED
      BY ONLY <3>1, <3>6
  <2> QED
    BY ONLY <2>1, <2>2 DEF Piece
<1>12. Blocks(b) = [i \in 1 .. nb |-> BlockWords(b.t2, Piece(b.pts, c, i))]
  <2>1. Blocks(b) = [i \in 1 .. nb |-> BlockWords(b.t2, SubSeq(b.pts, (i - 1) * m + 1, Min({i * m, len})))]
    BY ONLY <1>1, <1>2, len = Len(b.pts) DEF Blocks
  <2> QED
    BY ONLY <1>11, <2>1
<1>13. CutAt(c, nb, b)
  BY ONLY <1>10, <1>12, len = Len(b.pts) DEF CutAt
<1> QED
  BY ONLY <1>4, <1>13, nb \in Nat

LEMMA PieceIs ==
  ASSUME NEW pts \in Seq(Points), NEW nb \in Nat, NEW c, Cuts(c, nb, Len(pts)), NEW i \in 1 .. nb
  PROVE  /\ Piece(pts, c, i) \in Seq(Points) /\ Len(Piece(pts, c, i)) = c[i] - c[i - 1] /\ c[i] - c[i - 1] \in Nat \ {0}
         /\ \A v : v \in Range(Piece(pts, c, i)) <=> \E k \in 1 .. Len(pts) : c[i - 1] < k /\ k <= c[i] /\ v = pts[k]
<1>1. PICK len \in Nat : len = Len(pts) /\ DOMAIN pts = 1 .. len /\ \A k \in 1 .. len : pts[k] \in Points
  OBVIOUS
<1>2. PICK a \in Nat, z \in Nat : a = c[i - 1] /\ z = c[i] /\ a < z /\ z <= len
  <2>1. i - 1 \in 0 .. nb /\ i \in 0 .. nb
    OBVIOUS
  <2>2. c[i - 1] \in Nat /\ c[i] \in Nat /\ c[i - 1] < c[i]
    BY ONLY <2>1, Cuts(c, nb, Len(pts)), i \in 1 .. nb DEF Cuts
  <2>3. c[i] <= len
    BY ONLY <1>1, <2>1, CutBetween, Cuts(c, nb, Len(pts)), nb \in Nat, len \in Nat
  <2> QED
    BY ONLY <2>2, <2>3
<1>3. PICK n \in Nat \ {0} : n = z - a
  BY ONLY <1>2, a \in Nat, z \in Nat
<1>5. ASSUME NEW k \in 1 .. n PROVE a + k \in 1 .. len /\ a < a + k /\ a + k <= z
  BY ONLY <1>2, <1>3, k \in 1 .. n, a \in Nat, z \in Nat, len \in Nat
<1>6. PICK p : p = Piece(pts, c, i) /\ p \in Seq(Points) /\ Len(p) = n /\ DOMAIN p = 1 .. n /\ \A k \in 1 .. n : p[k] = pts[a + k]
  <2>1. PICK m \in 1 .. Len(pts) + 1 : m = a + 1
    BY ONLY <1>1, <1>2, a \in Nat, z \in Nat, len \in Nat
  <2>2. z \in m - 1 .. Len(pts)
    BY ONLY <1>1, <1>2, <2>1, a \in Nat, z \in Nat, len \in Nat
  <2>3. PICK p : p = SubSeq(pts, m, z)
    OBVIOUS
  <2>4. p \in Seq(Points) /\ Len(p) = z - m + 1 /\ \A k \in 1 .. z - m + 1 : p[k] = pts[m + k - 1]
    BY ONLY <2>2, <2>3, SubSeqProperties, pts \in Seq(Points), m \in 1 .. Len(pts) + 1
  <2>5. z - m + 1 = n /\ \A k \in 1 .. n : m + k - 1 = a + k
    BY ONLY <1>3, <2>1, a \in Nat, z \in Nat
  <2>6. DOMAIN p = 1 .. n
    BY ONLY <2>4, <2>5
  <2>7. p = Piece(pts, c, i)
    BY ONLY <1>2, <2>1, <2>3 DEF Piece
  <2>8. Len(p) = n
    BY ONLY <2>4, <2>5
  <2>9. \A k \in 1 .. n : p[k] = pts[a + k]
    BY ONLY <2>4, <2>5
  <2> QED
    BY ONLY <2>4, <2>6, <2>7, <2>8, <2>9, Zenon
<1>7. ASSUME NEW v PROVE v \in Range(p) <=> \E k \in 1 .. len : a < k /\ k <= z /\ v = pts[k]
  <2>1. v \in Range(p) <=> \E k \in 1 .. n : v = p[k]
    BY ONLY <1>6 DEF Range
  <2>2. ASSUME NEW k \in 1 .. n, v = p[k] PROVE \E m \in 1 .. len : a < m /\ m <= z /\ v = pts[m]
    BY ONLY <1>5, <1>6, <2>2
  <2>3. ASSUME NEW m \in 1 .. len, a < m, m <= z, v = pts[m] PROVE \E k \in 1 .. n : v = p[k]
    <3>1. PICK k \in 1 .. n : a + k = m
      <4>1. m - a \in 1 .. n /\ a + (m - a) = m
        BY ONLY <1>3, <2>3, a \in Nat, z \in Nat, len \in Nat
      <4> QED
        BY ONLY <4>1
    <3> QED
      BY ONLY <1>6, <2>3, <3>1
  <2> QED
    BY ONLY <2>1, <2>2, <2>3
<1> QED
  BY ONLY <1>1, <1>2, <1>3, <1>6, <1>7

(* Where the blocks of a bucket stand.                                      *)
BlocksStand(words, o, b, nb, c, pos) ==
  /\ nb \in Nat \ {0} /\ Cuts(c, nb, Len(b.pts)) /\ pos \in [0 .. nb -> Nat]
  /\ pos[0] = o /\ pos[nb] = o + Len(FlattenSeq(Blocks(b)))
  /\ \A i \in 1 .. nb : /\ Spells(words, pos[i - 1], BlockWords(b.t2, Piece(b.pts, c, i)))
                        /\ pos[i] = pos[i - 1] + WordsOf(c[i] - c[i - 1])

LEMMA BlocksAre ==
  ASSUME NEW b \in BucketsOf(Keys, Points), b.pts # <<>>
  PROVE  \E nb \in Nat \ {0} : \E c : CutAt(c, nb, b) /\ Blocks(b) \in [1 .. nb -> Seq(Nat)]
<1>1. PICK len \in Nat : len = Len(b.pts) /\ len > 0 /\ b.pts \in Seq(Points) /\ b.t2 \in Keys
  <2>1. b.pts \in Seq(Points) /\ b.t2 \in Keys
    BY KeysAreNumbers
  <2>2. Len(b.pts) \in Nat /\ Len(b.pts) > 0
    BY <2>1
  <2> QED
    BY ONLY <2>1, <2>2
<1>2. PICK nb \in Nat : nb > 0 /\ \E c : CutAt(c, nb, b)
  BY ONLY <1>1, BlocksCut, len \in Nat
<1>3. PICK c : CutAt(c, nb, b)
  BY ONLY <1>2
<1>4. ASSUME NEW i \in 1 .. nb PROVE BlockWords(b.t2, Piece(b.pts, c, i)) \in Seq(Nat)
  <2>1. PICK q \in Seq(Points), n \in Nat : q = Piece(b.pts, c, i) /\ n = Len(q) /\ n # 0
    <3>1. Cuts(c, nb, Len(b.pts))
      BY ONLY <1>3 DEF CutAt
    <3>2. PICK pts \in Seq(Points) : pts = b.pts
      BY ONLY <1>1
    <3>3. Cuts(c, nb, Len(pts))
      BY ONLY <3>1, <3>2
    <3>4. Piece(pts, c, i) \in Seq(Points) /\ Len(Piece(pts, c, i)) = c[i] - c[i - 1] /\ c[i] - c[i - 1] \in Nat \ {0}
      BY ONLY <3>3, PieceIs, pts \in Seq(Points), nb \in Nat, i \in 1 .. nb
    <3> QED
      BY ONLY <3>2, <3>4
  <2>2. BlockHas(BlockWords(b.t2, q), b.t2, q, n)
    BY ONLY <1>1, <2>1, BlockSpelt, q \in Seq(Points), n \in Nat, Zenon
  <2>3. BlockWords(b.t2, q) \in Seq(Nat)
    BY ONLY <2>2 DEF BlockHas
  <2> QED
    BY ONLY <2>1, <2>3
<1>5. Blocks(b) \in [1 .. nb -> Seq(Nat)]
  BY ONLY <1>3, <1>4 DEF CutAt
<1>6. nb \in Nat \ {0}
  BY ONLY <1>2, nb \in Nat
<1> QED
  BY ONLY <1>3, <1>5, <1>6

LEMMA BlocksStanding ==
  ASSUME NEW words \in Seq(Nat), NEW o \in Nat, NEW b \in BucketsOf(Keys, Points), b.pts # <<>>,
         Spells(words, o, FlattenSeq(Blocks(b)))
  PROVE  \E nb, c, pos : BlocksStand(words, o, b, nb, c, pos)
<1>1. PICK nb \in Nat \ {0} : \E c : CutAt(c, nb, b) /\ Blocks(b) \in [1 .. nb -> Seq(Nat)]
  BY BlocksAre
<1>2. PICK c : CutAt(c, nb, b) /\ Blocks(b) \in [1 .. nb -> Seq(Nat)]
  BY ONLY <1>1
<1>3. nb \in Nat
  OBVIOUS
<1>4. PICK pos : Standing(words, o, nb, Blocks(b), pos)
  BY ONLY <1>2, <1>3, SpellsFlat, words \in Seq(Nat), o \in Nat, Spells(words, o, FlattenSeq(Blocks(b)))
<1>5. ASSUME NEW i \in 1 .. nb
      PROVE  /\ Spells(words, pos[i - 1], BlockWords(b.t2, Piece(b.pts, c, i)))
             /\ pos[i] = pos[i - 1] + WordsOf(c[i] - c[i - 1])
  <2>1. Blocks(b)[i] = BlockWords(b.t2, Piece(b.pts, c, i))
    BY ONLY <1>2, i \in 1 .. nb DEF CutAt
  <2>2. Spells(words, pos[i - 1], Blocks(b)[i]) /\ pos[i] = pos[i - 1] + Len(Blocks(b)[i])
    BY ONLY <1>4, i \in 1 .. nb DEF Standing
  <2>3. Len(BlockWords(b.t2, Piece(b.pts, c, i))) = WordsOf(c[i] - c[i - 1])
    <3>1. PICK pts \in Seq(Points) : pts = b.pts /\ b.t2 \in Keys
      BY KeysAreNumbers
    <3>2. Cuts(c, nb, Len(pts))
      BY ONLY <1>2, <3>1 DEF CutAt
    <3>p. Piece(pts, c, i) \in Seq(Points) /\ Len(Piece(pts, c, i)) = c[i] - c[i - 1] /\ c[i] - c[i - 1] \in Nat \ {0}
      BY ONLY <1>3, <3>2, PieceIs, pts \in Seq(Points), i \in 1 .. nb
    <3>3. PICK q \in Seq(Points), n \in Nat : q = Piece(pts, c, i) /\ n = Len(q) /\ n # 0 /\ n = c[i] - c[i - 1]
      BY ONLY <3>p
    <3>4. BlockHas(BlockWords(b.t2, q), b.t2, q, n)
      BY ONLY <3>1, <3>3, BlockSpelt, q \in Seq(Points), n \in Nat, Zenon
    <3> QED
      BY ONLY <3>1, <3>3, <3>4 DEF BlockHas
  <2> QED
    BY ONLY <2>1, <2>2, <2>3
<1>6. Cuts(c, nb, Len(b.pts))
  BY ONLY <1>2 DEF CutAt
<1>7. /\ pos \in [0 .. nb -> Nat] /\ pos[0] = o /\ pos[nb] = o + Len(FlattenSeq(Blocks(b)))
  BY ONLY <1>4 DEF Standing
<1>8. BlocksStand(words, o, b, nb, c, pos)
  BY ONLY <1>5, <1>6, <1>7, nb \in Nat \ {0} DEF BlocksStand
<1> QED
  BY ONLY <1>8

(* What a block tells a walk that dumps, or one that looks for its key.     *)
Tells(walk, key, q) == IF walk = "dump" THEN {<<key, p>> : p \in Range(q)} ELSE Range(q)

(* The rest of a walk over a block is what it tells and the rest behind.    *)
TakesBlocks(R, words, walk, key) ==
  \A p \in Nat, n \in Nat \ {0} : \A q \in Seq(Points) :
    n = Len(q) /\ Spells(words, p, BlockWords(key, q))
      => R[p + 1] = Tells(walk, key, q) \cup R[(p + WordsOf(n)) + 1]

(* The places of the blocks in the bucket, and how many words they take.    *)
LEMMA BlockPlaces ==
  ASSUME NEW nb \in Nat \ {0}, NEW o \in Nat, NEW len \in Nat, NEW c, Cuts(c, nb, len), NEW pos \in [0 .. nb -> Nat], pos[0] = o,
         \A i \in 1 .. nb : pos[i] = pos[i - 1] + WordsOf(c[i] - c[i - 1])
  PROVE  pos[nb] <= o + (2 * len + 1)
<1> DEFINE G == {m \in Nat : m < nb => pos[m] <= o + 2 * c[m]}
<1>1. 0 \in G
  BY DEF Cuts
<1>p. \A i \in 0 .. nb : pos[i] \in Nat /\ c[i] \in Nat
  BY DEF Cuts
<1>s. ASSUME NEW i \in 1 .. nb
      PROVE  /\ i - 1 \in 0 .. nb /\ i \in 0 .. nb
             /\ \E n \in Nat : n = c[i] - c[i - 1] /\ n > 0 /\ (i < nb => n >= 2)
                               /\ pos[i] = pos[i - 1] + (IF n = 1 THEN 3 ELSE n + 1)
  <2>1. i - 1 \in 0 .. nb /\ i \in 0 .. nb
    OBVIOUS
  <2>2. PICK a \in Nat, z \in Nat : a = c[i - 1] /\ z = c[i]
    BY ONLY <1>p, <2>1
  <2>3. a < z /\ (i < nb => z >= a + 2)
    BY ONLY <2>2, Cuts(c, nb, len), i \in 1 .. nb DEF Cuts
  <2>4. PICK n \in Nat : n = z - a
    BY ONLY <2>3, a \in Nat, z \in Nat
  <2>5. n > 0 /\ (i < nb => n >= 2)
    BY ONLY <2>3, <2>4, a \in Nat, z \in Nat
  <2>6. pos[i] = pos[i - 1] + WordsOf(n)
    BY ONLY <2>2, <2>4, i \in 1 .. nb, \A k \in 1 .. nb : pos[k] = pos[k - 1] + WordsOf(c[k] - c[k - 1])
  <2> QED
    BY ONLY <2>1, <2>2, <2>4, <2>5, <2>6, n \in Nat DEF WordsOf
<1>2. ASSUME NEW m \in G PROVE m + 1 \in G
  <2>1. m \in Nat /\ m + 1 \in Nat
    OBVIOUS
  <2> SUFFICES ASSUME m + 1 < nb PROVE pos[m + 1] <= o + 2 * c[m + 1]
    OBVIOUS
  <2>2. PICK i \in 1 .. nb : i = m + 1 /\ i - 1 = m /\ i < nb
    <3>1. m + 1 \in 1 .. nb /\ (m + 1) - 1 = m
      BY ONLY <2>1, m + 1 < nb, nb \in Nat \ {0}
    <3> QED
      BY ONLY <3>1, m + 1 < nb
  <2>3. PICK n \in Nat : n = c[i] - c[i - 1] /\ n >= 2 /\ pos[i] = pos[i - 1] + (IF n = 1 THEN 3 ELSE n + 1)
    BY ONLY <1>s, <2>2
  <2>4. PICK a \in Nat, z \in Nat, u \in Nat : a = c[m] /\ z = c[i] /\ u = pos[m]
    BY ONLY <1>p, <1>s, <2>2
  <2>5. u <= o + 2 * a
    <3>1. m < nb
      BY ONLY <2>1, m + 1 < nb, nb \in Nat \ {0}
    <3> QED
      BY ONLY <2>4, <3>1, m \in G
  <2>6. pos[i] = u + (n + 1) /\ z = a + n
    <3>1. n = z - a /\ n # 1
      BY ONLY <2>2, <2>3, <2>4, n \in Nat
    <3>2. z = a + n
      BY ONLY <3>1, a \in Nat, z \in Nat
    <3>3. pos[i - 1] = u
      BY ONLY <2>2, <2>4
    <3>4. pos[i] = u + (n + 1)
      BY ONLY <2>3, <3>1, <3>3
    <3> QED
      BY ONLY <3>2, <3>4
  <2>7. u + (n + 1) <= o + 2 * z
    <3>1. n >= 2 /\ z = a + n
      BY ONLY <2>3, <2>6
    <3> QED
      BY ONLY <2>5, <3>1, u \in Nat, a \in Nat, n \in Nat, z \in Nat, o \in Nat
  <2> QED
    BY ONLY <2>2, <2>4, <2>6, <2>7
<1>3. G = Nat
  <2> HIDE DEF G
  <2>1. G \subseteq Nat
    BY DEF G
  <2> QED
    BY ONLY <1>1, <1>2, <2>1, NatSetInduction
<1>4. PICK i \in 1 .. nb : i = nb /\ i - 1 \in Nat /\ i - 1 < nb
  <2>1. nb \in 1 .. nb /\ nb - 1 \in Nat /\ nb - 1 < nb
    OBVIOUS
  <2> QED
    BY ONLY <2>1
<1>5. PICK n \in Nat : n = c[i] - c[i - 1] /\ n > 0 /\ pos[i] = pos[i - 1] + (IF n = 1 THEN 3 ELSE n + 1)
  BY ONLY <1>s
<1>6. PICK a \in Nat, u \in Nat : a = c[i - 1] /\ u = pos[i - 1]
  BY ONLY <1>p, <1>s
<1>7. u <= o + 2 * a
  <2>1. i - 1 \in G
    BY ONLY <1>3, <1>4
  <2> QED
    BY ONLY <1>4, <1>6, <2>1
<1>8. len = a + n
  <2>1. c[i] = len
    BY <1>4 DEF Cuts
  <2> QED
    BY ONLY <1>5, <1>6, <2>1, a \in Nat, n \in Nat, len \in Nat
<1>9. u + (IF n = 1 THEN 3 ELSE n + 1) <= o + (2 * len + 1)
  <2>1. n > 0
    BY ONLY <1>5
  <2>2. CASE n = 1
    <3>1. u + 3 <= o + (2 * len + 1)
      BY ONLY <1>7, <1>8, <2>2, u \in Nat, a \in Nat, len \in Nat, o \in Nat
    <3> QED
      BY ONLY <2>2, <3>1
  <2>3. CASE n # 1
    <3>1. u + (n + 1) <= o + (2 * len + 1)
      BY ONLY <1>7, <1>8, <2>1, <2>3, u \in Nat, a \in Nat, n \in Nat, len \in Nat, o \in Nat
    <3> QED
      BY ONLY <2>3, <3>1
  <2> QED
    BY ONLY <2>2, <2>3
<1> QED
  BY ONLY <1>4, <1>5, <1>6, <1>9

TakesBucket(R, walk, b, o) == R[o + 1] = Tells(walk, b.t2, b.pts) \cup R[(o + Len(FlattenSeq(Blocks(b)))) + 1]

LEMMA BucketChained ==
  ASSUME NEW words \in Seq(Nat), NEW o \in Nat, NEW b \in BucketsOf(Keys, Points), b.pts # <<>>,
         Spells(words, o, FlattenSeq(Blocks(b))), NEW walk, NEW R, TakesBlocks(R, words, walk, b.t2)
  PROVE  TakesBucket(R, walk, b, o)
<1>1. PICK nb, c, pos : BlocksStand(words, o, b, nb, c, pos)
  BY BlocksStanding
<1>2. PICK pts \in Seq(Points) : pts = b.pts
  BY KeysAreNumbers
<1>3. nb \in Nat \ {0} /\ nb \in Nat /\ Cuts(c, nb, Len(pts)) /\ pos \in [0 .. nb -> Nat]
  BY ONLY <1>1, <1>2 DEF BlocksStand
<1> DEFINE ent == [i \in 1 .. nb |-> Tells(walk, b.t2, Piece(pts, c, i))]
           rest == [i \in 0 .. nb |-> R[pos[i] + 1]]
<1>4. ASSUME NEW i \in 1 .. nb PROVE rest[i - 1] = ent[i] \cup rest[i]
  <2>1. i - 1 \in 0 .. nb /\ i \in 0 .. nb
    BY ONLY <1>3, i \in 1 .. nb
  <2>2. PICK p \in Nat : p = pos[i - 1]
    BY ONLY <1>3, <2>1
  <2>3. Piece(pts, c, i) \in Seq(Points) /\ Len(Piece(pts, c, i)) = c[i] - c[i - 1] /\ c[i] - c[i - 1] \in Nat \ {0}
    BY ONLY <1>3, PieceIs, pts \in Seq(Points), i \in 1 .. nb
  <2>4. PICK q \in Seq(Points), n \in Nat \ {0} : q = Piece(pts, c, i) /\ n = c[i] - c[i - 1] /\ n = Len(q)
    BY ONLY <2>3
  <2>5. Spells(words, p, BlockWords(b.t2, q)) /\ pos[i] = p + WordsOf(n)
    BY ONLY <1>1, <1>2, <2>2, <2>4, i \in 1 .. nb DEF BlocksStand
  <2>6. R[p + 1] = Tells(walk, b.t2, q) \cup R[(p + WordsOf(n)) + 1]
    BY ONLY <2>4, <2>5, TakesBlocks(R, words, walk, b.t2), p \in Nat, n \in Nat \ {0}, q \in Seq(Points), Zenon DEF TakesBlocks
  <2>7. rest[i - 1] = R[p + 1] /\ rest[i] = R[(p + WordsOf(n)) + 1]
    BY ONLY <2>1, <2>2, <2>5
  <2>8. ent[i] = Tells(walk, b.t2, q)
    BY ONLY <2>4, i \in 1 .. nb
  <2> HIDE DEF ent, rest
  <2> QED
    BY ONLY <2>6, <2>7, <2>8
<1>5. rest[0] = Together(ent, nb) \cup rest[nb]
  <2> HIDE DEF ent, rest
  <2> QED
    BY ONLY <1>3, <1>4, Chained
<1>6. Together(ent, nb) = Tells(walk, b.t2, pts)
  <2>1. \A v : v \in Range(pts) <=> \E i \in 1 .. nb : v \in Range(Piece(pts, c, i))
    <3>1. ASSUME NEW i \in 1 .. nb, NEW v, v \in Range(Piece(pts, c, i)) PROVE v \in Range(pts)
      <4>1. PICK k \in 1 .. Len(pts) : v = pts[k]
        BY ONLY <1>3, <3>1, PieceIs, pts \in Seq(Points)
      <4>2. k \in DOMAIN pts
        BY ONLY k \in 1 .. Len(pts), pts \in Seq(Points)
      <4> QED
        BY ONLY <4>1, <4>2 DEF Range
    <3>2. ASSUME NEW v, v \in Range(pts) PROVE \E i \in 1 .. nb : v \in Range(Piece(pts, c, i))
      <4>1. PICK k \in DOMAIN pts : v = pts[k]
        BY ONLY <3>2 DEF Range
      <4>2. k \in 1 .. Len(pts) /\ Len(pts) \in Nat
        BY ONLY k \in DOMAIN pts, pts \in Seq(Points)
      <4>3. PICK i \in 1 .. nb : c[i - 1] < k /\ k <= c[i]
        BY ONLY <1>3, <4>2, CutBetween
      <4>4. v \in Range(Piece(pts, c, i))
        BY ONLY <1>3, <4>1, <4>2, <4>3, PieceIs, pts \in Seq(Points), i \in 1 .. nb
      <4> QED
        BY ONLY <4>4
    <3> QED
      BY ONLY <3>1, <3>2
  <2>2. \A i \in 1 .. nb : ent[i] = Tells(walk, b.t2, Piece(pts, c, i))
    OBVIOUS
  <2> HIDE DEF ent
  <2>3. CASE walk = "dump"
    <3>1. \A i \in 1 .. nb : ent[i] = {<<b.t2, p>> : p \in Range(Piece(pts, c, i))}
      BY ONLY <2>2, <2>3 DEF Tells
    <3>2. Together(ent, nb) = {<<b.t2, p>> : p \in Range(pts)}
      <4>1. ASSUME NEW v PROVE v \in Together(ent, nb) <=> \E p \in Range(pts) : v = <<b.t2, p>>
        <5>1. v \in Together(ent, nb) <=> \E i \in 1 .. nb : v \in ent[i]
          BY ONLY DEF Together
        <5>2. \A i \in 1 .. nb : v \in ent[i] <=> \E p \in Range(Piece(pts, c, i)) : v = <<b.t2, p>>
          BY ONLY <3>1
        <5> QED
          BY ONLY <2>1, <5>1, <5>2
      <4> QED
        BY ONLY <4>1
    <3> QED
      BY ONLY <2>3, <3>2 DEF Tells
  <2>4. CASE walk # "dump"
    <3>1. \A i \in 1 .. nb : ent[i] = Range(Piece(pts, c, i))
      BY ONLY <2>2, <2>4 DEF Tells
    <3>2. Together(ent, nb) = Range(pts)
      <4>1. \A v : v \in Together(ent, nb) <=> \E i \in 1 .. nb : v \in ent[i]
        BY ONLY DEF Together
      <4> QED
        BY ONLY <2>1, <3>1, <4>1
    <3> QED
      BY ONLY <2>4, <3>2 DEF Tells
  <2> QED
    BY ONLY <2>3, <2>4
<1>7. rest[0] = R[o + 1] /\ rest[nb] = R[(o + Len(FlattenSeq(Blocks(b)))) + 1]
  <2>1. 0 \in 0 .. nb /\ nb \in 0 .. nb
    BY ONLY <1>3
  <2>2. pos[0] = o /\ pos[nb] = o + Len(FlattenSeq(Blocks(b)))
    BY ONLY <1>1 DEF BlocksStand
  <2> QED
    BY ONLY <2>1, <2>2
<1> HIDE DEF ent, rest
<1> QED
  BY ONLY <1>2, <1>5, <1>6, <1>7 DEF TakesBucket

(* Where the buckets of a row stand in its array.                           *)
BucketsStand(words, bs, pos) ==
  /\ words \in Seq(Nat) /\ pos \in [0 .. Len(bs) -> Nat] /\ pos[0] = 0
  /\ Len(words) = pos[Len(bs)] + 1 /\ words[pos[Len(bs)] + 1] = EndOfRow
  /\ \A i \in 1 .. Len(bs) : /\ Spells(words, pos[i - 1], FlattenSeq(Blocks(bs[i])))
                             /\ pos[i] = pos[i - 1] + Len(FlattenSeq(Blocks(bs[i])))

LEMMA BucketsStanding ==
  ASSUME NEW bs \in Seq(BucketsOf(Keys, Points)), Filled(bs)
  PROVE  \E pos : BucketsStand(ArrayWords(bs), bs, pos)
<1>1. PICK n \in Nat : n = Len(bs) /\ DOMAIN bs = 1 .. n /\ \A i \in 1 .. n : bs[i] \in BucketsOf(Keys, Points)
  OBVIOUS
<1>2. ASSUME NEW i \in 1 .. n PROVE FlattenSeq(Blocks(bs[i])) \in Seq(Nat)
  <2>1. PICK b \in BucketsOf(Keys, Points) : b = bs[i] /\ b.pts # <<>>
    BY ONLY <1>1, Filled(bs), i \in 1 .. n DEF Filled
  <2>2. PICK nb \in Nat \ {0} : Blocks(b) \in [1 .. nb -> Seq(Nat)]
    BY ONLY <2>1, BlocksAre
  <2>3. nb \in Nat
    OBVIOUS
  <2>4. FlattenSeq(Blocks(b)) \in Seq(Nat)
    BY ONLY <2>2, <2>3, FlatIsSeq
  <2> QED
    BY ONLY <2>1, <2>4
<1>3. PICK seqs : seqs = [i \in DOMAIN bs |-> FlattenSeq(Blocks(bs[i]))]
  OBVIOUS
<1>4. seqs \in [1 .. n -> Seq(Nat)]
  BY ONLY <1>1, <1>2, <1>3
<1>5. FlattenSeq(seqs) \in Seq(Nat)
  BY ONLY <1>4, FlatIsSeq, n \in Nat
<1>6. PICK a \in Seq(Nat), z \in Seq(Nat) : a = FlattenSeq(seqs) /\ z = <<EndOfRow>> /\ Len(z) = 1 /\ z[1] = EndOfRow
  <2>1. PICK e \in Nat : e = EndOfRow
    BY ONLY SkipNumbers
  <2>2. <<e>> \in Seq(Nat) /\ Len(<<e>>) = 1 /\ <<e>>[1] = e
    BY ONLY e \in Nat
  <2> QED
    BY ONLY <1>5, <2>1, <2>2
<1>7. PICK words \in Seq(Nat) : words = a \o z /\ words = ArrayWords(bs) /\ Len(words) = Len(a) + 1
  <2>1. ArrayWords(bs) = a \o z
    BY ONLY <1>3, <1>6 DEF ArrayWords
  <2>2. a \o z \in Seq(Nat) /\ Len(a \o z) = Len(a) + Len(z)
    BY ONLY a \in Seq(Nat), z \in Seq(Nat)
  <2> QED
    BY ONLY <1>6, <2>1, <2>2
<1>8. Spells(words, 0, a \o z)
  <2>1. 0 + Len(words) <= Len(words) /\ \A k \in 1 .. Len(words) : words[0 + k] = words[k]
    OBVIOUS
  <2>2. Spells(words, 0, words)
    BY ONLY <2>1 DEF Spells
  <2> QED
    BY ONLY <1>7, <2>2
<1>9. Spells(words, 0, a) /\ Spells(words, 0 + Len(a), z)
  BY ONLY <1>8, SpellsParts, words \in Seq(Nat), 0 \in Nat, a \in Seq(Nat), z \in Seq(Nat)
<1>10. PICK pos : Standing(words, 0, n, seqs, pos)
  BY ONLY <1>4, <1>6, <1>9, SpellsFlat, words \in Seq(Nat), 0 \in Nat, n \in Nat
<1>11. pos \in [0 .. n -> Nat] /\ pos[0] = 0 /\ pos[n] = 0 + Len(a)
  BY ONLY <1>6, <1>10 DEF Standing
<1>12. words[(0 + Len(a)) + 1] = EndOfRow
  BY ONLY <1>6, <1>9 DEF Spells
<1>13. Len(words) = pos[n] + 1 /\ words[pos[n] + 1] = EndOfRow
  <2>1. PICK l \in Nat : l = Len(a)
    BY ONLY a \in Seq(Nat)
  <2>2. 0 + l = l
    OBVIOUS
  <2> QED
    BY ONLY <1>7, <1>11, <1>12, <2>1, <2>2
<1>14. ASSUME NEW i \in 1 .. n
       PROVE  /\ Spells(words, pos[i - 1], FlattenSeq(Blocks(bs[i])))
              /\ pos[i] = pos[i - 1] + Len(FlattenSeq(Blocks(bs[i])))
  <2>1. seqs[i] = FlattenSeq(Blocks(bs[i]))
    BY ONLY <1>1, <1>3, i \in 1 .. n
  <2> QED
    BY ONLY <1>10, <2>1, i \in 1 .. n DEF Standing
<1>15. BucketsStand(words, bs, pos)
  BY ONLY <1>1, <1>11, <1>13, <1>14, words \in Seq(Nat), Zenon DEF BucketsStand
<1> QED
  BY ONLY <1>7, <1>15

(* The first block of a bucket.                                             *)
LEMMA FirstBlock ==
  ASSUME NEW words \in Seq(Nat), NEW o \in Nat, NEW b \in BucketsOf(Keys, Points), b.pts # <<>>,
         Spells(words, o, FlattenSeq(Blocks(b)))
  PROVE  /\ words[o + 1] = b.t2 /\ (o + 1) + 2 <= Len(words) /\ b.t2 \in Keys
         /\ Len(FlattenSeq(Blocks(b))) <= 2 * Len(b.pts) + 1
         /\ BlockAt(words, o + 1).skip = 0 => Len(b.pts) = 1 /\ Len(FlattenSeq(Blocks(b))) = 3
                                              /\ Spells(words, o, BlockWords(b.t2, b.pts))
<1>1. PICK nb, c, pos : BlocksStand(words, o, b, nb, c, pos)
  BY BlocksStanding
<1>2. PICK pts \in Seq(Points), len \in Nat : pts = b.pts /\ b.t2 \in Keys /\ len = Len(pts)
  <2>1. PICK pts \in Seq(Points) : pts = b.pts /\ b.t2 \in Keys
    BY KeysAreNumbers
  <2>2. Len(pts) \in Nat
    OBVIOUS
  <2> QED
    BY ONLY <2>1, <2>2
<1>3. /\ nb \in Nat \ {0} /\ nb \in Nat /\ Cuts(c, nb, len) /\ Cuts(c, nb, Len(pts)) /\ pos \in [0 .. nb -> Nat] /\ pos[0] = o
      /\ pos[nb] = o + Len(FlattenSeq(Blocks(b)))
      /\ \A i \in 1 .. nb : pos[i] = pos[i - 1] + WordsOf(c[i] - c[i - 1])
  BY ONLY <1>1, <1>2 DEF BlocksStand
<1>4. PICK m \in Nat : m = Len(FlattenSeq(Blocks(b)))
  <2>1. PICK nk \in Nat \ {0} : Blocks(b) \in [1 .. nk -> Seq(Nat)]
    BY ONLY BlocksAre, b \in BucketsOf(Keys, Points), b.pts # <<>>
  <2>3. nk \in Nat
    OBVIOUS
  <2>4. PICK s \in Seq(Nat) : s = FlattenSeq(Blocks(b))
    BY ONLY <2>1, <2>3, FlatIsSeq
  <2>5. Len(s) \in Nat
    OBVIOUS
  <2> QED
    BY ONLY <2>4, <2>5
<1>5. m <= 2 * len + 1
  <2>1. pos[nb] <= o + (2 * len + 1)
    BY ONLY <1>3, BlockPlaces, o \in Nat, len \in Nat
  <2>2. pos[nb] = o + m
    BY ONLY <1>3, <1>4
  <2> QED
    BY ONLY <2>1, <2>2, o \in Nat, len \in Nat, m \in Nat
<1>6. 1 \in 1 .. nb /\ 1 - 1 = 0
  BY ONLY <1>3
<1>7. Piece(pts, c, 1) \in Seq(Points) /\ Len(Piece(pts, c, 1)) = c[1] - c[1 - 1] /\ c[1] - c[1 - 1] \in Nat \ {0}
  BY ONLY <1>3, <1>6, PieceIs, pts \in Seq(Points)
<1>8. PICK q \in Seq(Points), n \in Nat : q = Piece(pts, c, 1) /\ n = c[1] - c[1 - 1] /\ n = Len(q) /\ n # 0
  BY ONLY <1>7
<1>9. Spells(words, o, BlockWords(b.t2, q))
  BY ONLY <1>1, <1>2, <1>3, <1>6, <1>8 DEF BlocksStand
<1>10. words[o + 1] = b.t2 /\ (o + 1) + 2 <= Len(words) /\ BlockAt(words, o + 1).skip = n - 1
  BY ONLY <1>2, <1>8, <1>9, BlockRead, words \in Seq(Nat), o \in Nat, q \in Seq(Points), n \in Nat
<1>11. ASSUME BlockAt(words, o + 1).skip = 0
       PROVE  len = 1 /\ m = 3 /\ q = pts
  <2>1. n = 1
    BY ONLY <1>10, <1>11, n \in Nat
  <2>2. c[0] = 0 /\ c[1] = 1
    <3>1. c[0] = 0 /\ c[1] \in Nat
      BY ONLY <1>3, <1>6 DEF Cuts
    <3>2. PICK z \in Nat : z = c[1]
      BY ONLY <3>1
    <3>3. 1 = z - 0
      BY ONLY <1>6, <1>8, <2>1, <3>1, <3>2
    <3>4. z = 1
      BY ONLY <3>3, z \in Nat
    <3> QED
      BY ONLY <3>1, <3>2, <3>4
  <2>3. nb = 1
    <3> SUFFICES ASSUME nb # 1 PROVE FALSE
      OBVIOUS
    <3>1. 1 < nb
      BY ONLY <1>3, nb # 1
    <3>2. c[1] >= c[1 - 1] + 2
      BY ONLY <1>3, <1>6, <3>1 DEF Cuts
    <3>3. 1 >= 0 + 2
      BY ONLY <1>6, <2>2, <3>2
    <3> QED
      BY ONLY <3>3
  <2>4. len = 1
    BY ONLY <1>3, <2>2, <2>3 DEF Cuts
  <2>5. m = 3
    <3>1. pos[1] = pos[0] + WordsOf(n)
      BY ONLY <1>3, <1>6, <1>8
    <3>2. o + m = o + 3
      BY ONLY <1>3, <1>4, <2>1, <2>3, <3>1 DEF WordsOf
    <3> QED
      BY ONLY <3>2, o \in Nat, m \in Nat
  <2>6. q = pts
    <3>1. \E v : Piece(pts, c, 1) = SubSeq(pts, v + 1, 1) /\ v = 0
      BY ONLY <1>6, <2>2 DEF Piece
    <3>2. q = SubSeq(pts, 0 + 1, 1)
      BY ONLY <1>8, <3>1
    <3>3. Len(pts) = 1
      BY ONLY <1>2, <2>4
    <3>4. \A s \in Seq(Points) : Len(s) = 1 => SubSeq(s, 0 + 1, 1) = s
      OBVIOUS
    <3> QED
      BY ONLY <3>2, <3>3, <3>4, pts \in Seq(Points)
  <2> QED
    BY ONLY <2>4, <2>5, <2>6
<1> QED
  BY ONLY <1>2, <1>4, <1>5, <1>9, <1>10, <1>11

(* What a walk f finds from each place on.                                  *)
Finds(f, words) == [at \in Nat |-> IF AtEnd(words, at) THEN {} ELSE f[at]]

LEMMA DumpTakes ==
  ASSUME NEW words \in Seq(Nat), NEW f, \A at \in Nat : f[at] = DumpAt(f, words, at), NEW key \in Keys
  PROVE  TakesBlocks(Finds(f, words), words, "dump", key)
<1> SUFFICES ASSUME NEW p \in Nat, NEW n \in Nat \ {0}, NEW q \in Seq(Points), n = Len(q), Spells(words, p, BlockWords(key, q))
             PROVE  Finds(f, words)[p + 1] = Tells("dump", key, q) \cup Finds(f, words)[(p + WordsOf(n)) + 1]
  BY Zenon DEF TakesBlocks
<1>1. n \in Nat /\ n # 0
  OBVIOUS
<1>2. PICK block : block = BlockAt(words, p + 1)
  OBVIOUS
<1>3. /\ words[p + 1] = key /\ (p + 1) + 2 <= Len(words)
      /\ block.t2 = key /\ block.skip = n - 1 /\ PointsBehind(block) \in Nat
      /\ (p + 1) + 3 + PointsBehind(block) = (p + WordsOf(n)) + 1
      /\ PointsOf(words, p + 1, block) = Range(q)
  BY ONLY <1>1, <1>2, BlockRead, words \in Seq(Nat), p \in Nat, key \in Keys, q \in Seq(Points), n = Len(q),
          Spells(words, p, BlockWords(key, q))
<1>4. PICK at \in Nat : at = p + 1
  BY ONLY p \in Nat
<1>5. PICK next \in Nat : next = (p + WordsOf(n)) + 1
  <2>1. WordsOf(n) \in Nat
    BY ONLY <1>1 DEF WordsOf
  <2> QED
    BY ONLY <2>1, p \in Nat
<1>6. ~ AtEnd(words, at) /\ ~ (at + 2 > Len(words))
  <2>1. key # EndOfRow
    <3>1. key < EndOfRow /\ key \in Nat /\ EndOfRow \in Nat
      BY ONLY SkipNumbers, key \in Keys
    <3> QED
      BY ONLY <3>1
  <2>2. PICK l \in Nat : l = Len(words)
    BY ONLY words \in Seq(Nat)
  <2>3. ~ (at + 2 > l)
    <3>1. at + 2 <= l
      BY ONLY <1>3, <1>4, <2>2
    <3> QED
      BY ONLY <3>1, at \in Nat, l \in Nat
  <2> QED
    BY ONLY <1>3, <1>4, <2>1, <2>2, <2>3 DEF AtEnd
<1>7. f[at] = {<<key, x>> : x \in Range(q)} \cup (IF AtEnd(words, next) THEN {} ELSE f[next])
  <2>1. f[at] = DumpAt(f, words, at)
    BY ONLY \A k \in Nat : f[k] = DumpAt(f, words, k), at \in Nat
  <2>2. at + 3 + PointsBehind(block) = next /\ PointsOf(words, at, block) = Range(q) /\ block = BlockAt(words, at)
    BY ONLY <1>2, <1>3, <1>4, <1>5
  <2>3. {<<block.t2, y>> : y \in PointsOf(words, at, block)} = {<<key, x>> : x \in Range(q)}
    BY ONLY <1>3, <2>2
  <2>4. DumpAt(f, words, at) = {<<block.t2, y>> : y \in PointsOf(words, at, block)}
                                 \cup (IF AtEnd(words, next) THEN {} ELSE f[next])
    BY ONLY <1>6, <2>2, Zenon DEF DumpAt
  <2> QED
    BY ONLY <2>1, <2>3, <2>4, Zenon
<1>8. Finds(f, words)[at] = f[at] /\ Finds(f, words)[next] = IF AtEnd(words, next) THEN {} ELSE f[next]
  BY ONLY <1>6, at \in Nat, next \in Nat DEF Finds
<1>9. Tells("dump", key, q) = {<<key, x>> : x \in Range(q)}
  BY ONLY DEF Tells
<1> QED
  BY ONLY <1>4, <1>5, <1>7, <1>8, <1>9, Zenon

(* The keys and points of a row's array are those of the row.               *)
LEMMA ArrayDumped ==
  ASSUME NEW row, row.buckets \in Seq(BucketsOf(Keys, Points)), Filled(row.buckets), row.buckets # <<>>
  PROVE  DumpArray(ArrayWords(row.buckets)) = Entries(row)
<1>1. PICK bs \in Seq(BucketsOf(Keys, Points)), n \in Nat :
        bs = row.buckets /\ n = Len(bs) /\ n > 0 /\ DOMAIN bs = 1 .. n /\ \A i \in 1 .. n : bs[i] \in BucketsOf(Keys, Points)
  OBVIOUS
<1>a. PICK pos : BucketsStand(ArrayWords(bs), bs, pos)
  BY ONLY <1>1, BucketsStanding, Filled(row.buckets), bs \in Seq(BucketsOf(Keys, Points))
<1>2. PICK words \in Seq(Nat) : words = ArrayWords(bs) /\ BucketsStand(words, bs, pos)
  <2>1. ArrayWords(bs) \in Seq(Nat)
    BY ONLY <1>a DEF BucketsStand
  <2> QED
    BY ONLY <1>a, <2>1
<1>3. PICK f : DumpArray(words) = f[1] /\ \A at \in Nat : f[at] = DumpAt(f, words, at)
  BY ONLY DumpWalk, words \in Seq(Nat)
<1>4. /\ pos \in [0 .. n -> Nat] /\ pos[0] = 0 /\ Len(words) = pos[n] + 1 /\ words[pos[n] + 1] = EndOfRow
      /\ \A i \in 1 .. n : /\ Spells(words, pos[i - 1], FlattenSeq(Blocks(bs[i])))
                           /\ pos[i] = pos[i - 1] + Len(FlattenSeq(Blocks(bs[i])))
  BY ONLY <1>1, <1>2, Zenon DEF BucketsStand
<1>5. \A i \in 1 .. n : bs[i].pts # <<>>
  BY ONLY <1>1, Filled(row.buckets) DEF Filled
<1> DEFINE ent == [i \in 1 .. n |-> Tells("dump", bs[i].t2, bs[i].pts)]
           rest == [i \in 0 .. n |-> Finds(f, words)[pos[i] + 1]]
<1>6. ASSUME NEW i \in 1 .. n PROVE rest[i - 1] = ent[i] \cup rest[i]
  <2>1. i - 1 \in 0 .. n /\ i \in 0 .. n
    BY ONLY i \in 1 .. n, n \in Nat
  <2>2. PICK o \in Nat, b \in BucketsOf(Keys, Points) : o = pos[i - 1] /\ b = bs[i] /\ b.pts # <<>>
    BY ONLY <1>1, <1>4, <1>5, <2>1, i \in 1 .. n
  <2>3. TakesBlocks(Finds(f, words), words, "dump", b.t2)
    <3>1. b.t2 \in Keys
      BY ONLY KeysAreNumbers, b \in BucketsOf(Keys, Points)
    <3> QED
      BY ONLY <1>3, <3>1, DumpTakes, words \in Seq(Nat)
  <2>4. Spells(words, o, FlattenSeq(Blocks(b))) /\ pos[i] = o + Len(FlattenSeq(Blocks(b)))
    BY ONLY <1>4, <2>2, i \in 1 .. n
  <2>5. Finds(f, words)[o + 1] = Tells("dump", b.t2, b.pts) \cup Finds(f, words)[(o + Len(FlattenSeq(Blocks(b)))) + 1]
    <3>1. PICK R : R = Finds(f, words)
      OBVIOUS
    <3>2. PICK walk : walk = "dump"
      OBVIOUS
    <3>3. b.pts # <<>> /\ Spells(words, o, FlattenSeq(Blocks(b))) /\ TakesBlocks(R, words, walk, b.t2)
      BY ONLY <2>2, <2>3, <2>4, <3>1, <3>2
    <3>4. TakesBucket(R, walk, b, o)
      BY ONLY <3>3, BucketChained, words \in Seq(Nat), o \in Nat, b \in BucketsOf(Keys, Points)
    <3> QED
      BY ONLY <3>1, <3>2, <3>4 DEF TakesBucket
  <2>6. rest[i - 1] = Finds(f, words)[o + 1] /\ rest[i] = Finds(f, words)[(o + Len(FlattenSeq(Blocks(b)))) + 1]
    BY ONLY <2>1, <2>2, <2>4
  <2>7. ent[i] = Tells("dump", b.t2, b.pts)
    BY ONLY <2>2, i \in 1 .. n
  <2> HIDE DEF ent, rest
  <2> QED
    BY ONLY <2>5, <2>6, <2>7
<1>7. rest[0] = Together(ent, n) \cup rest[n]
  <2> HIDE DEF ent, rest
  <2> QED
    BY ONLY <1>6, Chained, n \in Nat
<1>8. rest[n] = {}
  <2>1. PICK k \in Nat : k = pos[n] /\ n \in 0 .. n
    BY ONLY <1>4, n \in Nat
  <2>2. AtEnd(words, k + 1)
    <3>1. k + 1 <= k + 1
      BY ONLY k \in Nat
    <3> QED
      BY ONLY <1>4, <2>1, <3>1 DEF AtEnd
  <2>3. Finds(f, words)[k + 1] = {}
    BY ONLY <2>2, k \in Nat DEF Finds
  <2>4. rest[n] = Finds(f, words)[k + 1]
    BY ONLY <2>1
  <2> QED
    BY ONLY <2>3, <2>4
<1>9. rest[0] = DumpArray(words)
  <2>1. 1 \in 1 .. n /\ 1 - 1 = 0 /\ 0 + 1 = 1 /\ 0 \in 0 .. n
    BY ONLY <1>1, n \in Nat
  <2>2. PICK b \in BucketsOf(Keys, Points) : b = bs[1] /\ b.pts # <<>> /\ Spells(words, 0, FlattenSeq(Blocks(b)))
    <3>1. bs[1] \in BucketsOf(Keys, Points) /\ bs[1].pts # <<>> /\ Spells(words, pos[1 - 1], FlattenSeq(Blocks(bs[1])))
      BY ONLY <1>1, <1>4, <1>5, <2>1
    <3> QED
      BY ONLY <1>4, <2>1, <3>1
  <2>3. words[0 + 1] = b.t2 /\ b.t2 \in Keys
    BY ONLY <2>2, FirstBlock, words \in Seq(Nat), 0 \in Nat, b \in BucketsOf(Keys, Points)
  <2>4. ~ AtEnd(words, 1)
    <3>1. b.t2 < EndOfRow /\ b.t2 \in Nat /\ EndOfRow \in Nat
      BY ONLY <2>3, SkipNumbers
    <3>2. words[1] # EndOfRow
      BY ONLY <2>1, <2>3, <3>1
    <3> QED
      BY ONLY <3>2 DEF AtEnd
  <2>5. Finds(f, words)[1] = f[1]
    BY ONLY <2>4, 1 \in Nat DEF Finds
  <2>6. rest[0] = Finds(f, words)[0 + 1]
    BY ONLY <1>4, <2>1
  <2> HIDE DEF rest
  <2> QED
    BY ONLY <1>3, <2>1, <2>5, <2>6
<1>10. Together(ent, n) = Entries(row)
  <2>1. \A i \in 1 .. n : ent[i] = {<<bs[i].t2, p>> : p \in Range(bs[i].pts)}
    BY ONLY DEF Tells
  <2> HIDE DEF ent
  <2>2. ASSUME NEW v PROVE v \in Together(ent, n) <=> \E i \in 1 .. n : v \in {<<bs[i].t2, p>> : p \in Range(bs[i].pts)}
    <3>1. v \in Together(ent, n) <=> \E i \in 1 .. n : v \in ent[i]
      BY ONLY DEF Together
    <3> QED
      BY ONLY <2>1, <3>1
  <2>3. Entries(row) = UNION {{<<bs[i].t2, p>> : p \in Range(bs[i].pts)} : i \in 1 .. n}
    BY ONLY <1>1 DEF Entries
  <2>4. \A v : v \in Entries(row) <=> \E i \in 1 .. n : v \in {<<bs[i].t2, p>> : p \in Range(bs[i].pts)}
    BY ONLY <2>3
  <2> QED
    BY ONLY <2>2, <2>4
<1> HIDE DEF ent, rest
<1> QED
  BY ONLY <1>1, <1>2, <1>7, <1>8, <1>9, <1>10

LEMMA ArrayFits ==
  ASSUME NEW row \in ListRows
  PROVE  Len(ArrayWords(row.buckets)) <= AllocatedWords(row.count + Len(row.buckets))
<1>1. row.buckets \in Seq(BucketsOf(Keys, Points)) /\ Proper(row.buckets, row.count) /\ row.count \in Nat
  BY DEF ListRows
<1>2. PICK bs \in Seq(BucketsOf(Keys, Points)), n \in Nat, cnt \in Nat :
        bs = row.buckets /\ n = Len(bs) /\ cnt = row.count /\ \A i \in 1 .. n : bs[i] \in BucketsOf(Keys, Points)
  BY <1>1
<1>3. Filled(bs) /\ \E f : Counts(f, bs, cnt)
  BY ONLY <1>1, <1>2 DEF Proper
<1>4. PICK f : Counts(f, bs, cnt)
  BY ONLY <1>3
<1>5. PICK pos : BucketsStand(ArrayWords(bs), bs, pos)
  BY ONLY <1>3, BucketsStanding, bs \in Seq(BucketsOf(Keys, Points))
<1>6. PICK words \in Seq(Nat) : words = ArrayWords(bs)
  <2>1. ArrayWords(bs) \in Seq(Nat)
    BY ONLY <1>5 DEF BucketsStand
  <2> QED
    BY ONLY <2>1
<1>7. /\ pos \in [0 .. n -> Nat] /\ pos[0] = 0 /\ Len(words) = pos[n] + 1
      /\ \A i \in 1 .. n : /\ Spells(words, pos[i - 1], FlattenSeq(Blocks(bs[i])))
                           /\ pos[i] = pos[i - 1] + Len(FlattenSeq(Blocks(bs[i])))
  BY ONLY <1>2, <1>5, <1>6, Zenon DEF BucketsStand
<1>8. /\ f \in [0 .. n -> Nat] /\ f[0] = 0 /\ f[n] = cnt
      /\ \A i \in 1 .. n : f[i] = f[i - 1] + Len(bs[i].pts)
  BY ONLY <1>2, <1>4, Zenon DEF Counts
<1> DEFINE G == {m \in Nat : m <= n => pos[m] <= 2 * (f[m] + m)}
<1>9. 0 \in G
  BY ONLY <1>7, <1>8
<1>10. ASSUME NEW m \in G PROVE m + 1 \in G
  <2>1. m \in Nat /\ m + 1 \in Nat
    OBVIOUS
  <2> SUFFICES ASSUME m + 1 <= n PROVE pos[m + 1] <= 2 * (f[m + 1] + (m + 1))
    OBVIOUS
  <2>2. m <= n /\ m \in 0 .. n /\ m + 1 \in 0 .. n
    BY ONLY <2>1, m + 1 <= n, n \in Nat
  <2>3. PICK i \in 1 .. n : i = m + 1 /\ i - 1 = m
    <3>1. m + 1 \in 1 .. n /\ (m + 1) - 1 = m
      BY ONLY <2>1, m + 1 <= n, n \in Nat
    <3> QED
      BY ONLY <3>1
  <2>4. PICK o \in Nat, z \in Nat, g \in Nat, h \in Nat : o = pos[m] /\ z = pos[i] /\ g = f[m] /\ h = f[i]
    BY ONLY <1>7, <1>8, <2>2, <2>3
  <2>5. PICK b \in BucketsOf(Keys, Points) : b = bs[i] /\ b.pts # <<>>
    <3>1. i \in DOMAIN bs
      BY ONLY <1>2, i \in 1 .. n, bs \in Seq(BucketsOf(Keys, Points))
    <3> QED
      BY ONLY <1>2, <1>3, <3>1, i \in 1 .. n DEF Filled
  <2>6. Spells(words, o, FlattenSeq(Blocks(b))) /\ z = o + Len(FlattenSeq(Blocks(b))) /\ h = g + Len(b.pts)
    BY ONLY <1>7, <1>8, <2>3, <2>4, <2>5, i \in 1 .. n
  <2>7. Len(FlattenSeq(Blocks(b))) <= 2 * Len(b.pts) + 1
    BY ONLY <2>5, <2>6, FirstBlock, words \in Seq(Nat), o \in Nat, b \in BucketsOf(Keys, Points)
  <2>8. PICK l \in Nat : l = Len(b.pts)
    BY ONLY KeysAreNumbers, b \in BucketsOf(Keys, Points)
  <2>9. PICK w : w = Len(FlattenSeq(Blocks(b))) /\ w \in Nat
    <3>1. PICK nk \in Nat \ {0} : Blocks(b) \in [1 .. nk -> Seq(Nat)]
      BY ONLY BlocksAre, b \in BucketsOf(Keys, Points), <2>5
    <3>2. nk \in Nat
      OBVIOUS
    <3>3. PICK s \in Seq(Nat) : s = FlattenSeq(Blocks(b))
      BY ONLY <3>1, <3>2, FlatIsSeq
    <3>4. Len(s) \in Nat
      OBVIOUS
    <3> QED
      BY ONLY <3>3, <3>4
  <2>10. o <= 2 * (g + m)
    BY ONLY <2>2, <2>4, m \in G
  <2>11. z = o + w /\ h = g + l /\ w <= 2 * l + 1
    BY ONLY <2>6, <2>7, <2>8, <2>9
  <2>12. z <= 2 * (h + (m + 1))
    BY ONLY <2>1, <2>9, <2>10, <2>11, o \in Nat, z \in Nat, g \in Nat, h \in Nat, l \in Nat
  <2> QED
    BY ONLY <2>3, <2>4, <2>12
<1>11. n \in G
  <2> HIDE DEF G
  <2>1. G \subseteq Nat
    BY ONLY DEF G
  <2>2. G = Nat
    BY ONLY <1>9, <1>10, <2>1, NatSetInduction
  <2> QED
    BY ONLY <2>2, n \in Nat
<1>12. pos[n] <= 2 * (cnt + n)
  BY ONLY <1>8, <1>11, n \in Nat
<1>13. PICK k \in Nat : k = pos[n]
  <2>1. n \in 0 .. n
    OBVIOUS
  <2> QED
    BY ONLY <1>7, <2>1
<1>14. k + 1 <= 2 * (cnt + n) + 1
  BY ONLY <1>12, <1>13, k \in Nat, cnt \in Nat, n \in Nat
<1> QED
  BY ONLY <1>2, <1>6, <1>7, <1>13, <1>14 DEF AllocatedWords

(* The array of a row with points is as ArraysFaithful says.                *)
LEMMA ArrayRight ==
  ASSUME NEW row \in ListRows, row.count # 0
  PROVE  /\ ~ IsList(ArrayOf(row)) /\ DumpArray(ArrayOf(row).words) = Entries(row)
         /\ Len(ArrayOf(row).words) <= ArrayOf(row).allocated
<1>1. row.buckets \in Seq(BucketsOf(Keys, Points)) /\ Proper(row.buckets, row.count)
  BY DEF ListRows
<1>2. Filled(row.buckets) /\ \E f : Counts(f, row.buckets, row.count)
  BY ONLY <1>1 DEF Proper
<1>3. row.buckets # <<>>
  <2> SUFFICES ASSUME row.buckets = <<>> PROVE FALSE
    OBVIOUS
  <2>1. PICK f : Counts(f, row.buckets, row.count)
    BY ONLY <1>2
  <2>2. Len(row.buckets) = 0
    BY ONLY row.buckets = <<>>
  <2>3. f[0] = 0 /\ f[0] = row.count
    BY ONLY <2>1, <2>2 DEF Counts
  <2> QED
    BY ONLY <2>3, row.count # 0
<1>4. DumpArray(ArrayWords(row.buckets)) = Entries(row)
  BY ONLY <1>1, <1>2, <1>3, ArrayDumped
<1>5. Len(ArrayWords(row.buckets)) <= AllocatedWords(row.count + Len(row.buckets))
  BY ONLY ArrayFits, row \in ListRows
<1>6. /\ ArrayOf(row).words = ArrayWords(row.buckets) /\ DOMAIN ArrayOf(row) = {"words", "allocated"}
      /\ ArrayOf(row).allocated = AllocatedWords(row.count + Len(row.buckets))
  BY ONLY DEF ArrayOf
<1>7. ~ IsList(ArrayOf(row))
  BY ONLY <1>6 DEF IsList
<1> QED
  BY ONLY <1>4, <1>5, <1>6, <1>7

(* What a query loads from a FORMAT2 file that was written.                 *)
LEMMA QueryTables ==
  ASSUME NEW words \in Seq(Nat), NEW T \in ListTables, Spells(words, 0, EncodeTables2(T))
  PROVE  /\ \A j \in 1 .. L, t \in Rows :
              ReadTables2(words, EmptyTables, FALSE).tables[j][t] = IF T[j][t].count = 0 THEN EmptyRow ELSE ArrayOf(T[j][t])
         /\ \A j \in 1 .. L, t \in Rows : ReadTables2(words, EmptyTables, TRUE).tables[j][t] = T[j][t]
<1>1. /\ EmptyTables \in ListTables /\ Grid(EmptyTables)
      /\ \A j \in 1 .. L, t \in Rows : EmptyTables[j][t] = EmptyRow /\ EmptyTables[j][t] \in ListRows
  BY ONLY EmptyTablesListed, EmptyRowListed
<1>2. PICK loaded : loaded = ReadTables2(words, EmptyTables, FALSE).tables /\ TablesResult(FALSE, EmptyTables, T, loaded)
  <2>1. TablesResult(FALSE, EmptyTables, T, ReadTables2(words, EmptyTables, FALSE).tables)
    BY ONLY <1>1, TablesRead, words \in Seq(Nat), T \in ListTables, Spells(words, 0, EncodeTables2(T))
  <2> QED
    BY ONLY <2>1
<1>3. PICK listed : listed = ReadTables2(words, EmptyTables, TRUE).tables /\ TablesResult(TRUE, EmptyTables, T, listed)
  <2>1. TablesResult(TRUE, EmptyTables, T, ReadTables2(words, EmptyTables, TRUE).tables)
    BY ONLY <1>1, TablesRead, words \in Seq(Nat), T \in ListTables, Spells(words, 0, EncodeTables2(T))
  <2> QED
    BY ONLY <2>1
<1>4. ASSUME NEW j \in 1 .. L, NEW t \in Rows
      PROVE  loaded[j][t] = IF T[j][t].count = 0 THEN EmptyRow ELSE ArrayOf(T[j][t])
  <2>1. RowResult(FALSE, EmptyTables[j][t], T[j][t], loaded[j][t])
    BY ONLY <1>2, j \in 1 .. L, t \in Rows DEF TablesResult
  <2> QED
    BY ONLY <1>1, <2>1, j \in 1 .. L, t \in Rows DEF RowResult
<1>5. ASSUME NEW j \in 1 .. L, NEW t \in Rows
      PROVE  listed[j][t] = T[j][t]
  <2>1. RowResult(TRUE, EmptyTables[j][t], T[j][t], listed[j][t])
    BY ONLY <1>3, j \in 1 .. L, t \in Rows DEF TablesResult
  <2> QED
    BY ONLY <1>1, <2>1, j \in 1 .. L, t \in Rows DEF RowResult
<1> QED
  BY ONLY <1>2, <1>3, <1>4, <1>5

LEMMA FaithfulBecause == LInv => ArraysFaithful
<1> SUFFICES ASSUME LInv, file.fmt = 2, ~ torn, LoadedTables.expect = "done", NEW j \in 1 .. L, NEW t1 \in Rows
             PROVE  LET array == LoadedTables.tables[j][t1]
                        row == FileRows(file)[j][t1]
                    IN  IF IsList(array) THEN row = EmptyRow
                        ELSE DumpArray(array.words) = Entries(row) /\ Len(array.words) <= array.allocated
  BY Zenon DEF ArraysFaithful
<1>1. LoadedTables = ReadTables2(file.words, EmptyTables, FALSE) /\ FileRows(file) = ReadTables2(file.words, EmptyTables, TRUE).tables
  BY ONLY file.fmt = 2 DEF LoadedTables, FileRows
<1>2. file.words # << 0 >>
  <2> SUFFICES ASSUME file.words = << 0 >> PROVE FALSE
    OBVIOUS
  <2>1. ReadTables2(<< 0 >>, EmptyTables, FALSE).expect = "error"
    BY ONLY ZeroWordFails
  <2>2. "error" # "done"
    OBVIOUS
  <2> QED
    BY ONLY <1>1, <2>1, <2>2, file.words = << 0 >>, LoadedTables.expect = "done"
<1>3. PICK words \in Seq(Nat) : words = file.words /\ Written(words)
  BY ONLY <1>2, LInv, file.fmt = 2, ~ torn DEF LInv, Created
<1>4. PICK T \in ListTables : Spells(words, 0, EncodeTables2(T))
  BY ONLY <1>3 DEF Written
<1>5. PICK row \in ListRows : row = T[j][t1]
  BY ONLY ListTablesGrid, T \in ListTables, j \in 1 .. L, t1 \in Rows
<1>6. /\ LoadedTables.tables[j][t1] = IF row.count = 0 THEN EmptyRow ELSE ArrayOf(row)
      /\ FileRows(file)[j][t1] = row
  <2>1. /\ ReadTables2(words, EmptyTables, FALSE).tables[j][t1] = IF T[j][t1].count = 0 THEN EmptyRow ELSE ArrayOf(T[j][t1])
        /\ ReadTables2(words, EmptyTables, TRUE).tables[j][t1] = T[j][t1]
    BY ONLY <1>4, QueryTables, words \in Seq(Nat), T \in ListTables, j \in 1 .. L, t1 \in Rows
  <2> QED
    BY ONLY <1>1, <1>3, <1>5, <2>1
<1>7. CASE row.count = 0
  <2>1. row = EmptyRow
    BY ONLY <1>7, RowOfNone, row \in ListRows
  <2>2. IsList(EmptyRow)
    BY ONLY DEF IsList, EmptyRow
  <2> QED
    BY ONLY <1>6, <1>7, <2>1, <2>2
<1>8. CASE row.count # 0
  <2>1. /\ ~ IsList(ArrayOf(row)) /\ DumpArray(ArrayOf(row).words) = Entries(row)
        /\ Len(ArrayOf(row).words) <= ArrayOf(row).allocated
    BY ONLY <1>8, ArrayRight, row \in ListRows
  <2> QED
    BY ONLY <1>6, <1>8, <2>1
<1> QED
  BY ONLY <1>7, <1>8

(* The arrays a query loads hold the points of the lists a merge would      *)
(* load, and fit into what the element count of the row had allocated       *)
(* (lshlib.cpp:1553-1644).                                                  *)
THEOREM ArraysHoldPoints == Spec => []ArraysFaithful
BY WholeAlways, FaithfulBecause, PTL

(* A search takes the points under its key, stops at a higher one and       *)
(* passes over single points.                                               *)
LEMMA RetrieveTakes ==
  ASSUME NEW words \in Seq(Nat), NEW t2 \in Keys, NEW f, \A at \in Nat : f[at] = RetrieveAt(f, words, t2, at)
  PROVE  TakesBlocks(Finds(f, words), words, "find", t2)
<1> SUFFICES ASSUME NEW p \in Nat, NEW n \in Nat \ {0}, NEW q \in Seq(Points), n = Len(q), Spells(words, p, BlockWords(t2, q))
             PROVE  Finds(f, words)[p + 1] = Tells("find", t2, q) \cup Finds(f, words)[(p + WordsOf(n)) + 1]
  BY Zenon DEF TakesBlocks
<1>1. n \in Nat /\ n # 0
  OBVIOUS
<1>2. PICK block : block = BlockAt(words, p + 1)
  OBVIOUS
<1>3. /\ words[p + 1] = t2 /\ (p + 1) + 2 <= Len(words)
      /\ block.t2 = t2 /\ block.skip = n - 1 /\ PointsBehind(block) \in Nat
      /\ (p + 1) + 3 + PointsBehind(block) = (p + WordsOf(n)) + 1
      /\ PointsOf(words, p + 1, block) = Range(q)
  BY ONLY <1>1, <1>2, BlockRead, words \in Seq(Nat), p \in Nat, t2 \in Keys, q \in Seq(Points), n = Len(q),
          Spells(words, p, BlockWords(t2, q))
<1>4. PICK at \in Nat : at = p + 1
  BY ONLY p \in Nat
<1>5. PICK next \in Nat : next = (p + WordsOf(n)) + 1
  <2>1. WordsOf(n) \in Nat
    BY ONLY <1>1 DEF WordsOf
  <2> QED
    BY ONLY <2>1, p \in Nat
<1>6. ~ AtEnd(words, at) /\ ~ (at + 2 > Len(words)) /\ ~ (words[at] > t2)
  <2>1. t2 < EndOfRow /\ t2 \in Nat /\ EndOfRow \in Nat
    BY ONLY SkipNumbers, t2 \in Keys
  <2>2. PICK l \in Nat : l = Len(words)
    BY ONLY words \in Seq(Nat)
  <2>3. ~ (at + 2 > l)
    <3>1. at + 2 <= l
      BY ONLY <1>3, <1>4, <2>2
    <3> QED
      BY ONLY <3>1, at \in Nat, l \in Nat
  <2>4. words[at] = t2 /\ t2 # EndOfRow /\ ~ (t2 > t2)
    BY ONLY <1>3, <1>4, <2>1
  <2> QED
    BY ONLY <2>2, <2>3, <2>4 DEF AtEnd
<1>7. f[at] = Range(q) \cup (IF AtEnd(words, next) THEN {} ELSE f[next])
  <2>1. f[at] = RetrieveAt(f, words, t2, at)
    BY ONLY \A k \in Nat : f[k] = RetrieveAt(f, words, t2, k), at \in Nat
  <2>2. at + 3 + PointsBehind(block) = next /\ PointsOf(words, at, block) = Range(q) /\ block = BlockAt(words, at)
    BY ONLY <1>2, <1>3, <1>4, <1>5
  <2>3. BlockAt(words, at).t2 = t2 /\ at + 3 + PointsBehind(BlockAt(words, at)) = next
        /\ PointsOf(words, at, BlockAt(words, at)) = Range(q)
    BY ONLY <1>3, <2>2, Zenon
  <2> QED
    BY ONLY <1>6, <2>1, <2>3 DEF RetrieveAt
<1>8. Finds(f, words)[at] = f[at] /\ Finds(f, words)[next] = IF AtEnd(words, next) THEN {} ELSE f[next]
  BY ONLY <1>6, at \in Nat, next \in Nat DEF Finds
<1>9. Tells("find", t2, q) = Range(q)
  BY ONLY DEF Tells
<1> QED
  BY ONLY <1>4, <1>5, <1>7, <1>8, <1>9, Zenon

LEMMA StopsAtHigher ==
  ASSUME NEW words \in Seq(Nat), NEW t2 \in Keys, NEW f, \A k \in Nat : f[k] = RetrieveAt(f, words, t2, k),
         NEW at \in Nat, at <= Len(words), words[at] > t2
  PROVE  Finds(f, words)[at] = {}
<1>1. f[at] = RetrieveAt(f, words, t2, at)
  OBVIOUS
<1>2. f[at] = {}
  BY ONLY <1>1, at <= Len(words), words[at] > t2 DEF RetrieveAt
<1> QED
  BY ONLY <1>2, at \in Nat DEF Finds

LEMMA PassesSingles ==
  ASSUME NEW words \in Seq(Nat), NEW t2 \in Keys, NEW f, \A k \in Nat : f[k] = RetrieveAt(f, words, t2, k),
         NEW p \in Nat, NEW key \in Keys, key < t2, NEW q \in Seq(Points), Len(q) = 1, Spells(words, p, BlockWords(key, q))
  PROVE  Finds(f, words)[p + 1] = Finds(f, words)[(p + 3) + 1]
<1>1. PICK n \in Nat : n = 1 /\ n = Len(q) /\ n # 0
  BY ONLY Len(q) = 1
<1>p. n = Len(q) /\ n # 0
  BY ONLY <1>1
<1>2. PICK block : block = BlockAt(words, p + 1)
  OBVIOUS
<1>3. words[p + 1] = key /\ (p + 1) + 2 <= Len(words) /\ block.t2 = key /\ block.skip = n - 1
  BY ONLY <1>p, <1>2, BlockRead, words \in Seq(Nat), p \in Nat, key \in Keys, q \in Seq(Points), n \in Nat,
          Spells(words, p, BlockWords(key, q))
<1>4. PICK at \in Nat, next \in Nat : at = p + 1 /\ next = (p + 3) + 1 /\ at + 3 = next
  BY ONLY p \in Nat
<1>5. block.skip = 0
  BY ONLY <1>1, <1>3
<1>6. ~ AtEnd(words, at) /\ ~ (at + 2 > Len(words)) /\ ~ (words[at] > t2) /\ key # t2
  <2>1. key < EndOfRow /\ key \in Nat /\ t2 \in Nat /\ EndOfRow \in Nat
    BY ONLY SkipNumbers, t2 \in Keys, key \in Keys
  <2>2. PICK l \in Nat : l = Len(words)
    BY ONLY words \in Seq(Nat)
  <2>3. ~ (at + 2 > l)
    <3>1. at + 2 <= l
      BY ONLY <1>3, <1>4, <2>2
    <3> QED
      BY ONLY <3>1, at \in Nat, l \in Nat
  <2>4. words[at] = key /\ key # EndOfRow /\ ~ (key > t2) /\ key # t2
    BY ONLY <1>3, <1>4, <2>1, key < t2
  <2> QED
    BY ONLY <2>2, <2>3, <2>4 DEF AtEnd
<1>7. PassOver(words, at, BlockAt(words, at)) = next
  <2>1. at + 3 + 0 = next
    BY ONLY <1>4, at \in Nat
  <2>2. BlockAt(words, at).skip = 0
    BY ONLY <1>2, <1>4, <1>5
  <2> QED
    BY ONLY <1>4, <2>1, <2>2 DEF PassOver
<1>8. f[at] = IF AtEnd(words, next) THEN {} ELSE f[next]
  <2>1. f[at] = RetrieveAt(f, words, t2, at)
    BY ONLY \A k \in Nat : f[k] = RetrieveAt(f, words, t2, k), at \in Nat
  <2>2. BlockAt(words, at).t2 # t2
    BY ONLY <1>2, <1>3, <1>4, <1>6
  <2> QED
    BY ONLY <1>6, <1>7, <2>1, <2>2 DEF RetrieveAt
<1>9. Finds(f, words)[at] = f[at] /\ Finds(f, words)[next] = IF AtEnd(words, next) THEN {} ELSE f[next]
  BY ONLY <1>6, at \in Nat, next \in Nat DEF Finds
<1> QED
  BY ONLY <1>4, <1>8, <1>9

(* A bucket of a single point at position o.                                *)
Single(words, o, b) == Len(b.pts) = 1 /\ Len(FlattenSeq(Blocks(b))) = 3 /\ Spells(words, o, BlockWords(b.t2, b.pts))

(* The buckets before the first with as high a key are of single points.    *)
LEMMA SinglesAre ==
  ASSUME NEW bs \in Seq(BucketsOf(Keys, Points)), Sorted(bs), Filled(bs), NEW words, NEW pos, BucketsStand(words, bs, pos),
         NEW t2 \in Keys, NEW w \in Nat, words[3 * w + 1] >= t2, \A k \in 0 .. w - 1 : BlockAt(words, 3 * k + 1).skip = 0
  PROVE  \A i \in 1 .. Len(bs) : bs[i].t2 < t2 => Single(words, pos[i - 1], bs[i])
<1>1. PICK n \in Nat : n = Len(bs) /\ DOMAIN bs = 1 .. n /\ \A i \in 1 .. n : bs[i] \in BucketsOf(Keys, Points)
  OBVIOUS
<1>2. /\ words \in Seq(Nat) /\ pos \in [0 .. n -> Nat] /\ pos[0] = 0
      /\ \A i \in 1 .. n : /\ Spells(words, pos[i - 1], FlattenSeq(Blocks(bs[i])))
                           /\ pos[i] = pos[i - 1] + Len(FlattenSeq(Blocks(bs[i])))
  BY ONLY <1>1, BucketsStand(words, bs, pos), Zenon DEF BucketsStand
<1>3. PICK key \in [1 .. n -> Keys] : \A i \in 1 .. n : key[i] = bs[i].t2 /\ bs[i].pts # <<>>
  <2>1. \A i \in 1 .. n : bs[i].t2 \in Keys /\ bs[i].pts # <<>>
    BY ONLY <1>1, KeysAreNumbers, Filled(bs) DEF Filled
  <2>2. [i \in 1 .. n |-> bs[i].t2] \in [1 .. n -> Keys]
    BY ONLY <2>1
  <2> QED
    BY ONLY <2>1, <2>2
<1>4. \A i, m \in 1 .. n : i < m => key[i] < key[m]
  BY ONLY <1>1, <1>3, Sorted(bs) DEF Sorted
<1>5. \A i \in 1 .. n : key[i] \in Nat
  BY ONLY SkipNumbers, key \in [1 .. n -> Keys]
<1>6. t2 \in Nat
  BY ONLY SkipNumbers, t2 \in Keys
<1> DEFINE Placed(m) == \A i \in 1 .. m : key[i] < t2 => pos[i] = 3 * i /\ Single(words, pos[i - 1], bs[i])
           G == {m \in Nat : m <= n => Placed(m)}
<1>7. 0 \in G
  OBVIOUS
<1>8. ASSUME NEW m \in G PROVE m + 1 \in G
  <2>1. m \in Nat /\ m + 1 \in Nat
    OBVIOUS
  <2> HIDE DEF Placed
  <2> SUFFICES ASSUME m + 1 <= n PROVE Placed(m + 1)
    OBVIOUS
  <2>2. m <= n /\ m + 1 \in 1 .. n /\ Placed(m)
    <3>1. m <= n /\ m + 1 \in 1 .. n
      BY ONLY <2>1, m + 1 <= n, n \in Nat
    <3> QED
      BY ONLY <3>1, m \in G
  <2>3. PICK j \in 1 .. n : j = m + 1 /\ j - 1 = m
    BY ONLY <2>1, <2>2
  <2>4. ASSUME key[j] < t2 PROVE pos[j] = 3 * j /\ Single(words, pos[j - 1], bs[j])
    <3>1. \A i \in 1 .. m : i \in 1 .. n /\ i < j
      BY ONLY <2>1, <2>2, <2>3, n \in Nat
    <3>2. \A i \in 1 .. m : key[i] < t2 /\ key[i] < key[j]
      <4> SUFFICES ASSUME NEW i \in 1 .. m PROVE key[i] < t2 /\ key[i] < key[j]
        OBVIOUS
      <4>1. i \in 1 .. n /\ key[i] < key[j]
        BY ONLY <1>4, <3>1, i \in 1 .. m, j \in 1 .. n
      <4>2. PICK a \in Nat, z \in Nat : a = key[i] /\ z = key[j]
        BY ONLY <1>5, <4>1, j \in 1 .. n
      <4>3. a < t2
        BY ONLY <1>6, <2>4, <4>1, <4>2, a \in Nat, z \in Nat
      <4> QED
        BY ONLY <4>1, <4>2, <4>3
    <3>3. \A i \in 0 .. m : pos[i] = 3 * i
      <4> SUFFICES ASSUME NEW i \in 0 .. m PROVE pos[i] = 3 * i
        OBVIOUS
      <4>1. CASE i = 0
        BY ONLY <1>2, <4>1
      <4>2. CASE i # 0
        <5>1. i \in 1 .. m
          BY ONLY <2>1, <4>2, i \in 0 .. m
        <5> QED
          BY ONLY <2>2, <3>2, <5>1 DEF Placed
      <4> QED
        BY ONLY <4>1, <4>2
    <3>4. \A i \in 0 .. m : i + 1 \in 1 .. n /\ (i + 1) - 1 = i /\ i \in Nat /\ 3 * i \in Nat
      BY ONLY <2>1, <2>2, n \in Nat
    <3>5. ASSUME NEW i \in 0 .. m PROVE words[3 * i + 1] = key[i + 1]
      <4>1. PICK o \in Nat, k \in 1 .. n : o = 3 * i /\ o = pos[i] /\ k = i + 1 /\ k - 1 = i
        BY ONLY <3>3, <3>4, i \in 0 .. m
      <4>2. PICK b \in BucketsOf(Keys, Points) : b = bs[k] /\ b.pts # <<>> /\ b.t2 = key[k]
        BY ONLY <1>1, <1>3, k \in 1 .. n
      <4>3. Spells(words, o, FlattenSeq(Blocks(b)))
        BY ONLY <1>2, <4>1, <4>2, k \in 1 .. n
      <4>4. words[o + 1] = b.t2
        BY ONLY <1>2, <4>2, <4>3, FirstBlock, o \in Nat, b \in BucketsOf(Keys, Points)
      <4> QED
        BY ONLY <4>1, <4>2, <4>4
    <3>6. m < w
      <4> SUFFICES ASSUME ~ (m < w) PROVE FALSE
        OBVIOUS
      <4>0. w <= m
        BY ONLY <2>1, w \in Nat, ~ (m < w)
      <4>1. w \in 0 .. m
        BY ONLY <2>1, <4>0, w \in Nat
      <4>2. PICK k \in 1 .. n : k = w + 1 /\ k <= j
        BY ONLY <2>1, <2>3, <3>4, <4>0, <4>1, w \in Nat
      <4>3. words[3 * w + 1] = key[k]
        BY ONLY <3>5, <4>1, <4>2
      <4>4. key[k] < t2
        <5>1. CASE k = j
          BY ONLY <2>4, <5>1
        <5>2. CASE k # j
          <6>1. k \in 1 .. m
            BY ONLY <2>1, <2>3, <4>2, <5>2, k \in 1 .. n
          <6> QED
            BY ONLY <3>2, <6>1
        <5> QED
          BY ONLY <5>1, <5>2
      <4>5. key[k] \in Nat /\ key[k] >= t2
        BY ONLY <1>5, <4>3, words[3 * w + 1] >= t2, k \in 1 .. n
      <4> QED
        BY ONLY <1>6, <4>4, <4>5
    <3>7. BlockAt(words, 3 * m + 1).skip = 0
      <4>1. m \in 0 .. w - 1
        BY ONLY <2>1, <3>6, w \in Nat
      <4> QED
        BY ONLY <4>1, \A k \in 0 .. w - 1 : BlockAt(words, 3 * k + 1).skip = 0
    <3>8. PICK o \in Nat : o = 3 * m /\ o = pos[j - 1]
      <4>1. m \in 0 .. m
        BY ONLY <2>1
      <4> QED
        BY ONLY <2>3, <3>3, <3>4, <4>1
    <3>9. PICK b \in BucketsOf(Keys, Points) : b = bs[j] /\ b.pts # <<>>
      BY ONLY <1>1, <1>3, j \in 1 .. n
    <3>10. Spells(words, o, FlattenSeq(Blocks(b))) /\ pos[j] = o + Len(FlattenSeq(Blocks(b)))
      BY ONLY <1>2, <3>8, <3>9, j \in 1 .. n
    <3>11. BlockAt(words, o + 1).skip = 0
      BY ONLY <3>7, <3>8
    <3>12. Len(b.pts) = 1 /\ Len(FlattenSeq(Blocks(b))) = 3 /\ Spells(words, o, BlockWords(b.t2, b.pts))
      BY ONLY <1>2, <3>9, <3>10, <3>11, FirstBlock, o \in Nat, b \in BucketsOf(Keys, Points)
    <3>13. pos[j] = 3 * j
      BY ONLY <2>1, <2>3, <3>8, <3>10, <3>12
    <3> QED
      BY ONLY <3>8, <3>9, <3>12, <3>13 DEF Single
  <2>5. 1 .. m + 1 = 1 .. m \cup {m + 1}
    BY ONLY <2>1
  <2> QED
    BY ONLY <2>2, <2>3, <2>4, <2>5 DEF Placed
<1>9. n \in G
  <2> HIDE DEF G
  <2>1. G \subseteq Nat
    BY ONLY DEF G
  <2>2. G = Nat
    BY ONLY <1>7, <1>8, <2>1, NatSetInduction
  <2> QED
    BY ONLY <2>2, n \in Nat
<1>10. Placed(n)
  BY ONLY <1>9, n \in Nat
<1> QED
  BY ONLY <1>1, <1>3, <1>10

LEMMA BucketsFound ==
  ASSUME NEW bs \in Seq(BucketsOf(Keys, Points)), Sorted(bs), Filled(bs), bs # <<>>, NEW t2 \in Keys, NEW w \in Nat,
         ArrayWords(bs)[3 * w + 1] >= t2, \A k \in 0 .. w - 1 : BlockAt(ArrayWords(bs), 3 * k + 1).skip = 0
  PROVE  ArrayRetrieve(ArrayWords(bs), t2) = ListRetrieve(bs, t2)
<1>1. PICK n \in Nat : n = Len(bs) /\ n > 0 /\ DOMAIN bs = 1 .. n /\ \A i \in 1 .. n : bs[i] \in BucketsOf(Keys, Points)
  OBVIOUS
<1>a. PICK pos : BucketsStand(ArrayWords(bs), bs, pos)
  BY ONLY BucketsStanding, Filled(bs), bs \in Seq(BucketsOf(Keys, Points))
<1>2. PICK words \in Seq(Nat) : words = ArrayWords(bs) /\ BucketsStand(words, bs, pos)
  <2>1. ArrayWords(bs) \in Seq(Nat)
    BY ONLY <1>a DEF BucketsStand
  <2> QED
    BY ONLY <1>a, <2>1
<1>3. PICK f : ArrayRetrieve(words, t2) = f[1] /\ \A at \in Nat : f[at] = RetrieveAt(f, words, t2, at)
  BY ONLY RetrieveWalk, words \in Seq(Nat)
<1>w. \A at \in Nat : f[at] = RetrieveAt(f, words, t2, at)
  BY ONLY <1>3
<1>4. /\ pos \in [0 .. n -> Nat] /\ pos[0] = 0 /\ Len(words) = pos[n] + 1 /\ words[pos[n] + 1] = EndOfRow
      /\ \A i \in 1 .. n : /\ Spells(words, pos[i - 1], FlattenSeq(Blocks(bs[i])))
                           /\ pos[i] = pos[i - 1] + Len(FlattenSeq(Blocks(bs[i])))
  BY ONLY <1>1, <1>2, Zenon DEF BucketsStand
<1>5. \A i \in 1 .. n : bs[i].pts # <<>>
  BY ONLY <1>1, Filled(bs) DEF Filled
<1>6. \A i \in 1 .. n : bs[i].t2 < t2 => Single(words, pos[i - 1], bs[i])
  <2>1. \A i \in 1 .. Len(bs) : bs[i].t2 < t2 => Single(words, pos[i - 1], bs[i])
    <3>1. words[3 * w + 1] >= t2 /\ \A k \in 0 .. w - 1 : BlockAt(words, 3 * k + 1).skip = 0
      BY ONLY <1>2, ArrayWords(bs)[3 * w + 1] >= t2, \A k \in 0 .. w - 1 : BlockAt(ArrayWords(bs), 3 * k + 1).skip = 0
    <3> QED
      BY ONLY <1>2, <3>1, SinglesAre, bs \in Seq(BucketsOf(Keys, Points)), Sorted(bs), Filled(bs), t2 \in Keys, w \in Nat
  <2> QED
    BY ONLY <1>1, <2>1
<1>7. t2 \in Nat /\ t2 < EndOfRow /\ EndOfRow \in Nat
  BY ONLY SkipNumbers, t2 \in Keys
<1> DEFINE R == Finds(f, words)
           ent == [i \in 1 .. n |-> IF bs[i].t2 = t2 THEN Range(bs[i].pts) ELSE {}]
           rest == [i \in 0 .. n |-> R[pos[i] + 1]]
<1>8. ASSUME NEW i \in 1 .. n PROVE words[pos[i - 1] + 1] = bs[i].t2 /\ (pos[i - 1] + 1) + 2 <= Len(words)
                                    /\ bs[i].t2 \in Keys /\ bs[i].t2 \in Nat /\ pos[i - 1] \in Nat
  <2>1. PICK o \in Nat, b \in BucketsOf(Keys, Points) : o = pos[i - 1] /\ b = bs[i] /\ b.pts # <<>>
    <3>1. i - 1 \in 0 .. n
      BY ONLY i \in 1 .. n, n \in Nat
    <3> QED
      BY ONLY <1>1, <1>4, <1>5, <3>1, i \in 1 .. n
  <2>2. Spells(words, o, FlattenSeq(Blocks(b)))
    BY ONLY <1>4, <2>1, i \in 1 .. n
  <2>3. words[o + 1] = b.t2 /\ (o + 1) + 2 <= Len(words) /\ b.t2 \in Keys
    BY ONLY <2>1, <2>2, FirstBlock, words \in Seq(Nat), o \in Nat, b \in BucketsOf(Keys, Points)
  <2>4. b.t2 \in Nat
    BY ONLY <2>3, SkipNumbers
  <2> QED
    BY ONLY <2>1, <2>3, <2>4
<1>9. rest[n] = {} /\ R[pos[n] + 1] = {}
  <2>1. PICK k \in Nat : k = pos[n] /\ n \in 0 .. n
    BY ONLY <1>4, n \in Nat
  <2>2. AtEnd(words, k + 1)
    <3>1. k + 1 <= k + 1
      BY ONLY k \in Nat
    <3> QED
      BY ONLY <1>4, <2>1, <3>1 DEF AtEnd
  <2>3. R[k + 1] = {}
    BY ONLY <2>2, k \in Nat DEF Finds
  <2>4. rest[n] = R[k + 1]
    BY ONLY <2>1
  <2> QED
    BY ONLY <2>1, <2>3, <2>4
<1>10. ASSUME NEW i \in 1 .. n, bs[i].t2 > t2 PROVE R[pos[i - 1] + 1] = {}
  <2>1. PICK at \in Nat : at = pos[i - 1] + 1 /\ at + 2 <= Len(words) /\ words[at] > t2
    <3>1. PICK o \in Nat : o = pos[i - 1] /\ words[o + 1] = bs[i].t2 /\ (o + 1) + 2 <= Len(words)
      BY ONLY <1>8, i \in 1 .. n
    <3>2. PICK at \in Nat : at = o + 1
      BY ONLY o \in Nat
    <3>3. words[at] > t2
      BY ONLY <1>10, <3>1, <3>2
    <3> QED
      BY ONLY <3>1, <3>2, <3>3
  <2>2. at <= Len(words)
    <3>1. PICK l \in Nat : l = Len(words)
      BY ONLY words \in Seq(Nat)
    <3> QED
      BY ONLY <2>1, <3>1, at \in Nat, l \in Nat
  <2> HIDE DEF R
  <2>3. R[at] = {}
    BY ONLY <1>w, <2>1, <2>2, StopsAtHigher, words \in Seq(Nat), t2 \in Keys, at \in Nat DEF R
  <2> QED
    BY ONLY <2>1, <2>3
<1> HIDE DEF R
<1>11. ASSUME NEW i \in 1 .. n PROVE rest[i - 1] = ent[i] \cup rest[i]
  <2>1. i - 1 \in 0 .. n /\ i \in 0 .. n
    BY ONLY i \in 1 .. n, n \in Nat
  <2>2. PICK o \in Nat, b \in BucketsOf(Keys, Points) : o = pos[i - 1] /\ b = bs[i] /\ b.pts # <<>>
    BY ONLY <1>1, <1>4, <1>5, <2>1, i \in 1 .. n
  <2>3. Spells(words, o, FlattenSeq(Blocks(b))) /\ pos[i] = o + Len(FlattenSeq(Blocks(b)))
    BY ONLY <1>4, <2>2, i \in 1 .. n
  <2>4. rest[i - 1] = R[o + 1] /\ rest[i] = R[pos[i] + 1]
    BY ONLY <2>1, <2>2
  <2>5. ent[i] = IF b.t2 = t2 THEN Range(b.pts) ELSE {}
    BY ONLY <2>2, i \in 1 .. n
  <2> HIDE DEF ent, rest
  <2>6. b.t2 \in Keys /\ b.t2 \in Nat
    BY ONLY <1>8, <2>2, i \in 1 .. n
  <2>7. CASE b.t2 = t2
    <3>1. PICK walk : walk = "find"
      OBVIOUS
    <3>2. TakesBlocks(R, words, walk, b.t2)
      <4>1. TakesBlocks(R, words, "find", t2)
        BY ONLY <1>w, RetrieveTakes, words \in Seq(Nat), t2 \in Keys DEF R
      <4> QED
        BY ONLY <2>7, <3>1, <4>1
    <3>3. TakesBucket(R, walk, b, o)
      BY ONLY <2>2, <2>3, <3>2, BucketChained, words \in Seq(Nat), o \in Nat, b \in BucketsOf(Keys, Points)
    <3>4. R[o + 1] = Range(b.pts) \cup R[pos[i] + 1]
      <4>1. Tells(walk, b.t2, b.pts) = Range(b.pts)
        BY ONLY <3>1 DEF Tells
      <4> QED
        BY ONLY <2>3, <3>3, <4>1 DEF TakesBucket
    <3> QED
      BY ONLY <2>4, <2>5, <2>7, <3>4
  <2>8. CASE b.t2 < t2
    <3>1. Len(b.pts) = 1 /\ Len(FlattenSeq(Blocks(b))) = 3 /\ Spells(words, o, BlockWords(b.t2, b.pts))
      BY ONLY <1>6, <2>2, <2>8, i \in 1 .. n DEF Single
    <3>2. PICK q \in Seq(Points), key \in Keys : q = b.pts /\ key = b.t2
      BY ONLY <2>6, KeysAreNumbers, b \in BucketsOf(Keys, Points)
    <3>3. R[o + 1] = R[(o + 3) + 1]
      <4>1. key < t2 /\ Len(q) = 1 /\ Spells(words, o, BlockWords(key, q))
        BY ONLY <2>8, <3>1, <3>2
      <4> QED
        BY ONLY <1>w, <4>1, PassesSingles, words \in Seq(Nat), t2 \in Keys, o \in Nat, key \in Keys, q \in Seq(Points) DEF R
    <3>4. R[o + 1] = R[pos[i] + 1]
      <4>1. \A e : e = 3 => o + e = o + 3
        OBVIOUS
      <4>2. pos[i] = o + 3
        BY ONLY <2>3, <3>1, <4>1
      <4> QED
        BY ONLY <3>3, <4>2
    <3>5. ent[i] = {}
      <4>1. b.t2 # t2
        BY ONLY <1>7, <2>6, <2>8
      <4> QED
        BY ONLY <2>5, <4>1
    <3> QED
      BY ONLY <2>4, <3>4, <3>5
  <2>9. CASE b.t2 > t2
    <3>1. R[o + 1] = {}
      BY ONLY <1>10, <2>2, <2>9, i \in 1 .. n
    <3>2. R[pos[i] + 1] = {}
      <4>1. CASE i = n
        BY ONLY <1>9, <4>1
      <4>2. CASE i # n
        <5>1. PICK m \in 1 .. n : m = i + 1 /\ m - 1 = i /\ i < m
          <6>1. i + 1 \in 1 .. n /\ (i + 1) - 1 = i /\ i < i + 1
            BY ONLY <4>2, i \in 1 .. n, n \in Nat
          <6> QED
            BY ONLY <6>1
        <5>2. bs[i].t2 < bs[m].t2
          BY ONLY <1>1, <5>1, Sorted(bs), i \in 1 .. n, m \in 1 .. n DEF Sorted
        <5>3. PICK c \in Nat, d \in Nat : c = bs[i].t2 /\ d = bs[m].t2
          BY ONLY <1>8, i \in 1 .. n, m \in 1 .. n
        <5>4. d > t2
          BY ONLY <1>7, <2>2, <2>9, <5>2, <5>3, c \in Nat, d \in Nat
        <5> QED
          BY ONLY <1>10, <5>1, <5>3, <5>4, m \in 1 .. n
      <4> QED
        BY ONLY <4>1, <4>2
    <3>3. ent[i] = {}
      <4>1. b.t2 # t2
        BY ONLY <1>7, <2>6, <2>9
      <4> QED
        BY ONLY <2>5, <4>1
    <3> QED
      BY ONLY <2>4, <3>1, <3>2, <3>3
  <2> QED
    BY ONLY <1>7, <2>6, <2>7, <2>8, <2>9
<1>12. rest[0] = Together(ent, n) \cup rest[n]
  <2> HIDE DEF ent, rest
  <2> QED
    BY ONLY <1>11, Chained, n \in Nat
<1>13. rest[0] = ArrayRetrieve(words, t2)
  <2>1. 1 \in 1 .. n /\ 1 - 1 = 0 /\ 0 + 1 = 1 /\ 0 \in 0 .. n
    BY ONLY <1>1, n \in Nat
  <2>2. words[1] = bs[1].t2 /\ bs[1].t2 \in Keys
    BY ONLY <1>4, <1>8, <2>1
  <2>3. ~ AtEnd(words, 1)
    <3>1. bs[1].t2 # EndOfRow
      <4>1. bs[1].t2 < EndOfRow /\ bs[1].t2 \in Nat
        BY ONLY <2>2, SkipNumbers
      <4> QED
        BY ONLY <1>7, <4>1
    <3> QED
      BY ONLY <2>2, <3>1 DEF AtEnd
  <2>4. R[1] = f[1]
    BY ONLY <2>3, 1 \in Nat DEF Finds, R
  <2>5. rest[0] = R[0 + 1]
    BY ONLY <1>4, <2>1
  <2> HIDE DEF rest
  <2> QED
    BY ONLY <1>3, <2>1, <2>4, <2>5
<1>14. Together(ent, n) = ListRetrieve(bs, t2)
  <2>1. \A i \in 1 .. n : ent[i] = IF bs[i].t2 = t2 THEN Range(bs[i].pts) ELSE {}
    BY ONLY TRUE
  <2> HIDE DEF ent
  <2>2. \A v : v \in Together(ent, n) <=> \E i \in 1 .. n : v \in ent[i]
    BY ONLY DEF Together
  <2>3. \A v : v \in ListRetrieve(bs, t2) <=> \E i \in 1 .. n : bs[i].t2 = t2 /\ v \in Range(bs[i].pts)
    BY ONLY <1>1 DEF ListRetrieve
  <2>4. \A v : v \in Together(ent, n) <=> v \in ListRetrieve(bs, t2)
    <3> SUFFICES ASSUME NEW v PROVE v \in Together(ent, n) <=> v \in ListRetrieve(bs, t2)
      OBVIOUS
    <3>1. \A i \in 1 .. n : v \in ent[i] <=> bs[i].t2 = t2 /\ v \in Range(bs[i].pts)
      BY ONLY <2>1
    <3> QED
      BY ONLY <2>2, <2>3, <3>1
  <2> QED
    BY ONLY <2>4
<1> HIDE DEF ent, rest
<1>15. ArrayRetrieve(words, t2) = ListRetrieve(bs, t2)
  BY ONLY <1>9, <1>12, <1>13, <1>14
<1> QED
  BY ONLY <1>2, <1>15

LEMMA BucketPoints ==
  ASSUME NEW row, NEW t2
  PROVE  {e[2] : e \in {d \in Entries(row) : d[1] = t2}} = ListRetrieve(row.buckets, t2)
<1>1. ASSUME NEW p
      PROVE  p \in {e[2] : e \in {d \in Entries(row) : d[1] = t2}} <=> p \in ListRetrieve(row.buckets, t2)
  <2>1. ASSUME NEW e \in Entries(row), e[1] = t2, e[2] = p
        PROVE  p \in ListRetrieve(row.buckets, t2)
    <3>1. PICK i \in DOMAIN row.buckets : e \in {<<row.buckets[i].t2, q>> : q \in Range(row.buckets[i].pts)}
      BY DEF Entries
    <3>2. PICK q \in Range(row.buckets[i].pts) : e = <<row.buckets[i].t2, q>>
      BY <3>1
    <3>3. row.buckets[i].t2 = t2 /\ q = p
      BY <2>1, <3>2
    <3> QED
      BY <3>2, <3>3, RetrievedAt
  <2>2. ASSUME p \in ListRetrieve(row.buckets, t2)
        PROVE  <<t2, p>> \in Entries(row)
    <3>1. PICK i \in DOMAIN row.buckets : row.buckets[i].t2 = t2 /\ p \in Range(row.buckets[i].pts)
      BY <2>2, RetrievedAt
    <3>2. <<t2, p>> \in {<<row.buckets[i].t2, q>> : q \in Range(row.buckets[i].pts)}
      BY <3>1
    <3> QED
      BY <3>1, <3>2 DEF Entries
  <2>3. <<t2, p>>[1] = t2 /\ <<t2, p>>[2] = p
    OBVIOUS
  <2> QED
    BY <2>1, <2>2, <2>3
<1> QED
  BY <1>1

(* A row that was read as an array gives the points of a bucket when those  *)
(* before it are of a single point.                                         *)
LEMMA ArrayExact ==
  ASSUME NEW row \in ListRows, row.count # 0, NEW t2 \in Keys, SinglesBefore(ArrayOf(row), t2)
  PROVE  RowRetrieve(ArrayOf(row), t2) = RowPoints(ArrayOf(row), t2)
<1>1. ~ IsList(ArrayOf(row)) /\ DumpArray(ArrayOf(row).words) = Entries(row)
  BY ONLY ArrayRight, row \in ListRows, row.count # 0
<1>2. ArrayOf(row).words = ArrayWords(row.buckets)
  BY ONLY DEF ArrayOf
<1>3. row.buckets \in Seq(BucketsOf(Keys, Points)) /\ Proper(row.buckets, row.count)
  BY ONLY row \in ListRows DEF ListRows
<1>4. Filled(row.buckets) /\ Sorted(row.buckets) /\ \E f : Counts(f, row.buckets, row.count)
  BY ONLY <1>3 DEF Proper
<1>5. row.buckets # <<>>
  <2> SUFFICES ASSUME row.buckets = <<>> PROVE FALSE
    OBVIOUS
  <2>1. PICK f : Counts(f, row.buckets, row.count)
    BY ONLY <1>4
  <2>2. Len(row.buckets) = 0
    BY ONLY row.buckets = <<>>
  <2>3. f[0] = 0 /\ f[0] = row.count
    BY ONLY <2>1, <2>2 DEF Counts
  <2> QED
    BY ONLY <2>3, row.count # 0
<1>6. PICK w \in Nat : /\ ArrayWords(row.buckets)[3 * w + 1] >= t2
                       /\ \A k \in 0 .. w - 1 : BlockAt(ArrayWords(row.buckets), 3 * k + 1).skip = 0
  <2>1. PICK w \in 0 .. (Len(ArrayOf(row).words) - 1) \div 3 :
               /\ ArrayOf(row).words[3 * w + 1] >= t2
               /\ \A k \in 0 .. w - 1 : BlockAt(ArrayOf(row).words, 3 * k + 1).skip = 0
    BY ONLY <1>1, SinglesBefore(ArrayOf(row), t2) DEF SinglesBefore
  <2>2. w \in Nat
    BY ONLY <2>1
  <2> QED
    BY ONLY <1>2, <2>1, <2>2
<1>7. ArrayRetrieve(ArrayWords(row.buckets), t2) = ListRetrieve(row.buckets, t2)
  BY ONLY <1>3, <1>4, <1>5, <1>6, BucketsFound, t2 \in Keys
<1>8. RowRetrieve(ArrayOf(row), t2) = ListRetrieve(row.buckets, t2)
  BY ONLY <1>1, <1>2, <1>7 DEF RowRetrieve
<1>9. RowPoints(ArrayOf(row), t2) = {e[2] : e \in {d \in Entries(row) : d[1] = t2}}
  BY ONLY <1>1 DEF RowPoints
<1> QED
  BY ONLY <1>8, <1>9, BucketPoints

(* Both keys that are probed are of the table.                              *)
LEMMA ProbedKeys ==
  ASSUME NEW f, Usable(f), NEW j \in 1 .. L, NEW p \in Points
  PROVE  \A key \in ProbeKeys(f, j, p) : key.t1 \in Rows /\ key.t2 \in Keys
<1>1. PICK g, r1, r2 : g = f.g[j][p] /\ r1 = f.r1[j] /\ r2 = f.r2[j]
  OBVIOUS
<1>2. Hashes(g, r1) /\ Hashes(g, r2)
  BY <1>1 DEF Usable
<1>3. PICK h : h = [g EXCEPT ![1] = (@ - 1) % Word]
  OBVIOUS
<1>4. h \in Seq(0 .. Word - 1) /\ Len(h) = Len(g)
  <2>1. PICK w \in Nat \ {0} : w = Word
    BY NumbersAre
  <2>2. g \in Seq(0 .. w - 1)
    BY <1>2, <2>1 DEF Hashes
  <2>3. \A x \in 0 .. w - 1 : (x - 1) % w \in 0 .. w - 1
    BY ONLY w \in Nat \ {0}
  <2>4. CASE 1 \in DOMAIN g
    <3>1. (g[1] - 1) % w \in 0 .. w - 1
      BY ONLY <2>2, <2>3, <2>4
    <3>2. PICK y \in 0 .. w - 1 : y = (g[1] - 1) % w
      BY ONLY <3>1
    <3>3. h = [g EXCEPT ![1] = y]
      BY ONLY <1>3, <2>1, <3>2
    <3>4. [g EXCEPT ![1] = y] \in Seq(0 .. w - 1) /\ Len([g EXCEPT ![1] = y]) = Len(g)
      <4>1. \A S : \A s \in Seq(S) : Len(s) \in Nat /\ s \in [1 .. Len(s) -> S]
        OBVIOUS
      <4>2. \A S : \A n \in Nat : \A s \in [1 .. n -> S] : s \in Seq(S) /\ Len(s) = n
        OBVIOUS
      <4>3. PICK n, A : n \in Nat /\ n = Len(g) /\ A = 0 .. w - 1 /\ g \in [1 .. n -> A] /\ y \in A
        BY ONLY <2>2, <4>1, y \in 0 .. w - 1
      <4>4. [g EXCEPT ![1] = y] \in [1 .. n -> A]
        BY ONLY <4>3
      <4>5. [g EXCEPT ![1] = y] \in Seq(A) /\ Len([g EXCEPT ![1] = y]) = n
        BY ONLY <4>2, <4>3, <4>4
      <4> QED
        BY ONLY <4>3, <4>5
    <3> QED
      BY ONLY <2>1, <3>3, <3>4
  <2>5. CASE 1 \notin DOMAIN g
    <3>1. h = g
      BY ONLY <1>3, <2>2, <2>5
    <3> QED
      BY ONLY <2>1, <2>2, <3>1
  <2> QED
    BY <2>4, <2>5
<1>5. Hashes(h, r1) /\ Hashes(h, r2)
  BY ONLY <1>2, <1>4 DEF Hashes
<1>6. ProbeKeys(f, j, p) = {PointKey(f, j, p), KeyOf(f, j, h)}
  BY ONLY <1>1, <1>3 DEF ProbeKeys
<1>7. PICK x \in Keys, y \in Keys : x = ProductModPrime(h, r1) /\ y = ProductModPrime(h, r2)
  BY ONLY <1>5, KeyInRange
<1>8. x % N \in Rows
  <2>1. x \in Nat /\ N \in Nat \ {0}
    BY KeysAreNumbers, NumbersAre
  <2>2. x % N \in 0 .. N - 1
    BY ONLY <2>1
  <2> QED
    BY <2>2 DEF Rows
<1>9. KeyOf(f, j, h) = [t1 |-> x % N, t2 |-> y]
  BY ONLY <1>1, <1>7 DEF KeyOf
<1>10. PointKey(f, j, p).t1 \in Rows /\ PointKey(f, j, p).t2 \in Keys
  BY PointsKey
<1> QED
  BY ONLY <1>6, <1>7, <1>8, <1>9, <1>10

(* What a query may have loaded for a row: a list, or the array of one.     *)
Loaded(tables) ==
  \A j \in 1 .. L, t \in Rows :
    IsList(tables[j][t]) \/ \E row \in ListRows : row.count # 0 /\ tables[j][t] = ArrayOf(row)

QInv == LInv /\ \A a \in Procs : ~ torn /\ pc[a] = "querying" => Loaded(core[a].tables)

LEMMA CellsLoaded ==
  ASSUME NEW table, NEW t1 \in Rows
  PROVE  IsList(ReadRow1(table, t1))
<1>1. PICK a \in Nat, c \in Nat \ {0} : a = t1 * C /\ c = C /\ RowCells(t1) = a + 1 .. a + c
  BY CellsOfRow
<1>2. PICK u \in 0 .. c : UsedCells(table, t1) = a + 1 .. a + u /\ Cardinality(UsedCells(table, t1)) = u
  BY <1>1, UsedAreFirst
<1>3. u \in Nat /\ u <= C
  BY <1>1, <1>2
<1>4. a \in Nat /\ a = t1 * C /\ t1 \in Rows /\ Cardinality(UsedCells(table, t1)) = u
  BY <1>1, <1>2
<1>5. ListRead(table, t1, a, u)
  BY ONLY <1>3, <1>4, RowHolds
<1> QED
  BY ONLY <1>5 DEF ListRead

LEMMA TablesLoaded ==
  ASSUME LInv, ~ torn, file.fmt \in {1, 2}, LoadedTables.expect = "done"
  PROVE  Loaded(LoadedTables.tables)
<1> SUFFICES ASSUME NEW j \in 1 .. L, NEW t \in Rows
             PROVE  \/ IsList(LoadedTables.tables[j][t])
                    \/ \E row \in ListRows : row.count # 0 /\ LoadedTables.tables[j][t] = ArrayOf(row)
  BY DEF Loaded
<1>1. CASE file.fmt = 1
  <2>1. PICK table : table = file.cells[j]
    OBVIOUS
  <2>2. LoadedTables.tables[j][t] = ReadRow1(table, t)
    BY <1>1, <2>1 DEF LoadedTables, ReadTable1
  <2> QED
    BY <2>2, CellsLoaded
<1>2. CASE file.fmt = 2
  <2>1. LoadedTables = ReadTables2(file.words, EmptyTables, FALSE)
    BY ONLY <1>2 DEF LoadedTables
  <2>2. file.words # << 0 >>
    <3> SUFFICES ASSUME file.words = << 0 >> PROVE FALSE
      OBVIOUS
    <3>1. ReadTables2(<< 0 >>, EmptyTables, FALSE).expect = "error"
      BY ONLY ZeroWordFails
    <3>2. "error" # "done"
      OBVIOUS
    <3> QED
      BY ONLY <2>1, <3>1, <3>2, file.words = << 0 >>, LoadedTables.expect = "done"
  <2>3. PICK words \in Seq(Nat) : words = file.words /\ Written(words)
    BY ONLY <2>2, LInv, <1>2, ~ torn DEF LInv, Created
  <2>4. PICK T \in ListTables : Spells(words, 0, EncodeTables2(T))
    BY ONLY <2>3 DEF Written
  <2>5. PICK row \in ListRows : row = T[j][t]
    BY ONLY ListTablesGrid, T \in ListTables, j \in 1 .. L, t \in Rows
  <2>6. LoadedTables.tables[j][t] = IF row.count = 0 THEN EmptyRow ELSE ArrayOf(row)
    <3>1. ReadTables2(words, EmptyTables, FALSE).tables[j][t] = IF T[j][t].count = 0 THEN EmptyRow ELSE ArrayOf(T[j][t])
      BY ONLY <2>4, QueryTables, words \in Seq(Nat), T \in ListTables, j \in 1 .. L, t \in Rows
    <3> QED
      BY ONLY <2>1, <2>3, <2>5, <3>1
  <2>7. IsList(EmptyRow)
    BY ONLY DEF IsList, EmptyRow
  <2> QED
    BY ONLY <2>6, <2>7, row \in ListRows
<1> QED
  BY <1>1, <1>2

LEMMA ExactBecause == QInv => QueryExactBehindSingles
<1> SUFFICES ASSUME QInv, NEW a \in Procs, NEW q \in Points, pc[a] = "querying", ~ torn,
                    \A j \in 1 .. L : \A key \in ProbeKeys(core[a].funs, j, q) :
                      SinglesBefore(core[a].tables[j][key.t1], key.t2)
             PROVE  Retrieve(core[a], q) = Probed(core[a], q)
  BY DEF QueryExactBehindSingles
<1>1. Usable(core[a].funs) /\ Loaded(core[a].tables)
  BY DEF QInv, LInv, Whole
<1>2. ASSUME NEW j \in 1 .. L, NEW key \in ProbeKeys(core[a].funs, j, q)
      PROVE  RowRetrieve(core[a].tables[j][key.t1], key.t2) = RowPoints(core[a].tables[j][key.t1], key.t2)
  <2>1. key.t1 \in Rows /\ key.t2 \in Keys
    BY <1>1, ProbedKeys
  <2>2. PICK x, t2 : t2 \in Keys /\ x = core[a].tables[j][key.t1] /\ t2 = key.t2
    BY <2>1
  <2>3. SinglesBefore(x, t2)
    BY <2>2
  <2>4. CASE IsList(x)
    <3>1. RowRetrieve(x, t2) = RowPoints(x, t2)
      BY <2>4 DEF RowRetrieve, RowPoints
    <3> QED
      BY <2>2, <3>1
  <2>5. CASE ~ IsList(x)
    <3>1. PICK row \in ListRows : row.count # 0 /\ x = ArrayOf(row)
      BY <1>1, <2>1, <2>2, <2>5 DEF Loaded
    <3>2. RowRetrieve(ArrayOf(row), t2) = RowPoints(ArrayOf(row), t2)
      BY ONLY <2>2, <2>3, <3>1, row \in ListRows, ArrayExact
    <3> QED
      BY <2>2, <3>1, <3>2
  <2> QED
    BY <2>4, <2>5
<1>3. ASSUME NEW j \in 1 .. L
      PROVE  UNION {RowRetrieve(core[a].tables[j][key.t1], key.t2) : key \in ProbeKeys(core[a].funs, j, q)}
               = UNION {RowPoints(core[a].tables[j][key.t1], key.t2) : key \in ProbeKeys(core[a].funs, j, q)}
  BY <1>2, Zenon
<1> DEFINE Reported(j) == UNION {RowRetrieve(core[a].tables[j][key.t1], key.t2) : key \in ProbeKeys(core[a].funs, j, q)}
           Stored(j) == UNION {RowPoints(core[a].tables[j][key.t1], key.t2) : key \in ProbeKeys(core[a].funs, j, q)}
<1>4. \A j \in 1 .. L : Reported(j) = Stored(j)
  BY ONLY <1>3
<1>5. Retrieve(core[a], q) = UNION {Reported(j) : j \in 1 .. L} /\ Probed(core[a], q) = UNION {Stored(j) : j \in 1 .. L}
  BY ONLY DEF Retrieve, Probed
<1> HIDE DEF Reported, Stored
<1>6. {Reported(j) : j \in 1 .. L} = {Stored(j) : j \in 1 .. L}
  BY ONLY <1>4
<1> QED
  BY ONLY <1>5, <1>6

(* Nobody else becomes a querier, and those there are keep their index.     *)
QueriersKeep ==
  /\ torn => torn'
  /\ \A b \in Procs : pc'[b] = "querying" => pc[b] = "querying" /\ core'[b] = core[b]

LEMMA OthersQuery ==
  ASSUME LInv, NEW a \in Procs,
         \/ NewIndex(a) \/ OpenForInsert(a) \/ EndQuery(a)
         \/ \E b \in Batches : InsertPoints(a, b[1], b[2])
         \/ \E fmt \in {1, 2} : Probe(a, fmt)
         \/ Index(a) \/ Crash(a)
  PROVE  QueriersKeep
<1>1. pc \in [Procs -> Labels] /\ DOMAIN core = Procs
  BY DEF LInv, Typed
<1>2. CASE NewIndex(a)
  BY <1>1, <1>2 DEF NewIndex, QueriersKeep
<1>3. CASE OpenForInsert(a)
  BY <1>1, <1>3 DEF OpenForInsert, Die, QueriersKeep
<1>4. CASE EndQuery(a)
  BY <1>1, <1>4 DEF EndQuery, QueriersKeep
<1>5. CASE \E b \in Batches : InsertPoints(a, b[1], b[2])
  <2>1. PICK b \in Batches : InsertPoints(a, b[1], b[2])
    BY <1>5
  <2>2. PICK c : c = FoldLeft(InsertPointAll, core[a], [i \in 1 .. b[2] - b[1] + 1 |-> b[1] + i - 1])
    OBVIOUS
  <2>3. CASE Refused(core[a], b[1])
    BY <1>1, <2>1, <2>3 DEF InsertPoints, Die, QueriersKeep
  <2>4. CASE ~ Refused(core[a], b[1])
    <3>1. core' = [core EXCEPT ![a] = c] /\ pc' = [pc EXCEPT ![a] = "indexed"] /\ torn' = torn
      BY <2>1, <2>2, <2>4 DEF InsertPoints
    <3> QED
      BY ONLY <1>1, <3>1, a \in Procs DEF QueriersKeep
  <2> QED
    BY <2>3, <2>4
<1>6. CASE \E fmt \in {1, 2} : Probe(a, fmt)
  BY <1>1, <1>6 DEF Probe, QueriersKeep
<1>7. CASE CreateFile(a)
  BY <1>1, <1>7 DEF CreateFile, Die, QueriersKeep
<1>8. CASE LockNew(a)
  BY <1>1, <1>8 DEF LockNew, Grants, QueriersKeep
<1>9. CASE WriteNewHeader(a)
  BY <1>1, <1>9 DEF WriteNewHeader, QueriersKeep
<1>10. CASE OpenLocked(a)
  BY <1>1, <1>10 DEF OpenLocked, Grants, Die, QueriersKeep
<1>11. CASE WriteFunctions(a)
  BY <1>1, <1>11 DEF WriteFunctions, QueriersKeep
<1>12. CASE WriteTable(a)
  <2>1. /\ core' = core /\ torn' = torn /\ pc' = [pc EXCEPT ![a] = IF job[a].table = L THEN "close" ELSE "tables"]
    BY <1>12 DEF WriteTable
  <2> QED
    BY <1>1, <2>1 DEF QueriersKeep
<1>13. CASE MergeOld(a)
  <2>1. PICK read : read = IF file.fmt = 2 THEN ReadTables2(file.words, core[a].tables, TRUE) ELSE [expect |-> "error"]
    OBVIOUS
  <2>2. CASE read.expect = "done"
    <3>1. core' = [core EXCEPT ![a].tables = read.tables] /\ pc' = [pc EXCEPT ![a] = "tables"] /\ torn' = torn
      BY <1>13, <2>1, <2>2 DEF MergeOld
    <3> QED
      BY ONLY <1>1, <3>1, a \in Procs DEF QueriersKeep
  <2>3. CASE read.expect # "done"
    <3>1. Die(a) /\ torn' = torn
      BY <1>13, <2>1, <2>3 DEF MergeOld
    <3> QED
      BY ONLY <1>1, <3>1, a \in Procs DEF Die, QueriersKeep
  <2> QED
    BY <2>2, <2>3
<1>14. CASE WriteTokens(a)
  BY <1>1, <1>14 DEF WriteTokens, QueriersKeep
<1>15. CASE CloseFile(a)
  BY <1>1, <1>15 DEF CloseFile, Return, QueriersKeep
<1>16. CASE Crash(a)
  <2>1. Die(a) /\ (torn => torn')
    BY <1>16 DEF Crash
  <2> QED
    BY ONLY <1>1, <2>1, a \in Procs DEF Die, QueriersKeep
<1> QED
  BY <1>2, <1>3, <1>4, <1>5, <1>6, <1>7, <1>8, <1>9, <1>10, <1>11, <1>12, <1>13, <1>14, <1>15, <1>16 DEF Index

LEMMA QueryNext == QInv /\ [Next]_vars => QInv'
<1> SUFFICES ASSUME QInv, [Next]_vars PROVE QInv'
  OBVIOUS
<1>1. LInv /\ LInv'
  BY WholeKept DEF QInv
<1>2. CASE QueriersKeep
  <2>1. ASSUME NEW b \in Procs, ~ torn', pc'[b] = "querying"
        PROVE  Loaded(core'[b].tables)
    <3>1. ~ torn /\ pc[b] = "querying" /\ core'[b] = core[b]
      BY <1>2, <2>1 DEF QueriersKeep
    <3>2. Loaded(core[b].tables)
      BY <3>1 DEF QInv
    <3> QED
      BY <3>1, <3>2
  <2> QED
    BY <1>1, <2>1 DEF QInv, Loaded
<1>3. CASE UNCHANGED vars
  <2>1. QueriersKeep
    BY <1>3 DEF vars, QueriersKeep
  <2> QED
    BY <1>2, <2>1
<1>4. CASE Next
  <2>1. PICK a \in Procs :
          \/ NewIndex(a) \/ OpenForInsert(a) \/ OpenForQuery(a) \/ EndQuery(a)
          \/ \E b \in Batches : InsertPoints(a, b[1], b[2])
          \/ \E fmt \in {1, 2} : Probe(a, fmt)
          \/ Index(a) \/ Crash(a)
    BY <1>4 DEF Next
  <2>2. CASE ~ OpenForQuery(a)
    <3>1. QueriersKeep
      BY ONLY <1>1, <2>1, <2>2, a \in Procs, OthersQuery
    <3> QED
      BY <1>2, <3>1
  <2>3. CASE OpenForQuery(a)
    <3>0. pc \in [Procs -> Labels] /\ DOMAIN core = Procs /\ file.fmt \in Formats
      BY <1>1 DEF LInv, Typed, FileWhole
    <3>1. CASE ~ (HasHeader /\ LoadedTables.expect = "done")
      <4>1. QueriersKeep
        BY <2>3, <3>0, <3>1 DEF OpenForQuery, Die, QueriersKeep
      <4> QED
        BY <1>2, <4>1
    <3>2. CASE HasHeader /\ LoadedTables.expect = "done"
      <4>1. PICK new : new = LoadedTables.tables
        OBVIOUS
      <4>2. /\ core' = [core EXCEPT ![a] = [funs |-> file.funs, maxp |-> file.maxp, tables |-> new]]
            /\ pc' = [pc EXCEPT ![a] = "querying"] /\ torn' = torn
        BY <2>3, <3>2, <4>1 DEF OpenForQuery
      <4>3. ~ torn => Loaded(new)
        <5>1. file.fmt \in {1, 2}
          BY <3>0, <3>2 DEF Formats, HasHeader
        <5> QED
          BY ONLY <1>1, <3>2, <4>1, <5>1, TablesLoaded
      <4>4. ASSUME NEW b \in Procs, ~ torn', pc'[b] = "querying"
            PROVE  Loaded(core'[b].tables)
        <5>1. CASE b = a
          <6>1. core'[b].tables = new
            BY <3>0, <4>2, <5>1
          <6> QED
            BY <4>2, <4>3, <4>4, <6>1
        <5>2. CASE b # a
          <6>1. core'[b] = core[b] /\ pc[b] = "querying" /\ ~ torn
            BY <3>0, <4>2, <4>4, <5>2
          <6>2. Loaded(core[b].tables)
            BY <6>1 DEF QInv
          <6> QED
            BY <6>1, <6>2
        <5> QED
          BY <5>1, <5>2
      <4> QED
        BY <1>1, <4>4 DEF QInv, Loaded
    <3> QED
      BY <3>1, <3>2
  <2> QED
    BY <2>2, <2>3
<1> QED
  BY <1>3, <1>4

(* A query reports exactly the points of the buckets it probes when every   *)
(* bucket with a lower key in their rows has a single point: passing over   *)
(* a block (lshlib.cpp:1677-1679) is right for those alone, and what was    *)
(* loaded from either format, whoever wrote it, is searched right behind    *)
(* them (lshlib.cpp:571-597, 1654-1681).                                    *)
THEOREM QueriesExact == Spec => []QueryExactBehindSingles
<1>1. Init => QInv
  <2> SUFFICES ASSUME Init, NEW a \in Procs PROVE pc[a] # "querying"
    BY WholeInit DEF QInv
  <2> QED
    BY DEF Init
<1> QED
  BY <1>1, QueryNext, ExactBecause, PTL DEF Spec
=============================================================================
