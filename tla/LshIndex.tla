------------------------------- MODULE LshIndex -------------------------------
(***************************************************************************)
(* LSH index files under several processes: indexers that make new tables  *)
(* or open the file for further points and serialise them (class G of      *)
(* lshlib.cpp), and queriers that load the tables.                         *)
(*                                                                         *)
(* The file is locked for each opening, but an indexer opens it three      *)
(* times: to see whether it exists, to create it and to write it.  A       *)
(* failed check is exit(1) in the code: the process is dead, its lock is   *)
(* released.                                                               *)
(***************************************************************************)
EXTENDS LshFormat

CONSTANTS
  Procs,
  Points,           \* pointIDs that may be indexed
  Batches,          \* first and last points of the sets that are indexed
  Drawn,            \* the hash functions a new index may draw
  Chunk,            \* words in a buffer of stdio
  MaxJobs           \* bound: indexers and queriers started

ASSUME PointsAssumption == Points \subseteq 0 .. PointLimit - 1
ASSUME BatchesAssumption == Batches \subseteq Points \X Points /\ \A b \in Batches : b[1] .. b[2] \subseteq Points

(* Hashes are words; the numbers they are multiplied with come from        *)
(* randr(), at most MAX_HASH_RND (lshlib.h:54), and are as many.           *)
ASSUME DrawnAssumption ==
  \A f \in Drawn, j \in 1 .. L :
    /\ {f.r1[j], f.r2[j]} \subseteq Seq(0 .. Word \div 8)
    /\ \A p \in Points : /\ f.g[j][p] \in Seq(0 .. Word - 1) \ {<<>>}
                         /\ Len(f.r1[j]) = Len(f.g[j][p]) /\ Len(f.r2[j]) = Len(f.g[j][p])

VARIABLES
  file,             \* NoFile, or its header, hash functions and tables
  lock,             \* the process that holds the write lock, or None
  pc,               \* what a process does next
  core,             \* the index of each process
  job,              \* its serialize(): format, dbIsNew, table; ghost: the
                    \* points it stored
  acked,            \* ghost: points whose serialize() returned, with the
                    \* functions they were placed by
  torn,             \* ghost: a process died while it wrote the file
  jobs              \* how many jobs were started

vars == <<file, lock, pc, core, job, acked, torn, jobs>>

None == "none"
NoJob == [fmt |-> 1, isNew |-> FALSE, table |-> 1, own |-> {}]

(* What an index file of zeros holds for hash functions.                   *)
ZeroFuns ==
  LET zeros == [j \in 1 .. L |-> <<0, 0>>]
  IN  [g |-> [j \in 1 .. L |-> [p \in Points |-> <<0, 0>>]], r1 |-> zeros, r2 |-> zeros]

EmptyTables == [j \in 1 .. L |-> EmptyTable]
BlankTables1 == [j \in 1 .. L |-> BlankTable1]

NoCore == [funs |-> ZeroFuns, maxp |-> 0, tables |-> EmptyTables]
NoFile == [fmt |-> -1, maxp |-> 0, funs |-> ZeroFuns, cells |-> <<>>, words |-> <<>>]

(* What open(O_CREAT) leaves, and the file of zeros with a header.         *)
EmptyFile == [NoFile EXCEPT !.fmt = 0]
BlankFile(fmt, maxp) ==
  [NoFile EXCEPT !.fmt = fmt, !.maxp = maxp, !.cells = IF fmt = 1 THEN BlankTables1 ELSE <<>>,
                 !.words = IF fmt = 1 THEN <<>> ELSE <<0>>]

KeyOf(f, j, g) == [t1 |-> ProductModPrime(g, f.r1[j]) % N, t2 |-> ProductModPrime(g, f.r2[j])]

PointKey(f, j, p) == KeyOf(f, j, f.g[j][p])

(* The perturbation set of the one extra probe is always the same (see     *)
(* MultiProbe): the first hash less one.                                   *)
ProbeKeys(f, j, p) ==
  LET g == f.g[j][p] IN {PointKey(f, j, p), KeyOf(f, j, [g EXCEPT ![1] = (@ - 1) % Word])}

Init ==
  /\ file = NoFile
  /\ lock = None
  /\ pc = [a \in Procs |-> "idle"]
  /\ core = [a \in Procs |-> NoCore]
  /\ job = [a \in Procs |-> NoJob]
  /\ acked = {}
  /\ torn = FALSE
  /\ jobs = 0

-----------------------------------------------------------------------------
(* Making a core index.                                                    *)

Start(a) == pc[a] = "idle" /\ jobs < MaxJobs /\ jobs' = jobs + 1

(* The constructor of a new index draws its hash functions at random: no   *)
(* index that exists has the same.                                         *)
NewIndex(a) ==
  /\ Start(a)
  /\ \E f \in Drawn :
       /\ f # file.funs /\ \A b \in Procs : core[b].funs # f
       /\ core' = [core EXCEPT ![a] = [funs |-> f, maxp |-> 0, tables |-> EmptyTables]]
  /\ pc' = [pc EXCEPT ![a] = "indexing"]
  /\ UNCHANGED <<file, lock, job, acked, torn>>

Die(a) ==
  /\ pc' = [pc EXCEPT ![a] = "dead"]
  /\ core' = [core EXCEPT ![a] = NoCore]
  /\ job' = [job EXCEPT ![a] = NoJob]
  /\ lock' = IF lock = a THEN None ELSE lock

HasHeader == file.fmt > 0

(* A record lock belongs to the process: it never waits for its own.       *)
Grants(a) == lock \in {None, a}

(* G(filename, false): header and hash functions, to index further points. *)
OpenForInsert(a) ==
  /\ Start(a)
  /\ file # NoFile
  /\ Grants(a)
  /\ IF HasHeader
     THEN /\ core' = [core EXCEPT ![a] = [funs |-> file.funs, maxp |-> file.maxp,
                                          tables |-> EmptyTables]]
          /\ pc' = [pc EXCEPT ![a] = "indexing"]
          /\ UNCHANGED <<lock, job>>
     ELSE Die(a)
  /\ UNCHANGED <<file, acked, torn>>

(* What the tables of the file are read as for a query: lists from         *)
(* FORMAT1, arrays from FORMAT2.                                           *)
LoadedTables ==
  IF file.fmt = 1 THEN [expect |-> "done", tables |-> [j \in 1 .. L |-> ReadTable1(file.cells[j])]]
  ELSE ReadTables2(file.words, EmptyTables, FALSE)

(* G(filename, true), under the read lock throughout.                      *)
OpenForQuery(a) ==
  /\ Start(a)
  /\ file # NoFile
  /\ Grants(a)
  /\ IF HasHeader /\ LoadedTables.expect = "done"
     THEN /\ core' = [core EXCEPT ![a] = [funs |-> file.funs, maxp |-> file.maxp,
                                          tables |-> LoadedTables.tables]]
          /\ pc' = [pc EXCEPT ![a] = "querying"]
          /\ UNCHANGED <<lock, job>>
     ELSE Die(a)
  /\ UNCHANGED <<file, acked, torn>>

EndQuery(a) ==
  /\ pc[a] = "querying"
  /\ pc' = [pc EXCEPT ![a] = "idle"]
  /\ core' = [core EXCEPT ![a] = NoCore]
  /\ UNCHANGED <<file, lock, job, acked, torn, jobs>>

InsertPointAll(c, p) ==
  [c EXCEPT !.maxp = p,
            !.tables = [j \in 1 .. L |->
                          LET key == PointKey(c.funs, j, p)
                          IN  [c.tables[j] EXCEPT ![key.t1] = InsertPoint(@, key.t2, p, C)]]]

(* insert_point: IDs below the highest are refused.  The highest being 0,  *)
(* none is.                                                                *)
Refused(c, p) == c.maxp # 0 /\ p <= c.maxp

StoredIn(c) ==
  {p \in Points : \E j \in 1 .. L, t1 \in Rows : \E i \in DOMAIN c.tables[j][t1].buckets :
                    p \in Range(c.tables[j][t1].buckets[i].pts)}

(* insert_point_set: the points first .. last; the first decides whether   *)
(* one is refused.                                                         *)
InsertPoints(a, first, last) ==
  /\ pc[a] = "indexing"
  /\ IF Refused(core[a], first)
     THEN Die(a)
     ELSE /\ core' = [core EXCEPT ![a] = FoldLeft(InsertPointAll, @, [i \in 1 .. last - first + 1 |-> first + i - 1])]
          /\ job' = [job EXCEPT ![a].own = StoredIn(core'[a])]
          /\ pc' = [pc EXCEPT ![a] = "indexed"]
          /\ UNCHANGED lock
  /\ UNCHANGED <<file, acked, torn, jobs>>

-----------------------------------------------------------------------------
(* serialize().                                                            *)

Probe(a, fmt) ==
  /\ pc[a] = "indexed"
  /\ job' = [job EXCEPT ![a].fmt = fmt, ![a].isNew = (file = NoFile)]
  /\ pc' = [pc EXCEPT ![a] = IF file = NoFile THEN "create" ELSE "open"]
  /\ UNCHANGED <<file, lock, core, acked, torn, jobs>>

(* Mutant: without O_EXCL. *)
CreateAnyway(a) ==
  /\ pc[a] = "create"
  /\ file' = IF file = NoFile THEN EmptyFile ELSE file
  /\ pc' = [pc EXCEPT ![a] = "lock new"]
  /\ UNCHANGED <<lock, core, job, acked, torn, jobs>>

(* open(O_CREAT | O_EXCL) fails when another indexer was faster.           *)
CreateFile(a) ==
  /\ pc[a] = "create"
  /\ IF file = NoFile
     THEN /\ file' = EmptyFile
          /\ pc' = [pc EXCEPT ![a] = "lock new"]
          /\ UNCHANGED <<core, job, lock>>
     ELSE Die(a) /\ UNCHANGED file
  /\ UNCHANGED <<acked, torn, jobs>>

LockNew(a) ==
  /\ pc[a] = "lock new"
  /\ Grants(a)
  /\ lock' = a
  /\ pc' = [pc EXCEPT ![a] = "header"]
  /\ UNCHANGED <<file, core, job, acked, torn, jobs>>

(* The file gets its full size, all zeros, and the header; close() drops   *)
(* the lock.                                                               *)
WriteNewHeader(a) ==
  /\ pc[a] = "header"
  /\ file' = BlankFile(job[a].fmt, core[a].maxp)
  /\ lock' = None
  /\ pc' = [pc EXCEPT ![a] = "open"]
  /\ UNCHANGED <<core, job, acked, torn, jobs>>

(* serial_can_merge: `! that->flags & 2' is never true, so FORMAT2 onto    *)
(* FORMAT1 passes here; neither C nor the hash functions are compared.     *)
CanMerge(fmt) == ~ (fmt = 1 /\ file.fmt = 2)

(* Open for writing, read the header and compare.                          *)
OpenLocked(a) ==
  /\ pc[a] = "open"
  /\ Grants(a)
  /\ IF HasHeader /\ CanMerge(job[a].fmt)
     THEN /\ lock' = a
          /\ pc' = [pc EXCEPT ![a] = IF job[a].isNew THEN "functions"
                                     ELSE IF job[a].fmt = 1 THEN "tables" ELSE "merge"]
          /\ UNCHANGED <<core, job>>
     ELSE Die(a)
  /\ UNCHANGED <<file, acked, torn, jobs>>

WriteFunctions(a) ==
  /\ pc[a] = "functions"
  /\ file' = [file EXCEPT !.funs = core[a].funs]
  /\ pc' = [pc EXCEPT ![a] = "tables"]
  /\ UNCHANGED <<lock, core, job, acked, torn, jobs>>

(* FORMAT1: read, merge or fill, and write back, table by table.           *)
WriteTable(a) ==
  /\ pc[a] = "tables"
  /\ job[a].fmt = 1
  /\ LET j == job[a].table
     IN  /\ file' = [file EXCEPT !.cells[j] = WriteTable1(@, core[a].tables[j], ~ job[a].isNew)]
         /\ job' = [job EXCEPT ![a].table = j + 1]
         /\ pc' = [pc EXCEPT ![a] = IF j = L THEN "close" ELSE "tables"]
  /\ UNCHANGED <<lock, core, acked, torn, jobs>>

(* FORMAT2: the points of the file are inserted behind the new ones.       *)
MergeOld(a) ==
  /\ pc[a] = "merge"
  /\ LET read == IF file.fmt = 2 THEN ReadTables2(file.words, core[a].tables, TRUE)
                 ELSE [expect |-> "error"]           \* cells are no tokens
     IN  IF read.expect = "done"
         THEN /\ core' = [core EXCEPT ![a].tables = read.tables]
              /\ pc' = [pc EXCEPT ![a] = "tables"]
              /\ UNCHANGED <<lock, job>>
         ELSE Die(a)
  /\ UNCHANGED <<file, acked, torn, jobs>>

WriteTokens(a) ==
  /\ pc[a] = "tables"
  /\ job[a].fmt = 2
  /\ LET new == EncodeTables2(core[a].tables)
     IN  file' = [file EXCEPT !.words = Overlay(@, new, Len(new))]
  /\ pc' = [pc EXCEPT ![a] = "close"]
  /\ UNCHANGED <<lock, core, job, acked, torn, jobs>>

(* The creator of a file that has not filled it yet.                       *)
Creating(a) == job[a].isNew /\ pc[a] \notin {"create", "close"}

(* serialize() returns.                                                    *)
Return(a) ==
  /\ acked' = acked \cup {[p |-> p, funs |-> core[a].funs] : p \in job[a].own}
  /\ pc' = [pc EXCEPT ![a] = "idle"]
  /\ core' = [core EXCEPT ![a] = NoCore]
  /\ job' = [job EXCEPT ![a] = NoJob]
  /\ UNCHANGED <<torn, jobs>>

(* Mutant: a merged file is not closed. *)
CloseNewOnly(a) ==
  /\ pc[a] = "close"
  /\ file' = IF job[a].isNew THEN file ELSE [file EXCEPT !.maxp = core[a].maxp]
  /\ lock' = IF job[a].isNew THEN None ELSE lock
  /\ Return(a)

(* The header of a merged file gets the new highest point; close().        *)
CloseFile(a) ==
  /\ pc[a] = "close"
  /\ file' = IF job[a].isNew THEN file ELSE [file EXCEPT !.maxp = core[a].maxp]
  /\ lock' = None
  /\ Return(a)

(* The process is killed: what it wrote stays, the stream of tokens up to  *)
(* the last buffer that was flushed.                                       *)
Crash(a) ==
  /\ pc[a] \notin {"idle", "dead"}
  /\ Die(a)
  /\ torn' = (torn \/ pc[a] \in {"functions", "tables", "close"}
                   \/ (job[a].isNew /\ pc[a] \in {"lock new", "header", "open"}))
  /\ IF pc[a] = "tables" /\ job[a].fmt = 2
     THEN LET new == EncodeTables2(core[a].tables)
          IN  \E n \in {k \in 0 .. Len(new) : k % Chunk = 0} :
                file' = [file EXCEPT !.words = Overlay(@, new, n)]
     ELSE UNCHANGED file
  /\ UNCHANGED <<acked, jobs>>

-----------------------------------------------------------------------------
Index(a) ==
  \/ CreateFile(a) \/ LockNew(a) \/ WriteNewHeader(a) \/ OpenLocked(a) \/ WriteFunctions(a)
  \/ WriteTable(a) \/ MergeOld(a) \/ WriteTokens(a) \/ CloseFile(a)

Next ==
  \E a \in Procs :
    \/ NewIndex(a) \/ OpenForInsert(a) \/ OpenForQuery(a) \/ EndQuery(a)
    \/ \E b \in Batches : InsertPoints(a, b[1], b[2])
    \/ \E fmt \in {1, 2} : Probe(a, fmt)
    \/ Index(a)
    \/ Crash(a)

Spec == Init /\ [][Next]_vars

(* A serialisation can go on unless it waits for the lock.                 *)
CanIndex(a) ==
  \/ pc[a] \in {"create", "header", "functions", "tables", "merge", "close"}
  \/ pc[a] \in {"lock new", "open"} /\ Grants(a)

(* The lock is granted in turn and a process that runs goes on; jobs are   *)
(* bounded, so weak fairness is enough for an opening that waits.  This is *)
(* WF_vars(Index(a)) with its ENABLED written out, which TLC is slow to    *)
(* evaluate.                                                               *)
Fairness(a) == []<>(~ CanIndex(a)) \/ []<><<Index(a)>>_vars

FairSpec == Spec /\ \A a \in Procs : Fairness(a)

-----------------------------------------------------------------------------
(* Properties.                                                             *)

Unfinished == \E a \in Procs : Creating(a)

FileRows(f) ==
  IF f.fmt = 1 THEN [j \in 1 .. L |-> ReadTable1(f.cells[j])]
  ELSE ReadTables2(f.words, EmptyTables, TRUE).tables

Entries(row) ==
  UNION {{<<row.buckets[i].t2, p>> : p \in Range(row.buckets[i].pts)} : i \in DOMAIN row.buckets}

(* A row of a FORMAT1 file that nothing was ever written to: zeros, which  *)
(* read as C points 0, so that a merge finds no unused cell in it          *)
(* (lshlib.cpp:969-982).                                                   *)
RowOfZeros(j, t1) == file.fmt = 1 /\ \A i \in RowCells(t1) : file.cells[j][i] = ZeroCell

(* A point whose serialize() returned is in its bucket of every table, as  *)
(* long as the file has the functions that placed it: merges, creations    *)
(* that race and later writers drop it only where the row has its C points *)
(* already.  Two losses are the code's and are exceptions here: nothing    *)
(* compares hash functions (lshlib.cpp:797-813), so an indexer that drew   *)
(* its own while another created the file, or that loaded zeros between    *)
(* the creator's header and its functions (749-768), merges points that no *)
(* query can find; and a row of zeros takes no point by merging.           *)
AckedFindable ==
  (file # NoFile /\ ~ torn) =>
    LET rows == FileRows(file)
    IN  \A x \in acked : x.funs = file.funs =>
          \A j \in 1 .. L :
            LET key == PointKey(file.funs, j, x.p)
                row == rows[j][key.t1]
            IN  \/ <<key.t2, x.p>> \in Entries(row)
                \/ RowOfZeros(j, key.t1)
                \/ row.count = C

(* An index that nobody is creating, and that no writer died in, can be    *)
(* loaded: the exit(1) of the reading state machine (lshlib.cpp:1380-1505) *)
(* is only for damaged and unfinished files.                               *)
LoadableWhenFree ==
  (file # NoFile /\ lock = None /\ ~ torn /\ ~ Unfinished)
    => (HasHeader /\ LoadedTables.expect = "done")

(* The arrays a query loads from FORMAT2 hold the points of the lists that *)
(* a merge would load, and fit into what was allocated before the row was  *)
(* read (lshlib.cpp:1553-1644).                                            *)
ArraysFaithful ==
  LET loaded == LoadedTables
      rows == FileRows(file)
  IN  (file.fmt = 2 /\ ~ torn /\ loaded.expect = "done") =>
        \A j \in 1 .. L, t1 \in Rows :
          LET array == loaded.tables[j][t1]
          IN  IF IsList(array) THEN rows[j][t1] = EmptyRow
              ELSE /\ DumpArray(array.words) = Entries(rows[j][t1])
                   /\ Len(array.words) <= array.allocated

-----------------------------------------------------------------------------
(* Retrieval.                                                              *)
RowRetrieve(row, t2) == IF IsList(row) THEN ListRetrieve(row.buckets, t2) ELSE ArrayRetrieve(row.words, t2)

(* retrieve_point: every probed bucket of every table.                     *)
Retrieve(c, q) ==
  UNION {UNION {RowRetrieve(c.tables[j][key.t1], key.t2) : key \in ProbeKeys(c.funs, j, q)} : j \in 1 .. L}

(* What it ought to report.                                                *)
RowPoints(row, t2) ==
  IF IsList(row) THEN ListRetrieve(row.buckets, t2) ELSE {e[2] : e \in {e \in DumpArray(row.words) : e[1] = t2}}

Probed(c, q) ==
  UNION {UNION {RowPoints(c.tables[j][key.t1], key.t2) : key \in ProbeKeys(c.funs, j, q)} : j \in 1 .. L}

(* The blocks before the first with as high a key are of a single point: a *)
(* point that two indexers added to one bucket counts twice.               *)
SinglesBefore(row, t2) ==
  IsList(row) \/ \E n \in 0 .. (Len(row.words) - 1) \div 3 :
                   /\ row.words[3 * n + 1] >= t2
                   /\ \A k \in 0 .. n - 1 : BlockAt(row.words, 3 * k + 1).skip = 0

(* A query reports exactly the points of the buckets it probes             *)
(* (lshlib.cpp:571-597, 1654-1681) when every bucket with a lower key in   *)
(* their rows has a single point.                                          *)
QueryExactBehindSingles ==
  \A a \in Procs, q \in Points :
    (/\ pc[a] = "querying" /\ ~ torn
     /\ \A j \in 1 .. L : \A key \in ProbeKeys(core[a].funs, j, q) :
          SinglesBefore(core[a].tables[j][key.t1], key.t2))
    => Retrieve(core[a], q) = Probed(core[a], q)

(* Violated: a query reports the points of the buckets it probes           *)
(* (lshlib.cpp:1648-1652).  A bucket of two points or more that is passed  *)
(* over is left at the wrong word (lshlib.cpp:1677-1679).                  *)
QueryExact == \A a \in Procs, q \in Points : (pc[a] = "querying" /\ ~ torn) => Retrieve(core[a], q) = Probed(core[a], q)

(* What serial_retrieve_point finds in the cells of a FORMAT1 file is what *)
(* a query that loads the file into core would find (lshlib.cpp:1954-1962, *)
(* 1355-1364).                                                             *)
DiskAndCoreAgree ==
  file.fmt = 1 =>
    \A j \in 1 .. L, t1 \in Rows : \A t2 \in {file.cells[j][i].hash : i \in RowCells(t1)} :
      Chain1(file.cells[j], t1, t2) = ListRetrieve(ReadRow1(file.cells[j], t1).buckets, t2)

(* The hash functions of a file are written once and never replaced: an    *)
(* indexer that lost the race to create it never draws new ones over those *)
(* the stored points were placed by (lshlib.cpp:1182, 827-876).            *)
FunctionsFixed == [][file.funs # ZeroFuns => file'.funs = file.funs]_file

(* A serialisation ends: no indexer waits for another for ever, nobody     *)
(* keeps the lock (lshlib.cpp:735-793, 1982-2031).                         *)
SerializeEnds == \A a \in Procs : pc[a] \in {"create", "open"} ~> pc[a] \in {"idle", "dead"}
=============================================================================
