-------------------------------- MODULE Dump --------------------------------
(***************************************************************************)
(* audiodb_dump, which writes a database into a directory of text and data *)
(* files with a script to restore it, and audiodb_batchinsert as that      *)
(* script uses it.  Dumps may run in several threads of a process: the     *)
(* working directory is the process's, and a dump works in its directory.  *)
(*                                                                         *)
(* A file is <<kind, k>>; lines of the lists are in the buffers of streams *)
(* until these are closed.  Names of directories are sequences of names.   *)
(***************************************************************************)
EXTENDS Integers, Sequences, FiniteSetsExt, SequencesExt

CONSTANTS
  Threads,
  Databases,    \* [tracks, references, times, power, l2norm]
  Output,       \* the directory argument of each thread
  NullKey       \* what printf makes of a null pointer

(* A track: key, the number n of vectors, data, times (pairs) and power; of *)
(* a database of references the names of its files, with `absolute'.       *)
ASSUME DatabasesAssumption ==
  \A d \in Databases :
    /\ Len(d.tracks) \in Nat /\ DOMAIN d.tracks = 1 .. Len(d.tracks)
    /\ \A i \in DOMAIN d.tracks :
         /\ d.tracks[i].n \in Nat
         /\ d.times /\ ~ d.references => /\ Len(d.tracks[i].times) = d.tracks[i].n
                                        /\ DOMAIN d.tracks[i].times = 1 .. d.tracks[i].n

VARIABLES
  db,           \* what each thread dumps
  cwd,          \* the working directory
  dirs,         \* the files of each directory
  pc, home,     \* home: getcwd() at the start
  k,            \* the lists opened, then the tracks written
  out,          \* the streams: directory and lines
  fds,          \* file descriptors that are open
  ret,          \* what was returned
  faults        \* ghost: "overlap", "lost" output, "crash"

vars == <<db, cwd, dirs, pc, home, k, out, fds, ret, faults>>

ListsOf(d) ==
  <<"featureList">> \o (IF d.times THEN <<"timesList">> ELSE <<>>)
    \o (IF d.power THEN <<"powerList">> ELSE <<>>) \o <<"keyList">>

Lists(t) == ListsOf(db[t])

Busy(t) == pc[t] \notin {"read", "returned", "dead"}

Goto(t, l) == pc' = [pc EXCEPT ![t] = l]

Name(kind, i) == <<kind, i>>

Holds(path, f) == path \in DOMAIN dirs /\ f \in DOMAIN dirs[path]

Put(path, f, content) ==
  [p \in DOMAIN dirs |->
     IF p = path THEN [g \in DOMAIN dirs[p] \cup {f} |-> IF g = f THEN content ELSE dirs[p][g]]
     ELSE dirs[p]]

Init ==
  /\ db \in [Threads -> Databases]
  /\ cwd = <<>> /\ dirs = [p \in {<<>>} |-> <<>>]
  /\ pc = [t \in Threads |-> "read"] /\ home = [t \in Threads |-> <<>>]
  /\ k = [t \in Threads |-> 0]
  /\ out = [t \in Threads |-> <<>>]
  /\ fds = {} /\ ret = [t \in Threads |-> -1]
  /\ faults = {}

-----------------------------------------------------------------------------
(* The error path.                                                         *)

Changed(t) == pc[t] \notin {"read", "mkdir", "getcwd", "chdir"}

Whole(t, list) == Len(out[t][list].lines)

(* Lines come into the files, of each list so many at most.                *)
Flushed(t, most) ==
  [p \in DOMAIN dirs |->
     [f \in DOMAIN dirs[p] |->
        IF f[2] = 0 /\ f[1] \in DOMAIN out[t] /\ out[t][f[1]].dir = p
        THEN SubSeq(out[t][f[1]].lines, 1, Min({most, Whole(t, f[1])})) ELSE dirs[p][f]]]

(* Mutant: only streams are closed. *)
LeaksLists(t) == {f \in fds : f[1] = t /\ (f[2] = "data" \/ out[t] = <<>>)}

(* Of lists without a stream yet, timesList stays open: the first is closed *)
(* again in its place.  That second close is taken to fail: a descriptor   *)
(* that another thread opened between the two, with the number of the      *)
(* first, would be closed by it, which the model leaves out.  Files of     *)
(* tracks stay open.                                                       *)
LeakedOnError(t) ==
  {f \in fds : f[1] = t /\ (f[2] = "data" \/ (f[2] = "timesList" /\ out[t] = <<>>))}

(* Mutant: the way back is forgotten. *)
CwdStays(t) == cwd

CwdAfter(t) == IF Changed(t) THEN home[t] ELSE cwd

GiveUp(t) ==
  /\ Goto(t, "returned") /\ ret' = [ret EXCEPT ![t] = 1]
  /\ cwd' = CwdAfter(t)
  /\ fds' = {f \in fds : f[1] # t} \cup LeakedOnError(t)
  /\ dirs' = Flushed(t, Len(db[t].tracks))
  /\ out' = [out EXCEPT ![t] = <<>>]
  /\ UNCHANGED <<db, home, k, faults>>

(* The tables, the directory, a file: whatever the system may refuse.      *)
SystemFails(t) ==
  /\ pc[t] \in {"read", "mkdir", "getcwd", "chdir", "lists", "features", "power"}
  /\ GiveUp(t)

(* The process dies, of a null pointer or otherwise: of the lines in the   *)
(* streams of some thread some have been written.                          *)
Die ==
  /\ pc' = [t \in Threads |-> "dead"]
  /\ faults' = faults \cup {"crash"}
  /\ \E t \in Threads : \E n \in 0 .. Len(db[t].tracks) :
       dirs' = Flushed(t, n)
  /\ out' = [t \in Threads |-> <<>>] /\ fds' = {}
  /\ UNCHANGED <<db, cwd, home, k, ret>>

-----------------------------------------------------------------------------
ReadTables(t) ==
  /\ pc[t] = "read" /\ Goto(t, "mkdir")
  /\ faults' = IF \E u \in Threads \ {t} : Busy(u) THEN faults \cup {"overlap"} ELSE faults
  /\ UNCHANGED <<db, cwd, dirs, home, k, out, fds, ret>>

Target(t) == Append(cwd, Output[t])

Mkdir(t) ==
  /\ pc[t] = "mkdir"
  /\ IF Target(t) \in DOMAIN dirs THEN GiveUp(t)
     ELSE /\ dirs' = [p \in DOMAIN dirs \cup {Target(t)} |-> IF p = Target(t) THEN <<>> ELSE dirs[p]]
          /\ Goto(t, "getcwd")
          /\ UNCHANGED <<db, cwd, home, k, out, fds, ret, faults>>

Getcwd(t) ==
  /\ pc[t] = "getcwd" /\ Goto(t, "chdir")
  /\ home' = [home EXCEPT ![t] = cwd]
  /\ UNCHANGED <<db, cwd, dirs, k, out, fds, ret, faults>>

Chdir(t) ==
  /\ pc[t] = "chdir"
  /\ IF Target(t) \notin DOMAIN dirs THEN GiveUp(t)
     ELSE /\ cwd' = Target(t) /\ Goto(t, "lists")
          /\ UNCHANGED <<db, dirs, home, k, out, fds, ret, faults>>

Loop(t) == IF db[t].tracks = <<>> THEN "script" ELSE "features"

(* open(O_EXCL) of the lists, one after another; then streams for all.     *)
OpenList(t) ==
  /\ pc[t] = "lists"
  /\ LET list == Lists(t)[k[t] + 1]
         last == k[t] + 1 = Len(Lists(t))
     IN  IF Holds(cwd, Name(list, 0)) THEN GiveUp(t)
         ELSE /\ dirs' = Put(cwd, Name(list, 0), <<>>)
              /\ fds' = fds \cup {<<t, list, cwd>>}
              /\ k' = [k EXCEPT ![t] = IF last THEN 0 ELSE @ + 1]
              /\ out' = IF last THEN [out EXCEPT ![t] =
                                        [l \in Range(Lists(t)) |->
                                           [dir |-> (CHOOSE f \in fds' : f[1] = t /\ f[2] = l)[3],
                                            lines |-> <<>>]]]
                        ELSE out
              /\ Goto(t, IF last THEN Loop(t) ELSE "lists")
              /\ UNCHANGED <<db, cwd, home, ret, faults>>

Track(t) == db[t].tracks[k[t] + 1]

AddLine(t, o, list, line) == [o EXCEPT ![t][list].lines = Append(@, line)]

(* Without any vectors in the database its tables have not been read, and  *)
(* are null pointers.  The handle is one that inserted the tracks itself:  *)
(* a handle opened later has no lengths for them (open.cpp:52-57).         *)
NoTables(d) == \A i \in DOMAIN d.tracks : d.tracks[i].n = 0

NextTrack(t) ==
  /\ k' = [k EXCEPT ![t] = @ + 1]
  /\ Goto(t, IF k[t] + 1 = Len(db[t].tracks) THEN "script" ELSE "features")

KeyLine(t) == AddLine(t, out, "keyList", IF NoTables(db[t]) THEN NullKey ELSE Track(t).key)

DataFile(t) == Name(pc[t], k[t] + 1)

DataOf(t) == IF pc[t] = "features" THEN Track(t).data ELSE Track(t).power

(* The key of a second track, the name of a file and a time are read       *)
(* through a null pointer; no powers at all are written from one.          *)
ReadsNull(t) ==
  NoTables(db[t]) /\ (k[t] > 0 \/ db[t].references \/ pc[t] = "times")

(* The key, and the vectors in a file of their own.                        *)
WriteFeatures(t) ==
  /\ pc[t] = "features" /\ ~ db[t].references /\ ~ ReadsNull(t)
  /\ ~ Holds(cwd, DataFile(t))
  /\ dirs' = Put(cwd, DataFile(t), [n |-> Track(t).n, data |-> DataOf(t)])
  /\ out' = AddLine(t, KeyLine(t), "featureList", DataFile(t))
  /\ IF db[t].times THEN Goto(t, "times") /\ UNCHANGED k
     ELSE IF db[t].power THEN Goto(t, "power") /\ UNCHANGED k ELSE NextTrack(t)
  /\ UNCHANGED <<db, cwd, home, fds, ret, faults>>

NullTable(t) == pc[t] \in {"features", "times"} /\ ReadsNull(t) /\ Die

(* The file exists already, or is made but not filled.                     *)
FileFails(t) ==
  /\ \/ pc[t] = "features" /\ ~ db[t].references /\ ~ ReadsNull(t) /\ out' = KeyLine(t)
     \/ pc[t] = "power" /\ UNCHANGED out
  /\ IF Holds(cwd, DataFile(t)) THEN UNCHANGED <<dirs, fds>>
     ELSE /\ dirs' = Put(cwd, DataFile(t), [n |-> 0, data |-> "part"])
          /\ fds' = fds \cup {<<t, "data", cwd>>}
  /\ Goto(t, "failed")
  /\ UNCHANGED <<db, cwd, home, k, ret, faults>>

Failed(t) == pc[t] = "failed" /\ GiveUp(t)

(* Mutant: the starts only. *)
StartsOnly(times) == [i \in DOMAIN times |-> times[i][1]]

(* The start of each vector and the end of the last; for a track without   *)
(* vectors what lies before them in the table.                             *)
TimesLines(times) ==
  [i \in 1 .. Len(times) + 1 |-> IF i <= Len(times) THEN times[i][1]
                                 ELSE IF times = <<>> THEN 0 ELSE Last(times)[2]]

(* fopen("w"): an existing file is overwritten; without one it is fatal.   *)
WriteTimes(t) ==
  /\ pc[t] = "times" /\ ~ ReadsNull(t)
  /\ dirs' = Put(cwd, Name("times", k[t] + 1), TimesLines(Track(t).times))
  /\ out' = AddLine(t, out, "timesList", Name("times", k[t] + 1))
  /\ IF db[t].power THEN Goto(t, "power") /\ UNCHANGED k ELSE NextTrack(t)
  /\ UNCHANGED <<db, cwd, home, fds, ret, faults>>

WritePower(t) ==
  /\ pc[t] = "power" /\ ~ Holds(cwd, DataFile(t))
  /\ dirs' = Put(cwd, DataFile(t), [n |-> Track(t).n, data |-> DataOf(t)])
  /\ out' = AddLine(t, out, "powerList", DataFile(t))
  /\ NextTrack(t)
  /\ UNCHANGED <<db, cwd, home, fds, ret, faults>>

(* Names of files, which have to be absolute.                              *)
WriteReferences(t) ==
  /\ pc[t] = "features" /\ db[t].references /\ ~ ReadsNull(t)
  /\ LET track == Track(t)
         o1 == AddLine(t, KeyLine(t), "featureList", track.data)
         o2 == IF db[t].times THEN AddLine(t, o1, "timesList", track.times) ELSE o1
     IN  IF track.absolute
         THEN out' = (IF db[t].power THEN AddLine(t, o2, "powerList", track.power) ELSE o2) /\ NextTrack(t)
         ELSE out' = KeyLine(t) /\ Goto(t, "failed") /\ UNCHANGED k
  /\ UNCHANGED <<db, cwd, dirs, home, fds, ret, faults>>

Script(d) == [lists |-> ListsOf(d), l2norm |-> d.l2norm, power |-> d.power]

WriteScript(t) ==
  /\ pc[t] = "script" /\ Goto(t, "close")
  /\ dirs' = Put(cwd, Name("restore", 0), Script(db[t]))
  /\ UNCHANGED <<db, cwd, home, k, out, fds, ret, faults>>

(* The streams are closed; that lines could not be written is not noticed. *)
CloseLists(t) ==
  /\ pc[t] = "close"
  /\ \/ dirs' = Flushed(t, Len(db[t].tracks)) /\ UNCHANGED faults
     \/ /\ \E list \in DOMAIN out[t] : Whole(t, list) > 0
        /\ \E n \in 0 .. Len(db[t].tracks) - 1 :
             dirs' = Flushed(t, n)
        /\ faults' = faults \cup {"lost"}
  /\ fds' = {f \in fds : f[1] # t}
  /\ out' = [out EXCEPT ![t] = <<>>]
  /\ Goto(t, "back")
  /\ UNCHANGED <<db, cwd, home, k, ret>>

Back(t) ==
  /\ pc[t] = "back" /\ Goto(t, "returned")
  /\ cwd' = CwdAfter(t) /\ ret' = [ret EXCEPT ![t] = 0]
  /\ UNCHANGED <<db, dirs, home, k, out, fds, faults>>

Crash == (\E t \in Threads : Busy(t)) /\ Die

Step(t) ==
  \/ SystemFails(t) \/ ReadTables(t) \/ Mkdir(t) \/ Getcwd(t) \/ Chdir(t) \/ OpenList(t)
  \/ WriteFeatures(t) \/ NullTable(t) \/ FileFails(t) \/ Failed(t) \/ WriteTimes(t)
  \/ WritePower(t) \/ WriteReferences(t) \/ WriteScript(t) \/ CloseLists(t) \/ Back(t)

Next == (\E t \in Threads : pc[t] # "dead" /\ Step(t)) \/ Crash

Spec == Init /\ [][Next]_vars

-----------------------------------------------------------------------------
(* What the script makes of the directory, with a tool that reads the      *)
(* lists and inserts their lines: audiodb_batchinsert.                     *)

LineOf(files, list, i) == files[Name(list, 0)][i]

(* audiodb_insert_create_datum on the i-th lines.                          *)
Numbers(files, script, i) ==
  IF "timesList" \in Range(script.lists) THEN files[LineOf(files, "timesList", i)] ELSE <<>>

Powers(files, script, i) ==
  IF script.power THEN files[LineOf(files, "powerList", i)].data ELSE "none"

Reads(files, script, i) ==
  LET n == files[LineOf(files, "featureList", i)].n
  IN  /\ script.power => files[LineOf(files, "powerList", i)].n = n
      /\ "timesList" \in Range(script.lists) => n > 0 /\ Len(Numbers(files, script, i)) = n + 1

CreateDatum(files, script, i) ==
  LET f == files[LineOf(files, "featureList", i)]
      v == Numbers(files, script, i)
  IN  [key |-> LineOf(files, "keyList", i), n |-> f.n, data |-> f.data,
       times |-> [j \in 1 .. Len(v) - 1 |-> <<v[j], v[j + 1]>>],
       power |-> Powers(files, script, i)]

(* The first error ends the insertion.                                     *)
Restored(files, script) ==
  LET lines == Len(files[Name("featureList", 0)])
      good == {i \in 0 .. lines : \A j \in 1 .. i : Reads(files, script, j)}
  IN  [i \in 1 .. Max(good) |-> CreateDatum(files, script, i)]

-----------------------------------------------------------------------------
(* Properties.                                                             *)

Dumped(t) == Append(home[t], Output[t])

Undisturbed == "overlap" \notin faults

(* Where the times of a track follow one another a dump keeps them; of     *)
(* others it keeps the starts and the last end.                            *)
Chained(times) ==
  [j \in DOMAIN times |-> <<times[j][1], IF j = Len(times) THEN times[j][2] ELSE times[j + 1][1]>>]

Kept(d) ==
  [i \in DOMAIN d.tracks |->
     [key |-> d.tracks[i].key, n |-> d.tracks[i].n, data |-> d.tracks[i].data,
      times |-> IF d.times THEN Chained(d.tracks[i].times) ELSE <<>>,
      power |-> IF d.power THEN d.tracks[i].power ELSE "none"]]

EmptyIn(d) == {i \in DOMAIN d.tracks : d.tracks[i].n = 0}

(* A dump that returned 0 without another beside it, and whose lists were  *)
(* written, restores to the tracks dumped, in their order, with the same   *)
(* vectors, powers and chained times; where there are times, up to the     *)
(* first track without vectors, which audiodb_insert_create_datum refuses. *)
RoundTrip ==
  \A t \in Threads :
    ret[t] = 0 /\ Undisturbed /\ "lost" \notin faults /\ ~ db[t].references /\ ~ NoTables(db[t])
    => LET files == dirs[Dumped(t)]
           whole == IF db[t].times /\ EmptyIn(db[t]) # {} THEN Min(EmptyIn(db[t])) - 1
                    ELSE Len(db[t].tracks)
       IN  Restored(files, files[Name("restore", 0)]) = SubSeq(Kept(db[t]), 1, whole)

(* Dumps of a process one after another, failed ones too, leave its        *)
(* working directory as it was.                                            *)
CwdRestored ==
  Undisturbed /\ (\A t \in Threads : ~ Busy(t) /\ pc[t] # "dead") => cwd = <<>>

(* A dump leaves nothing open when it returns 0; when it fails at most the *)
(* list of times, when not all lists could be opened, or one file of a     *)
(* track, never both.                                                      *)
LeaksLittle ==
  \A t \in Threads :
    pc[t] = "returned" =>
      /\ ret[t] = 0 => {f \in fds : f[1] = t} = {}
      /\ Cardinality({f \in fds : f[1] = t}) <= 1
      /\ \A f \in fds : f[1] = t => f[2] \in {"data", "timesList"}

=============================================================================
