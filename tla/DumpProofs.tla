------------------------------ MODULE DumpProofs ------------------------------
(***************************************************************************)
(* Whatever fails and however dumps overlap, a dump leaves next to nothing *)
(* open; and when dumps do not overlap, each leaves the working directory  *)
(* as it was and, if it returned 0, files that restore what was dumped.    *)
(***************************************************************************)
EXTENDS Dump, OffsetsProofs, SequenceTheorems

-----------------------------------------------------------------------------
(* The descriptors.  Each list is opened once, and a file of a track stays  *)
(* open only on the way to the error path.                                  *)
Mine(t) == {f \in fds : f[1] = t}

Early   == {"read", "mkdir", "getcwd", "chdir"}
Writing == {"features", "times", "power", "script", "close"}
Labels  == Early \cup Writing \cup {"lists", "failed", "back", "returned", "dead"}

Typed ==
  /\ db \in [Threads -> Databases] /\ pc \in [Threads -> Labels] /\ k \in [Threads -> Nat]
  /\ DOMAIN out = Threads /\ DOMAIN home = Threads /\ DOMAIN ret = Threads
  /\ \A t \in Threads : ret[t] = 0 => pc[t] \in {"returned", "dead"}
  /\ \A t, u \in Threads : pc[t] = "dead" => pc[u] = "dead"

Streams(t) ==
  /\ DOMAIN out[t] = Range(Lists(t))
  /\ \A l \in DOMAIN out[t] : DOMAIN out[t][l] = {"dir", "lines"}

Descriptors(t) ==
  /\ pc[t] \in Early => Mine(t) = {} /\ k[t] = 0 /\ out[t] = <<>>
  /\ pc[t] = "lists" =>
       /\ out[t] = <<>> /\ k[t] \in 0 .. Len(Lists(t)) - 1
       /\ \A f \in Mine(t) : \E i \in 1 .. k[t] : f[2] = Lists(t)[i]
       /\ \A i \in 1 .. k[t] : \E f \in Mine(t) : f[2] = Lists(t)[i]
       /\ \A f, g \in Mine(t) : f[2] = g[2] => f = g
  /\ pc[t] \in Writing \cup {"failed"} => Streams(t)
  /\ pc[t] \in Writing => \A f \in Mine(t) : f[2] # "data"
  /\ pc[t] = "failed" => \A f, g \in Mine(t) : f[2] = "data" /\ g[2] = "data" => f = g
  /\ pc[t] \in {"back", "returned"} => out[t] = <<>>
  /\ pc[t] = "back" => Mine(t) = {}
  /\ pc[t] = "returned" =>
       /\ ret[t] = 0 => Mine(t) = {}
       /\ \A f, g \in Mine(t) : f = g
       /\ \A f \in Mine(t) : f[2] \in {"data", "timesList"}

FdInv == Typed /\ \A t \in Threads : Descriptors(t)

(* What the steps of one thread leave alone of another's.                   *)
Apart(u) ==
  /\ pc'[u] = pc[u] /\ k'[u] = k[u] /\ out'[u] = out[u] /\ home'[u] = home[u] /\ ret'[u] = ret[u]
  /\ Mine(u)' = Mine(u)

(* The lists, one after another.                                            *)
LEMMA OneMore ==
  ASSUME NEW S, NEW s \in Seq(S), NEW e \in S
  PROVE  /\ s \o <<e>> \in Seq(S) /\ Len(s \o <<e>>) = Len(s) + 1
         /\ \A i \in 1 .. Len(s) : (s \o <<e>>)[i] = s[i]
         /\ (s \o <<e>>)[Len(s) + 1] = e
<1>1. s \o <<e>> = Append(s, e)
  BY AppendIsConcat
<1> QED
  BY <1>1, AppendProperties

LEMMA ListsAre ==
  ASSUME NEW d
  PROVE  /\ Len(ListsOf(d)) \in Nat \ {0} /\ DOMAIN ListsOf(d) = 1 .. Len(ListsOf(d))
         /\ \A i, j \in 1 .. Len(ListsOf(d)) : ListsOf(d)[i] = ListsOf(d)[j] => i = j
         /\ Range(ListsOf(d)) = {ListsOf(d)[i] : i \in 1 .. Len(ListsOf(d))}
         /\ {"featureList", "keyList"} \subseteq Range(ListsOf(d)) /\ "data" \notin Range(ListsOf(d))
         /\ Range(ListsOf(d)) \subseteq {"featureList", "keyList", "timesList", "powerList"}
         /\ "timesList" \in Range(ListsOf(d)) <=> d.times
         /\ "powerList" \in Range(ListsOf(d)) <=> d.power
<1> DEFINE S == {"featureList", "timesList", "powerList", "keyList"}
<1>1. PICK a : a = <<"featureList">> /\ a \in Seq(S) /\ Len(a) = 1 /\ a[1] = "featureList"
  <2>1. ASSUME NEW T, NEW e \in T PROVE <<e>> \in Seq(T) /\ Len(<<e>>) = 1 /\ <<e>>[1] = e
    OBVIOUS
  <2>2. "featureList" \in S
    OBVIOUS
  <2> HIDE DEF S
  <2> QED
    BY <2>1, <2>2
<1>2. PICK b : b = a \o (IF d.times THEN <<"timesList">> ELSE <<>>)
  OBVIOUS
<1>3. PICK c : c = b \o (IF d.power THEN <<"powerList">> ELSE <<>>)
  OBVIOUS
<1>4. PICK l : l = c \o <<"keyList">>
  OBVIOUS
<1>5. l = ListsOf(d)
  BY <1>1, <1>2, <1>3, <1>4 DEF ListsOf
<1>6. b \in Seq(S) /\ b[1] = "featureList" /\ IF d.times THEN Len(b) = 2 /\ b[2] = "timesList" ELSE Len(b) = 1
  <2>1. CASE d.times
    <3>1. b = a \o <<"timesList">> /\ "timesList" \in S
      BY <1>2, <2>1
    <3>2. b \in Seq(S) /\ Len(b) = Len(a) + 1 /\ (\A i \in 1 .. Len(a) : b[i] = a[i]) /\ b[Len(a) + 1] = "timesList"
      BY ONLY <1>1, <3>1, OneMore
    <3> QED
      BY <1>1, <2>1, <3>2
  <2>2. CASE ~ d.times
    BY <1>1, <1>2, <2>2, ConcatEmptySeq
  <2> QED
    BY <2>1, <2>2
<1>7. PICK m \in Nat : m = Len(b)
  BY <1>6
<1>8. c \in Seq(S) /\ (\A i \in 1 .. m : c[i] = b[i]) /\ IF d.power THEN Len(c) = m + 1 /\ c[m + 1] = "powerList" ELSE Len(c) = m
  <2>1. CASE d.power
    <3>1. c = b \o <<"powerList">> /\ "powerList" \in S
      BY <1>3, <2>1
    <3>2. c \in Seq(S) /\ Len(c) = Len(b) + 1 /\ (\A i \in 1 .. Len(b) : c[i] = b[i]) /\ c[Len(b) + 1] = "powerList"
      BY ONLY <1>6, <3>1, OneMore
    <3> QED
      BY <1>7, <2>1, <3>2
  <2>2. CASE ~ d.power
    BY <1>3, <1>6, <1>7, <2>2, ConcatEmptySeq
  <2> QED
    BY <2>1, <2>2
<1>9. PICK n \in Nat : n = Len(c)
  BY <1>8
<1>10. l \in Seq(S) /\ (\A i \in 1 .. n : l[i] = c[i]) /\ Len(l) = n + 1 /\ l[n + 1] = "keyList"
  <2>1. "keyList" \in S
    OBVIOUS
  <2>2. l \in Seq(S) /\ Len(l) = Len(c) + 1 /\ (\A i \in 1 .. Len(c) : l[i] = c[i]) /\ l[Len(c) + 1] = "keyList"
    BY ONLY <1>4, <1>8, <2>1, OneMore
  <2> QED
    BY <1>9, <2>2
<1> HIDE DEF S
<1>11. DOMAIN l = 1 .. n + 1 /\ Len(l) = n + 1 /\ n + 1 \in Nat \ {0}
  BY <1>10
<1>12. CASE d.times /\ d.power
  <2>1. m = 2 /\ n = 3 /\ l[1] = "featureList" /\ l[2] = "timesList" /\ l[3] = "powerList" /\ l[4] = "keyList"
    BY <1>6, <1>7, <1>8, <1>9, <1>10, <1>12
  <2> QED
    BY <1>5, <1>11, <1>12, <2>1 DEF Range
<1>13. CASE d.times /\ ~ d.power
  <2>1. m = 2 /\ n = 2 /\ l[1] = "featureList" /\ l[2] = "timesList" /\ l[3] = "keyList"
    BY <1>6, <1>7, <1>8, <1>9, <1>10, <1>13
  <2> QED
    BY <1>5, <1>11, <1>13, <2>1 DEF Range
<1>14. CASE ~ d.times /\ d.power
  <2>1. m = 1 /\ n = 2 /\ l[1] = "featureList" /\ l[2] = "powerList" /\ l[3] = "keyList"
    BY <1>6, <1>7, <1>8, <1>9, <1>10, <1>14
  <2> QED
    BY <1>5, <1>11, <1>14, <2>1 DEF Range
<1>15. CASE ~ d.times /\ ~ d.power
  <2>1. m = 1 /\ n = 1 /\ l[1] = "featureList" /\ l[2] = "keyList"
    BY <1>6, <1>7, <1>8, <1>9, <1>10, <1>15
  <2> QED
    BY <1>5, <1>11, <1>15, <2>1 DEF Range
<1> QED
  BY <1>12, <1>13, <1>14, <1>15

LEMMA ListsThen ==
  ASSUME NEW t
  PROVE  /\ Len(Lists(t)) \in Nat \ {0} /\ DOMAIN Lists(t) = 1 .. Len(Lists(t))
         /\ \A i, j \in 1 .. Len(Lists(t)) : Lists(t)[i] = Lists(t)[j] => i = j
         /\ Range(Lists(t)) = {Lists(t)[i] : i \in 1 .. Len(Lists(t))}
         /\ {"featureList", "keyList"} \subseteq Range(Lists(t)) /\ "data" \notin Range(Lists(t))
         /\ Range(Lists(t)) \subseteq {"featureList", "keyList", "timesList", "powerList"}
         /\ "timesList" \in Range(Lists(t)) <=> db[t].times
         /\ "powerList" \in Range(Lists(t)) <=> db[t].power
  BY ListsAre DEF Lists

LEMMA StreamsNotNone ==
  ASSUME NEW t, Streams(t)
  PROVE  out[t] # <<>>
<1>1. "featureList" \in Range(Lists(t))
  BY ListsThen
<1>2. DOMAIN <<>> = {}
  OBVIOUS
<1> QED
  BY <1>1, <1>2 DEF Streams

LEMMA GiveUpLeaks ==
  ASSUME FdInv, NEW t \in Threads, pc[t] \in Early \cup Writing \cup {"lists", "failed"}, GiveUp(t)
  PROVE  Typed' /\ Descriptors(t)' /\ \A u \in Threads \ {t} : Apart(u)
<1>1. /\ pc' = [pc EXCEPT ![t] = "returned"] /\ ret' = [ret EXCEPT ![t] = 1]
      /\ out' = [out EXCEPT ![t] = <<>>] /\ UNCHANGED <<db, home, k>>
      /\ fds' = {f \in fds : f[1] # t} \cup LeakedOnError(t)
  BY DEF GiveUp, Goto
<1>2. Descriptors(t) /\ Typed
  BY DEF FdInv
<1>3. Typed'
  BY <1>1, <1>2 DEF Typed, Labels, Early, Writing
<1>4. pc'[t] = "returned" /\ ret'[t] = 1 /\ out'[t] = <<>>
  BY <1>1, <1>2 DEF Typed
<1>5. Mine(t)' = LeakedOnError(t)
  BY <1>1 DEF Mine, LeakedOnError
<1>6. \A f \in LeakedOnError(t) : f \in Mine(t) /\ (f[2] = "data" \/ (f[2] = "timesList" /\ out[t] = <<>>))
  BY DEF LeakedOnError, Mine
<1>7. \A f, g \in LeakedOnError(t) : f = g
  <2>1. CASE pc[t] \in Early
    BY <1>2, <1>6, <2>1 DEF Descriptors
  <2>2. CASE pc[t] = "lists"
    <3>1. "data" \notin Range(Lists(t))
      BY ListsThen
    <3>2. \A f \in Mine(t) : \E i \in 1 .. Len(Lists(t)) : f[2] = Lists(t)[i]
      <4>1. Len(Lists(t)) \in Nat \ {0}
        BY ListsThen
      <4> QED
        BY <1>2, <2>2, <4>1 DEF Descriptors
    <3>3. \A f \in Mine(t) : f[2] \in Range(Lists(t))
      BY <3>2, ListsThen
    <3> QED
      BY <1>2, <1>6, <2>2, <3>1, <3>3 DEF Descriptors
  <2>3. CASE pc[t] \in Writing
    <3>1. out[t] # <<>>
      BY <1>2, <2>3, StreamsNotNone DEF Descriptors
    <3> QED
      BY <1>2, <1>6, <2>3, <3>1 DEF Descriptors
  <2>4. CASE pc[t] = "failed"
    <3>1. out[t] # <<>>
      BY <1>2, <2>4, StreamsNotNone DEF Descriptors
    <3> QED
      BY <1>2, <1>6, <2>4, <3>1 DEF Descriptors
  <2> QED
    BY <2>1, <2>2, <2>3, <2>4
<1>8. \A f \in LeakedOnError(t) : f[2] \in {"data", "timesList"}
  BY <1>6
<1>9. Descriptors(t)'
  BY <1>4, <1>5, <1>7, <1>8 DEF Descriptors, Early, Writing
<1>10. ASSUME NEW u \in Threads \ {t} PROVE Apart(u)
  <2>1. Mine(u)' = Mine(u)
    BY <1>1 DEF Mine, LeakedOnError
  <2> QED
    BY <1>1, <1>2, <2>1 DEF Apart, Typed
<1> QED
  BY <1>3, <1>9, <1>10

(* From o to p, lines are added to streams of t.                            *)
SameStream(a, b) == DOMAIN b = DOMAIN a /\ ("dir" \in DOMAIN a => b.dir = a.dir)

SameStreams(o, p, t) ==
  /\ DOMAIN o = Threads /\ DOMAIN p = Threads /\ \A u \in Threads \ {t} : p[u] = o[u]
  /\ DOMAIN p[t] = DOMAIN o[t]
  /\ \A s \in DOMAIN o[t] : SameStream(o[t][s], p[t][s])

LEMMA LineAdded ==
  ASSUME NEW t \in Threads, NEW o, DOMAIN o = Threads, NEW list, NEW line
  PROVE  /\ SameStreams(o, AddLine(t, o, list, line), t)
         /\ DOMAIN AddLine(t, o, list, line) = Threads
<1> DEFINE p == AddLine(t, o, list, line)
<1>1. DOMAIN p = Threads /\ (\A u \in Threads \ {t} : p[u] = o[u]) /\ DOMAIN p[t] = DOMAIN o[t]
  BY DEF AddLine
<1>2. ASSUME NEW s \in DOMAIN o[t] PROVE SameStream(o[t][s], p[t][s])
  BY DEF AddLine, SameStream
<1> QED
  BY <1>1, <1>2 DEF SameStreams

LEMMA NoneAdded ==
  ASSUME NEW t \in Threads, NEW o, NEW p, DOMAIN o = Threads, p = o
  PROVE  SameStreams(o, p, t)
<1>1. \A s \in DOMAIN o[t] : SameStream(o[t][s], p[t][s])
  BY DEF SameStream
<1> QED
  BY <1>1 DEF SameStreams

LEMMA MoreLines ==
  ASSUME NEW t \in Threads, NEW o, NEW p, NEW q, SameStreams(o, p, t), SameStreams(p, q, t)
  PROVE  SameStreams(o, q, t)
<1>1. DOMAIN o = Threads /\ DOMAIN q = Threads /\ (\A u \in Threads \ {t} : q[u] = o[u]) /\ DOMAIN q[t] = DOMAIN o[t]
  BY DEF SameStreams
<1>2. ASSUME NEW s \in DOMAIN o[t] PROVE SameStream(o[t][s], q[t][s])
  <2>1. SameStream(o[t][s], p[t][s]) /\ SameStream(p[t][s], q[t][s])
    BY DEF SameStreams
  <2> QED
    BY <2>1 DEF SameStream
<1> QED
  BY <1>1, <1>2 DEF SameStreams

(* The steps that write, of whatever success.                               *)
Writes(t) ==
  \/ WriteFeatures(t) \/ FileFails(t) \/ WriteTimes(t) \/ WritePower(t) \/ WriteReferences(t)
  \/ WriteScript(t)

LEMMA WritesKeepStreams ==
  ASSUME FdInv, NEW t \in Threads, Writes(t)
  PROVE  SameStreams(out, out', t)
<1>1. Typed
  BY DEF FdInv
<1>2. CASE WriteFeatures(t)
  <2>1. PICK a, b : a = KeyLine(t) /\ b = AddLine(t, a, "featureList", DataFile(t)) /\ out' = b
    BY <1>2 DEF WriteFeatures
  <2>2. SameStreams(out, a, t) /\ DOMAIN a = Threads
    BY <1>1, <2>1, LineAdded DEF KeyLine, Typed
  <2>3. SameStreams(a, b, t)
    BY <2>1, <2>2, LineAdded
  <2> QED
    BY <2>1, <2>2, <2>3, MoreLines
<1>3. CASE FileFails(t)
  <2>1. CASE out' = KeyLine(t)
    BY <1>1, <2>1, LineAdded DEF KeyLine, Typed
  <2>2. CASE out' = out
    BY <1>1, <2>2, NoneAdded DEF Typed
  <2> QED
    BY <1>3, <2>1, <2>2 DEF FileFails
<1>4. CASE WriteTimes(t)
  BY <1>1, <1>4, LineAdded DEF WriteTimes, Typed
<1>5. CASE WritePower(t)
  BY <1>1, <1>5, LineAdded DEF WritePower, Typed
<1>6. CASE WriteReferences(t)
  <2>1. PICK a, b, c, d :
          /\ a = KeyLine(t)
          /\ b = AddLine(t, a, "featureList", Track(t).data)
          /\ c = IF db[t].times THEN AddLine(t, b, "timesList", Track(t).times) ELSE b
          /\ d = IF db[t].power THEN AddLine(t, c, "powerList", Track(t).power) ELSE c
    OBVIOUS
  <2>2. out' = a \/ out' = d
    BY <1>6, <2>1 DEF WriteReferences
  <2>3. SameStreams(out, a, t) /\ DOMAIN a = Threads
    BY <1>1, <2>1, LineAdded DEF KeyLine, Typed
  <2>4. SameStreams(out, b, t) /\ DOMAIN b = Threads
    BY <2>1, <2>3, LineAdded, MoreLines
  <2>5. SameStreams(out, c, t) /\ DOMAIN c = Threads
    BY <2>1, <2>4, LineAdded, MoreLines
  <2>6. SameStreams(out, d, t)
    BY <2>1, <2>5, LineAdded, MoreLines
  <2> QED
    BY <2>2, <2>3, <2>6
<1>7. CASE WriteScript(t)
  BY <1>1, <1>7, NoneAdded DEF WriteScript, Typed
<1> QED
  BY <1>2, <1>3, <1>4, <1>5, <1>6, <1>7 DEF Writes

(* Steps that write files and lines.                                        *)
LEMMA WritingOn ==
  ASSUME FdInv, NEW t \in Threads, pc[t] \in Writing,
         UNCHANGED <<db, home, ret, fds>>,
         NEW l \in Writing, Goto(t, l), NEW n \in Nat, k' = [k EXCEPT ![t] = n],
         SameStreams(out, out', t)
  PROVE  Typed' /\ Descriptors(t)' /\ \A u \in Threads \ {t} : Apart(u)
<1>1. Typed /\ Descriptors(t)
  BY DEF FdInv
<1>2. Typed'
  BY <1>1 DEF Typed, Goto, Labels, Writing, Early, SameStreams
<1>3. pc'[t] = l
  BY <1>1 DEF Typed, Goto
<1>4. Streams(t)'
  <2>1. Streams(t) /\ Lists(t)' = Lists(t)
    BY <1>1 DEF Descriptors, Lists
  <2>2. DOMAIN out'[t] = DOMAIN out[t]
    BY DEF SameStreams
  <2>3. \A s \in DOMAIN out[t] : DOMAIN out'[t][s] = DOMAIN out[t][s]
    BY DEF SameStreams, SameStream
  <2> QED
    BY <2>1, <2>2, <2>3 DEF Streams
<1>5. Mine(t)' = Mine(t)
  BY DEF Mine
<1>6. Descriptors(t)'
  BY <1>1, <1>3, <1>4, <1>5 DEF Descriptors, Writing, Early
<1>7. ASSUME NEW u \in Threads \ {t} PROVE Apart(u)
  BY <1>1 DEF Apart, Typed, Goto, Mine, SameStreams
<1> QED
  BY <1>2, <1>6, <1>7

LEMMA TrackDone ==
  ASSUME Typed, NEW t \in Threads, NextTrack(t)
  PROVE  (\E l \in Writing : Goto(t, l)) /\ k' = [k EXCEPT ![t] = k[t] + 1] /\ k[t] + 1 \in Nat
  BY DEF NextTrack, Writing, Typed

LEMMA WriteFeaturesFd ==
  ASSUME FdInv, NEW t \in Threads, WriteFeatures(t)
  PROVE  Typed' /\ Descriptors(t)' /\ \A u \in Threads \ {t} : Apart(u)
<1>1. Typed /\ k = [k EXCEPT ![t] = k[t]]
  BY DEF FdInv, Typed
<1>2. SameStreams(out, out', t)
  BY WritesKeepStreams DEF Writes
<1>3. (\E l \in Writing : Goto(t, l)) /\ \E n \in Nat : k' = [k EXCEPT ![t] = n]
  <2>1. CASE NextTrack(t)
    BY <1>1, <2>1, TrackDone
  <2>2. CASE Goto(t, "times") /\ UNCHANGED k
    BY <1>1, <2>2 DEF Writing, Typed
  <2>3. CASE Goto(t, "power") /\ UNCHANGED k
    BY <1>1, <2>3 DEF Writing, Typed
  <2> QED
    BY <2>1, <2>2, <2>3 DEF WriteFeatures
<1>4. pc[t] \in Writing /\ UNCHANGED <<db, home, ret, fds>>
  BY DEF WriteFeatures, Writing
<1> QED
  BY <1>2, <1>3, <1>4, WritingOn

LEMMA WriteTimesFd ==
  ASSUME FdInv, NEW t \in Threads, WriteTimes(t)
  PROVE  Typed' /\ Descriptors(t)' /\ \A u \in Threads \ {t} : Apart(u)
<1>1. Typed /\ k = [k EXCEPT ![t] = k[t]]
  BY DEF FdInv, Typed
<1>2. SameStreams(out, out', t)
  BY WritesKeepStreams DEF Writes
<1>3. (\E l \in Writing : Goto(t, l)) /\ \E n \in Nat : k' = [k EXCEPT ![t] = n]
  <2>1. CASE NextTrack(t)
    BY <1>1, <2>1, TrackDone
  <2>2. CASE Goto(t, "power") /\ UNCHANGED k
    BY <1>1, <2>2 DEF Writing, Typed
  <2> QED
    BY <2>1, <2>2 DEF WriteTimes
<1>4. pc[t] \in Writing /\ UNCHANGED <<db, home, ret, fds>>
  BY DEF WriteTimes, Writing
<1> QED
  BY <1>2, <1>3, <1>4, WritingOn

LEMMA WritePowerFd ==
  ASSUME FdInv, NEW t \in Threads, WritePower(t)
  PROVE  Typed' /\ Descriptors(t)' /\ \A u \in Threads \ {t} : Apart(u)
<1>1. Typed
  BY DEF FdInv
<1>2. SameStreams(out, out', t)
  BY WritesKeepStreams DEF Writes
<1>3. (\E l \in Writing : Goto(t, l)) /\ \E n \in Nat : k' = [k EXCEPT ![t] = n]
  BY <1>1, TrackDone DEF WritePower
<1>4. pc[t] \in Writing /\ UNCHANGED <<db, home, ret, fds>>
  BY DEF WritePower, Writing
<1> QED
  BY <1>2, <1>3, <1>4, WritingOn

(* A step to the error path, with at most one file of a track open.         *)
LEMMA Failing ==
  ASSUME FdInv, NEW t \in Threads, pc[t] \in Writing,
         UNCHANGED <<db, home, ret, k>>, Goto(t, "failed"),
         fds' = fds \/ fds' = fds \cup {<<t, "data", cwd>>},
         SameStreams(out, out', t)
  PROVE  Typed' /\ Descriptors(t)' /\ \A u \in Threads \ {t} : Apart(u)
<1>1. Typed /\ Descriptors(t)
  BY DEF FdInv
<1>2. Typed'
  BY <1>1 DEF Typed, Goto, Labels, Writing, Early, SameStreams
<1>3. pc'[t] = "failed"
  BY <1>1 DEF Typed, Goto
<1>4. Streams(t)'
  <2>1. Streams(t) /\ Lists(t)' = Lists(t)
    BY <1>1 DEF Descriptors, Lists
  <2>2. DOMAIN out'[t] = DOMAIN out[t]
    BY DEF SameStreams
  <2>3. \A s \in DOMAIN out[t] : DOMAIN out'[t][s] = DOMAIN out[t][s]
    BY DEF SameStreams, SameStream
  <2> QED
    BY <2>1, <2>2, <2>3 DEF Streams
<1>5. \A f \in Mine(t)' : f \in Mine(t) \/ f = <<t, "data", cwd>>
  BY DEF Mine
<1>6. \A f, g \in Mine(t)' : f[2] = "data" /\ g[2] = "data" => f = g
  BY <1>1, <1>5 DEF Descriptors
<1>7. Descriptors(t)'
  BY <1>3, <1>4, <1>6 DEF Descriptors, Writing, Early
<1>8. ASSUME NEW u \in Threads \ {t} PROVE Apart(u)
  <2>1. Mine(u)' = Mine(u)
    BY DEF Mine
  <2> QED
    BY <1>1, <2>1 DEF Apart, Typed, Goto, SameStreams
<1> QED
  BY <1>2, <1>7, <1>8

LEMMA FileFailsFd ==
  ASSUME FdInv, NEW t \in Threads, FileFails(t)
  PROVE  Typed' /\ Descriptors(t)' /\ \A u \in Threads \ {t} : Apart(u)
<1>1. Typed
  BY DEF FdInv
<1>2. SameStreams(out, out', t)
  BY WritesKeepStreams DEF Writes
<1>3. pc[t] \in Writing /\ UNCHANGED <<db, home, ret, k>> /\ Goto(t, "failed")
  BY DEF FileFails, Writing
<1>4. fds' = fds \/ fds' = fds \cup {<<t, "data", cwd>>}
  BY DEF FileFails
<1> QED
  BY <1>2, <1>3, <1>4, Failing

LEMMA WriteReferencesFd ==
  ASSUME FdInv, NEW t \in Threads, WriteReferences(t)
  PROVE  Typed' /\ Descriptors(t)' /\ \A u \in Threads \ {t} : Apart(u)
<1>1. Typed
  BY DEF FdInv
<1>2. SameStreams(out, out', t)
  BY WritesKeepStreams DEF Writes
<1>3. pc[t] \in Writing /\ UNCHANGED <<db, home, ret, fds>>
  BY DEF WriteReferences, Writing
<1>4. NextTrack(t) \/ (Goto(t, "failed") /\ UNCHANGED k)
  BY DEF WriteReferences
<1>5. CASE NextTrack(t)
  <2>1. (\E l \in Writing : Goto(t, l)) /\ \E n \in Nat : k' = [k EXCEPT ![t] = n]
    BY <1>1, <1>5, TrackDone
  <2> QED
    BY <1>2, <1>3, <2>1, WritingOn
<1>6. CASE Goto(t, "failed") /\ UNCHANGED k
  BY <1>2, <1>3, <1>6, Failing
<1> QED
  BY <1>4, <1>5, <1>6

(* Steps before the lists are opened.                                       *)
LEMMA Setting ==
  ASSUME FdInv, NEW t \in Threads, pc[t] \in Early, NEW l \in Early \cup {"lists"}, Goto(t, l),
         UNCHANGED <<db, k, out, fds, ret>>,
         DOMAIN home' = Threads, \A u \in Threads \ {t} : home'[u] = home[u]
  PROVE  Typed' /\ Descriptors(t)' /\ \A u \in Threads \ {t} : Apart(u)
<1>1. Typed /\ Descriptors(t)
  BY DEF FdInv
<1>2. Typed'
  BY <1>1 DEF Typed, Goto, Labels, Writing, Early
<1>3. pc'[t] = l
  BY <1>1 DEF Typed, Goto
<1>4. Mine(t)' = {} /\ k'[t] = 0 /\ out'[t] = <<>>
  BY <1>1 DEF Mine, Descriptors
<1>5. 0 \in 0 .. Len(Lists(t)') - 1
  <2>1. Len(Lists(t)) \in Nat \ {0} /\ Lists(t)' = Lists(t)
    BY ListsThen DEF Lists
  <2> QED
    BY <2>1
<1>6. Descriptors(t)'
  BY <1>3, <1>4, <1>5 DEF Descriptors, Writing, Early
<1>7. ASSUME NEW u \in Threads \ {t} PROVE Apart(u)
  BY <1>1 DEF Apart, Typed, Goto, Mine
<1> QED
  BY <1>2, <1>6, <1>7

LEMMA OpenListFd ==
  ASSUME FdInv, NEW t \in Threads, OpenList(t), ~ Holds(cwd, Name(Lists(t)[k[t] + 1], 0))
  PROVE  Typed' /\ Descriptors(t)' /\ \A u \in Threads \ {t} : Apart(u)
<1>1. Typed /\ Descriptors(t)
  BY DEF FdInv
<1>2. PICK list, last : list = Lists(t)[k[t] + 1] /\ last = (k[t] + 1 = Len(Lists(t)))
  OBVIOUS
<1>3. /\ pc[t] = "lists" /\ UNCHANGED <<db, cwd, home, ret>>
      /\ fds' = fds \cup {<<t, list, cwd>>}
      /\ k' = [k EXCEPT ![t] = IF last THEN 0 ELSE @ + 1]
      /\ out' = IF last THEN [out EXCEPT ![t] =
                                [l \in Range(Lists(t)) |->
                                   [dir |-> (CHOOSE f \in fds' : f[1] = t /\ f[2] = l)[3],
                                    lines |-> <<>>]]]
                ELSE out
      /\ Goto(t, IF last THEN Loop(t) ELSE "lists")
  BY <1>2 DEF OpenList
<1>4. /\ DOMAIN out' = Threads /\ (\A u \in Threads \ {t} : out'[u] = out[u])
      /\ last => /\ DOMAIN out'[t] = Range(Lists(t))
                 /\ \A l \in DOMAIN out'[t] : DOMAIN out'[t][l] = {"dir", "lines"}
      /\ ~ last => out' = out
  <2>1. DOMAIN out = Threads
    BY <1>1 DEF Typed
  <2>2. PICK o : o = [l \in Range(Lists(t)) |->
                        [dir |-> (CHOOSE f \in fds' : f[1] = t /\ f[2] = l)[3], lines |-> <<>>]]
    OBVIOUS
  <2>3. DOMAIN o = Range(Lists(t)) /\ \A l \in DOMAIN o : DOMAIN o[l] = {"dir", "lines"}
    BY <2>2
  <2>4. last => out' = [out EXCEPT ![t] = o]
    BY ONLY <1>3, <2>2
  <2>5. ~ last => out' = out
    BY <1>3
  <2> QED
    BY <2>1, <2>3, <2>4, <2>5
<1>5. /\ k[t] \in 0 .. Len(Lists(t)) - 1 /\ Len(Lists(t)) \in Nat \ {0} /\ k[t] + 1 \in 1 .. Len(Lists(t))
      /\ list \in Range(Lists(t)) /\ list # "data"
  <2>1. k[t] \in 0 .. Len(Lists(t)) - 1 /\ Len(Lists(t)) \in Nat \ {0}
    BY <1>1, <1>3, ListsThen DEF Descriptors
  <2>2. k[t] + 1 \in 1 .. Len(Lists(t))
    BY <2>1
  <2> QED
    BY <1>2, <2>1, <2>2, ListsThen
<1>6. pc'[t] = (IF last THEN Loop(t) ELSE "lists") /\ Loop(t) \in {"script", "features"}
  BY <1>1, <1>3 DEF Typed, Goto, Loop
<1>7. k'[t] = (IF last THEN 0 ELSE k[t] + 1) /\ k'[t] \in Nat
  BY <1>1, <1>3 DEF Typed
<1>8. Typed'
  <2>1. k' \in [Threads -> Nat]
    BY <1>1, <1>3 DEF Typed
  <2>2. pc' \in [Threads -> Labels]
    BY <1>1, <1>3, <1>6 DEF Typed, Goto, Labels, Writing
  <2> QED
    BY <1>1, <1>3, <1>4, <1>6, <2>1, <2>2 DEF Typed, Goto
<1>9. \A f \in Mine(t)' : f \in Mine(t) \/ f = <<t, list, cwd>>
  BY <1>3 DEF Mine
<1>10. \A f \in Mine(t) : f[2] # "data" /\ f[2] # list
  <2>1. \A f \in Mine(t) : \E i \in 1 .. k[t] : f[2] = Lists(t)[i]
    BY <1>1, <1>3 DEF Descriptors
  <2>2. \A i \in 1 .. k[t] : i \in 1 .. Len(Lists(t)) /\ i # k[t] + 1
    BY <1>5
  <2>3. \A i \in 1 .. k[t] : Lists(t)[i] # list /\ Lists(t)[i] \in Range(Lists(t))
    BY <1>2, <1>5, <2>2, ListsThen
  <2> QED
    BY <2>1, <2>3, ListsThen
<1>11. CASE last
  <2>1. pc'[t] \in Writing /\ Streams(t)'
    BY <1>3, <1>4, <1>6, <1>11 DEF Writing, Streams, Lists
  <2>2. \A f \in Mine(t)' : f[2] # "data"
    BY <1>5, <1>9, <1>10
  <2>3. Descriptors(t)'
    BY <2>1, <2>2 DEF Descriptors, Writing, Early
  <2>4. ASSUME NEW u \in Threads \ {t} PROVE Apart(u)
    <3>1. Mine(u)' = Mine(u)
      BY <1>3 DEF Mine
    <3> QED
      BY <1>1, <1>3, <1>4, <3>1 DEF Apart, Typed, Goto
  <2> QED
    BY <1>8, <2>3, <2>4
<1>12. CASE ~ last
  <2>1. pc'[t] = "lists" /\ out'[t] = <<>> /\ Lists(t)' = Lists(t)
    BY <1>1, <1>3, <1>4, <1>6, <1>12 DEF Descriptors, Lists
  <2>2. k'[t] = k[t] + 1 /\ k'[t] \in 0 .. Len(Lists(t)) - 1
    <3>1. PICK m \in Nat, n \in Nat : m = k[t] /\ n = Len(Lists(t))
      BY <1>5
    <3>2. k'[t] = m + 1 /\ m + 1 # n /\ m \in 0 .. n - 1
      BY <1>2, <1>5, <1>7, <1>12, <3>1
    <3>3. m + 1 \in 0 .. n - 1
      BY <3>2
    <3> QED
      BY <3>1, <3>2, <3>3
  <2>3. \A f \in Mine(t)' : \E i \in 1 .. k'[t] : f[2] = Lists(t)[i]
    <3>1. \A f \in Mine(t) : \E i \in 1 .. k[t] : f[2] = Lists(t)[i]
      BY <1>1, <1>3 DEF Descriptors
    <3>2. \A i \in 1 .. k[t] : i \in 1 .. k'[t]
      BY <1>5, <2>2
    <3>3. k[t] + 1 \in 1 .. k'[t]
      BY <1>5, <2>2
    <3> QED
      BY <1>2, <1>9, <3>1, <3>2, <3>3
  <2>4. \A f, g \in Mine(t)' : f[2] = g[2] => f = g
    BY <1>1, <1>3, <1>9, <1>10 DEF Descriptors
  <2>7. \A i \in 1 .. k'[t] : \E f \in Mine(t)' : f[2] = Lists(t)[i]
    <3>1. \A i \in 1 .. k[t] : \E f \in Mine(t) : f[2] = Lists(t)[i]
      BY <1>1, <1>3 DEF Descriptors
    <3>2. \A f \in Mine(t) : f \in Mine(t)'
      BY <1>3 DEF Mine
    <3>3. <<t, list, cwd>> \in Mine(t)' /\ <<t, list, cwd>>[2] = list
      BY <1>3 DEF Mine
    <3>4. \A i \in 1 .. k'[t] : i \in 1 .. k[t] \/ i = k[t] + 1
      BY <1>5, <2>2
    <3> QED
      BY <1>2, <3>1, <3>2, <3>3, <3>4
  <2>5. Descriptors(t)'
    BY <2>1, <2>2, <2>3, <2>4, <2>7 DEF Descriptors, Writing, Early
  <2>6. ASSUME NEW u \in Threads \ {t} PROVE Apart(u)
    <3>1. Mine(u)' = Mine(u)
      BY <1>3 DEF Mine
    <3> QED
      BY <1>1, <1>3, <1>4, <3>1 DEF Apart, Typed, Goto
  <2> QED
    BY <1>8, <2>5, <2>6
<1> QED
  BY <1>11, <1>12

LEMMA CloseListsFd ==
  ASSUME FdInv, NEW t \in Threads, CloseLists(t)
  PROVE  Typed' /\ Descriptors(t)' /\ \A u \in Threads \ {t} : Apart(u)
<1>1. Typed
  BY DEF FdInv
<1>2. /\ fds' = {f \in fds : f[1] # t} /\ out' = [out EXCEPT ![t] = <<>>] /\ Goto(t, "back")
      /\ UNCHANGED <<db, cwd, home, k, ret>> /\ pc[t] = "close"
  BY DEF CloseLists
<1>3. pc'[t] = "back" /\ out'[t] = <<>> /\ Mine(t)' = {}
  BY <1>1, <1>2 DEF Typed, Goto, Mine
<1>4. Typed'
  BY <1>1, <1>2 DEF Typed, Goto, Labels
<1>5. Descriptors(t)'
  BY <1>3 DEF Descriptors, Writing, Early
<1>6. ASSUME NEW u \in Threads \ {t} PROVE Apart(u)
  <2>1. Mine(u)' = Mine(u)
    BY <1>2 DEF Mine
  <2> QED
    BY <1>1, <1>2, <2>1 DEF Apart, Typed, Goto
<1> QED
  BY <1>4, <1>5, <1>6

LEMMA BackFd ==
  ASSUME FdInv, NEW t \in Threads, Back(t)
  PROVE  Typed' /\ Descriptors(t)' /\ \A u \in Threads \ {t} : Apart(u)
<1>1. Typed /\ Descriptors(t)
  BY DEF FdInv
<1>2. /\ ret' = [ret EXCEPT ![t] = 0] /\ Goto(t, "returned") /\ pc[t] = "back"
      /\ UNCHANGED <<db, dirs, home, k, out, fds, faults>>
  BY DEF Back
<1>3. pc'[t] = "returned" /\ out'[t] = <<>> /\ Mine(t)' = {}
  BY <1>1, <1>2 DEF Typed, Goto, Mine, Descriptors
<1>4. Typed'
  BY <1>1, <1>2 DEF Typed, Goto, Labels
<1>5. Descriptors(t)'
  BY <1>3 DEF Descriptors, Writing, Early
<1>6. ASSUME NEW u \in Threads \ {t} PROVE Apart(u)
  BY <1>1, <1>2 DEF Apart, Typed, Goto, Mine
<1> QED
  BY <1>4, <1>5, <1>6

LEMMA DieFd ==
  ASSUME FdInv, Die
  PROVE  FdInv'
<1>1. Typed
  BY DEF FdInv
<1>2. /\ pc' = [t \in Threads |-> "dead"] /\ out' = [t \in Threads |-> <<>>] /\ fds' = {}
      /\ UNCHANGED <<db, cwd, home, k, ret>>
  BY DEF Die
<1>3. Typed'
  BY <1>1, <1>2 DEF Typed, Labels
<1>4. \A t \in Threads : Descriptors(t)'
  BY <1>2 DEF Descriptors, Writing, Early
<1> QED
  BY <1>3, <1>4 DEF FdInv

(* A step of a thread, by what it does.                                     *)
Gives(t) == pc[t] \in Early \cup Writing \cup {"lists", "failed"} /\ GiveUp(t)

SetsUp(t) ==
  /\ pc[t] \in Early /\ UNCHANGED <<db, k, out, fds, ret>>
  /\ DOMAIN home' = DOMAIN home /\ \A u \in Threads \ {t} : home'[u] = home[u]
  /\ \E l \in Early \cup {"lists"} : Goto(t, l)

LEMMA StepCases ==
  ASSUME FdInv, NEW t \in Threads, Step(t)
  PROVE  \/ Gives(t) \/ SetsUp(t) \/ Die
         \/ OpenList(t) /\ ~ Holds(cwd, Name(Lists(t)[k[t] + 1], 0))
         \/ WriteFeatures(t) \/ FileFails(t) \/ WriteTimes(t) \/ WritePower(t) \/ WriteReferences(t)
         \/ WriteScript(t) \/ CloseLists(t) \/ Back(t)
<1>1. CASE SystemFails(t)
  BY <1>1 DEF SystemFails, Gives, Early, Writing
<1>2. CASE ReadTables(t)
  BY <1>2 DEF ReadTables, SetsUp, Early
<1>3. CASE Mkdir(t)
  BY <1>3 DEF Mkdir, SetsUp, Gives, Early
<1>4. CASE Getcwd(t)
  BY <1>4 DEF Getcwd, SetsUp, Early
<1>5. CASE Chdir(t)
  BY <1>5 DEF Chdir, SetsUp, Gives, Early
<1>6. CASE OpenList(t)
  BY <1>6 DEF OpenList, Gives
<1>7. CASE NullTable(t)
  BY <1>7 DEF NullTable
<1>8. CASE Failed(t)
  BY <1>8 DEF Failed, Gives
<1> QED
  BY <1>1, <1>2, <1>3, <1>4, <1>5, <1>6, <1>7, <1>8 DEF Step

LEMMA FdStep ==
  ASSUME FdInv, NEW t \in Threads, Step(t), ~ Die
  PROVE  Typed' /\ Descriptors(t)' /\ \A u \in Threads \ {t} : Apart(u)
<1>1. CASE Gives(t)
  BY <1>1, GiveUpLeaks DEF Gives
<1>2. CASE SetsUp(t)
  <2>1. DOMAIN home = Threads
    BY DEF FdInv, Typed
  <2> QED
    BY <1>2, <2>1, Setting DEF SetsUp
<1>3. CASE WriteScript(t)
  <2>1. Typed /\ k[t] \in Nat /\ k' = [k EXCEPT ![t] = k[t]]
    BY <1>3 DEF FdInv, Typed, WriteScript
  <2>2. pc[t] \in Writing /\ "close" \in Writing /\ Goto(t, "close") /\ UNCHANGED <<db, home, ret, fds, out>>
    BY <1>3 DEF WriteScript, Writing
  <2>3. SameStreams(out, out', t)
    BY <1>3, WritesKeepStreams DEF Writes
  <2> QED
    BY <2>1, <2>2, <2>3, WritingOn
<1> QED
  BY <1>1, <1>2, <1>3, StepCases, OpenListFd, WriteFeaturesFd, FileFailsFd, WriteTimesFd, WritePowerFd,
     WriteReferencesFd, CloseListsFd, BackFd

LEMMA ApartDescriptors ==
  ASSUME NEW u, Apart(u), Descriptors(u), UNCHANGED db
  PROVE  Descriptors(u)'
<1>1. Lists(u)' = Lists(u)
  BY DEF Lists
<1>2. Streams(u)' = Streams(u)
  BY <1>1 DEF Streams, Apart
<1> QED
  BY <1>1, <1>2 DEF Apart, Descriptors

LEMMA DbFixed == ASSUME [Next]_vars PROVE UNCHANGED db
  BY DEF Next, vars, Step, SystemFails, GiveUp, ReadTables, Mkdir, Getcwd, Chdir, OpenList, WriteFeatures,
         NullTable, Die, FileFails, Failed, WriteTimes, WritePower, WriteReferences, WriteScript,
         CloseLists, Back, Crash

LEMMA FdNext == FdInv /\ [Next]_vars => FdInv'
<1> SUFFICES ASSUME FdInv, [Next]_vars PROVE FdInv'
  OBVIOUS
<1>1. CASE UNCHANGED vars
  <2>1. Typed'
    BY <1>1 DEF FdInv, Typed, vars
  <2>2. ASSUME NEW u \in Threads PROVE Descriptors(u)'
    <3>1. Apart(u) /\ Descriptors(u)
      BY <1>1 DEF FdInv, Apart, vars, Mine
    <3> QED
      BY <1>1, <3>1, ApartDescriptors DEF vars
  <2> QED
    BY <2>1, <2>2 DEF FdInv
<1>2. CASE Die
  BY <1>2, DieFd
<1>3. CASE \E t \in Threads : Step(t) /\ ~ Die
  <2>1. PICK t \in Threads : Step(t) /\ ~ Die
    BY <1>3
  <2>2. Typed' /\ Descriptors(t)' /\ \A u \in Threads \ {t} : Apart(u)
    BY <2>1, FdStep
  <2>3. ASSUME NEW u \in Threads PROVE Descriptors(u)'
    <3>1. CASE u = t
      BY <2>2, <3>1
    <3>2. CASE u # t
      BY <2>2, <3>2, DbFixed, ApartDescriptors DEF FdInv
    <3> QED
      BY <3>1, <3>2
  <2> QED
    BY <2>2, <2>3 DEF FdInv
<1> QED
  BY <1>1, <1>2, <1>3 DEF Next, Crash

LEMMA FdInitially == Init => FdInv
  BY DEF Init, FdInv, Typed, Descriptors, Mine, Labels, Early, Writing

LEMMA FewOpen == FdInv => LeaksLittle
<1> SUFFICES ASSUME FdInv, NEW t \in Threads, pc[t] = "returned"
             PROVE  /\ ret[t] = 0 => Mine(t) = {}
                    /\ Cardinality(Mine(t)) <= 1
                    /\ \A f \in Mine(t) : f[2] \in {"data", "timesList"}
  BY DEF LeaksLittle, Mine
<1>1. /\ ret[t] = 0 => Mine(t) = {}
      /\ \A f, g \in Mine(t) : f = g
      /\ \A f \in Mine(t) : f[2] \in {"data", "timesList"}
  BY DEF FdInv, Descriptors
<1>2. Cardinality(Mine(t)) <= 1
  <2>1. CASE Mine(t) = {}
    BY <2>1, FS_EmptySet
  <2>2. CASE Mine(t) # {}
    <3>1. PICK f : Mine(t) = {f}
      BY <1>1, <2>2
    <3>2. Cardinality({f}) = 1
      BY FS_Singleton
    <3> QED
      BY <3>1, <3>2
  <2> QED
    BY <2>1, <2>2
<1> QED
  BY <1>1, <1>2

(* A dump that succeeds leaves nothing open, and one that fails at most one *)
(* descriptor, whatever fails and however threads and directories collide   *)
(* (dump.cpp:247-272).                                                      *)
THEOREM LittleLeaks == Spec => []LeaksLittle
<1> QED
  BY FdInitially, FdNext, FewOpen, PTL DEF Spec

-----------------------------------------------------------------------------
(* The working directory.  Without overlap one thread at most is between    *)
(* its first step and its return; it has changed the directory, to the one  *)
(* it made, exactly when its error path will change it back.                *)
Alone    == \A t, u \in Threads : Busy(t) /\ Busy(u) => t = u
AtHome   == \A t \in Threads : home[t] = <<>>
Where(t) == Busy(t) => cwd = IF Changed(t) THEN Dumped(t) ELSE <<>>

Whereabouts == Undisturbed => Alone /\ AtHome /\ (\A t \in Threads : Where(t)) /\ CwdRestored

LEMMA FaultsStay == ASSUME [Next]_vars PROVE faults \subseteq faults'
  BY DEF Next, vars, Step, SystemFails, GiveUp, ReadTables, Mkdir, Getcwd, Chdir, OpenList, WriteFeatures,
         NullTable, Die, FileFails, Failed, WriteTimes, WritePower, WriteReferences, WriteScript,
         CloseLists, Back, Crash

(* A thread that is busy and stays so is the only one.                      *)
LEMMA OnlyOne ==
  ASSUME Alone, NEW t \in Threads, Busy(t), \A u \in Threads \ {t} : Apart(u)
  PROVE  Alone' /\ \A u \in Threads \ {t} : ~ Busy(u) /\ ~ Busy(u)'
  BY DEF Alone, Apart, Busy

LEMMA GivesWhere ==
  ASSUME FdInv, Whereabouts, Undisturbed, NEW t \in Threads, Gives(t)
  PROVE  Whereabouts'
<1>1. Typed /\ Alone /\ AtHome /\ (\A u \in Threads : Where(u)) /\ CwdRestored
  BY DEF FdInv, Whereabouts
<1>2. pc' = [pc EXCEPT ![t] = "returned"] /\ cwd' = CwdAfter(t) /\ UNCHANGED <<home, faults>>
  BY DEF Gives, GiveUp, Goto
<1>3. pc'[t] = "returned" /\ \A u \in Threads \ {t} : pc'[u] = pc[u]
  BY <1>1, <1>2 DEF Typed
<1>4. AtHome'
  BY <1>1, <1>2 DEF AtHome
<1>5. CASE pc[t] = "read"
  <2>1. cwd' = cwd
    BY <1>2, <1>5 DEF CwdAfter, Changed
  <2>2. \A u \in Threads : Busy(u)' <=> Busy(u)
    BY <1>3, <1>5 DEF Busy
  <2>3. Alone'
    BY <1>1, <2>2 DEF Alone
  <2>4. \A u \in Threads : Where(u)'
    BY <1>1, <1>2, <1>3, <2>1, <2>2 DEF Where, Changed, Dumped, Busy
  <2>5. CwdRestored'
    BY <1>1, <1>2, <1>3, <1>5, <2>1, <2>2 DEF CwdRestored, Undisturbed
  <2> QED
    BY <1>4, <2>3, <2>4, <2>5 DEF Whereabouts
<1>6. CASE pc[t] # "read"
  <2>1. Busy(t)
    BY <1>6 DEF Gives, Busy, Early, Writing
  <2>2. cwd' = <<>>
    BY <1>1, <1>2, <2>1 DEF CwdAfter, AtHome, Where
  <2>3. \A u \in Threads : ~ Busy(u)'
    BY <1>1, <1>3, <2>1 DEF Alone, Busy
  <2> QED
    BY <1>4, <2>2, <2>3 DEF Whereabouts, Alone, Where, CwdRestored
<1> QED
  BY <1>5, <1>6

(* The steps by where they begin and end.                                   *)
Inside(t) ==
  /\ pc[t] \in Writing \cup {"lists"} /\ UNCHANGED <<cwd, home>>
  /\ \E l \in Writing \cup {"lists", "failed", "back"} : Goto(t, l)

LEMMA NextTrackGoes == ASSUME NEW t, NextTrack(t) PROVE \E l \in Writing : Goto(t, l)
  BY DEF NextTrack, Writing

LEMMA OnTheWay ==
  ASSUME NEW t, Step(t), ~ Die, ~ Gives(t)
  PROVE  \/ ReadTables(t) \/ Mkdir(t) \/ Getcwd(t) \/ Chdir(t) \/ OpenList(t)
         \/ WriteFeatures(t) \/ FileFails(t) \/ WriteTimes(t) \/ WritePower(t) \/ WriteReferences(t)
         \/ WriteScript(t) \/ CloseLists(t) \/ Back(t)
<1>1. ~ SystemFails(t)
  BY DEF SystemFails, Gives, Early, Writing
<1>2. ~ Failed(t) /\ ~ NullTable(t)
  BY DEF Failed, Gives, NullTable
<1> QED
  BY <1>1, <1>2 DEF Step

LEMMA StepKinds ==
  ASSUME FdInv, NEW t \in Threads, Step(t), ~ Die
  PROVE  \/ Gives(t) \/ ReadTables(t) \/ Getcwd(t) \/ Inside(t) \/ Back(t)
         \/ Mkdir(t) /\ ~ Gives(t)
         \/ Chdir(t) /\ ~ Gives(t)
<1>1. CASE OpenList(t) /\ ~ Gives(t)
  <2>1. Goto(t, Loop(t)) \/ Goto(t, "lists")
    BY <1>1 DEF OpenList, Gives
  <2>2. Loop(t) \in Writing
    BY DEF Loop, Writing
  <2> QED
    BY <1>1, <2>1, <2>2 DEF OpenList, Gives, Inside
<1>2. CASE WriteFeatures(t)
  BY <1>2, NextTrackGoes DEF WriteFeatures, Inside, Writing
<1>3. CASE WriteTimes(t)
  BY <1>3, NextTrackGoes DEF WriteTimes, Inside, Writing
<1>4. CASE WritePower(t)
  BY <1>4, NextTrackGoes DEF WritePower, Inside, Writing
<1>5. CASE WriteReferences(t)
  BY <1>5, NextTrackGoes DEF WriteReferences, Inside, Writing
<1>6. CASE FileFails(t)
  BY <1>6 DEF FileFails, Inside, Writing
<1>7. CASE WriteScript(t) \/ CloseLists(t)
  BY <1>7 DEF WriteScript, CloseLists, Inside, Writing
<1> QED
  BY <1>1, <1>2, <1>3, <1>4, <1>5, <1>6, <1>7, OnTheWay

(* Steps between, in the directory.                                         *)
LEMMA InsideWhere ==
  ASSUME FdInv, Whereabouts, Undisturbed, NEW t \in Threads, \A u \in Threads \ {t} : Apart(u),
         Busy(t), Busy(t)', Changed(t)' <=> Changed(t), UNCHANGED cwd, AtHome'
  PROVE  Whereabouts'
<1>1. Alone /\ AtHome /\ (\A u \in Threads : Where(u))
  BY DEF Whereabouts
<1>2. Alone' /\ \A u \in Threads \ {t} : ~ Busy(u)'
  BY <1>1, OnlyOne
<1>3. Where(t)'
  BY <1>1 DEF AtHome, Where, Dumped
<1>4. CwdRestored'
  BY DEF CwdRestored
<1> QED
  BY <1>2, <1>3, <1>4 DEF Whereabouts, Where

LEMMA StepWhere ==
  ASSUME FdInv, Whereabouts, Undisturbed', NEW t \in Threads, Step(t), ~ Die, pc[t] # "dead"
  PROVE  Whereabouts'
<1>1. Undisturbed
  <2>1. faults \subseteq faults'
    BY FaultsStay DEF Next
  <2> QED
    BY <2>1 DEF Undisturbed
<1>2. Typed /\ Alone /\ AtHome /\ (\A u \in Threads : Where(u)) /\ CwdRestored
  BY <1>1 DEF FdInv, Whereabouts
<1>3. \A u \in Threads \ {t} : Apart(u)
  BY FdStep
<1>4. CASE Gives(t)
  BY <1>1, <1>4, GivesWhere
<1>5. CASE ReadTables(t)
  <2>1. pc' = [pc EXCEPT ![t] = "mkdir"] /\ UNCHANGED <<cwd, home>> /\ pc[t] = "read"
    BY <1>5 DEF ReadTables, Goto
  <2>2. pc'[t] = "mkdir" /\ \A u \in Threads \ {t} : pc'[u] = pc[u]
    BY <1>2, <2>1 DEF Typed
  <2>3. \A u \in Threads \ {t} : ~ Busy(u)
    BY <1>5 DEF ReadTables, Undisturbed
  <2>4. \A u \in Threads : ~ Busy(u) /\ pc[u] # "dead"
    BY <1>2, <2>1, <2>3 DEF Busy, Typed
  <2>5. cwd' = <<>>
    BY <1>1, <1>2, <2>1, <2>4 DEF CwdRestored
  <2>6. \A u \in Threads \ {t} : ~ Busy(u)'
    BY <2>2, <2>3 DEF Busy
  <2>7. Busy(t)' /\ ~ Changed(t)'
    BY <2>2 DEF Busy, Changed
  <2>8. Alone' /\ AtHome' /\ CwdRestored'
    BY <1>2, <2>1, <2>6, <2>7 DEF Alone, AtHome, CwdRestored
  <2>9. \A u \in Threads : Where(u)'
    BY <2>5, <2>6, <2>7 DEF Where
  <2> QED
    BY <2>8, <2>9 DEF Whereabouts
<1>6. CASE Mkdir(t) /\ ~ Gives(t)
  <2>1. pc' = [pc EXCEPT ![t] = "getcwd"] /\ UNCHANGED <<cwd, home>> /\ pc[t] = "mkdir"
    BY <1>6 DEF Mkdir, Goto, Gives, Early
  <2>2. Busy(t) /\ Busy(t)' /\ ~ Changed(t) /\ ~ Changed(t)' /\ AtHome'
    BY <1>2, <2>1 DEF Typed, Busy, Changed, AtHome
  <2> QED
    BY <1>1, <1>3, <2>1, <2>2, InsideWhere
<1>7. CASE Getcwd(t)
  <2>1. /\ pc' = [pc EXCEPT ![t] = "chdir"] /\ home' = [home EXCEPT ![t] = cwd] /\ UNCHANGED cwd
        /\ pc[t] = "getcwd"
    BY <1>7 DEF Getcwd, Goto
  <2>2. Busy(t) /\ Busy(t)' /\ ~ Changed(t) /\ ~ Changed(t)'
    BY <1>2, <2>1 DEF Typed, Busy, Changed
  <2>3. cwd = <<>>
    BY <1>2, <2>2 DEF Where
  <2>4. AtHome'
    BY <1>2, <2>1, <2>3 DEF AtHome, Typed
  <2> QED
    BY <1>1, <1>3, <2>1, <2>2, <2>4, InsideWhere
<1>8. CASE Chdir(t) /\ ~ Gives(t)
  <2>1. pc' = [pc EXCEPT ![t] = "lists"] /\ cwd' = Target(t) /\ UNCHANGED home /\ pc[t] = "chdir"
    BY <1>8 DEF Chdir, Goto, Gives, Early
  <2>2. Busy(t) /\ Busy(t)' /\ ~ Changed(t) /\ Changed(t)'
    BY <1>2, <2>1 DEF Typed, Busy, Changed
  <2>3. cwd = <<>> /\ home'[t] = <<>>
    BY <1>2, <2>1, <2>2 DEF Where, AtHome
  <2>4. cwd' = Dumped(t)'
    BY <2>1, <2>3 DEF Target, Dumped
  <2>5. Alone' /\ \A u \in Threads \ {t} : ~ Busy(u)'
    BY <1>2, <1>3, <2>2, OnlyOne
  <2>6. AtHome' /\ CwdRestored'
    BY <1>2, <2>1, <2>2 DEF AtHome, CwdRestored
  <2>7. \A u \in Threads : Where(u)'
    BY <2>2, <2>4, <2>5 DEF Where
  <2> QED
    BY <2>5, <2>6, <2>7 DEF Whereabouts
<1>9. CASE Back(t)
  <2>1. pc' = [pc EXCEPT ![t] = "returned"] /\ cwd' = CwdAfter(t) /\ UNCHANGED home /\ pc[t] = "back"
    BY <1>9 DEF Back, Goto
  <2>2. Busy(t) /\ ~ Busy(t)'
    BY <1>2, <2>1 DEF Typed, Busy
  <2>3. cwd' = <<>>
    BY <1>2, <2>1, <2>2 DEF CwdAfter, AtHome, Where
  <2>4. Alone' /\ \A u \in Threads : ~ Busy(u)'
    BY <1>2, <1>3, <2>2, OnlyOne
  <2> QED
    BY <1>2, <2>1, <2>3, <2>4 DEF Whereabouts, Where, CwdRestored, AtHome
<1>10. CASE Inside(t)
  <2>1. Busy(t) /\ Busy(t)' /\ Changed(t) /\ Changed(t)' /\ AtHome'
    BY <1>2, <1>10 DEF Inside, Typed, Busy, Changed, Goto, Writing, AtHome
  <2> QED
    BY <1>1, <1>3, <1>10, <2>1, InsideWhere DEF Inside
<1> QED
  BY <1>4, <1>5, <1>6, <1>7, <1>8, <1>9, <1>10, StepKinds

LEMMA WhereNext == FdInv /\ Whereabouts /\ [Next]_vars => Whereabouts'
<1> SUFFICES ASSUME FdInv, Whereabouts, [Next]_vars, Undisturbed' PROVE Whereabouts'
  BY DEF Whereabouts
<1>1. Undisturbed
  BY FaultsStay DEF Undisturbed
<1>2. Alone /\ AtHome /\ (\A u \in Threads : Where(u)) /\ CwdRestored
  BY <1>1 DEF Whereabouts
<1>3. CASE UNCHANGED vars
  BY <1>2, <1>3 DEF vars, Whereabouts, Alone, AtHome, Where, CwdRestored, Undisturbed, Busy, Changed, Dumped
<1>4. CASE Die
  <2>1. (\A t \in Threads : pc'[t] = "dead") /\ UNCHANGED home
    BY <1>4 DEF Die
  <2>2. PICK t \in Threads : pc'[t] = "dead"
    BY <1>4, <2>1 DEF Die
  <2> QED
    BY <1>2, <2>1, <2>2 DEF Whereabouts, Alone, AtHome, Where, CwdRestored, Busy
<1>5. CASE \E t \in Threads : pc[t] # "dead" /\ Step(t) /\ ~ Die
  BY <1>5, StepWhere
<1> QED
  BY <1>3, <1>4, <1>5 DEF Next, Crash

LEMMA WhereInitially == Init => Whereabouts
  BY DEF Init, Whereabouts, Alone, AtHome, Where, CwdRestored, Busy

(* Dumps one after another leave the working directory of their process as *)
(* it was, those that fail before chdir and after it too (dump.cpp:239-243, *)
(* 279-282).                                                                *)
THEOREM DirectoryRestored == Spec => []CwdRestored
<1>1. Whereabouts => CwdRestored
  BY DEF Whereabouts, CwdRestored
<1> QED
  BY <1>1, FdInitially, FdNext, WhereInitially, WhereNext, PTL DEF Spec

-----------------------------------------------------------------------------
(* The directories.  Without overlap each dump works in the one it made,    *)
(* and no two that matter made the same.                                    *)
Dir(t) == Append(<<>>, Output[t])

Owns(t) == (Busy(t) /\ pc[t] # "mkdir") \/ ret[t] = 0

Places ==
  /\ \A t \in Threads : Owns(t) => Dir(t) \in DOMAIN dirs
  /\ \A t, u \in Threads : Owns(t) /\ Owns(u) /\ t # u => Dir(t) # Dir(u)
  /\ \A t \in Threads : pc[t] = "lists" => \A f \in Mine(t) : f[3] = Dir(t)
  /\ \A t \in Threads : \A l \in DOMAIN out[t] : out[t][l].dir = Dir(t)

InPlace == Undisturbed => Places

(* From a to b a directory stays as it is, or a file is put into it.        *)
Alike(a, b) == DOMAIN b = DOMAIN a /\ \A f \in DOMAIN a : b[f] = a[f]

Adds(a, b, f, content) ==
  /\ DOMAIN b = DOMAIN a \cup {f} /\ b[f] = content
  /\ \A g \in DOMAIN a \ {f} : b[g] = a[g]

LEMMA PutIs ==
  ASSUME NEW path, NEW f, NEW content, dirs' = Put(path, f, content)
  PROVE  /\ DOMAIN dirs' = DOMAIN dirs
         /\ \A p \in DOMAIN dirs : p # path => Alike(dirs[p], dirs'[p])
         /\ path \in DOMAIN dirs => Adds(dirs[path], dirs'[path], f, content)
  BY DEF Put, Alike, Adds

LEMMA FlushIs ==
  ASSUME NEW t, NEW n, dirs' = Flushed(t, n), NEW path,
         \A l \in DOMAIN out[t] : out[t][l].dir = path
  PROVE  /\ DOMAIN dirs' = DOMAIN dirs
         /\ \A p \in DOMAIN dirs : p # path => Alike(dirs[p], dirs'[p])
         /\ path \in DOMAIN dirs =>
              /\ DOMAIN dirs'[path] = DOMAIN dirs[path]
              /\ \A f \in DOMAIN dirs[path] :
                   dirs'[path][f] =
                     IF f[2] = 0 /\ f[1] \in DOMAIN out[t]
                     THEN SubSeq(out[t][f[1]].lines, 1, Min({n, Whole(t, f[1])})) ELSE dirs[path][f]
  BY DEF Flushed, Alike

(* What a step of t does to directories.                                    *)
Frame(t) == \A p \in DOMAIN dirs : p \in DOMAIN dirs' /\ (p # Dir(t) => Alike(dirs[p], dirs'[p]))

LEMMA PutFrames ==
  ASSUME NEW t, NEW f, NEW content, cwd = Dir(t), dirs' = Put(cwd, f, content)
  PROVE  Frame(t)
  BY PutIs DEF Frame

LEMMA StepFrames ==
  ASSUME FdInv, Whereabouts, Places, Undisturbed, NEW t \in Threads, Step(t), ~ Die
  PROVE  Frame(t)
<1>1. Typed /\ AtHome /\ Where(t)
  BY DEF FdInv, Whereabouts
<1>2. \A l \in DOMAIN out[t] : out[t][l].dir = Dir(t)
  BY DEF Places
<1>3. CASE \E n : dirs' = Flushed(t, n)
  BY <1>2, <1>3, FlushIs DEF Frame
<1>4. CASE UNCHANGED dirs
  BY <1>4 DEF Frame, Alike
<1>5. CASE Gives(t)
  BY <1>3, <1>5 DEF Gives, GiveUp
<1>6. CASE Mkdir(t) /\ ~ Gives(t)
  BY <1>6 DEF Mkdir, Gives, Frame, Alike, Early
<1>7. CASE CloseLists(t)
  BY <1>3, <1>7 DEF CloseLists
<1>8. CASE ReadTables(t) \/ Getcwd(t) \/ Back(t)
  BY <1>4, <1>8 DEF ReadTables, Getcwd, Back
<1>9. CASE Chdir(t) /\ ~ Gives(t)
  BY <1>4, <1>9 DEF Chdir, Gives, Early
<1>10. CASE Writes(t) \/ (OpenList(t) /\ ~ Gives(t))
  <2>1. pc[t] \in Writing \cup {"lists"}
    BY <1>10 DEF Writes, WriteFeatures, FileFails, WriteTimes, WritePower, WriteReferences, WriteScript,
                 OpenList, Writing
  <2>2. cwd = Dir(t)
    BY <1>1, <2>1 DEF Where, Busy, Changed, Writing, Dumped, AtHome, Dir
  <2>3. UNCHANGED dirs \/ \E f, content : dirs' = Put(cwd, f, content)
    BY <1>10, <2>1 DEF Writes, WriteFeatures, FileFails, WriteTimes, WritePower, WriteReferences, WriteScript,
                 OpenList, Gives
  <2> QED
    BY <1>4, <2>2, <2>3, PutFrames
<1> QED
  BY <1>5, <1>6, <1>7, <1>8, <1>9, <1>10, OnTheWay DEF Writes

(* A step of t by which t owns no more, and places nothing.                 *)
LEMMA PlacesStay ==
  ASSUME Places, NEW t \in Threads, Frame(t), \A u \in Threads \ {t} : Apart(u), Owns(t)' => Owns(t),
         pc'[t] = "lists" => \A f \in Mine(t)' : f[3] = Dir(t),
         \A l \in DOMAIN out'[t] : out'[t][l].dir = Dir(t)
  PROVE  Places'
<1>1. \A u \in Threads : Owns(u)' => Owns(u)
  BY DEF Owns, Apart, Busy
<1>2. \A u \in Threads : Owns(u)' => Dir(u) \in DOMAIN dirs'
  BY <1>1 DEF Places, Frame
<1>3. \A u, v \in Threads : Owns(u)' /\ Owns(v)' /\ u # v => Dir(u) # Dir(v)
  BY <1>1 DEF Places
<1>4. \A u \in Threads : pc'[u] = "lists" => \A f \in Mine(u)' : f[3] = Dir(u)
  BY DEF Places, Apart
<1>5. \A u \in Threads : \A l \in DOMAIN out'[u] : out'[u][l].dir = Dir(u)
  BY DEF Places, Apart
<1> QED
  BY <1>2, <1>3, <1>4, <1>5 DEF Places, Dir

LEMMA StepPlaces ==
  ASSUME FdInv, Whereabouts, Places, Undisturbed, NEW t \in Threads, Step(t), ~ Die
  PROVE  Places'
<1>1. Typed /\ Descriptors(t) /\ AtHome /\ Where(t)
  BY DEF FdInv, Whereabouts
<1>2. Frame(t) /\ (\A u \in Threads \ {t} : Apart(u)) /\ Typed' /\ Descriptors(t)'
  BY StepFrames, FdStep
<1>3. CASE Gives(t)
  <2>1. pc'[t] = "returned" /\ ret'[t] = 1 /\ out'[t] = <<>>
    BY <1>1, <1>3 DEF Gives, GiveUp, Goto, Typed
  <2>2. ~ Owns(t)'
    BY <2>1 DEF Owns, Busy
  <2> QED
    BY <1>2, <2>1, <2>2, PlacesStay
<1>4. CASE ReadTables(t)
  <2>1. pc'[t] = "mkdir" /\ UNCHANGED <<ret, out>>
    BY <1>1, <1>4 DEF ReadTables, Goto, Typed
  <2>2. Owns(t)' => Owns(t)
    BY <2>1 DEF Owns
  <2> QED
    BY <1>2, <2>1, <2>2, PlacesStay DEF Places
<1>5. CASE Mkdir(t) /\ ~ Gives(t)
  <2>1. /\ Target(t) \notin DOMAIN dirs /\ DOMAIN dirs' = DOMAIN dirs \cup {Target(t)}
        /\ pc[t] = "mkdir" /\ pc'[t] = "getcwd" /\ UNCHANGED <<out, ret>>
    BY <1>1, <1>5 DEF Mkdir, Gives, Early, Goto, Typed
  <2>2. Target(t) = Dir(t)
    BY <1>1, <2>1 DEF Target, Dir, Where, Busy, Changed
  <2>3. \A u \in Threads \ {t} : Owns(u)' => Owns(u)
    BY <1>2 DEF Owns, Apart, Busy
  <2>4. \A u \in Threads : Owns(u)' => Dir(u) \in DOMAIN dirs'
    BY <2>1, <2>2, <2>3 DEF Places
  <2>5. \A u \in Threads \ {t} : Owns(u)' => Dir(u) # Dir(t)
    BY <2>1, <2>2, <2>3 DEF Places
  <2>6. \A u, v \in Threads : Owns(u)' /\ Owns(v)' /\ u # v => Dir(u) # Dir(v)
    BY <2>3, <2>5 DEF Places
  <2>7. \A u \in Threads : pc'[u] = "lists" => \A f \in Mine(u)' : f[3] = Dir(u)
    BY <1>2, <2>1 DEF Places, Apart
  <2>8. \A u \in Threads : \A l \in DOMAIN out'[u] : out'[u][l].dir = Dir(u)
    BY <2>1 DEF Places
  <2> QED
    BY <2>4, <2>6, <2>7, <2>8 DEF Places, Dir
<1>6. CASE Getcwd(t) \/ (Chdir(t) /\ ~ Gives(t))
  <2>1. pc[t] \in {"getcwd", "chdir"} /\ UNCHANGED <<out, fds>>
    BY <1>6 DEF Getcwd, Chdir, Gives, Early
  <2>2. Owns(t) /\ Mine(t)' = {}
    BY <1>1, <2>1 DEF Owns, Busy, Descriptors, Mine, Early
  <2> QED
    BY <1>2, <2>1, <2>2, PlacesStay DEF Places
<1>7. CASE OpenList(t) /\ ~ Gives(t)
  <2>1. PICK list, last : list = Lists(t)[k[t] + 1] /\ last = (k[t] + 1 = Len(Lists(t)))
    OBVIOUS
  <2>2. /\ pc[t] = "lists" /\ fds' = fds \cup {<<t, list, cwd>>}
        /\ last => /\ Goto(t, Loop(t))
                   /\ out' = [out EXCEPT ![t] =
                                [l \in Range(Lists(t)) |->
                                   [dir |-> (CHOOSE f \in fds' : f[1] = t /\ f[2] = l)[3],
                                    lines |-> <<>>]]]
        /\ ~ last => out' = out
    BY <1>7, <2>1 DEF OpenList, Gives
  <2>3. cwd = Dir(t) /\ Owns(t)
    BY <1>1, <2>2 DEF Where, Busy, Changed, Dumped, AtHome, Dir, Owns
  <2>4. \A f \in Mine(t)' : f[3] = Dir(t)
    BY <2>2, <2>3 DEF Places, Mine
  <2>5. \A l \in DOMAIN out'[t] : out'[t][l].dir = Dir(t)
    <3>1. CASE last
      <4>1. \A l \in Range(Lists(t)) : \E f \in fds' : f[1] = t /\ f[2] = l
        <5>1. ASSUME NEW i \in 1 .. Len(Lists(t)) PROVE \E f \in fds' : f[1] = t /\ f[2] = Lists(t)[i]
          <6>1. CASE i = k[t] + 1
            <7>1. <<t, list, cwd>> \in fds' /\ <<t, list, cwd>>[1] = t /\ <<t, list, cwd>>[2] = list
              BY <2>2
            <7> QED
              BY <2>1, <6>1, <7>1
          <6>2. CASE i # k[t] + 1
            <7>1. k[t] \in Nat /\ k[t] + 1 = Len(Lists(t))
              BY <1>1, <2>1, <3>1 DEF Typed
            <7>2. i \in 1 .. k[t]
              BY <6>2, <7>1
            <7>3. \E f \in Mine(t) : f[2] = Lists(t)[i]
              BY <1>1, <2>2, <7>2 DEF Descriptors
            <7> QED
              BY <2>2, <7>3 DEF Mine
          <6> QED
            BY <6>1, <6>2
        <5> QED
          BY <5>1, ListsThen
      <4>2. \A l \in Range(Lists(t)) : (CHOOSE f \in fds' : f[1] = t /\ f[2] = l)[3] = Dir(t)
        BY <2>4, <4>1 DEF Mine
      <4>3. \A l \in Range(Lists(t)) : out'[t][l].dir = (CHOOSE f \in fds' : f[1] = t /\ f[2] = l)[3]
        BY <1>1, <2>2, <3>1 DEF Typed
      <4>4. DOMAIN out'[t] = Range(Lists(t))
        BY <1>1, <2>2, <3>1 DEF Typed
      <4> QED
        BY <4>2, <4>3, <4>4
    <3>2. CASE ~ last
      BY <2>2, <3>2 DEF Places
    <3> QED
      BY <3>1, <3>2
  <2> QED
    BY <1>2, <2>3, <2>4, <2>5, PlacesStay
<1>8. CASE Writes(t)
  <2>1. SameStreams(out, out', t)
    BY <1>8, WritesKeepStreams
  <2>2. pc[t] \in Writing /\ \E l \in Writing \cup {"failed"} : Goto(t, l)
    BY <1>8, NextTrackGoes DEF Writes, WriteFeatures, FileFails, WriteTimes, WritePower, WriteReferences,
                               WriteScript, Writing
  <2>3. Owns(t) /\ pc'[t] # "lists"
    BY <1>1, <2>2 DEF Owns, Busy, Writing, Goto, Typed
  <2>4. \A l \in DOMAIN out'[t] : out'[t][l].dir = Dir(t)
    <3>1. \A l \in DOMAIN out[t] : "dir" \in DOMAIN out[t][l]
      BY <1>1, <2>2 DEF Descriptors, Streams
    <3>2. DOMAIN out'[t] = DOMAIN out[t] /\ \A l \in DOMAIN out[t] : out'[t][l].dir = out[t][l].dir
      BY <2>1, <3>1 DEF SameStreams, SameStream
    <3> QED
      BY <3>2 DEF Places
  <2> QED
    BY <1>2, <2>3, <2>4, PlacesStay
<1>9. CASE CloseLists(t) \/ Back(t)
  <2>1. pc[t] \in {"close", "back"} /\ pc'[t] \in {"back", "returned"}
    BY <1>1, <1>9 DEF CloseLists, Back, Goto, Typed
  <2>2. Owns(t) /\ out'[t] = <<>>
    BY <1>2, <2>1 DEF Owns, Busy, Descriptors
  <2> QED
    BY <1>2, <2>1, <2>2, PlacesStay
<1> QED
  BY <1>3, <1>4, <1>5, <1>6, <1>7, <1>8, <1>9, OnTheWay DEF Writes

LEMMA PlaceNext == FdInv /\ Whereabouts /\ InPlace /\ [Next]_vars => InPlace'
<1> SUFFICES ASSUME FdInv, Whereabouts, Places, Undisturbed, [Next]_vars PROVE Places'
  BY FaultsStay DEF InPlace, Undisturbed
<1>1. CASE UNCHANGED vars
  BY <1>1 DEF vars, Places, Owns, Busy, Mine, Dir
<1>2. CASE Die
  <2>1. /\ \A u \in Threads : pc'[u] = "dead" /\ out'[u] = <<>>
        /\ UNCHANGED ret /\ DOMAIN dirs' = DOMAIN dirs
    BY <1>2 DEF Die, Flushed
  <2>2. \A u \in Threads : Owns(u)' => Owns(u)
    BY <2>1 DEF Owns, Busy
  <2> QED
    BY <2>1, <2>2 DEF Places, Dir
<1>3. CASE \E t \in Threads : Step(t) /\ ~ Die
  BY <1>3, StepPlaces
<1> QED
  BY <1>1, <1>2, <1>3 DEF Next, Crash

LEMMA PlaceInitially == Init => InPlace
  BY DEF Init, InPlace, Places, Owns, Busy

-----------------------------------------------------------------------------
(* The contents of directories.  The i-th line of a list of files names the *)
(* file of the i-th track; what is done of a list and its files follows     *)
(* from where in the loop the thread is.                                    *)
Plain(d) == ~ d.references /\ ~ NoTables(d)

AllLists == {"featureList", "timesList", "powerList", "keyList"}

LineFor(d, l, i) ==
  CASE l = "featureList" -> Name("features", i)
    [] l = "timesList"   -> Name("times", i)
    [] l = "powerList"   -> Name("power", i)
    [] OTHER             -> d.tracks[i].key

FileFor(track, l) ==
  CASE l = "featureList" -> [n |-> track.n, data |-> track.data]
    [] l = "timesList"   -> TimesLines(track.times)
    [] OTHER             -> [n |-> track.n, data |-> track.power]

LineSet(d) == {LineFor(d, l, i) : l \in AllLists, i \in 1 .. Len(d.tracks)}

LinesAre(s, d, l, n) ==
  s \in Seq(LineSet(d)) /\ Len(s) = n /\ \A i \in 1 .. n : s[i] = LineFor(d, l, i)

FilesIn(D, d, l, n) ==
  l # "keyList" => \A i \in 1 .. n : /\ LineFor(d, l, i) \in DOMAIN D
                                     /\ D[LineFor(d, l, i)] = FileFor(d.tracks[i], l)

(* Of a list n lines, and n of its files.                                   *)
Row(D, s, d, l, n) == Name(l, 0) \in DOMAIN D /\ LinesAre(s, d, l, n) /\ FilesIn(D, d, l, n)

ScriptIn(D, d) == Name("restore", 0) \in DOMAIN D /\ D[Name("restore", 0)] = Script(d)

CompleteIn(D, d) ==
  ScriptIn(D, d) /\ \A l \in Range(ListsOf(d)) : Row(D, D[Name(l, 0)], d, l, Len(d.tracks))

Done(t, l) ==
  IF \/ pc[t] = "power" /\ l # "powerList"
     \/ pc[t] = "times" /\ l \in {"keyList", "featureList"}
  THEN k[t] + 1 ELSE k[t]

Under(t) ==
  /\ k[t] \in 0 .. Len(db[t].tracks)
  /\ IF pc[t] \in {"script", "close"} THEN k[t] = Len(db[t].tracks) ELSE k[t] < Len(db[t].tracks)
  /\ pc[t] = "times" => db[t].times
  /\ pc[t] = "power" => db[t].power
  /\ \A l \in Range(Lists(t)) : Row(dirs[Dir(t)], out[t][l].lines, db[t], l, Done(t, l))
  /\ pc[t] = "close" => ScriptIn(dirs[Dir(t)], db[t])

Content(t) ==
  Plain(db[t]) =>
    /\ pc[t] = "lists" => \A i \in 1 .. k[t] : Name(Lists(t)[i], 0) \in DOMAIN dirs[Dir(t)]
    /\ pc[t] \in Writing => Under(t)
    /\ pc[t] = "back" \/ ret[t] = 0 => CompleteIn(dirs[Dir(t)], db[t])

Fine     == Undisturbed /\ "lost" \notin faults
Contents == Fine => \A t \in Threads : Content(t)

LEMMA AlikeRow ==
  ASSUME NEW D, NEW E, Alike(D, E), NEW s, NEW d, NEW l, NEW n, Row(D, s, d, l, n)
  PROVE  Row(E, s, d, l, n)
  BY DEF Alike, Row, FilesIn

LEMMA AlikeComplete ==
  ASSUME NEW D, NEW E, Alike(D, E), NEW d, CompleteIn(D, d)
  PROVE  CompleteIn(E, d)
<1>1. ScriptIn(E, d)
  BY DEF CompleteIn, ScriptIn, Alike
<1>2. ASSUME NEW l \in Range(ListsOf(d)) PROVE Row(E, E[Name(l, 0)], d, l, Len(d.tracks))
  <2>1. Row(D, D[Name(l, 0)], d, l, Len(d.tracks))
    BY DEF CompleteIn
  <2>2. E[Name(l, 0)] = D[Name(l, 0)]
    BY <2>1 DEF Row, Alike
  <2> QED
    BY <2>1, <2>2, AlikeRow
<1> QED
  BY <1>1, <1>2 DEF CompleteIn

(* A file beside those of the list.                                         *)
LEMMA RowKept ==
  ASSUME NEW D, NEW E, NEW f, NEW c, Adds(D, E, f, c),
         NEW s, NEW d, NEW l, NEW n, Row(D, s, d, l, n),
         l # "keyList" => \A i \in 1 .. n : f # LineFor(d, l, i)
  PROVE  Row(E, s, d, l, n)
<1>1. Name(l, 0) \in DOMAIN E
  BY DEF Adds, Row
<1>2. FilesIn(E, d, l, n)
  BY DEF Adds, Row, FilesIn
<1> QED
  BY <1>1, <1>2 DEF Row

(* One more line and, of a list of files, its file.                         *)
LEMMA RowMore ==
  ASSUME NEW D, NEW E, NEW f, NEW c, Adds(D, E, f, c),
         NEW s, NEW d, NEW l \in AllLists, NEW n \in Nat, Row(D, s, d, l, n),
         Len(d.tracks) \in Nat, n + 1 <= Len(d.tracks),
         l # "keyList" => f = LineFor(d, l, n + 1) /\ c = FileFor(d.tracks[n + 1], l)
  PROVE  Row(E, Append(s, LineFor(d, l, n + 1)), d, l, n + 1)
<1> DEFINE e == LineFor(d, l, n + 1)
           r == Append(s, e)
<1>1. s \in Seq(LineSet(d)) /\ Len(s) = n /\ \A i \in 1 .. n : s[i] = LineFor(d, l, i)
  BY DEF Row, LinesAre
<1>2. n + 1 \in 1 .. Len(d.tracks)
  OBVIOUS
<1>3. e \in LineSet(d)
  BY <1>2 DEF LineSet
<1>4. r \in Seq(LineSet(d)) /\ Len(r) = n + 1 /\ (\A i \in 1 .. n : r[i] = s[i]) /\ r[n + 1] = e
  BY <1>1, <1>3, AppendProperties
<1>5. LinesAre(r, d, l, n + 1)
  <2>1. \A i \in 1 .. n + 1 : i \in 1 .. n \/ i = n + 1
    OBVIOUS
  <2> QED
    BY <1>1, <1>4, <2>1 DEF LinesAre
<1>6. FilesIn(E, d, l, n + 1)
  <2>1. SUFFICES ASSUME l # "keyList", NEW i \in 1 .. n + 1
                 PROVE  LineFor(d, l, i) \in DOMAIN E /\ E[LineFor(d, l, i)] = FileFor(d.tracks[i], l)
    BY DEF FilesIn
  <2>2. CASE i = n + 1
    BY <2>1, <2>2 DEF Adds
  <2>3. CASE i # n + 1
    <3>1. i \in 1 .. n
      BY <2>3
    <3>2. LineFor(d, l, i) \in DOMAIN D /\ D[LineFor(d, l, i)] = FileFor(d.tracks[i], l)
      BY <2>1, <3>1 DEF Row, FilesIn
    <3>3. LineFor(d, l, i) # LineFor(d, l, n + 1)
      BY <2>1, <2>3 DEF LineFor, Name, AllLists
    <3> QED
      BY <2>1, <3>2, <3>3 DEF Adds
  <2> QED
    BY <2>2, <2>3
<1>7. Name(l, 0) \in DOMAIN E
  BY DEF Row, Adds
<1> QED
  BY <1>5, <1>6, <1>7 DEF Row

(* What a step of one thread leaves of another's.                           *)
LEMMA ContentKept ==
  ASSUME NEW u, Apart(u), UNCHANGED db, Alike(dirs[Dir(u)], dirs'[Dir(u)]), Content(u)
  PROVE  Content(u)'
<1>1. Lists(u)' = Lists(u) /\ \A l : Done(u, l)' = Done(u, l)
  BY DEF Lists, Apart, Done
<1>2. Under(u) => Under(u)'
  <2> SUFFICES ASSUME Under(u) PROVE Under(u)'
    OBVIOUS
  <2>1. ASSUME NEW l \in Range(Lists(u))
        PROVE  Row(dirs'[Dir(u)], out'[u][l].lines, db[u], l, Done(u, l))
    <3>1. Row(dirs[Dir(u)], out'[u][l].lines, db[u], l, Done(u, l))
      BY DEF Under, Apart
    <3> QED
      BY <3>1, AlikeRow
  <2>2. ScriptIn(dirs[Dir(u)], db[u]) => ScriptIn(dirs'[Dir(u)], db[u])
    BY DEF ScriptIn, Alike
  <2> QED
    BY <1>1, <2>1, <2>2 DEF Under, Apart, Dir
<1>3. CompleteIn(dirs[Dir(u)], db[u]) => CompleteIn(dirs'[Dir(u)], db[u])
  BY AlikeComplete
<1>4. DOMAIN dirs'[Dir(u)] = DOMAIN dirs[Dir(u)]
  BY DEF Alike
<1> QED
  BY <1>1, <1>2, <1>3, <1>4 DEF Content, Apart, Dir

LEMMA OthersAlike ==
  ASSUME FdInv, Whereabouts, Places, Undisturbed, NEW t \in Threads, Step(t), ~ Die, pc[t] # "dead",
         NEW u \in Threads \ {t}, Owns(u)
  PROVE  Alike(dirs[Dir(u)], dirs'[Dir(u)])
<1>1. Typed /\ Descriptors(t) /\ AtHome /\ Where(t) /\ Frame(t) /\ Dir(u) \in DOMAIN dirs
  BY StepFrames DEF FdInv, Whereabouts, Places
<1>2. CASE Dir(u) # Dir(t)
  BY <1>1, <1>2 DEF Frame
<1>3. CASE Dir(u) = Dir(t)
  <2>1. ~ Owns(t)
    BY <1>3 DEF Places
  <2>2. pc[t] \in {"read", "mkdir"}
    <3>1. pc[t] # "returned"
      BY DEF Step, SystemFails, ReadTables, Mkdir, Getcwd, Chdir, OpenList, WriteFeatures, NullTable,
             FileFails, Failed, WriteTimes, WritePower, WriteReferences, WriteScript, CloseLists, Back
    <3> QED
      BY <2>1, <3>1 DEF Owns, Busy
  <2>3. CASE Gives(t)
    <3>1. out[t] = <<>>
      BY <1>1, <2>2 DEF Descriptors, Early
    <3>2. dirs' = Flushed(t, Len(db[t].tracks))
      BY <2>3 DEF Gives, GiveUp
    <3> QED
      BY <1>1, <3>1, <3>2 DEF Flushed, Alike
  <2>4. CASE ReadTables(t)
    BY <2>4 DEF ReadTables, Alike
  <2>5. CASE Mkdir(t) /\ ~ Gives(t)
    <3>1. Target(t) \notin DOMAIN dirs /\ pc[t] = "mkdir"
      BY <2>5 DEF Mkdir, Gives, Early
    <3>2. Target(t) = Dir(t)
      BY <1>1, <3>1 DEF Target, Dir, Where, Busy, Changed
    <3> QED
      BY <1>1, <1>3, <3>1, <3>2
  <2> QED
    BY <2>2, <2>3, <2>4, <2>5, OnTheWay DEF Getcwd, Chdir, OpenList, WriteFeatures, FileFails, WriteTimes,
                                           WritePower, WriteReferences, WriteScript, CloseLists, Back
<1> QED
  BY <1>2, <1>3

LEMMA AddLineIs ==
  ASSUME NEW t \in Threads, NEW o, DOMAIN o = Threads, NEW list \in DOMAIN o[t], NEW line,
         "lines" \in DOMAIN o[t][list], NEW p, p = AddLine(t, o, list, line)
  PROVE  /\ DOMAIN p = Threads /\ DOMAIN p[t] = DOMAIN o[t]
         /\ p[t][list].lines = Append(o[t][list].lines, line)
         /\ \A l \in DOMAIN o[t] \ {list} : p[t][l] = o[t][l]
  BY DEF AddLine

(* The loop: the last of a track's files leads to the next track.           *)
LEMMA NextIs ==
  ASSUME Typed, NEW t \in Threads, NextTrack(t), UNCHANGED db,
         NEW n \in Nat, n = Len(db[t].tracks), k[t] < n
  PROVE  /\ pc'[t] = (IF k'[t] = n THEN "script" ELSE "features")
         /\ k'[t] = k[t] + 1 /\ k'[t] \in 0 .. n /\ (k'[t] # n => k'[t] < n)
         /\ \A l : Done(t, l)' = k[t] + 1
<1>1. k[t] \in Nat /\ k'[t] = k[t] + 1
  BY DEF Typed, NextTrack
<1>2. pc'[t] = (IF k'[t] = n THEN "script" ELSE "features")
  BY <1>1 DEF Typed, NextTrack, Goto
<1>3. \A l : Done(t, l)' = k[t] + 1
  BY <1>1, <1>2 DEF Done
<1>4. k'[t] \in 0 .. n /\ (k'[t] # n => k'[t] < n)
  BY <1>1
<1> QED
  BY <1>1, <1>2, <1>3, <1>4

(* What the cases of the loop share.                                        *)
LEMMA LoopFacts ==
  ASSUME FdInv, Whereabouts, Undisturbed, Places, NEW t \in Threads, Plain(db[t]),
         pc[t] \in Writing \cup {"lists"}
  PROVE  /\ cwd = Dir(t) /\ Dir(t) \in DOMAIN dirs /\ k[t] \in Nat
         /\ Len(db[t].tracks) \in Nat \ {0}
         /\ Range(Lists(t)) = Range(ListsOf(db[t])) /\ Range(Lists(t)) \subseteq AllLists
         /\ pc[t] \in Writing =>
              /\ DOMAIN out = Threads /\ DOMAIN out[t] = Range(Lists(t))
              /\ \A l \in Range(Lists(t)) : "lines" \in DOMAIN out[t][l]
<1>1. Typed /\ Descriptors(t) /\ AtHome /\ Where(t)
  BY DEF FdInv, Whereabouts
<1>2. Busy(t) /\ Owns(t) /\ Changed(t)
  BY DEF Busy, Owns, Changed, Writing
<1>3. cwd = Dir(t)
  BY <1>1, <1>2 DEF Where, Dumped, AtHome, Dir
<1>4. Dir(t) \in DOMAIN dirs
  BY <1>2 DEF Places
<1>5. Len(db[t].tracks) \in Nat \ {0}
  <2>1. db[t] \in Databases
    BY <1>1 DEF Typed
  <2>2. Len(db[t].tracks) \in Nat /\ DOMAIN db[t].tracks = 1 .. Len(db[t].tracks)
    BY <2>1, DatabasesAssumption
  <2>3. DOMAIN db[t].tracks # {}
    BY DEF Plain, NoTables
  <2> QED
    BY <2>2, <2>3
<1>6. Range(Lists(t)) = Range(ListsOf(db[t])) /\ Range(Lists(t)) \subseteq AllLists
  BY ListsThen DEF Lists, AllLists
<1>7. pc[t] \in Writing =>
              /\ DOMAIN out = Threads /\ DOMAIN out[t] = Range(Lists(t))
              /\ \A l \in Range(Lists(t)) : "lines" \in DOMAIN out[t][l]
  BY <1>1 DEF Typed, Descriptors, Streams
<1>8. k[t] \in Nat
  BY <1>1 DEF Typed
<1> QED
  BY <1>3, <1>4, <1>5, <1>6, <1>7, <1>8

LEMMA OpenContent ==
  ASSUME FdInv, Whereabouts, Undisturbed, Places, NEW t \in Threads, Plain(db[t]), Content(t),
         OpenList(t), ~ Gives(t)
  PROVE  Content(t)'
<1>1. PICK list, last : list = Lists(t)[k[t] + 1] /\ last = (k[t] + 1 = Len(Lists(t)))
  OBVIOUS
<1>2. /\ pc[t] = "lists" /\ UNCHANGED <<db, ret>>
      /\ dirs' = Put(cwd, Name(list, 0), <<>>)
      /\ k' = [k EXCEPT ![t] = IF last THEN 0 ELSE @ + 1]
      /\ last => out' = [out EXCEPT ![t] =
                           [l \in Range(Lists(t)) |->
                              [dir |-> (CHOOSE f \in fds' : f[1] = t /\ f[2] = l)[3], lines |-> <<>>]]]
      /\ Goto(t, IF last THEN Loop(t) ELSE "lists")
  BY <1>1 DEF OpenList, Gives
<1>3. Typed /\ Descriptors(t)
  BY DEF FdInv
<1>4. /\ cwd = Dir(t) /\ Dir(t) \in DOMAIN dirs /\ k[t] \in Nat
      /\ Len(db[t].tracks) \in Nat \ {0}
  BY <1>2, LoopFacts
<1>5. Adds(dirs[Dir(t)], dirs'[Dir(t)], Name(list, 0), <<>>)
  BY <1>2, <1>4, PutIs
<1>6. \A i \in 1 .. k[t] + 1 : Name(Lists(t)[i], 0) \in DOMAIN dirs'[Dir(t)]
  <2>1. \A i \in 1 .. k[t] + 1 : i \in 1 .. k[t] \/ i = k[t] + 1
    BY <1>4
  <2> QED
    BY <1>1, <1>2, <1>5, <2>1 DEF Content, Adds
<1>7. ret'[t] # 0 /\ Lists(t)' = Lists(t)
  BY <1>2, <1>3 DEF Typed, Lists
<1>8. CASE last
  <2>1. db[t].tracks # <<>>
    BY <1>4
  <2>2. pc'[t] = "features" /\ k'[t] = 0
    BY <1>2, <1>3, <1>8, <2>1 DEF Typed, Goto, Loop
  <2>3. ASSUME NEW l \in Range(Lists(t)) PROVE Row(dirs'[Dir(t)], out'[t][l].lines, db[t], l, 0)
    <3>1. out'[t][l].lines = <<>>
      BY <1>2, <1>3, <1>8 DEF Typed
    <3>2. LinesAre(<<>>, db[t], l, 0)
      BY DEF LinesAre
    <3>3. FilesIn(dirs'[Dir(t)], db[t], l, 0)
      BY DEF FilesIn
    <3>4. PICK i \in 1 .. Len(Lists(t)) : l = Lists(t)[i]
      BY ListsThen
    <3>5. i \in 1 .. k[t] + 1
      BY <1>1, <1>8, <3>4
    <3> QED
      BY <1>6, <3>1, <3>2, <3>3, <3>4, <3>5 DEF Row
  <2>4. \A l : Done(t, l)' = 0
    BY <2>2 DEF Done
  <2>5. 0 \in 0 .. Len(db[t].tracks) /\ 0 < Len(db[t].tracks)
    BY <1>4
  <2>6. Under(t)'
    BY <1>2, <1>7, <2>2, <2>3, <2>4, <2>5 DEF Under, Dir
  <2> QED
    BY <1>7, <2>2, <2>6 DEF Content
<1>9. CASE ~ last
  <2>1. pc'[t] = "lists" /\ k'[t] = k[t] + 1
    BY <1>2, <1>3, <1>9 DEF Typed, Goto
  <2> QED
    BY <1>2, <1>6, <1>7, <2>1 DEF Content, Writing, Dir
<1> QED
  BY <1>8, <1>9

LEMMA FeaturesContent ==
  ASSUME FdInv, Whereabouts, Undisturbed, Places, NEW t \in Threads, Plain(db[t]), Content(t),
         WriteFeatures(t)
  PROVE  Content(t)'
<1> DEFINE d == db[t]
           R == Range(Lists(t))
           f == Name("features", k[t] + 1)
           c == [n |-> d.tracks[k[t] + 1].n, data |-> d.tracks[k[t] + 1].data]
<1>1. /\ pc[t] = "features" /\ UNCHANGED <<db, ret>>
      /\ dirs' = Put(cwd, f, c)
      /\ out' = AddLine(t, AddLine(t, out, "keyList", d.tracks[k[t] + 1].key), "featureList", f)
      /\ IF d.times THEN Goto(t, "times") /\ UNCHANGED k
         ELSE IF d.power THEN Goto(t, "power") /\ UNCHANGED k ELSE NextTrack(t)
  BY DEF WriteFeatures, Plain, KeyLine, DataFile, DataOf, Track
<1>2. Typed /\ Descriptors(t) /\ Under(t)
  BY <1>1 DEF FdInv, Content, Writing
<1>3. /\ cwd = Dir(t) /\ Dir(t) \in DOMAIN dirs /\ k[t] \in Nat /\ Len(d.tracks) \in Nat \ {0}
      /\ R \subseteq AllLists /\ DOMAIN out = Threads /\ DOMAIN out[t] = R
      /\ \A l \in R : "lines" \in DOMAIN out[t][l]
  BY <1>1, LoopFacts DEF Writing
<1>4. {"featureList", "keyList"} \subseteq R /\ ("timesList" \in R <=> d.times) /\ ("powerList" \in R <=> d.power)
  BY ListsThen
<1>5. Adds(dirs[Dir(t)], dirs'[Dir(t)], f, c)
  BY <1>1, <1>3, PutIs
<1>6. /\ out'[t]["keyList"].lines = Append(out[t]["keyList"].lines, d.tracks[k[t] + 1].key)
      /\ out'[t]["featureList"].lines = Append(out[t]["featureList"].lines, f)
      /\ \A l \in R \ {"keyList", "featureList"} : out'[t][l].lines = out[t][l].lines
  <2>1. PICK key : key = d.tracks[k[t] + 1].key
    OBVIOUS
  <2>2. PICK p : p = AddLine(t, out, "keyList", key)
    OBVIOUS
  <2>3. "keyList" \in DOMAIN out[t] /\ "lines" \in DOMAIN out[t]["keyList"] /\ DOMAIN out = Threads
    BY <1>3, <1>4
  <2>4. /\ DOMAIN p = Threads /\ DOMAIN p[t] = DOMAIN out[t]
        /\ p[t]["keyList"].lines = Append(out[t]["keyList"].lines, key)
        /\ \A l \in DOMAIN out[t] \ {"keyList"} : p[t][l] = out[t][l]
    BY ONLY <2>2, <2>3, t \in Threads, AddLineIs
  <2>5. /\ "featureList" \in DOMAIN p[t] /\ "lines" \in DOMAIN p[t]["featureList"]
        /\ out' = AddLine(t, p, "featureList", f)
    BY <1>1, <1>3, <1>4, <2>1, <2>2, <2>4
  <2>6. /\ out'[t]["featureList"].lines = Append(p[t]["featureList"].lines, f)
        /\ \A l \in DOMAIN p[t] \ {"featureList"} : out'[t][l] = p[t][l]
    BY ONLY <2>4, <2>5, t \in Threads, AddLineIs
  <2> QED
    BY <1>3, <1>4, <2>1, <2>4, <2>6
<1>7. k[t] < Len(d.tracks) /\ k[t] + 1 <= Len(d.tracks)
      /\ \A l \in R : Row(dirs[Dir(t)], out[t][l].lines, d, l, k[t])
  BY <1>1, <1>2, <1>3 DEF Under, Done
<1> HIDE DEF R
<1>8. /\ \A l \in {"keyList", "featureList"} : Row(dirs'[Dir(t)], out'[t][l].lines, d, l, k[t] + 1)
      /\ \A l \in R \ {"keyList", "featureList"} : Row(dirs'[Dir(t)], out'[t][l].lines, d, l, k[t])
  <2>1. ASSUME NEW l \in {"keyList", "featureList"}
        PROVE  Row(dirs'[Dir(t)], out'[t][l].lines, d, l, k[t] + 1)
    <3>1. out'[t][l].lines = Append(out[t][l].lines, LineFor(d, l, k[t] + 1))
      BY <1>6 DEF LineFor
    <3>2. l # "keyList" => f = LineFor(d, l, k[t] + 1) /\ c = FileFor(d.tracks[k[t] + 1], l)
      BY DEF LineFor, FileFor
    <3>3. Row(dirs[Dir(t)], out[t][l].lines, d, l, k[t])
      BY <1>4, <1>7
    <3>4. l \in AllLists /\ k[t] \in Nat /\ Len(d.tracks) \in Nat
      BY <1>3 DEF AllLists
    <3> HIDE DEF d, f, c
    <3> QED
      BY ONLY <1>5, <1>7, <3>1, <3>2, <3>3, <3>4, RowMore
  <2>2. ASSUME NEW l \in R \ {"keyList", "featureList"}
        PROVE  Row(dirs'[Dir(t)], out'[t][l].lines, d, l, k[t])
    <3>1. \A i \in 1 .. k[t] : f # LineFor(d, l, i)
      BY <1>3 DEF LineFor, Name, AllLists
    <3>2. Row(dirs[Dir(t)], out'[t][l].lines, d, l, k[t])
      BY <1>6, <1>7
    <3> HIDE DEF d, f, c
    <3> QED
      BY <1>5, <3>1, <3>2, RowKept
  <2> QED
    BY <2>1, <2>2
<1>9. Lists(t)' = Lists(t) /\ ret'[t] # 0
  BY <1>1, <1>2 DEF Lists, Typed
<1>10. CASE d.times
  <2>1. pc'[t] = "times" /\ k'[t] = k[t]
    BY <1>1, <1>2, <1>10 DEF Typed, Goto
  <2>2. \A l \in R : Done(t, l)' = IF l \in {"keyList", "featureList"} THEN k[t] + 1 ELSE k[t]
    BY <2>1 DEF Done
  <2>3. \A l \in R : Row(dirs'[Dir(t)], out'[t][l].lines, d, l, Done(t, l)')
    BY <1>8, <2>2
  <2>4. Under(t)'
    BY <1>1, <1>2, <1>7, <1>9, <1>10, <2>1, <2>3 DEF Under, Dir, R
  <2> QED
    BY <1>9, <2>1, <2>4 DEF Content
<1>11. CASE ~ d.times /\ d.power
  <2>1. pc'[t] = "power" /\ k'[t] = k[t]
    BY <1>1, <1>2, <1>11 DEF Typed, Goto
  <2>2. \A l \in R : Done(t, l)' = IF l \in {"keyList", "featureList"} THEN k[t] + 1 ELSE k[t]
    BY <1>3, <1>4, <1>11, <2>1 DEF Done, AllLists
  <2>3. \A l \in R : Row(dirs'[Dir(t)], out'[t][l].lines, d, l, Done(t, l)')
    BY <1>8, <2>2
  <2>4. Under(t)'
    BY <1>1, <1>2, <1>7, <1>9, <1>11, <2>1, <2>3 DEF Under, Dir, R
  <2> QED
    BY <1>9, <2>1, <2>4 DEF Content
<1>12. CASE ~ d.times /\ ~ d.power
  <2>1. PICK n \in Nat : n = Len(d.tracks)
    BY <1>3
  <2>2. /\ pc'[t] = (IF k'[t] = n THEN "script" ELSE "features")
        /\ k'[t] \in 0 .. n /\ (k'[t] # n => k'[t] < n) /\ \A l : Done(t, l)' = k[t] + 1
    BY <1>1, <1>2, <1>7, <1>12, <2>1, NextIs
  <2>3. R \subseteq {"keyList", "featureList"}
    BY <1>3, <1>4, <1>12 DEF AllLists
  <2>4. \A l \in R : Row(dirs'[Dir(t)], out'[t][l].lines, d, l, Done(t, l)')
    BY <1>8, <2>2, <2>3
  <2>5. Under(t)'
    BY <1>1, <1>9, <2>1, <2>2, <2>4 DEF Under, Dir, R
  <2> QED
    BY <1>9, <2>2, <2>5 DEF Content
<1> QED
  BY <1>10, <1>11, <1>12

LEMMA TimesContent ==
  ASSUME FdInv, Whereabouts, Undisturbed, Places, NEW t \in Threads, Plain(db[t]), Content(t),
         WriteTimes(t)
  PROVE  Content(t)'
<1> DEFINE d == db[t]
           R == Range(Lists(t))
           f == Name("times", k[t] + 1)
           c == TimesLines(d.tracks[k[t] + 1].times)
<1>1. /\ pc[t] = "times" /\ UNCHANGED <<db, ret>>
      /\ dirs' = Put(cwd, f, c)
      /\ out' = AddLine(t, out, "timesList", f)
      /\ IF d.power THEN Goto(t, "power") /\ UNCHANGED k ELSE NextTrack(t)
  BY DEF WriteTimes, DataFile, DataOf, Track
<1>2. Typed /\ Descriptors(t) /\ Under(t)
  BY <1>1 DEF FdInv, Content, Writing
<1>3. /\ cwd = Dir(t) /\ Dir(t) \in DOMAIN dirs /\ k[t] \in Nat /\ Len(d.tracks) \in Nat \ {0}
      /\ R \subseteq AllLists /\ DOMAIN out = Threads /\ DOMAIN out[t] = R
      /\ \A l \in R : "lines" \in DOMAIN out[t][l]
  BY <1>1, LoopFacts DEF Writing
<1>4. d.times /\ "timesList" \in R /\ ("powerList" \in R <=> d.power)
  BY <1>1, <1>2, ListsThen DEF Under
<1>5. Adds(dirs[Dir(t)], dirs'[Dir(t)], f, c)
  BY <1>1, <1>3, PutIs
<1>6. /\ out'[t]["timesList"].lines = Append(out[t]["timesList"].lines, f)
      /\ \A l \in R \ {"timesList"} : out'[t][l] = out[t][l]
  <2>1. "timesList" \in DOMAIN out[t] /\ "lines" \in DOMAIN out[t]["timesList"] /\ DOMAIN out = Threads
    BY <1>3, <1>4
  <2>2. out' = AddLine(t, out, "timesList", f)
    BY <1>1
  <2> HIDE DEF d, f, c
  <2>3. /\ out'[t]["timesList"].lines = Append(out[t]["timesList"].lines, f)
        /\ \A l \in DOMAIN out[t] \ {"timesList"} : out'[t][l] = out[t][l]
    BY ONLY <2>1, <2>2, t \in Threads, AddLineIs
  <2> QED
    BY <1>3, <2>3
<1>7. /\ k[t] < Len(d.tracks) /\ k[t] + 1 <= Len(d.tracks) /\ Done(t, "timesList") = k[t]
      /\ \A l \in R : Row(dirs[Dir(t)], out[t][l].lines, d, l, Done(t, l))
  BY <1>1, <1>2, <1>3 DEF Under, Done
<1> HIDE DEF R
<1>8. /\ Row(dirs'[Dir(t)], out'[t]["timesList"].lines, d, "timesList", k[t] + 1)
      /\ \A l \in R \ {"timesList"} : Row(dirs'[Dir(t)], out'[t][l].lines, d, l, Done(t, l))
  <2>1. Row(dirs'[Dir(t)], out'[t]["timesList"].lines, d, "timesList", k[t] + 1)
    <3>1. out'[t]["timesList"].lines = Append(out[t]["timesList"].lines, LineFor(d, "timesList", k[t] + 1))
      BY <1>6 DEF LineFor
    <3>2. f = LineFor(d, "timesList", k[t] + 1) /\ c = FileFor(d.tracks[k[t] + 1], "timesList")
      BY DEF LineFor, FileFor
    <3>3. Row(dirs[Dir(t)], out[t]["timesList"].lines, d, "timesList", k[t])
      BY <1>4, <1>7
    <3>4. "timesList" \in AllLists /\ k[t] \in Nat /\ Len(d.tracks) \in Nat
      BY <1>3 DEF AllLists
    <3> HIDE DEF d, f, c
    <3> QED
      BY ONLY <1>5, <1>7, <3>1, <3>2, <3>3, <3>4, RowMore
  <2>2. ASSUME NEW l \in R \ {"timesList"}
        PROVE  Row(dirs'[Dir(t)], out'[t][l].lines, d, l, Done(t, l))
    <3>1. l # "keyList" => \A i \in 1 .. Done(t, l) : f # LineFor(d, l, i)
      BY <1>3 DEF LineFor, Name, AllLists
    <3>2. Row(dirs[Dir(t)], out'[t][l].lines, d, l, Done(t, l))
      BY <1>6, <1>7
    <3> HIDE DEF d, f, c
    <3> QED
      BY <1>5, <3>1, <3>2, RowKept
  <2> QED
    BY <2>1, <2>2
<1>9. Lists(t)' = Lists(t) /\ ret'[t] # 0
  BY <1>1, <1>2 DEF Lists, Typed
<1>10. CASE d.power
  <2>1. pc'[t] = "power" /\ k'[t] = k[t]
    BY <1>1, <1>2, <1>10 DEF Typed, Goto
  <2>2. \A l \in R : Done(t, l)' = IF l = "timesList" THEN k[t] + 1 ELSE Done(t, l)
    BY <1>1, <1>3, <2>1 DEF Done, AllLists
  <2>3. \A l \in R : Row(dirs'[Dir(t)], out'[t][l].lines, d, l, Done(t, l)')
    BY <1>8, <2>2
  <2>4. Under(t)'
    BY <1>1, <1>2, <1>7, <1>9, <1>10, <2>1, <2>3 DEF Under, Dir, R
  <2> QED
    BY <1>9, <2>1, <2>4 DEF Content
<1>11. CASE ~ d.power
  <2>1. PICK n \in Nat : n = Len(d.tracks)
    BY <1>3
  <2>2. /\ pc'[t] = (IF k'[t] = n THEN "script" ELSE "features")
        /\ k'[t] \in 0 .. n /\ (k'[t] # n => k'[t] < n) /\ \A l : Done(t, l)' = k[t] + 1
    BY <1>1, <1>2, <1>7, <1>11, <2>1, NextIs
  <2>3. \A l \in R \ {"timesList"} : Done(t, l) = k[t] + 1
    BY <1>1, <1>3, <1>4, <1>11 DEF Done, AllLists
  <2>4. \A l \in R : Row(dirs'[Dir(t)], out'[t][l].lines, d, l, Done(t, l)')
    BY <1>8, <2>2, <2>3
  <2>5. Under(t)'
    BY <1>1, <1>9, <2>1, <2>2, <2>4 DEF Under, Dir, R
  <2> QED
    BY <1>9, <2>2, <2>5 DEF Content
<1> QED
  BY <1>10, <1>11

LEMMA PowerContent ==
  ASSUME FdInv, Whereabouts, Undisturbed, Places, NEW t \in Threads, Plain(db[t]), Content(t),
         WritePower(t)
  PROVE  Content(t)'
<1> DEFINE d == db[t]
           R == Range(Lists(t))
           f == Name("power", k[t] + 1)
           c == [n |-> d.tracks[k[t] + 1].n, data |-> d.tracks[k[t] + 1].power]
<1>1. /\ pc[t] = "power" /\ UNCHANGED <<db, ret>>
      /\ dirs' = Put(cwd, f, c)
      /\ out' = AddLine(t, out, "powerList", f)
      /\ NextTrack(t)
  BY DEF WritePower, DataFile, DataOf, Track
<1>2. Typed /\ Descriptors(t) /\ Under(t)
  BY <1>1 DEF FdInv, Content, Writing
<1>3. /\ cwd = Dir(t) /\ Dir(t) \in DOMAIN dirs /\ k[t] \in Nat /\ Len(d.tracks) \in Nat \ {0}
      /\ R \subseteq AllLists /\ DOMAIN out = Threads /\ DOMAIN out[t] = R
      /\ \A l \in R : "lines" \in DOMAIN out[t][l]
  BY <1>1, LoopFacts DEF Writing
<1>4. d.power /\ "powerList" \in R /\ ("powerList" \in R <=> d.power)
  BY <1>1, <1>2, ListsThen DEF Under
<1>5. Adds(dirs[Dir(t)], dirs'[Dir(t)], f, c)
  BY <1>1, <1>3, PutIs
<1>6. /\ out'[t]["powerList"].lines = Append(out[t]["powerList"].lines, f)
      /\ \A l \in R \ {"powerList"} : out'[t][l] = out[t][l]
  <2>1. "powerList" \in DOMAIN out[t] /\ "lines" \in DOMAIN out[t]["powerList"] /\ DOMAIN out = Threads
    BY <1>3, <1>4
  <2>2. out' = AddLine(t, out, "powerList", f)
    BY <1>1
  <2> HIDE DEF d, f, c
  <2>3. /\ out'[t]["powerList"].lines = Append(out[t]["powerList"].lines, f)
        /\ \A l \in DOMAIN out[t] \ {"powerList"} : out'[t][l] = out[t][l]
    BY ONLY <2>1, <2>2, t \in Threads, AddLineIs
  <2> QED
    BY <1>3, <2>3
<1>7. /\ k[t] < Len(d.tracks) /\ k[t] + 1 <= Len(d.tracks) /\ Done(t, "powerList") = k[t]
      /\ \A l \in R : Row(dirs[Dir(t)], out[t][l].lines, d, l, Done(t, l))
  BY <1>1, <1>2, <1>3 DEF Under, Done
<1> HIDE DEF R
<1>8. /\ Row(dirs'[Dir(t)], out'[t]["powerList"].lines, d, "powerList", k[t] + 1)
      /\ \A l \in R \ {"powerList"} : Row(dirs'[Dir(t)], out'[t][l].lines, d, l, Done(t, l))
  <2>1. Row(dirs'[Dir(t)], out'[t]["powerList"].lines, d, "powerList", k[t] + 1)
    <3>1. out'[t]["powerList"].lines = Append(out[t]["powerList"].lines, LineFor(d, "powerList", k[t] + 1))
      BY <1>6 DEF LineFor
    <3>2. f = LineFor(d, "powerList", k[t] + 1) /\ c = FileFor(d.tracks[k[t] + 1], "powerList")
      BY DEF LineFor, FileFor
    <3>3. Row(dirs[Dir(t)], out[t]["powerList"].lines, d, "powerList", k[t])
      BY <1>4, <1>7
    <3>4. "powerList" \in AllLists /\ k[t] \in Nat /\ Len(d.tracks) \in Nat
      BY <1>3 DEF AllLists
    <3> HIDE DEF d, f, c
    <3> QED
      BY ONLY <1>5, <1>7, <3>1, <3>2, <3>3, <3>4, RowMore
  <2>2. ASSUME NEW l \in R \ {"powerList"}
        PROVE  Row(dirs'[Dir(t)], out'[t][l].lines, d, l, Done(t, l))
    <3>1. l # "keyList" => \A i \in 1 .. Done(t, l) : f # LineFor(d, l, i)
      BY <1>3 DEF LineFor, Name, AllLists
    <3>2. Row(dirs[Dir(t)], out'[t][l].lines, d, l, Done(t, l))
      BY <1>6, <1>7
    <3> HIDE DEF d, f, c
    <3> QED
      BY <1>5, <3>1, <3>2, RowKept
  <2> QED
    BY <2>1, <2>2
<1>9. Lists(t)' = Lists(t) /\ ret'[t] # 0
  BY <1>1, <1>2 DEF Lists, Typed
<1>10. PICK n \in Nat : n = Len(d.tracks)
  BY <1>3
<1>11. /\ pc'[t] = (IF k'[t] = n THEN "script" ELSE "features")
       /\ k'[t] \in 0 .. n /\ (k'[t] # n => k'[t] < n) /\ \A l : Done(t, l)' = k[t] + 1
  BY <1>1, <1>2, <1>7, <1>10, NextIs
<1>12. \A l \in R \ {"powerList"} : Done(t, l) = k[t] + 1
  BY <1>1 DEF Done
<1>13. \A l \in R : Row(dirs'[Dir(t)], out'[t][l].lines, d, l, Done(t, l)')
  BY <1>8, <1>11, <1>12
<1>14. Under(t)'
  BY <1>1, <1>9, <1>10, <1>11, <1>13 DEF Under, Dir, R
<1> QED
  BY <1>9, <1>11, <1>14 DEF Content

LEMMA ScriptContent ==
  ASSUME FdInv, Whereabouts, Undisturbed, Places, NEW t \in Threads, Plain(db[t]), Content(t),
         WriteScript(t)
  PROVE  Content(t)'
<1>1. /\ pc[t] = "script" /\ UNCHANGED <<db, ret, out, k>> /\ Goto(t, "close")
      /\ dirs' = Put(cwd, Name("restore", 0), Script(db[t]))
  BY DEF WriteScript
<1>2. Typed /\ Under(t)
  BY <1>1 DEF FdInv, Content, Writing
<1>3. cwd = Dir(t) /\ Dir(t) \in DOMAIN dirs /\ k[t] \in Nat /\ Range(Lists(t)) \subseteq AllLists
  BY <1>1, LoopFacts DEF Writing
<1>4. Adds(dirs[Dir(t)], dirs'[Dir(t)], Name("restore", 0), Script(db[t]))
  BY <1>1, <1>3, PutIs
<1>5. pc'[t] = "close" /\ Lists(t)' = Lists(t) /\ ret'[t] # 0
  BY <1>1, <1>2 DEF Typed, Goto, Lists
<1>6. \A l : Done(t, l)' = k[t] /\ Done(t, l) = k[t]
  BY <1>1, <1>5 DEF Done
<1>7. ASSUME NEW l \in Range(Lists(t)) PROVE Row(dirs'[Dir(t)], out[t][l].lines, db[t], l, k[t])
  <2>1. Row(dirs[Dir(t)], out[t][l].lines, db[t], l, k[t])
    BY <1>2, <1>6 DEF Under
  <2>2. l # "keyList" => \A i \in 1 .. k[t] : Name("restore", 0) # LineFor(db[t], l, i)
    BY <1>3 DEF LineFor, Name, AllLists
  <2> QED
    BY <1>4, <2>1, <2>2, RowKept
<1>8. ScriptIn(dirs'[Dir(t)], db[t])
  BY <1>4 DEF ScriptIn, Adds
<1>9. Under(t)'
  BY <1>1, <1>2, <1>5, <1>6, <1>7, <1>8 DEF Under, Dir
<1> QED
  BY <1>5, <1>9 DEF Content, Writing

(* Of lines as many as there are tracks are all of them.                    *)
LEMMA AllOfThem ==
  ASSUME NEW s, NEW d, NEW l, NEW n \in Nat, LinesAre(s, d, l, n)
  PROVE  LinesAre(SubSeq(s, 1, Min({n, Len(s)})), d, l, n)
<1>1. s \in Seq(LineSet(d)) /\ Len(s) = n /\ \A i \in 1 .. n : s[i] = LineFor(d, l, i)
  BY DEF LinesAre
<1>2. Min({n, Len(s)}) = n
  BY <1>1 DEF Min
<1>3. \A i \in 1 .. n : s[i] \in LineSet(d)
  BY <1>1, ElementOfSeq
<1>4. /\ SubSeq(s, 1, n) \in Seq(LineSet(d)) /\ Len(SubSeq(s, 1, n)) = n
      /\ \A i \in 1 .. n : SubSeq(s, 1, n)[i] = s[i]
  BY <1>1, <1>3, SubSeqProperties
<1> QED
  BY <1>1, <1>2, <1>4 DEF LinesAre

LEMMA CloseContent ==
  ASSUME FdInv, Whereabouts, Undisturbed, Places, NEW t \in Threads, Plain(db[t]), Content(t),
         CloseLists(t), "lost" \notin faults'
  PROVE  Content(t)'
<1> DEFINE D == dirs[Dir(t)]
           E == dirs'[Dir(t)]
           d == db[t]
<1>1. /\ pc[t] = "close" /\ UNCHANGED <<db, ret>> /\ Goto(t, "back")
      /\ dirs' = Flushed(t, Len(d.tracks))
  BY DEF CloseLists
<1>2. Typed /\ Under(t)
  BY <1>1 DEF FdInv, Content, Writing
<1>3. /\ Dir(t) \in DOMAIN dirs /\ Len(d.tracks) \in Nat
      /\ Range(Lists(t)) = Range(ListsOf(d)) /\ Range(Lists(t)) \subseteq AllLists
      /\ DOMAIN out[t] = Range(Lists(t))
  BY <1>1, LoopFacts DEF Writing
<1>4. /\ DOMAIN E = DOMAIN D
      /\ \A f \in DOMAIN D :
           E[f] = IF f[2] = 0 /\ f[1] \in DOMAIN out[t]
                  THEN SubSeq(out[t][f[1]].lines, 1, Min({Len(d.tracks), Whole(t, f[1])})) ELSE D[f]
  BY <1>1, <1>3, FlushIs DEF Places
<1>5. pc'[t] = "back" /\ Lists(t)' = Lists(t) /\ k[t] = Len(d.tracks) /\ \A l : Done(t, l) = k[t]
  BY <1>1, <1>2 DEF Typed, Goto, Lists, Under, Done
<1>6. ScriptIn(E, d)
  <2>1. "restore" \notin DOMAIN out[t]
    BY <1>3 DEF AllLists
  <2>2. ScriptIn(D, d)
    BY <1>1, <1>2 DEF Under
  <2> QED
    BY <1>4, <2>1, <2>2 DEF ScriptIn, Name
<1>7. ASSUME NEW l \in Range(Lists(t)) PROVE Row(E, E[Name(l, 0)], d, l, Len(d.tracks))
  <2>1. Row(D, out[t][l].lines, d, l, Len(d.tracks))
    BY <1>2, <1>5 DEF Under
  <2>2. E[Name(l, 0)] = SubSeq(out[t][l].lines, 1, Min({Len(d.tracks), Len(out[t][l].lines)}))
    BY <1>3, <1>4, <2>1 DEF Row, Name, Whole
  <2>3. LinesAre(E[Name(l, 0)], d, l, Len(d.tracks))
    BY <1>3, <2>1, <2>2, AllOfThem DEF Row
  <2>4. l # "keyList" => \A i \in 1 .. Len(d.tracks) : LineFor(d, l, i)[2] # 0
    BY <1>3 DEF LineFor, Name, AllLists
  <2>5. FilesIn(E, d, l, Len(d.tracks))
    BY <1>4, <2>1, <2>4 DEF Row, FilesIn
  <2> QED
    BY <1>4, <2>1, <2>3, <2>5 DEF Row
<1>8. CompleteIn(E, d)
  BY <1>3, <1>6, <1>7 DEF CompleteIn
<1> QED
  BY <1>1, <1>5, <1>8 DEF Content, Writing, Dir

LEMMA StepContent ==
  ASSUME FdInv, Whereabouts, Undisturbed, Places, NEW t \in Threads, Content(t),
         Step(t), ~ Die, pc[t] # "dead", "lost" \notin faults'
  PROVE  Content(t)'
<1> SUFFICES ASSUME Plain(db[t]) PROVE Content(t)'
  BY FdStep, DbFixed DEF Next, Content
<1>1. Typed /\ Typed' /\ Descriptors(t)
  BY FdStep DEF FdInv
<1>2. CASE pc'[t] \in Early \/ pc'[t] = "failed"
  <2>1. ret'[t] # 0
    BY <1>1, <1>2 DEF Typed, Early
  <2> QED
    BY <1>2, <2>1 DEF Content, Early, Writing
<1>3. CASE Gives(t)
  <2>1. pc'[t] = "returned" /\ ret'[t] = 1
    BY <1>1, <1>3 DEF Gives, GiveUp, Goto, Typed
  <2> QED
    BY <2>1 DEF Content, Writing
<1>4. CASE ReadTables(t) \/ (Mkdir(t) /\ ~ Gives(t)) \/ Getcwd(t) \/ FileFails(t) \/ WriteReferences(t)
  <2>1. pc'[t] \in Early \/ pc'[t] = "failed"
    BY <1>1, <1>4 DEF ReadTables, Mkdir, Getcwd, FileFails, WriteReferences, Plain, Goto, Typed, Early, Gives
  <2> QED
    BY <1>2, <2>1
<1>5. CASE Chdir(t) /\ ~ Gives(t)
  <2>1. pc[t] = "chdir" /\ pc'[t] = "lists" /\ UNCHANGED k
    BY <1>1, <1>5 DEF Chdir, Gives, Early, Goto, Typed
  <2>2. k'[t] = 0 /\ ret'[t] # 0
    BY <1>1, <2>1 DEF Descriptors, Early, Typed
  <2> QED
    BY <2>1, <2>2 DEF Content, Writing
<1>6. CASE Back(t)
  <2>1. pc[t] = "back" /\ pc'[t] = "returned" /\ UNCHANGED <<db, dirs>>
    BY <1>1, <1>6 DEF Back, Goto, Typed
  <2> QED
    BY <2>1 DEF Content, Writing, Dir
<1> QED
  BY <1>3, <1>4, <1>5, <1>6, OnTheWay, OpenContent, FeaturesContent, TimesContent, PowerContent,
     ScriptContent, CloseContent

LEMMA DieContent ==
  ASSUME FdInv, Whereabouts, Undisturbed, Places, Die, \A v \in Threads : pc[v] # "dead",
         NEW u \in Threads, Content(u)
  PROVE  Content(u)'
<1> SUFFICES ASSUME Plain(db[u]), ret[u] = 0 PROVE CompleteIn(dirs'[Dir(u)], db[u])
  BY DEF Die, Content, Writing, Dir
<1>1. PICK v \in Threads : \E n \in 0 .. Len(db[v].tracks) : dirs' = Flushed(v, n)
  BY DEF Die
<1>2. CompleteIn(dirs[Dir(u)], db[u]) /\ Dir(u) \in DOMAIN dirs
  BY DEF Content, Places, Owns
<1>3. Alike(dirs[Dir(u)], dirs'[Dir(u)])
  <2>1. CASE out[v] = <<>>
    BY <1>1, <1>2, <2>1 DEF Flushed, Alike
  <2>2. CASE out[v] # <<>>
    <3>1. Typed /\ Descriptors(v)
      BY DEF FdInv
    <3>2. pc[v] \in Writing \cup {"failed"}
      BY <2>2, <3>1 DEF Typed, Labels, Descriptors
    <3>3. Owns(v) /\ u # v
      BY <3>1, <3>2 DEF Owns, Busy, Writing, Typed
    <3>4. Dir(u) # Dir(v) /\ \A l \in DOMAIN out[v] : out[v][l].dir = Dir(v)
      BY <3>3 DEF Places, Owns
    <3> QED
      BY <1>1, <1>2, <3>4, FlushIs
  <2> QED
    BY <2>1, <2>2
<1> QED
  BY <1>2, <1>3, AlikeComplete

LEMMA ContentsNext == FdInv /\ Whereabouts /\ InPlace /\ Contents /\ [Next]_vars => Contents'
<1> SUFFICES ASSUME FdInv, Whereabouts, InPlace, Contents, [Next]_vars, Fine', NEW u \in Threads
             PROVE  Content(u)'
  BY DEF Contents
<1>1. Undisturbed /\ Places /\ Content(u) /\ "lost" \notin faults'
  BY FaultsStay DEF Fine, Undisturbed, InPlace, Contents
<1>2. CASE UNCHANGED vars
  <2>1. Apart(u) /\ Alike(dirs[Dir(u)], dirs'[Dir(u)])
    BY <1>2 DEF vars, Apart, Mine, Alike
  <2> QED
    BY <1>1, <1>2, <2>1, ContentKept DEF vars
<1>3. CASE Die /\ \E t \in Threads : pc[t] # "dead"
  <2>1. \A v \in Threads : pc[v] # "dead"
    BY <1>3 DEF FdInv, Typed
  <2> QED
    BY <1>1, <1>3, <2>1, DieContent
<1>4. ASSUME NEW t \in Threads, pc[t] # "dead", Step(t), ~ Die PROVE Content(u)'
  <2>1. CASE u = t
    BY <1>1, <1>4, <2>1, StepContent
  <2>2. CASE u # t
    <3>1. Apart(u) /\ UNCHANGED db
      BY <1>4, <2>2, FdStep, DbFixed
    <3>2. CASE Owns(u)
      BY <1>1, <1>4, <2>2, <3>1, <3>2, OthersAlike, ContentKept
    <3>3. CASE ~ Owns(u)
      BY <3>1, <3>3 DEF Owns, Busy, Apart, Content, Writing
    <3> QED
      BY <3>2, <3>3
  <2> QED
    BY <2>1, <2>2
<1> QED
  BY <1>2, <1>3, <1>4 DEF Next, Crash, Busy

LEMMA ContentsInitially == Init => Contents
  BY DEF Init, Contents, Content, Writing

-----------------------------------------------------------------------------
(* What the script makes of them.                                           *)
LEMMA AsSeq ==
  ASSUME NEW S, NEW n \in Nat, NEW f \in [1 .. n -> S]
  PROVE  f \in Seq(S) /\ Len(f) = n
  OBVIOUS

LEMMA TimesLength ==
  ASSUME NEW times, Len(times) \in Nat
  PROVE  Len(TimesLines(times)) = Len(times) + 1 /\ DOMAIN TimesLines(times) = 1 .. Len(times) + 1
<1> DEFINE f == TimesLines(times)
           S == {f[i] : i \in 1 .. Len(times) + 1}
<1>1. f \in [1 .. Len(times) + 1 -> S]
  BY DEF TimesLines
<1>2. Len(times) + 1 \in Nat
  OBVIOUS
<1> QED
  BY <1>1, <1>2, AsSeq

(* Times that come back are chained.                                        *)
LEMMA TimesBack ==
  ASSUME NEW times, NEW n \in Nat \ {0}, Len(times) = n, DOMAIN times = 1 .. n
  PROVE  LET v == TimesLines(times)
         IN  [j \in 1 .. Len(v) - 1 |-> <<v[j], v[j + 1]>>] = Chained(times)
<1> DEFINE v == TimesLines(times)
<1>1. Len(v) - 1 = n
  BY TimesLength
<1>2. times # <<>>
  OBVIOUS
<1>3. ASSUME NEW j \in 1 .. n
      PROVE  v[j] = times[j][1] /\ v[j + 1] = IF j = n THEN times[j][2] ELSE times[j + 1][1]
  BY <1>2 DEF TimesLines, Last
<1> HIDE DEF v
<1>4. Chained(times) = [j \in 1 .. n |-> <<times[j][1], IF j = n THEN times[j][2] ELSE times[j + 1][1]>>]
  BY DEF Chained
<1>5. \A j \in 1 .. n : <<v[j], v[j + 1]>> = <<times[j][1], IF j = n THEN times[j][2] ELSE times[j + 1][1]>>
  BY <1>3
<1>6. [j \in 1 .. n |-> <<v[j], v[j + 1]>>] = Chained(times)
  BY <1>4, <1>5
<1>7. [j \in 1 .. Len(v) - 1 |-> <<v[j], v[j + 1]>>] = Chained(times)
  BY <1>1, <1>6
<1> QED
  BY <1>7 DEF v

(* The files and lines of a directory that is complete.                     *)
LEMMA FilesOf ==
  ASSUME NEW d, NEW D, CompleteIn(D, d), Len(d.tracks) \in Nat, NEW i \in 1 .. Len(d.tracks)
  PROVE  /\ LineOf(D, "keyList", i) = d.tracks[i].key
         /\ D[LineOf(D, "featureList", i)] = [n |-> d.tracks[i].n, data |-> d.tracks[i].data]
         /\ d.times => D[LineOf(D, "timesList", i)] = TimesLines(d.tracks[i].times)
         /\ d.power => D[LineOf(D, "powerList", i)] = [n |-> d.tracks[i].n, data |-> d.tracks[i].power]
<1>1. ASSUME NEW l \in Range(ListsOf(d))
      PROVE  /\ LineOf(D, l, i) = LineFor(d, l, i)
             /\ l # "keyList" => D[LineOf(D, l, i)] = FileFor(d.tracks[i], l)
  BY DEF CompleteIn, Row, LinesAre, FilesIn, LineOf
<1>2. {"featureList", "keyList"} \subseteq Range(ListsOf(d))
      /\ ("timesList" \in Range(ListsOf(d)) <=> d.times) /\ ("powerList" \in Range(ListsOf(d)) <=> d.power)
  BY ListsAre
<1>3. LineOf(D, "keyList", i) = d.tracks[i].key
  BY <1>1, <1>2 DEF LineFor
<1>4. D[LineOf(D, "featureList", i)] = [n |-> d.tracks[i].n, data |-> d.tracks[i].data]
  BY <1>1, <1>2 DEF FileFor
<1>5. d.times => D[LineOf(D, "timesList", i)] = TimesLines(d.tracks[i].times)
  BY <1>1, <1>2 DEF FileFor
<1>6. d.power => D[LineOf(D, "powerList", i)] = [n |-> d.tracks[i].n, data |-> d.tracks[i].power]
  BY <1>1, <1>2 DEF FileFor
<1> QED
  BY <1>3, <1>4, <1>5, <1>6

LEMMA ScriptSays ==
  ASSUME NEW d
  PROVE  Script(d).lists = ListsOf(d) /\ Script(d).power = d.power
         /\ ("timesList" \in Range(Script(d).lists) <=> d.times)
<1>1. Script(d).lists = ListsOf(d) /\ Script(d).power = d.power
  BY DEF Script
<1> QED
  BY <1>1, ListsAre

(* A track is read, unless it has times but no vectors; what is made of it  *)
(* is what a dump keeps.                                                    *)
LEMMA TrackBack ==
  ASSUME NEW d \in Databases, Plain(d), NEW D, CompleteIn(D, d), NEW i \in 1 .. Len(d.tracks)
  PROVE  /\ Reads(D, Script(d), i) <=> (d.times => d.tracks[i].n > 0)
         /\ (d.times => d.tracks[i].n > 0) => CreateDatum(D, Script(d), i) = Kept(d)[i]
<1> DEFINE track == d.tracks[i]
<1>1. /\ Len(d.tracks) \in Nat /\ DOMAIN d.tracks = 1 .. Len(d.tracks) /\ track.n \in Nat
      /\ d.times => Len(track.times) = track.n /\ DOMAIN track.times = 1 .. track.n
  BY DatabasesAssumption DEF Plain
<1>2. /\ LineOf(D, "keyList", i) = track.key
      /\ D[LineOf(D, "featureList", i)] = [n |-> track.n, data |-> track.data]
      /\ d.times => D[LineOf(D, "timesList", i)] = TimesLines(track.times)
      /\ d.power => D[LineOf(D, "powerList", i)] = [n |-> track.n, data |-> track.power]
  BY <1>1, FilesOf
<1>3. Numbers(D, Script(d), i) = IF d.times THEN TimesLines(track.times) ELSE <<>>
  BY <1>2, ScriptSays DEF Numbers
<1>4. Reads(D, Script(d), i) <=> (d.times => track.n > 0)
  <2>1. d.times => Len(Numbers(D, Script(d), i)) = track.n + 1
    BY <1>1, <1>3, TimesLength
  <2> QED
    BY <1>2, <2>1, ScriptSays DEF Reads
<1>5. ASSUME d.times => track.n > 0 PROVE CreateDatum(D, Script(d), i) = Kept(d)[i]
  <2>1. Kept(d)[i] = [key |-> track.key, n |-> track.n, data |-> track.data,
                      times |-> IF d.times THEN Chained(track.times) ELSE <<>>,
                      power |-> IF d.power THEN track.power ELSE "none"]
    BY <1>1 DEF Kept
  <2>2. PICK v : v = Numbers(D, Script(d), i)
    OBVIOUS
  <2>3. [j \in 1 .. Len(v) - 1 |-> <<v[j], v[j + 1]>>] = IF d.times THEN Chained(track.times) ELSE <<>>
    <3>1. CASE d.times
      <4>1. v = TimesLines(track.times) /\ track.n \in Nat \ {0}
        BY <1>1, <1>3, <1>5, <2>2, <3>1
      <4> QED
        BY <1>1, <3>1, <4>1, TimesBack
    <3>2. CASE ~ d.times
      <4>1. v = <<>>
        BY <1>3, <2>2, <3>2
      <4>2. Len(v) - 1 = -1
        BY <4>1
      <4>3. [j \in 1 .. Len(v) - 1 |-> <<v[j], v[j + 1]>>] = <<>>
        BY <4>2
      <4> QED
        BY <3>2, <4>3
    <3> QED
      BY <3>1, <3>2
  <2>4. Powers(D, Script(d), i) = IF d.power THEN track.power ELSE "none"
    BY <1>2, ScriptSays DEF Powers
  <2>5. CreateDatum(D, Script(d), i) =
          [key |-> LineOf(D, "keyList", i), n |-> D[LineOf(D, "featureList", i)].n,
           data |-> D[LineOf(D, "featureList", i)].data,
           times |-> [j \in 1 .. Len(v) - 1 |-> <<v[j], v[j + 1]>>],
           power |-> Powers(D, Script(d), i)]
    BY <2>2 DEF CreateDatum
  <2>6. D[LineOf(D, "featureList", i)].n = track.n /\ D[LineOf(D, "featureList", i)].data = track.data
    BY <1>2
  <2>7. LineOf(D, "keyList", i) = track.key
    BY <1>2
  <2> HIDE DEF track
  <2> QED
    BY ONLY <2>1, <2>3, <2>4, <2>5, <2>6, <2>7
<1> QED
  BY <1>4, <1>5

LEMMA LargestIs ==
  ASSUME NEW T \in SUBSET Nat, NEW w \in T, \A j \in T : j <= w
  PROVE  Max(T) = w
<1>1. Max(T) \in T /\ \A j \in T : Max(T) >= j
  BY DEF Max
<1>2. Max(T) \in Nat /\ w \in Nat /\ Max(T) >= w /\ Max(T) <= w
  BY <1>1
<1> QED
  BY <1>2

(* The tracks up to the first that is refused.                              *)
LEMMA GoodTracks ==
  ASSUME NEW n \in Nat, NEW E \in SUBSET (1 .. n), NEW w, w = IF E = {} THEN n ELSE Min(E) - 1
  PROVE  /\ w \in 0 .. n /\ \A i \in 1 .. w : i \notin E
         /\ Max({i \in 0 .. n : \A j \in 1 .. i : j \notin E}) = w
<1> DEFINE good == {i \in 0 .. n : \A j \in 1 .. i : j \notin E}
<1>1. w \in 0 .. n /\ (\A i \in 1 .. w : i \notin E) /\ (E # {} => w + 1 \in E)
  <2>1. CASE E = {}
    BY <2>1
  <2>2. CASE E # {}
    <3>1. PICK m \in E : \A j \in E : m <= j
      <4>1. E \in SUBSET Nat
        OBVIOUS
      <4> QED
        BY <2>2, <4>1, LeastNatural
    <3>2. Min(E) \in E /\ \A j \in E : Min(E) <= j
      BY <3>1 DEF Min
    <3>3. Min(E) \in 1 .. n
      BY <3>2
    <3>4. PICK a \in 1 .. n : a = Min(E)
      BY <3>3
    <3>5. w = a - 1
      BY <2>2, <3>4
    <3>6. \A i \in 1 .. w : ~ (a <= i)
      BY <3>5
    <3> QED
      BY <3>2, <3>4, <3>5, <3>6
  <2> QED
    BY <2>1, <2>2
<1>2. w \in good
  BY <1>1
<1>3. ASSUME NEW i \in good PROVE i <= w
  <2>1. CASE E = {}
    BY <2>1
  <2>2. CASE E # {}
    <3>1. w + 1 \notin 1 .. i
      BY <1>1, <2>2
    <3> QED
      BY <1>1, <3>1
  <2> QED
    BY <2>1, <2>2
<1>4. good \in SUBSET Nat
  OBVIOUS
<1>5. Max(good) = w
  <2> HIDE DEF good
  <2> QED
    BY <1>2, <1>3, <1>4, LargestIs
<1> QED
  BY <1>1, <1>5

LEMMA Restores ==
  ASSUME NEW d \in Databases, Plain(d), NEW D, CompleteIn(D, d), NEW w,
         w = IF d.times /\ EmptyIn(d) # {} THEN Min(EmptyIn(d)) - 1 ELSE Len(d.tracks)
  PROVE  Restored(D, Script(d)) = SubSeq(Kept(d), 1, w)
<1>1. PICK n \in Nat : n = Len(d.tracks) /\ DOMAIN d.tracks = 1 .. n /\ \A i \in 1 .. n : d.tracks[i].n \in Nat
  BY DatabasesAssumption
<1>2. PICK E : E = IF d.times THEN EmptyIn(d) ELSE {}
  OBVIOUS
<1>3. /\ E \in SUBSET (1 .. n)
      /\ \A i \in 1 .. n : i \notin E <=> (d.times => d.tracks[i].n > 0)
  BY <1>1, <1>2 DEF EmptyIn
<1>4. w = IF E = {} THEN n ELSE Min(E) - 1
  BY <1>1, <1>2
<1>5. /\ w \in 0 .. n /\ \A i \in 1 .. w : i \notin E
      /\ Max({i \in 0 .. n : \A j \in 1 .. i : j \notin E}) = w
  BY <1>3, <1>4, GoodTracks
<1>6. \A i \in 1 .. n : Reads(D, Script(d), i) <=> i \notin E
  BY <1>1, <1>3, TrackBack
<1>7. \A i \in 1 .. w : CreateDatum(D, Script(d), i) = Kept(d)[i]
  <2>1. \A i \in 1 .. w : i \in 1 .. n /\ i \notin E
    BY <1>5
  <2> QED
    BY <1>1, <1>3, <2>1, TrackBack
<1>8. Restored(D, Script(d)) = [i \in 1 .. w |-> CreateDatum(D, Script(d), i)]
  <2>1. Len(D[Name("featureList", 0)]) = n
    BY <1>1, ListsAre DEF CompleteIn, Row, LinesAre
  <2>2. {i \in 0 .. n : \A j \in 1 .. i : Reads(D, Script(d), j)} = {i \in 0 .. n : \A j \in 1 .. i : j \notin E}
    BY <1>6
  <2> QED
    BY <1>5, <2>1, <2>2 DEF Restored
<1>9. PICK r : r = Restored(D, Script(d))
  OBVIOUS
<1>10. PICK S : S = {Kept(d)[i] : i \in 1 .. n}
  OBVIOUS
<1>11. /\ \A i \in 1 .. w : Kept(d)[i] \in S
       /\ r = [i \in 1 .. w |-> Kept(d)[i]]
  <2>1. \A i \in 1 .. w : i \in 1 .. n
    BY <1>5
  <2> QED
    BY <1>7, <1>8, <1>9, <1>10, <2>1
<1>12. r \in Seq(S) /\ Len(r) = w /\ \A i \in 1 .. w : r[i] = Kept(d)[i]
  <2>1. r \in [1 .. w -> S] /\ w \in Nat
    BY <1>5, <1>11
  <2> QED
    BY <1>11, <2>1, AsSeq
<1>13. /\ SubSeq(Kept(d), 1, w) \in Seq(S) /\ Len(SubSeq(Kept(d), 1, w)) = w
       /\ \A i \in 1 .. w : SubSeq(Kept(d), 1, w)[i] = Kept(d)[i]
  <2>1. /\ SubSeq(Kept(d), 1, w) \in Seq(S)
        /\ Len(SubSeq(Kept(d), 1, w)) = IF 1 <= w THEN w - 1 + 1 ELSE 0
        /\ \A i \in 1 .. w - 1 + 1 : SubSeq(Kept(d), 1, w)[i] = Kept(d)[1 + i - 1]
    BY <1>5, <1>11, SubSeqProperties
  <2>2. w - 1 + 1 = w /\ \A i \in 1 .. w : 1 + i - 1 = i
    BY <1>5
  <2> QED
    BY <1>5, <2>1, <2>2
<1> QED
  BY <1>9, <1>12, <1>13, SeqEqual

LEMMA BackAgain == FdInv /\ Whereabouts /\ Contents => RoundTrip
<1> SUFFICES ASSUME FdInv, Whereabouts, Contents, Fine, NEW t \in Threads, ret[t] = 0, Plain(db[t])
             PROVE  LET files == dirs[Dumped(t)]
                        whole == IF db[t].times /\ EmptyIn(db[t]) # {} THEN Min(EmptyIn(db[t])) - 1
                                 ELSE Len(db[t].tracks)
                    IN  Restored(files, files[Name("restore", 0)]) = SubSeq(Kept(db[t]), 1, whole)
  BY DEF RoundTrip, Fine, Plain
<1>1. Dumped(t) = Dir(t) /\ db[t] \in Databases
  BY DEF Fine, Whereabouts, AtHome, Dumped, Dir, FdInv, Typed
<1>2. CompleteIn(dirs[Dir(t)], db[t])
  BY DEF Contents, Content
<1>3. dirs[Dir(t)][Name("restore", 0)] = Script(db[t])
  BY <1>2 DEF CompleteIn, ScriptIn
<1> QED
  BY <1>1, <1>2, <1>3, Restores

(* Whatever databases there are, a dump that returned 0, with no other in   *)
(* its process beside it and its lists written, is restored by its script   *)
(* and audiodb_insert_create_datum to the tracks dumped: the file of each   *)
(* line is that track's, and no line is missing (dump.cpp:70-240).          *)
THEOREM DumpRestores == Spec => []RoundTrip
<1> QED
  BY FdInitially, FdNext, WhereInitially, WhereNext, PlaceInitially, PlaceNext, ContentsInitially,
     ContentsNext, BackAgain, PTL DEF Spec
=============================================================================
