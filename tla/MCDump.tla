------------------------------- MODULE MCDump -------------------------------
(* Dumps of small databases in two threads of a process.                   *)
EXTENDS Dump

Track1 == [key |-> "k1", n |-> 2, data |-> "d1", times |-> <<<<0, 1>>, <<1, 3>>>>, power |-> "p1",
           absolute |-> TRUE]
Track2 == [key |-> "k2", n |-> 1, data |-> "d2", times |-> <<<<4, 6>>>>, power |-> "p2", absolute |-> TRUE]
Overlapping == [Track1 EXCEPT !.key = "k3", !.times = <<<<0, 2>>, <<1, 3>>>>]
NoVectors == [Track1 EXCEPT !.key = "k4", !.n = 0, !.times = <<>>]
NamesOnly(a) == [key |-> "r1", n |-> 1, data |-> "fr1", times |-> "tr1", power |-> "pr1", absolute |-> a]

Database(tracks, references, times, power) ==
  [tracks |-> tracks, references |-> references, times |-> times, power |-> power, l2norm |-> power]

MCDatabases ==
  { Database(<<Track1, Track2>>, FALSE, TRUE, TRUE),
    Database(<<Overlapping, NoVectors>>, FALSE, TRUE, FALSE),
    Database(<<NoVectors, Track2>>, FALSE, FALSE, TRUE),
    Database(<<NoVectors>>, FALSE, FALSE, FALSE),
    Database(<<NoVectors>>, FALSE, TRUE, FALSE),
    Database(<<NoVectors>>, FALSE, FALSE, TRUE),
    Database(<<>>, FALSE, FALSE, FALSE),
    Database(<<NamesOnly(TRUE)>>, TRUE, TRUE, TRUE),
    Database(<<NamesOnly(FALSE)>>, TRUE, FALSE, FALSE) }

MCThreads == {"t1", "t2"}
MCOutput == [t1 |-> "a", t2 |-> "b"]
=============================================================================
