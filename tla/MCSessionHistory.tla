-------------------------- MODULE MCSessionHistory --------------------------
(* Session files for the runs of SessionHistory: notes between messages with *)
(* equal texts, messages of two chunks and tool calls with their results.    *)
EXTENDS SessionHistory

Text(n, v) == [id |-> n, kind |-> "text", val |-> v, more |-> 0]
Long(n, v, w) == [id |-> n, kind |-> "text", val |-> v, more |-> w]
Call(n, t) == [id |-> n, kind |-> "call", val |-> t, more |-> 0]
Result(n, t) == [id |-> n, kind |-> "result", val |-> t, more |-> 0]
Note(n) == [id |-> n, kind |-> "note", val |-> 0, more |-> 0]

\* A short file for the races of writer and tailer.
ShortFiles == {<<Text(1, 11), Note(2), Text(3, 12)>>}

\* Files for the placing of notes.
MixedFiles == {
    <<Long(1, 11, 12), Note(2), Text(3, 12), Note(4), Text(5, 12)>>,
    <<Note(1), Result(2, 22), Call(3, 21), Note(4), Result(5, 21)>>}

AllFiles == ShortFiles \cup MixedFiles

\* The premise of NotesInPlace.
ASSUME FilesPaired == \A h \in AllFiles : WellPaired(h)

Loads == {"load"}
Both == {"load", "fork"}
=============================================================================
