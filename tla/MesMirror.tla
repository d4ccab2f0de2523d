------------------------------- MODULE MesMirror -------------------------------
(***************************************************************************)
(* What the link to the MES promises of the verdict of an inspection row,  *)
(* in either mode, as long as no two actors race for that row: there are   *)
(* three copies of a verdict - in the inspection row, in the staged row,   *)
(* in the record the MES has -, the second is always the first, and a row  *)
(* counts as received only while the third is the first.  A row that is    *)
(* reviewed does not count until the MES has the new verdict; nothing else *)
(* takes a row back.  Rows do not depend on each other, and a row that     *)
(* was raced for is given up.                                              *)
(***************************************************************************)
CONSTANTS
    Results,    \* inspection rows
    Verdicts,   \* of a person
    None,       \* no verdict of a person
    Unheld      \* what the MES has of a row it has not been told of

VARIABLE row    \* of each result

Manual == Verdicts \cup {None}

Raced == [at |-> "raced"]

\* How far a row has come, and the copies of its verdict.
Row(at, v, o, h) == [at |-> at, verdict |-> v, offered |-> o, held |-> h]

New == Row("new", None, None, Unheld)

Rows == {Raced} \cup [at : {"new", "stored", "staged", "counted"},
                      verdict : Manual, offered : Manual, held : Manual \cup {Unheld}]

\* A row and what may become of it in a step.
Store(r, s) ==
    /\ r.at = "new"
    /\ \/ s = Row("stored", r.verdict, r.offered, r.held)
       \/ s = Row("staged", r.verdict, r.verdict, r.held)

Stage(r, s) ==
    /\ r.at = "stored"
    /\ s = Row("staged", r.verdict, r.verdict, r.held)

Review(r, s) ==
    \E v \in Verdicts \ {r.verdict} :
        \/ r.at = "stored" /\ s = Row("stored", v, r.offered, r.held)
        \/ r.at \in {"staged", "counted"} /\ s = Row("staged", v, v, r.held)

\* The MES is told a verdict, perhaps one that is no longer that of the row.
Tell(r, s) ==
    /\ r.at \in {"stored", "staged"}
    /\ \E v \in Manual : s = Row(r.at, r.verdict, r.offered, v)

Count(r, s) ==
    /\ r.at \in {"stored", "staged"}
    /\ r.held = r.verdict
    /\ s = Row("counted", r.verdict, r.verdict, r.held)

GiveUp(r, s) == r.at # "raced" /\ s = Raced

Step(r, s) ==
    Store(r, s) \/ Stage(r, s) \/ Review(r, s) \/ Tell(r, s) \/ Count(r, s) \/ GiveUp(r, s)

Init == row = [k \in Results |-> New]

Next ==
    /\ row' \in [Results -> Rows]
    /\ \A k \in Results : row'[k] = row[k] \/ Step(row[k], row'[k])

Spec == Init /\ [][Next]_row

\* The copies agree where they are said to.
Mirrored ==
    \A k \in Results :
        /\ row[k].at \in {"staged", "counted"} => row[k].offered = row[k].verdict
        /\ row[k].at = "counted" => row[k].held = row[k].verdict
=============================================================================
