---------------------------- MODULE MCGoalSpread ----------------------------
(***************************************************************************)
(* SeasonReport on a league of five clubs, whose 20 matches are enough for *)
(* all 16 scorelines of the goal spread.                                   *)
(***************************************************************************)
EXTENDS SeasonReport

Clubs == 1 .. 5

DoubleRoundRobin ==
  [i \in 1 .. 20 |-> LET host == (i - 1) \div 4
                     IN  [home |-> host + 1, away |-> ((host + 1 + (i % 4)) % 5) + 1]]

\* Only the score of a sheet matters here.
ScoreSheet(score) ==
  LET side(goals) == [c \in Columns |-> IF c = "FTG" THEN goals ELSE 0]
      odds == [r \in Results |-> 200]
  IN  [H |-> side(score[1]), A |-> side(score[2]), PS |-> odds, B365 |-> odds,
       FTR |-> IF score[1] > score[2] THEN "H"
               ELSE IF score[1] < score[2] THEN "A" ELSE "D"]

ScoreSheets == {ScoreSheet(s) : s \in Scorelines}

\* A bound on the seasons explored: the first fifteen matches end with the
\* scorelines 0-0 to 3-2 in turn, the others end 3-3, 0-0 or 1-1.
FifteenThenAny ==
  \A i \in DOMAIN data :
    LET nth == 4 * data[i].H.FTG + data[i].A.FTG
    IN  IF i <= 15 THEN nth = i - 1 ELSE nth \in {15, 0, 5}
=============================================================================
