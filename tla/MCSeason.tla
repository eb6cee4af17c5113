------------------------------ MODULE MCSeason ------------------------------
(***************************************************************************)
(* Season on three clubs, every pair meeting home and away, and on four    *)
(* clubs, every pair meeting once.                                         *)
(***************************************************************************)
EXTENDS Season, TLC

CONSTANTS Arsenal, Chelsea, Everton, Fulham

ThreeClubs == {Arsenal, Chelsea, Everton}
FourClubs  == ThreeClubs \cup {Fulham}

Fix(h, a) == [home |-> h, away |-> a]

\* Both venues alternate: Arsenal hosts once before it first travels.
Alternating ==
  << Fix(Arsenal, Chelsea), Fix(Everton, Arsenal), Fix(Chelsea, Everton),
     Fix(Chelsea, Arsenal), Fix(Arsenal, Everton), Fix(Everton, Chelsea) >>

\* Everton is on the road until everyone else has finished, as a club whose
\* ground is being rebuilt, so tables exist with teams that never hosted.
LateHost ==
  << Fix(Arsenal, Everton), Fix(Chelsea, Everton), Fix(Arsenal, Chelsea),
     Fix(Chelsea, Arsenal), Fix(Everton, Arsenal), Fix(Everton, Chelsea) >>

\* In every round two clubs meet while the other two look on.
SingleRounds ==
  << Fix(Arsenal, Chelsea), Fix(Everton, Fulham), Fix(Chelsea, Everton),
     Fix(Fulham, Arsenal), Fix(Arsenal, Everton), Fix(Chelsea, Fulham) >>

\* The two properties of the matrix are proved for such calendars only.
ASSUME NoFixtureTwice

\* A side that scored ft goals, ht of them before half time, with k corners
\* and a red card when there are many; the remaining columns take values that keep the two sides apart.
SideOf(ft, ht, k) ==
  "FTG" :> ft @@ "HTG" :> ht @@ "C" :> k @@ "S" :> 2 * ft + k @@ "ST" :> ft + 1
    @@ "F" :> 3 + k @@ "Y" :> k @@ "R" :> (IF k > 2 THEN 1 ELSE 0)

Winner(h, a) == IF h > a THEN "H" ELSE IF h < a THEN "A" ELSE "D"

\* Odds depend on the sheet, so that averages over different matches differ.
OddsOf(h, d, a) == "H" :> h @@ "D" :> d @@ "A" :> a

SheetOf(h, a, k) ==
  LET home == SideOf(h, h \div 2, k)
      away == SideOf(a, a \div 2, 4 - k)
  IN  [H |-> home, A |-> away, FTR |-> Winner(h, a),
       PS |-> OddsOf(150 + 10 * k, 300, 500), B365 |-> OddsOf(140 + 10 * k, 290, 510)]

\* One sheet per result: 1-0, 2-2 and 1-2.
OnePerResult == {SheetOf(1, 0, 2), SheetOf(2, 2, 3), SheetOf(1, 2, 0)}

\* With 0-2: goals that make goal difference and goals scored disagree.
RankingSheets == OnePerResult \cup {SheetOf(0, 2, 3)}

\* With 0-0: clean sheets on either side and on both.
MCSheets == RankingSheets \cup {SheetOf(0, 0, 1)}
=============================================================================
