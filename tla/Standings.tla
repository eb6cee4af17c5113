------------------------------ MODULE Standings ------------------------------
(***************************************************************************)
(* What the league tables promise: running totals that every match         *)
(* credits once to each of its two sides.  A win is worth three points and *)
(* a draw one.  No match file, no filtering and no summing appear here.    *)
(***************************************************************************)
EXTENDS Integers

CONSTANTS
  Teams,  \* the clubs
  Goals   \* the goal counts a side may reach in one match

VARIABLE table  \* the three tables: table[type][team]

Blank == [played |-> 0, won |-> 0, draw |-> 0, lost |-> 0, goals_scored |-> 0,
          goals_conceded |-> 0, gd |-> 0, points |-> 0]

One(condition) == IF condition THEN 1 ELSE 0

\* A team's row after a match in which it scored gf goals and conceded ga.
Credit(row, gf, ga) ==
  [played |-> row.played + 1,
   won |-> row.won + One(gf > ga), draw |-> row.draw + One(gf = ga),
   lost |-> row.lost + One(gf < ga),
   goals_scored |-> row.goals_scored + gf,
   goals_conceded |-> row.goals_conceded + ga,
   gd |-> row.gd + (gf - ga),
   points |-> row.points + 3 * One(gf > ga) + One(gf = ga)]

Init == table = [type \in {"overall", "home", "away"} |-> [t \in Teams |-> Blank]]

\* home and away meet; gh and ga are their goals.
Match(home, away, gh, ga) ==
  table' = [table EXCEPT !["overall"][home] = Credit(@, gh, ga),
                         !["overall"][away] = Credit(@, ga, gh),
                         !["home"][home]    = Credit(@, gh, ga),
                         !["away"][away]    = Credit(@, ga, gh)]

Next == \E home, away \in Teams, gh, ga \in Goals :
          home # away /\ Match(home, away, gh, ga)

Spec == Init /\ [][Next]_table
=============================================================================
