------------------------------- MODULE MCPlApp -------------------------------
(***************************************************************************)
(* PlApp on two short seasons.  Chelsea is in the menus but not in the     *)
(* first season, as Man City in 01-02; the second season is under way when *)
(* the file is replaced, so its results matrix has a pair that did not     *)
(* meet.                                                                   *)
(***************************************************************************)
EXTENDS PlApp

MCMenuTeams == <<"Liverpool", "Arsenal", "Chelsea">>

\* One side that scored ft goals; the other columns only keep sides apart.
SideOf(ft) == [c \in Columns |-> CASE c = "FTG" -> ft [] c = "HTG" -> 0
                                   [] OTHER -> ft + 1]

Result(season, home, h, away, a) ==
  [season |-> season, HomeTeam |-> home, AwayTeam |-> away,
   H |-> SideOf(h), A |-> SideOf(a)]

First == << Result(<<"18", "19">>, "Liverpool", 2, "Arsenal", 0),
            Result(<<"18", "19">>, "Arsenal", 1, "Liverpool", 1) >>

Second == << Result(<<"19", "20">>, "Arsenal", 3, "Chelsea", 1),
             Result(<<"19", "20">>, "Chelsea", 0, "Liverpool", 0) >>

\* Before and after the second season began, emptied by an accident, and made
\* from season files that only had their headers.
MCFiles == { First, First \o Second, EmptyFile, << >> }
=============================================================================
