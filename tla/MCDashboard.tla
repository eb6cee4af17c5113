----------------------------- MODULE MCDashboard -----------------------------
(***************************************************************************)
(* Dashboard on two season files.                                          *)
(***************************************************************************)
EXTENDS Dashboard

MCMenuTeams == <<"Liverpool", "Arsenal">>

\* One side that scored ft goals; the other columns only keep sides apart.
SideOf(ft) == [c \in Columns |-> IF c = "FTG" THEN ft ELSE ft + 1]

Result(home, h, away, a) ==
  [HomeTeam |-> home, AwayTeam |-> away, H |-> SideOf(h), A |-> SideOf(a)]

File(from, to) == << "E0_", from, to, ".csv" >>

Older == << Result("Liverpool", 2, "Arsenal", 0), Result("Arsenal", 1, "Liverpool", 1) >>
Newer == << Result("Arsenal", 3, "Liverpool", 1), Result("Liverpool", 0, "Arsenal", 0) >>

\* Two seasons that are over, so that each has a results matrix when it is whole.
MCDownloads == File(18, 19) :> <<Older>> @@ File(19, 20) :> <<Newer>>

MCFiles == Contents \cup {EmptyFile}
=============================================================================
