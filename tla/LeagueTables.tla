---------------------------- MODULE LeagueTables ----------------------------
(***************************************************************************)
(* The tables of data_proc.SeasonSummary that rank teams and pair them:    *)
(* calc_main_tables, calc_team_stats and get_result_matrix, as operators   *)
(* on the DataFrame df of one season.                                      *)
(*                                                                         *)
(* A row of df is a match.  Its columns come in pairs, one per side: FTHG  *)
(* and FTAG are df[i].H.FTG and df[i].A.FTG, HS and AS are df[i].H.S and   *)
(* df[i].A.S, and so on.  FTR is the result the file gives for the match.  *)
(***************************************************************************)
EXTENDS DataFrame, Sequences, Functions

\* The paired columns data_proc.py reads: full- and half-time goals, shots,
\* shots on target, corners, fouls, yellow and red cards.
Columns == {"FTG", "HTG", "S", "ST", "C", "F", "Y", "R"}

\* Home win, draw, away win.
Results == {"H", "D", "A"}

Column(df, side, name) == [i \in DOMAIN df |-> df[i][side][name]]

HomeTeams(df) == {df[i].HomeTeam : i \in DOMAIN df}
AwayTeams(df) == {df[i].AwayTeam : i \in DOMAIN df}
TeamsOf(df)   == HomeTeams(df) \cup AwayTeams(df)

HomeMatches(df, team) == {i \in DOMAIN df : df[i].HomeTeam = team}
\* Mutant: a filter that is one row behind the frame it is applied to.
AwayMatchesMisaligned(df, team) ==
  {i \in DOMAIN df : i > 1 /\ df[i - 1].AwayTeam = team}

AwayMatches(df, team) == {i \in DOMAIN df : df[i].AwayTeam = team}

-----------------------------------------------------------------------------
(***************************************************************************)
(* calc_main_tables: counts and totals.                                    *)
(***************************************************************************)
TableTypes == {"overall", "home", "away"}

\* The counted columns over the matches M, seen from the side own.
Tally(df, M, own, opp) ==
  LET won      == Cardinality({i \in M : df[i][own].FTG > df[i][opp].FTG})
      draw     == Cardinality({i \in M : df[i][own].FTG = df[i][opp].FTG})
      lost     == Cardinality({i \in M : df[i][own].FTG < df[i][opp].FTG})
      scored   == Total(Column(df, own, "FTG"), M)
      conceded == Total(Column(df, opp, "FTG"), M)
  IN  [played |-> Cardinality(M), won |-> won, draw |-> draw, lost |-> lost,
       goals_scored |-> scored, goals_conceded |-> conceded,
       gd |-> scored - conceded, points |-> won * 3 + draw]

HomeTally(df, team) == Tally(df, HomeMatches(df, team), "H", "A")
\* Mutant: the home block pasted for the away table, filter changed only.
AwayTallyPasted(df, team) == Tally(df, AwayMatches(df, team), "H", "A")

AwayTally(df, team) == Tally(df, AwayMatches(df, team), "A", "H")

\* The overall row adds the two venues; points are counted again.
OverallTally(df, team) ==
  LET h    == HomeTally(df, team)
      a    == AwayTally(df, team)
      won  == h.won + a.won
      draw == h.draw + a.draw
  IN  [played |-> h.played + a.played, won |-> won, draw |-> draw,
       lost |-> h.lost + a.lost,
       goals_scored |-> h.goals_scored + a.goals_scored,
       goals_conceded |-> h.goals_conceded + a.goals_conceded,
       gd |-> h.gd + a.gd, points |-> won * 3 + draw]

\* For any other type calc_main_tables returns 0; none of its callers asks for
\* one.
TallyOf(df, type, team) ==
  CASE type = "overall" -> OverallTally(df, team)
    [] type = "home"    -> HomeTally(df, team)
    [] type = "away"    -> AwayTally(df, team)

-----------------------------------------------------------------------------
(***************************************************************************)
(* calc_main_tables: rank_points and the dense rank of a team.             *)
(***************************************************************************)
\* Mutant: goal difference enters without its weight.
RankPointsUnweighted(row) == row.points * 1000000 + row.gd + row.goals_scored

RankPoints(row) == row.points * 1000000 + row.gd * 1000 + row.goals_scored

Rank(df, type, team) ==
  LET own == RankPoints(TallyOf(df, type, team))
      all == {RankPoints(TallyOf(df, type, u)) : u \in TeamsOf(df)}
  IN  Cardinality({p \in all : p >= own})

\* Mutant: the rows are sorted by points instead of by rank.
RowOrdersByPoints(df, type) ==
  {order \in [1 .. Cardinality(TeamsOf(df)) -> TeamsOf(df)] :
     /\ IsInjective(order)
     /\ \A i, j \in DOMAIN order :
          i < j => TallyOf(df, type, order[i]).points >= TallyOf(df, type, order[j]).points}

(***************************************************************************)
(* sort_values(by=["rank"]): the orders the rows may be in.  The teams     *)
(* come from a set, so without an order, and the sort is not stable: teams *)
(* of the same rank are in any order, which may change with every run.     *)
(***************************************************************************)
RowOrders(df, type) ==
  LET rank == [t \in TeamsOf(df) |-> Rank(df, type, t)]
  IN  {order \in [1 .. Cardinality(TeamsOf(df)) -> TeamsOf(df)] :
         /\ IsInjective(order)
         /\ \A i, j \in DOMAIN order : i < j => rank[order[i]] <= rank[order[j]]}

-----------------------------------------------------------------------------
(***************************************************************************)
(* calc_main_tables: the statistics per match.                             *)
(***************************************************************************)
\* Which side and column each average is the mean of.
AverageColumns ==
  [goals_scored_pg |-> <<"own", "FTG">>, goals_conceded_pg |-> <<"opp", "FTG">>,
   corners_for     |-> <<"own", "C">>,   corners_against   |-> <<"opp", "C">>,
   shots_made      |-> <<"own", "S">>,   shots_allowed     |-> <<"opp", "S">>,
   yellow_cards    |-> <<"own", "Y">>,
   fouls_commited  |-> <<"own", "F">>,   fouls_suffered    |-> <<"opp", "F">>]

\* Mutant: goals per shot.
RatioColumnsInverted ==
  [shots_to_score_a_goal   |-> <<"goals_scored_pg", "shots_made">>,
   shots_to_concede_a_goal |-> <<"goals_conceded_pg", "shots_allowed">>]

\* Ratios of two averages, computed per venue.
RatioColumns ==
  [shots_to_score_a_goal   |-> <<"shots_made", "goals_scored_pg">>,
   shots_to_concede_a_goal |-> <<"shots_allowed", "goals_conceded_pg">>]

VenueAverages(df, M, own, opp) ==
  LET side == [own |-> own, opp |-> opp]
      mean == [m \in DOMAIN AverageColumns |->
                 Mean(Column(df, side[AverageColumns[m][1]], AverageColumns[m][2]), M)]
      ratio(c) == DivF(mean[RatioColumns[c][1]], mean[RatioColumns[c][2]])
  IN  [m \in DOMAIN AverageColumns \cup DOMAIN RatioColumns |->
         IF m \in DOMAIN RatioColumns THEN ratio(m) ELSE mean[m]]

HomeAverages(df, team) == VenueAverages(df, HomeMatches(df, team), "H", "A")
AwayAverages(df, team) == VenueAverages(df, AwayMatches(df, team), "A", "H")

\* Mutant: the plain mean of the two venues.
OverallAveragesUnweighted(df, team) ==
  LET h == HomeAverages(df, team)
      a == AwayAverages(df, team)
  IN  [m \in DOMAIN h |-> DivF(AddF(h[m], a[m]), Int64(2))]

\* The overall row weights the two venues by matches played, ratios included.
OverallAverages(df, team) ==
  LET h  == HomeAverages(df, team)
      a  == AwayAverages(df, team)
      hp == Cardinality(HomeMatches(df, team))
      ap == Cardinality(AwayMatches(df, team))
  IN  [m \in DOMAIN h |->
         DivF(AddF(MulF(h[m], Int64(hp)), MulF(a[m], Int64(ap))), Int64(hp + ap))]

AveragesOf(df, type, team) ==
  CASE type = "overall" -> OverallAverages(df, team)
    [] type = "home"    -> HomeAverages(df, team)
    [] type = "away"    -> AwayAverages(df, team)

RedCards(df, type, team) ==
  LET home == Total(Column(df, "H", "R"), HomeMatches(df, team))
      away == Total(Column(df, "A", "R"), AwayMatches(df, team))
  IN  (IF type = "away" THEN 0 ELSE home) + (IF type = "home" THEN 0 ELSE away)

-----------------------------------------------------------------------------
(***************************************************************************)
(* get_result_matrix: teams are those seen at home; a pair that has not    *)
(* met leaves an empty list, whose [0] raises IndexError.  The cells are   *)
(* the first match of each pair; the diagonal "-" is left out.             *)
(***************************************************************************)
Meetings(df, home, away) == HomeMatches(df, home) \cap AwayMatches(df, away)

MatrixCells(df) == {c \in HomeTeams(df) \X HomeTeams(df) : c[1] # c[2]}

\* Mutant: a pair counts as met at either ground.
MatrixRaisesUnlessMet(df) ==
  \E c \in MatrixCells(df) : Meetings(df, c[1], c[2]) \cup Meetings(df, c[2], c[1]) = {}

MatrixRaises(df) == \E c \in MatrixCells(df) : Meetings(df, c[1], c[2]) = {}

\* Mutant: the two scores of a cell change places.
ResultMatrixSwapped(df) ==
  [c \in MatrixCells(df) |->
     LET i == CHOOSE j \in Meetings(df, c[1], c[2]) : TRUE
     IN  [home_score |-> df[i].A.FTG, away_score |-> df[i].H.FTG]]

ResultMatrix(df) ==
  [c \in MatrixCells(df) |->
     LET met   == Meetings(df, c[1], c[2])
         first == CHOOSE i \in met : \A j \in met : i <= j
     IN  [home_score |-> df[first].H.FTG, away_score |-> df[first].A.FTG]]

-----------------------------------------------------------------------------
(***************************************************************************)
(* calc_team_stats: one row per table; df.loc[team] raises KeyError for a  *)
(* team that is not in the season.                                         *)
(***************************************************************************)
\* Mutant: the home table asked for twice.
TableOfRowPasted == [Total |-> "overall", Home |-> "home", Away |-> "home"]

TableOfRow == [Total |-> "overall", Home |-> "home", Away |-> "away"]

TeamStatsRaises(df, team) == team \notin TeamsOf(df)

TeamStats(df, team) ==
  [row \in DOMAIN TableOfRow |->
     LET tally == TallyOf(df, TableOfRow[row], team)
         avg   == AveragesOf(df, TableOfRow[row], team)
     IN  [mp |-> tally.played, win |-> tally.won, draw |-> tally.draw,
          lost |-> tally.lost,
          gs |-> tally.goals_scored, gc |-> tally.goals_conceded,
          total_goals |-> tally.goals_scored + tally.goals_conceded,
          position |-> Rank(df, TableOfRow[row], team),
          points |-> tally.points,
          avg_points |-> Float(tally.points, tally.played),
          avg_goals |-> AddF(avg.goals_scored_pg, avg.goals_conceded_pg),
          corners_total |-> AddF(avg.corners_for, avg.corners_against),
          shots_on_goal_f |-> avg.shots_to_score_a_goal,
          shots_on_goal_a |-> avg.shots_to_concede_a_goal,
          fouls_total |-> AddF(avg.fouls_commited, avg.fouls_suffered)]]
=============================================================================
