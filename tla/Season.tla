------------------------------- MODULE Season -------------------------------
(***************************************************************************)
(* A season in progress: the rows that bet_data.csv holds for it grow by   *)
(* one match at a time, in the order the matches are played, and after     *)
(* every match each table of SeasonSummary can be asked for.  The program  *)
(* only ever sees such a prefix, so what holds in every state of this      *)
(* module holds of what the program shows on any day of the season.        *)
(***************************************************************************)
EXTENDS LeagueTables

CONSTANTS
  Teams,     \* the clubs
  Calendar,  \* the fixtures of the season, in the order they are played
  Sheets,    \* the match sheets a match may end with
  MaxGoals   \* the most goals a side scores in one match

VARIABLE data  \* SeasonSummary.data: the season's matches played so far

Fixture == [home : Teams, away : Teams]

\* One side of a match sheet, and the odds of one bookmaker.
Side == [Columns -> Nat]
Odds == [Results -> Nat]

Sheet == [H : Side, A : Side, FTR : Results, PS : Odds, B365 : Odds]

\* The fixtures in which a team appears.
FixturesOf(team) ==
  {i \in DOMAIN Calendar : team \in {Calendar[i].home, Calendar[i].away}}

ASSUME TeamsAssumption == IsFiniteSet(Teams)
ASSUME CalendarAssumption ==
  /\ Calendar \in Seq(Fixture)
  /\ \A i \in DOMAIN Calendar : Calendar[i].home # Calendar[i].away

\* The publisher's sheets are consistent: goals at half time count at full
\* time, and the result column says who scored more.
ASSUME SheetsAssumption ==
  /\ Sheets \subseteq Sheet
  /\ \A s \in Sheets :
       /\ s.H.HTG <= s.H.FTG /\ s.H.FTG <= MaxGoals
       /\ s.A.HTG <= s.A.FTG /\ s.A.FTG <= MaxGoals
       /\ s.FTR = "H" <=> s.H.FTG > s.A.FTG
       /\ s.FTR = "A" <=> s.H.FTG < s.A.FTG

\* Two clubs meet at most once at either ground, as in the Premier League.
NoFixtureTwice == \A i, j \in DOMAIN Calendar : Calendar[i] = Calendar[j] => i = j

(***************************************************************************)
(* A team scores fewer than 500 goals in a season.  rank_points packs      *)
(* points, goal difference and goals into one number with the weights      *)
(* 1000000, 1000 and 1, which is only sound below that bound.  In the      *)
(* Premier League 38 matches at 13 goals each stay below it.               *)
(***************************************************************************)
ASSUME GoalsAssumption ==
  /\ MaxGoals \in Nat
  /\ \A t \in Teams : Cardinality(FixturesOf(t)) * MaxGoals < 500

-----------------------------------------------------------------------------
Init == data = << >>

Row(fixture, sheet) ==
  [HomeTeam |-> fixture.home, AwayTeam |-> fixture.away,
   H |-> sheet.H, A |-> sheet.A,
   FTR |-> sheet.FTR, PS |-> sheet.PS, B365 |-> sheet.B365]

\* Mutant: the newest match goes to the top of the file.
PlayMatchOnTop(sheet) ==
  /\ Len(data) < Len(Calendar)
  /\ data' = << Row(Calendar[Len(data) + 1], sheet) >> \o data

\* The next match of the calendar is played and published.
PlayMatch(sheet) ==
  /\ Len(data) < Len(Calendar)
  /\ data' = Append(data, Row(Calendar[Len(data) + 1], sheet))

Next == \E sheet \in Sheets : PlayMatch(sheet)

Spec == Init /\ [][Next]_data

-----------------------------------------------------------------------------
(***************************************************************************)
(* Properties.                                                             *)
(***************************************************************************)
Match == [HomeTeam : Teams, AwayTeam : Teams, H : Side, A : Side,
          FTR : Results, PS : Odds, B365 : Odds]

\* The rows are the calendar's fixtures, in its order, with published sheets.
TypeOK ==
  /\ data \in Seq(Match)
  /\ Len(data) <= Len(Calendar)
  /\ \A i \in DOMAIN data : \E sheet \in Sheets : data[i] = Row(Calendar[i], sheet)

(***************************************************************************)
(* calc_main_tables implements the standings: filtering, counting and      *)
(* summing the file after every match gives what crediting each match once *)
(* to its two teams would have given, in all three tables.                 *)
(***************************************************************************)
Promised == INSTANCE Standings WITH
  Goals <- 0 .. MaxGoals,
  table <- [type \in TableTypes |-> [t \in Teams |-> TallyOf(data, type, t)]]

ImplementsStandings == Promised!Spec

(***************************************************************************)
(* "rank teams by points, gd, goals_scored": the packed rank_points and    *)
(* the dense rank put one team above another exactly when it is better on  *)
(* the first of the three criteria that tells them apart.                  *)
(***************************************************************************)
Better(x, y) ==
  \/ x.points > y.points
  \/ x.points = y.points /\ x.gd > y.gd
  \/ x.points = y.points /\ x.gd = y.gd /\ x.goals_scored > y.goals_scored

RankFollowsCriteria ==
  \A type \in TableTypes : \A t, u \in TeamsOf(data) :
    Rank(data, type, t) < Rank(data, type, u)
      <=> Better(TallyOf(data, type, t), TallyOf(data, type, u))

(***************************************************************************)
(* No row of a displayed table is better than a row above it, in whichever *)
(* order the set of teams was listed and the sort left teams of one rank;  *)
(* so which points, goal difference and goals stand in a row is the same   *)
(* after every restart, although which of two level teams it is may not be.*)
(***************************************************************************)
TableDescends ==
  \A type \in TableTypes : \A order \in RowOrders(data, type) :
    \A i, j \in DOMAIN order : i < j =>
      ~Better(TallyOf(data, type, order[j]), TallyOf(data, type, order[i]))

(***************************************************************************)
(* The results matrix and the league table are computed from the same rows *)
(* in different ways and tell the same story: when the matrix can be built *)
(* and names every team, points and goals counted from its cells are those *)
(* of the overall table.                                                   *)
(***************************************************************************)
MatrixTellsTheTable ==
  LET matrix == ResultMatrix(data)
      homeOf(t) == {c \in DOMAIN matrix : c[1] = t}
      awayOf(t) == {c \in DOMAIN matrix : c[2] = t}
      score(side) == [c \in DOMAIN matrix |-> matrix[c][side]]
      wins(t) == {c \in homeOf(t) : matrix[c].home_score > matrix[c].away_score}
                 \cup {c \in awayOf(t) : matrix[c].home_score < matrix[c].away_score}
      draws(t) == {c \in homeOf(t) \cup awayOf(t) :
                     matrix[c].home_score = matrix[c].away_score}
  IN  ~MatrixRaises(data) /\ HomeTeams(data) = TeamsOf(data) =>
        \A t \in TeamsOf(data) :
          LET row == OverallTally(data, t)
          IN  /\ row.points = 3 * Cardinality(wins(t)) + Cardinality(draws(t))
              /\ row.goals_scored = Total(score("home_score"), homeOf(t))
                                      + Total(score("away_score"), awayOf(t))

(***************************************************************************)
(* During a season the matrix raises, and when it no longer does can be    *)
(* told from the tables: once every club has hosted, it exists exactly     *)
(* when the home and away tables have every club playing each other club   *)
(* once, that is on the last day and not before.                           *)
(***************************************************************************)
MatrixOnlyWhenAllMet ==
  LET others == Cardinality(TeamsOf(data)) - 1
  IN  HomeTeams(data) = TeamsOf(data) =>
        (~MatrixRaises(data) <=>
           \A t \in TeamsOf(data) : /\ HomeTally(data, t).played = others
                                    /\ AwayTally(data, t).played = others)

(***************************************************************************)
(* Weighting the venue averages by matches played gives the average over   *)
(* all matches of the team, but only once the team has played at both      *)
(* venues: until then the mean of no rows is NaN and 0 * NaN keeps it.     *)
(***************************************************************************)
AveragesArePooled ==
  \A t \in TeamsOf(data) : \A m \in DOMAIN AverageColumns :
    LET column == AverageColumns[m]
        home == HomeMatches(data, t)
        away == AwayMatches(data, t)
        own  == Total(Column(data, IF column[1] = "own" THEN "H" ELSE "A", column[2]), home)
        opp  == Total(Column(data, IF column[1] = "own" THEN "A" ELSE "H", column[2]), away)
        overall == OverallAverages(data, t)[m]
    IN  IF home # {} /\ away # {}
          THEN EqF(overall, Float(own + opp, Cardinality(home) + Cardinality(away)))
          ELSE IsNaN(overall)

(***************************************************************************)
(* Shots per goal of the Total row are a weighted mean of two ratios, not  *)
(* shots over goals: one venue without a goal makes them inf or NaN, goals *)
(* at the other venue or not; otherwise they lie between the two.          *)
(***************************************************************************)
ShotsPerGoalNeedGoals ==
  \A s \in {TeamStats(data, t) : t \in TeamsOf(data)} :
    LET between(f) == \/ LeqF(s.Home[f], s.Total[f]) /\ LeqF(s.Total[f], s.Away[f])
                      \/ LeqF(s.Away[f], s.Total[f]) /\ LeqF(s.Total[f], s.Home[f])
    IN  s.Home.mp > 0 /\ s.Away.mp > 0 =>
          /\ IF s.Home.gs > 0 /\ s.Away.gs > 0
               THEN between("shots_on_goal_f") ELSE ~IsNumber(s.Total.shots_on_goal_f)
          /\ IF s.Home.gc > 0 /\ s.Away.gc > 0
               THEN between("shots_on_goal_a") ELSE ~IsNumber(s.Total.shots_on_goal_a)

(***************************************************************************)
(* Head-to-head: the Total row is the Home and Away rows put together, and *)
(* its averages are over all matches of the team, although the three rows  *)
(* come from three separate calls of calc_main_tables.                     *)
(***************************************************************************)
HeadToHeadAddsUp ==
  \A t \in TeamsOf(data) :
    LET s == TeamStats(data, t)
        sum(f) == s.Home[f] + s.Away[f]
    IN  /\ \A f \in {"mp", "win", "draw", "lost", "gs", "gc", "points"} :
             s.Total[f] = sum(f)
        /\ s.Total.mp = s.Total.win + s.Total.draw + s.Total.lost
        /\ s.Home.mp > 0 /\ s.Away.mp > 0 =>
             EqF(s.Total.avg_goals, Float(s.Total.total_goals, s.Total.mp))

(***************************************************************************)
(* A match only moves the two teams that play it: any two others keep      *)
(* their relative order in every table.                                    *)
(***************************************************************************)
BystandersKeepOrder ==
  [][\A type \in TableTypes : \A t, u \in TeamsOf(data) :
       LET played == data'[Len(data')]
       IN  {t, u} \cap {played.HomeTeam, played.AwayTeam} = {} =>
             (Rank(data, type, t) < Rank(data, type, u))
               <=> (Rank(data', type, t) < Rank(data', type, u))]_data
=============================================================================
