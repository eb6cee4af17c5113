---------------------------- MODULE SeasonReport ----------------------------
(***************************************************************************)
(* The season-wide summaries of a season in progress, set against its      *)
(* league tables: SeasonSummary computes both from the same rows, along    *)
(* code paths that share nothing.                                          *)
(***************************************************************************)
EXTENDS Season, SeasonSummaries

\* A counted column of one table, added up over its teams.
TableTotal(type, column) ==
  SumFunctionOnSet([t \in TeamsOf(data) |-> TallyOf(data, type, t)[column]], TeamsOf(data))

(***************************************************************************)
(* summary_goals and the tables count the same goals: what the home table  *)
(* scores is what the away table concedes, and over the league goal        *)
(* differences cancel.                                                     *)
(***************************************************************************)
GoalsAgreeWithTables ==
  LET goals == SummaryGoals(data)
  IN  /\ goals["home_goals"].ft_cnt = TableTotal("home", "goals_scored")
      /\ goals["home_goals"].ft_cnt = TableTotal("away", "goals_conceded")
      /\ goals["away_goals"].ft_cnt = TableTotal("away", "goals_scored")
      /\ goals["total_goals"].ft_cnt = TableTotal("overall", "goals_scored")
      /\ TableTotal("overall", "gd") = 0
      /\ \A row \in GoalRows : goals[row].sh_cnt >= 0

(***************************************************************************)
(* summary_ft_results counts the FTR column, the tables compare goals:     *)
(* both see the same results, so a decided match is worth three points to  *)
(* the league and a drawn one two.                                         *)
(***************************************************************************)
ResultsAgreeWithTables ==
  LET result == SummaryFtResults(data)
  IN  /\ result["H"].match_cnt = TableTotal("home", "won")
      /\ result["A"].match_cnt = TableTotal("away", "won")
      /\ 2 * result["D"].match_cnt = TableTotal("overall", "draw")
      /\ TableTotal("overall", "points")
           = 3 * (result["H"].match_cnt + result["A"].match_cnt)
               + 2 * result["D"].match_cnt

(***************************************************************************)
(* The goal spread and the goal markets split the same matches: up to      *)
(* three goals "Under" is the scorelines with no more goals, and 4+ is     *)
(* every match in which a side scored more than three.                     *)
(***************************************************************************)
SpreadAgreesWithMarkets ==
  /\ \A k \in 0 .. 3 :
       UnderCount(data, k)
         = SumFunctionOnSet(SpreadCounts(data), {s \in Scorelines : s[1] + s[2] <= k})
  /\ SpreadRest(data)
       = Cardinality({i \in DOMAIN data : data[i].H.FTG > 3 \/ data[i].A.FTG > 3})
  /\ OverCount(data, 4) <= SpreadRest(data) + SpreadCount(data, <<3, 3>>)
       + SpreadCount(data, <<2, 3>>) + SpreadCount(data, <<3, 2>>)

(***************************************************************************)
(* Both reports divide by the matches they count, and raise when there are *)
(* none: a season with a goal spread also has its goal markets.            *)
(***************************************************************************)
MarketsWheneverSpread ==
  data # << >> /\ ~GoalSpreadRaises(data) => ~GoalMarketsRaises(data)

(***************************************************************************)
(* The markets' own divisions by zero: of the ten counts that fair odds    *)
(* are divided by, two decide.  Until both a goalless draw and a match of  *)
(* five goals have been played the report raises, and from then on it      *)
(* never does again.                                                       *)
(***************************************************************************)
MarketsNeedExtremes ==
  LET goals(i) == data[i].H.FTG + data[i].A.FTG
  IN  ~GoalMarketsRaises(data) <=> \E i, j \in DOMAIN data : goals(i) = 0 /\ goals(j) >= 5

(***************************************************************************)
(* summary_stats and the tables agree on cards and fouls: red cards add up *)
(* in every table, a foul committed at home is a foul suffered away, and   *)
(* the league's extremes bound every team's average.                       *)
(***************************************************************************)
StatsAgreeWithTables ==
  data # << >> =>
  LET stats == SummaryStats(data)
      red(type) == SumFunctionOnSet([t \in TeamsOf(data) |-> RedCards(data, type, t)],
                                    TeamsOf(data))
  IN  /\ stats["Home team"]["R"].cnt = red("home")
      /\ stats["Away team"]["R"].cnt = red("away")
      /\ stats["Total"]["R"].cnt = red("overall")
      /\ \A t \in TeamsOf(data) :
           /\ HomeMatches(data, t) # {} =>
                LET avg == HomeAverages(data, t)
                IN  /\ LeqF(Int64(stats["Home team"]["F"].min), avg.fouls_commited)
                    /\ LeqF(avg.fouls_suffered, Int64(stats["Away team"]["F"].max))
                    /\ LeqF(avg.corners_for, Int64(stats["Home team"]["C"].max))
           /\ AwayMatches(data, t) # {} =>
                LET avg == AwayAverages(data, t)
                IN  /\ LeqF(Int64(stats["Home team"]["F"].min), avg.fouls_suffered)
                    /\ LeqF(avg.corners_for, Int64(stats["Away team"]["C"].max))

(***************************************************************************)
(* "get the summary of the full time results and their odds": each row     *)
(* holds the odds of its own result.  The average winning odds of the      *)
(* second bookmaker are listed in the order draw, home, away, while the    *)
(* rows are named home, draw, away.                                        *)
(***************************************************************************)
WinOddsRowsAligned ==
  LET result == SummaryFtResults(data)
  IN  \A r \in Results :
        LET own == MeanOdds(data, WithResult(data, r), "B365", r)
        IN  IsNumber(own) /\ IsNumber(result[r].avg_winodds_bet) =>
              EqF(result[r].avg_winodds_bet, own)

(***************************************************************************)
(* "get the spread of goals in a match", of type DataFrame: a season that  *)
(* is complete has a goal spread.                                          *)
(***************************************************************************)
SpreadOfEverySeason == Len(data) = Len(Calendar) => ~GoalSpreadRaises(data)
=============================================================================
