---------------------------- MODULE SeasonProofs ----------------------------
(***************************************************************************)
(* Theorems about Season for every league, calendar and set of sheets that *)
(* its assumptions admit.                                                  *)
(***************************************************************************)
EXTENDS Season, DataFrameTheorems

-----------------------------------------------------------------------------
(***************************************************************************)
(* The type invariant.                                                     *)
(***************************************************************************)
LEMMA RowType ==
  ASSUME NEW fixture \in Fixture, NEW sheet \in Sheets
  PROVE  Row(fixture, sheet) \in Match
BY SheetsAssumption DEF Row, Match, Fixture, Sheet

\* Appending the next match keeps the rows in step with the calendar.
LEMMA PlayMatchTypeOK ==
  ASSUME TypeOK, NEW sheet \in Sheets, PlayMatch(sheet)
  PROVE  TypeOK'
<1> DEFINE n == Len(data) + 1
           row == Row(Calendar[n], sheet)
<1>1. data \in Seq(Match) /\ Calendar \in Seq(Fixture)
  BY CalendarAssumption DEF TypeOK
<1>2. n \in DOMAIN Calendar /\ data' = Append(data, row)
  BY <1>1 DEF PlayMatch
<1>3. row \in Match
  BY <1>1, <1>2, RowType
<1>4. \E s \in Sheets : row = Row(Calendar[n], s)
  OBVIOUS
<1> HIDE DEF row
<1>5. /\ data' \in Seq(Match) /\ Len(data') = n
      /\ \A i \in 1 .. Len(data) : data'[i] = data[i]
      /\ data'[n] = row
  BY <1>1, <1>2, <1>3
<1> QED
  BY <1>1, <1>2, <1>4, <1>5 DEF TypeOK, PlayMatch

\* Every row the program ever filters is a fixture of the calendar, in its
\* order, with one of the published sheets.
THEOREM TypeCorrect == Spec => []TypeOK
<1>1. Init => TypeOK
  BY CalendarAssumption DEF Init, TypeOK
<1>2. TypeOK /\ [Next]_data => TypeOK'
  <2> SUFFICES ASSUME TypeOK, [Next]_data  PROVE TypeOK'
    OBVIOUS
  <2>1. CASE Next
    BY <2>1, PlayMatchTypeOK DEF Next
  <2>2. CASE UNCHANGED data
    BY <2>2 DEF TypeOK
  <2> QED
    BY <2>1, <2>2
<1> QED
  BY <1>1, <1>2, PTL DEF Spec

-----------------------------------------------------------------------------
(***************************************************************************)
(* What the type invariant says about the rows of one team.                *)
(***************************************************************************)
\* Goals are naturals within the bound, on a sheet and in a row.
LEMMA SheetGoals ==
  ASSUME NEW sheet \in Sheets, NEW side \in {"H", "A"}
  PROVE  sheet[side].FTG \in Nat /\ sheet[side].FTG <= MaxGoals
<1>1. sheet \in Sheet
  BY SheetsAssumption
<1>2. sheet[side] \in [Columns -> Nat]
  BY <1>1 DEF Sheet, Side
<1>3. sheet[side].FTG \in Nat
  BY <1>2 DEF Columns
<1>4. sheet[side].FTG <= MaxGoals
  BY SheetsAssumption
<1> QED
  BY <1>3, <1>4

\* The goals of every row of the file are naturals within the bound.
LEMMA RowGoals ==
  ASSUME TypeOK, NEW i \in DOMAIN data, NEW side \in {"H", "A"}
  PROVE  data[i][side].FTG \in Nat /\ data[i][side].FTG <= MaxGoals
<1>1. PICK sheet \in Sheets : data[i] = Row(Calendar[i], sheet)
  BY DEF TypeOK
<1>2. data[i][side] = sheet[side]
  BY <1>1 DEF Row
<1> QED
  BY <1>2, SheetGoals

\* A team's home and away rows are different rows of its fixtures.
LEMMA RowsOfTeam ==
  ASSUME TypeOK, NEW t
  PROVE  /\ IsFiniteSet(HomeMatches(data, t)) /\ IsFiniteSet(AwayMatches(data, t))
         /\ HomeMatches(data, t) \subseteq DOMAIN data
         /\ AwayMatches(data, t) \subseteq DOMAIN data
         /\ HomeMatches(data, t) \cap AwayMatches(data, t) = {}
         /\ HomeMatches(data, t) \cup AwayMatches(data, t) \subseteq FixturesOf(t)
         /\ IsFiniteSet(FixturesOf(t))
<1>1. /\ DOMAIN data = 1 .. Len(data) /\ Len(data) \in Nat
      /\ DOMAIN Calendar = 1 .. Len(Calendar) /\ Len(Calendar) \in Nat
      /\ DOMAIN data \subseteq DOMAIN Calendar
  BY CalendarAssumption DEF TypeOK
<1>2. IsFiniteSet(DOMAIN data) /\ IsFiniteSet(DOMAIN Calendar)
  BY <1>1, FS_Interval
<1>3. \A i \in DOMAIN data : /\ data[i].HomeTeam = Calendar[i].home
                             /\ data[i].AwayTeam = Calendar[i].away
  BY DEF TypeOK, Row
<1>4. /\ HomeMatches(data, t) \in SUBSET (DOMAIN data)
      /\ AwayMatches(data, t) \in SUBSET (DOMAIN data)
      /\ FixturesOf(t) \in SUBSET (DOMAIN Calendar)
  BY DEF HomeMatches, AwayMatches, FixturesOf
<1>5. HomeMatches(data, t) \cap AwayMatches(data, t) = {}
  BY <1>1, <1>3, CalendarAssumption DEF HomeMatches, AwayMatches
<1>6. HomeMatches(data, t) \cup AwayMatches(data, t) \subseteq FixturesOf(t)
  BY <1>1, <1>3 DEF HomeMatches, AwayMatches, FixturesOf
<1>7. /\ IsFiniteSet(HomeMatches(data, t)) /\ IsFiniteSet(AwayMatches(data, t))
      /\ IsFiniteSet(FixturesOf(t))
  BY <1>2, <1>4, FS_Subset
<1> QED
  BY <1>4, <1>5, <1>6, <1>7

\* The clubs in the rows are clubs of the league.
LEMMA TeamsOfRows ==
  ASSUME TypeOK
  PROVE  TeamsOf(data) \subseteq Teams /\ IsFiniteSet(TeamsOf(data))
<1>1. ASSUME NEW i \in DOMAIN data
      PROVE  data[i].HomeTeam \in Teams /\ data[i].AwayTeam \in Teams
  <2>1. data[i] \in Match
    BY DEF TypeOK
  <2> QED
    BY <2>1 DEF Match
<1>2. TeamsOf(data) \in SUBSET Teams
  BY <1>1 DEF TeamsOf, HomeTeams, AwayTeams
<1> QED
  BY <1>2, TeamsAssumption, FS_Subset

-----------------------------------------------------------------------------
(***************************************************************************)
(* Bounds on the table rows.  The packed rank_points is only an order on   *)
(* the three criteria because goals and goal difference stay below 500.    *)
(***************************************************************************)
LEMMA GoalsOfRows ==
  ASSUME TypeOK, NEW side \in {"H", "A"}, NEW M \in SUBSET (DOMAIN data),
         IsFiniteSet(M)
  PROVE  /\ Total(Column(data, side, "FTG"), M) \in Nat
         /\ Total(Column(data, side, "FTG"), M) <= Cardinality(M) * MaxGoals
<1> DEFINE f == Column(data, side, "FTG")
<1>1. \A i \in M : f[i] \in Nat /\ f[i] <= MaxGoals
  <2> SUFFICES ASSUME NEW i \in M  PROVE f[i] \in Nat /\ f[i] <= MaxGoals
    OBVIOUS
  <2>1. i \in DOMAIN data /\ f[i] = data[i][side].FTG
    BY DEF Column
  <2> QED
    BY <2>1, RowGoals
<1>2. MaxGoals \in Nat
  BY GoalsAssumption
<1>3. Total(f, M) \in Nat /\ Total(f, M) <= Cardinality(M) * MaxGoals
  <2> HIDE DEF f
  <2> QED
    BY <1>1, <1>2, TotalBounded
<1> QED
  BY <1>3

IsRanked(row) ==
  /\ row.points \in Nat
  /\ row.goals_scored \in Nat /\ row.goals_scored < 500
  /\ row.goals_conceded \in Nat /\ row.goals_conceded < 500
  /\ row.gd = row.goals_scored - row.goals_conceded

\* Every row of every table is within those bounds.
LEMMA TallyIsRanked ==
  ASSUME TypeOK, NEW t \in Teams, NEW type \in TableTypes
  PROVE  IsRanked(TallyOf(data, type, t))
<1> DEFINE H == HomeMatches(data, t)
           A == AwayMatches(data, t)
           h == HomeTally(data, t)
           a == AwayTally(data, t)
           hc == Cardinality(H)
           ac == Cardinality(A)
           hg == hc * MaxGoals
           ag == ac * MaxGoals
<1>1. /\ IsFiniteSet(H) /\ IsFiniteSet(A) /\ H \cap A = {}
      /\ H \in SUBSET (DOMAIN data) /\ A \in SUBSET (DOMAIN data)
      /\ H \cup A \in SUBSET FixturesOf(t) /\ IsFiniteSet(FixturesOf(t))
  BY RowsOfTeam
<1>2. hc \in Nat /\ ac \in Nat /\ (hc + ac) * MaxGoals < 500
  <2>1. Cardinality(H \cup A) = hc + ac - Cardinality(H \cap A)
    BY <1>1, FS_Union
  <2>2. Cardinality(H \cap A) = 0 /\ hc \in Nat /\ ac \in Nat
    BY <1>1, FS_EmptySet, FS_CardinalityType
  <2>3. /\ hc + ac <= Cardinality(FixturesOf(t))
        /\ Cardinality(FixturesOf(t)) \in Nat
    <3>1. Cardinality(H \cup A) <= Cardinality(FixturesOf(t))
      BY <1>1, FS_Subset
    <3> QED
      BY <1>1, <2>1, <2>2, <3>1, FS_CardinalityType
  <2>4. (hc + ac) * MaxGoals <= Cardinality(FixturesOf(t)) * MaxGoals
    <3> HIDE DEF hc, ac
    <3> QED
      BY <2>2, <2>3, GoalsAssumption
  <2> QED
    <3> HIDE DEF hc, ac
    <3> QED
      BY <2>2, <2>3, <2>4, GoalsAssumption
<1>3. hg + ag < 500 /\ hg \in Nat /\ ag \in Nat
  <2> HIDE DEF hc, ac
  <2> QED
    BY <1>2, GoalsAssumption DEF hg, ag
<1>4. /\ h.goals_scored \in Nat /\ h.goals_scored <= hg
      /\ h.goals_conceded \in Nat /\ h.goals_conceded <= hg
      /\ h.gd = h.goals_scored - h.goals_conceded
  <2>1. /\ h.goals_scored = Total(Column(data, "H", "FTG"), H)
        /\ h.goals_conceded = Total(Column(data, "A", "FTG"), H)
        /\ h.gd = h.goals_scored - h.goals_conceded
    BY DEF HomeTally, Tally
  <2> QED
    BY <1>1, <2>1, GoalsOfRows
<1>5. /\ a.goals_scored \in Nat /\ a.goals_scored <= ag
      /\ a.goals_conceded \in Nat /\ a.goals_conceded <= ag
      /\ a.gd = a.goals_scored - a.goals_conceded
  <2>1. /\ a.goals_scored = Total(Column(data, "A", "FTG"), A)
        /\ a.goals_conceded = Total(Column(data, "H", "FTG"), A)
        /\ a.gd = a.goals_scored - a.goals_conceded
    BY DEF AwayTally, Tally
  <2> QED
    BY <1>1, <2>1, GoalsOfRows
<1>6. /\ h.won \in Nat /\ h.draw \in Nat /\ h.points = h.won * 3 + h.draw
      /\ a.won \in Nat /\ a.draw \in Nat /\ a.points = a.won * 3 + a.draw
  <2>1. ASSUME NEW M \in SUBSET (DOMAIN data), IsFiniteSet(M), NEW own, NEW opp
        PROVE  LET row == Tally(data, M, own, opp)
               IN  row.won \in Nat /\ row.draw \in Nat
                     /\ row.points = row.won * 3 + row.draw
    <3> DEFINE won  == {i \in M : data[i][own].FTG > data[i][opp].FTG}
               draw == {i \in M : data[i][own].FTG = data[i][opp].FTG}
    <3>1. IsFiniteSet(won) /\ IsFiniteSet(draw)
      BY <2>1, FS_Subset
    <3>2. Cardinality(won) \in Nat /\ Cardinality(draw) \in Nat
      BY <3>1, FS_CardinalityType
    <3> QED
      BY <3>2 DEF Tally
  <2> QED
    BY <1>1, <2>1 DEF HomeTally, AwayTally
<1> HIDE DEF H, A, h, a, hc, ac, hg, ag
<1>7. IsRanked(h) /\ IsRanked(a)
  BY <1>3, <1>4, <1>5, <1>6, SMT DEF IsRanked
<1>8. IsRanked(OverallTally(data, t))
  <2> DEFINE o == OverallTally(data, t)
  <2>1. /\ o.points = (h.won + a.won) * 3 + (h.draw + a.draw)
        /\ o.goals_scored = h.goals_scored + a.goals_scored
        /\ o.goals_conceded = h.goals_conceded + a.goals_conceded
        /\ o.gd = h.gd + a.gd
    BY DEF OverallTally, h, a
  <2> HIDE DEF o
  <2>2. IsRanked(o)
    BY <1>3, <1>4, <1>5, <1>6, <2>1, SMT DEF IsRanked
  <2> QED
    BY <2>2 DEF o
<1> QED
  BY <1>7, <1>8 DEF TallyOf, TableTypes, h, a

-----------------------------------------------------------------------------
(***************************************************************************)
(* The ranking.  rank_points orders rows as the three criteria do, and the *)
(* dense rank counts the distinct rank_points from a row's own upwards, so *)
(* fewer of them means a larger rank_points.                               *)
(***************************************************************************)
LEMMA PackedOrder ==
  ASSUME NEW x, NEW y, IsRanked(x), IsRanked(y)
  PROVE  /\ RankPoints(x) \in Int
         /\ RankPoints(x) > RankPoints(y) <=> Better(x, y)
<1>1. ASSUME NEW r, IsRanked(r)
      PROVE  /\ r.points \in Nat /\ r.gd \in Int
             /\ r.goals_scored \in Nat /\ r.goals_scored < 500
             /\ r.gd < 500 /\ 0 - r.gd < 500
  BY <1>1, SMT DEF IsRanked
<1>2. RankPoints(x) \in Int
  BY <1>1, SMT DEF RankPoints
<1>3. RankPoints(x) > RankPoints(y) => Better(x, y)
  <2>1. /\ x.points \in Nat /\ x.gd \in Int /\ x.goals_scored \in Nat
        /\ x.goals_scored < 500 /\ x.gd < 500 /\ 0 - x.gd < 500
        /\ y.points \in Nat /\ y.gd \in Int /\ y.goals_scored \in Nat
        /\ y.goals_scored < 500 /\ y.gd < 500 /\ 0 - y.gd < 500
    BY <1>1
  <2>2. CASE x.points < y.points
    BY <2>1, <2>2, SMT DEF RankPoints
  <2>3. CASE x.points = y.points /\ x.gd < y.gd
    BY <2>1, <2>3, SMT DEF RankPoints
  <2>4. CASE x.points = y.points /\ x.gd = y.gd /\ ~(x.goals_scored > y.goals_scored)
    BY <2>1, <2>4, SMT DEF RankPoints
  <2> QED
    BY <2>1, <2>2, <2>3, <2>4, SMT DEF Better
<1>4. Better(x, y) => RankPoints(x) > RankPoints(y)
  BY <1>1, SMT DEF RankPoints, Better
<1> QED
  BY <1>2, <1>3, <1>4

\* A dense rank, the number of distinct values at or above one's own, orders
\* teams as their rank_points do.
LEMMA DenseRank ==
  ASSUME NEW all \in SUBSET Int, IsFiniteSet(all), NEW p \in all, NEW q \in all
  PROVE  Cardinality({r \in all : r >= p}) < Cardinality({r \in all : r >= q})
           <=> p > q
<1> DEFINE from(k) == {r \in all : r >= k}
<1>0. ASSUME NEW i \in all, NEW j \in all, i >= j  PROVE from(i) \in SUBSET from(j)
  <2> SUFFICES ASSUME NEW r \in all, r >= i  PROVE r >= j
    OBVIOUS
  <2>1. r \in Int /\ i \in Int /\ j \in Int
    OBVIOUS
  <2> QED
    BY <1>0, <2>1, SMT
<1>1. IsFiniteSet(from(p)) /\ IsFiniteSet(from(q))
  <2>1. from(p) \in SUBSET all /\ from(q) \in SUBSET all
    OBVIOUS
  <2> QED
    BY <2>1, FS_Subset
<1>2. Cardinality(from(p)) \in Nat /\ Cardinality(from(q)) \in Nat
  BY <1>1, FS_CardinalityType
<1>3. ASSUME p > q  PROVE Cardinality(from(p)) < Cardinality(from(q))
  <2>1. from(p) \in SUBSET from(q) /\ from(p) # from(q)
    <3>1. q \in from(q) /\ q \notin from(p)
      BY <1>3
    <3>2. from(p) \in SUBSET from(q)
      BY <1>0, <1>3
    <3> QED
      BY <3>1, <3>2
  <2> HIDE DEF from
  <2>2. /\ Cardinality(from(p)) <= Cardinality(from(q))
        /\ Cardinality(from(q)) # Cardinality(from(p))
    BY <1>1, <2>1, FS_Subset
  <2> QED
    BY <1>2, <2>2
<1>4. ASSUME ~(p > q)  PROVE Cardinality(from(q)) <= Cardinality(from(p))
  <2>1. from(q) \in SUBSET from(p)
    BY <1>0, <1>4
  <2> HIDE DEF from
  <2> QED
    BY <1>1, <2>1, FS_Subset
<1> QED
  <2> HIDE DEF from
  <2>1. Cardinality(from(p)) < Cardinality(from(q)) <=> p > q
    BY <1>2, <1>3, <1>4
  <2> QED
    BY <2>1 DEF from

\* In every state of a season the ranks follow the three criteria.
LEMMA RankingFromTypeOK ==
  ASSUME TypeOK  PROVE RankFollowsCriteria
<1> SUFFICES ASSUME NEW type \in TableTypes,
                    NEW t \in TeamsOf(data), NEW u \in TeamsOf(data)
             PROVE  Rank(data, type, t) < Rank(data, type, u)
                      <=> Better(TallyOf(data, type, t), TallyOf(data, type, u))
  BY DEF RankFollowsCriteria
<1> DEFINE points(v) == RankPoints(TallyOf(data, type, v))
           all == {points(v) : v \in TeamsOf(data)}
<1>1. IsFiniteSet(TeamsOf(data)) /\ TeamsOf(data) \subseteq Teams
  BY TeamsOfRows
<1>2. \A v \in TeamsOf(data) : IsRanked(TallyOf(data, type, v))
  BY <1>1, TallyIsRanked
<1>3. \A v \in TeamsOf(data) : points(v) \in Int
  BY <1>2, PackedOrder
<1>4. all \in SUBSET Int /\ points(t) \in all /\ points(u) \in all
  BY <1>3
<1>5. IsFiniteSet(all)
  <2> DEFINE f == [v \in TeamsOf(data) |-> points(v)]
  <2>1. f \in Surjection(TeamsOf(data), all)
    BY DEF Surjection
  <2> HIDE DEF f, all
  <2> QED
    BY <1>1, <2>1, FS_Surjection
<1>6. Rank(data, type, t) < Rank(data, type, u) <=> points(t) > points(u)
  <2>1. /\ Rank(data, type, t) = Cardinality({r \in all : r >= points(t)})
        /\ Rank(data, type, u) = Cardinality({r \in all : r >= points(u)})
    BY DEF Rank
  <2> HIDE DEF all
  <2>2. Cardinality({r \in all : r >= points(t)}) < Cardinality({r \in all : r >= points(u)})
          <=> points(t) > points(u)
    <3> HIDE DEF points
    <3> QED
      BY <1>4, <1>5, DenseRank
  <2> QED
    BY <2>1, <2>2
<1> QED
  BY <1>2, <1>6, PackedOrder

\* "rank teams by points, gd, goals_scored" holds of all three tables after
\* every match, whatever the league, as long as no team reaches 500 goals.
THEOREM RankingSound == Spec => []RankFollowsCriteria
<1>1. TypeOK => RankFollowsCriteria
  BY RankingFromTypeOK
<1> QED
  BY <1>1, TypeCorrect, PTL

\* A rank counts the finitely many points that are as many or more.
LEMMA RankIsNat ==
  ASSUME TypeOK, NEW type \in TableTypes, NEW t \in TeamsOf(data)
  PROVE  Rank(data, type, t) \in Nat
<1> DEFINE f == [u \in TeamsOf(data) |-> RankPoints(TallyOf(data, type, u))]
           all == {RankPoints(TallyOf(data, type, u)) : u \in TeamsOf(data)}
           above == {p \in all : p >= RankPoints(TallyOf(data, type, t))}
<1>1. IsFiniteSet(TeamsOf(data))
  BY TeamsOfRows
<1>2. f \in Surjection(TeamsOf(data), all)
  BY DEF Surjection
<1>3. IsFiniteSet(all)
  <2> HIDE DEF f, all
  <2> QED
    BY <1>1, <1>2, FS_Surjection
<1>4. Cardinality(above) \in Nat
  <2>1. above \subseteq all
    OBVIOUS
  <2> HIDE DEF above, all
  <2> QED
    BY <1>3, <2>1, FS_Subset, FS_CardinalityType
<1> QED
  BY <1>4 DEF Rank

\* The displayed tables descend by the three criteria after every match,
\* whichever order the set of teams had and the sort left level teams in.
THEOREM TablesDescend == Spec => []TableDescends
<1>1. TypeOK => TableDescends
  <2> SUFFICES ASSUME TypeOK, NEW type \in TableTypes, NEW order \in RowOrders(data, type),
                      NEW i \in DOMAIN order, NEW j \in DOMAIN order, i < j,
                      Better(TallyOf(data, type, order[j]), TallyOf(data, type, order[i]))
               PROVE  FALSE
    BY DEF TableDescends
  <2>1. /\ order[i] \in TeamsOf(data) /\ order[j] \in TeamsOf(data)
        /\ Rank(data, type, order[i]) <= Rank(data, type, order[j])
    BY DEF RowOrders
  <2>2. Rank(data, type, order[j]) < Rank(data, type, order[i])
    BY <2>1, RankingFromTypeOK DEF RankFollowsCriteria
  <2>3. Rank(data, type, order[i]) \in Nat /\ Rank(data, type, order[j]) \in Nat
    BY <2>1, RankIsNat
  <2> QED
    BY <2>1, <2>2, <2>3
<1> QED
  BY <1>1, TypeCorrect, PTL

-----------------------------------------------------------------------------
(***************************************************************************)
(* What a match adds to the rows of a team, and to its tallies.            *)
(***************************************************************************)
LEMMA RowsAfterMatch ==
  ASSUME TypeOK, NEW sheet \in Sheets, PlayMatch(sheet)
  PROVE  /\ TypeOK'
         /\ Len(data') = Len(data) + 1
         /\ DOMAIN data' = DOMAIN data \cup {Len(data')} /\ Len(data') \notin DOMAIN data
         /\ \A i \in DOMAIN data : data'[i] = data[i]
         /\ data'[Len(data')] = Row(Calendar[Len(data')], sheet)
         /\ data'[Len(data')].HomeTeam # data'[Len(data')].AwayTeam
         /\ \A t : /\ HomeMatches(data', t) = IF data'[Len(data')].HomeTeam = t
                                                THEN HomeMatches(data, t) \cup {Len(data')}
                                                ELSE HomeMatches(data, t)
                   /\ AwayMatches(data', t) = IF data'[Len(data')].AwayTeam = t
                                                THEN AwayMatches(data, t) \cup {Len(data')}
                                                ELSE AwayMatches(data, t)
<1> DEFINE n == Len(data) + 1
           row == Row(Calendar[n], sheet)
<1>1. data \in Seq(Match) /\ Calendar \in Seq(Fixture)
  BY CalendarAssumption DEF TypeOK
<1>2. n \in DOMAIN Calendar /\ data' = Append(data, row)
  BY <1>1 DEF PlayMatch
<1>3. row \in Match
  BY <1>1, <1>2, RowType
<1>4. row.HomeTeam # row.AwayTeam
  BY <1>2, CalendarAssumption DEF Row
<1> HIDE DEF row
<1>5. /\ Len(data') = n /\ n \notin DOMAIN data
      /\ DOMAIN data' = DOMAIN data \cup {n}
      /\ \A i \in DOMAIN data : data'[i] = data[i]
      /\ data'[n] = row
  BY <1>1, <1>2, <1>3
<1>6. TypeOK'
  BY PlayMatchTypeOK
<1> HIDE DEF n
<1>7. ASSUME NEW t
      PROVE  /\ HomeMatches(data', t) = IF row.HomeTeam = t
                                          THEN HomeMatches(data, t) \cup {n}
                                          ELSE HomeMatches(data, t)
             /\ AwayMatches(data', t) = IF row.AwayTeam = t
                                          THEN AwayMatches(data, t) \cup {n}
                                          ELSE AwayMatches(data, t)
  BY <1>5 DEF HomeMatches, AwayMatches
<1>8. data'[Len(data')] = Row(Calendar[Len(data')], sheet)
  BY <1>5 DEF n, row
<1> QED
  BY <1>4, <1>5, <1>6, <1>7, <1>8 DEF n

\* Rows that were there before keep counting for the same.
LEMMA GoalsKeep ==
  ASSUME TypeOK, NEW sheet \in Sheets, PlayMatch(sheet),
         NEW M \in SUBSET (DOMAIN data), NEW side \in {"H", "A"}
  PROVE  Total(Column(data', side, "FTG"), M) = Total(Column(data, side, "FTG"), M)
<1>1. /\ \A i \in M : data'[i] = data[i]
      /\ DOMAIN data \subseteq DOMAIN data'
  BY RowsAfterMatch
<1>2. \A i \in M : Column(data', side, "FTG")[i] = Column(data, side, "FTG")[i]
  BY <1>1 DEF Column
<1> QED
  BY <1>2, TotalAgrees

\* A match appended to the file changes no count over the rows before it.
LEMMA TallyKeeps ==
  ASSUME TypeOK, NEW sheet \in Sheets, PlayMatch(sheet),
         NEW M \in SUBSET (DOMAIN data), NEW own \in {"H", "A"}, NEW opp \in {"H", "A"}
  PROVE  Tally(data', M, own, opp) = Tally(data, M, own, opp)
<1>1. /\ \A i \in M : data'[i] = data[i]
      /\ DOMAIN data \subseteq DOMAIN data'
  BY RowsAfterMatch
<1>2. /\ {i \in M : data'[i][own].FTG > data'[i][opp].FTG}
           = {i \in M : data[i][own].FTG > data[i][opp].FTG}
      /\ {i \in M : data'[i][own].FTG = data'[i][opp].FTG}
           = {i \in M : data[i][own].FTG = data[i][opp].FTG}
      /\ {i \in M : data'[i][own].FTG < data'[i][opp].FTG}
           = {i \in M : data[i][own].FTG < data[i][opp].FTG}
  BY <1>1
<1> QED
  BY <1>2, GoalsKeep DEF Tally

\* A team that does not play keeps its row in every table.
LEMMA BystanderKeepsRow ==
  ASSUME TypeOK, NEW sheet \in Sheets, PlayMatch(sheet), NEW type \in TableTypes, NEW t,
         t \notin {data'[Len(data')].HomeTeam, data'[Len(data')].AwayTeam}
  PROVE  TallyOf(data', type, t) = TallyOf(data, type, t)
<1>1. /\ HomeMatches(data', t) = HomeMatches(data, t)
      /\ AwayMatches(data', t) = AwayMatches(data, t)
  BY RowsAfterMatch
<1>2. /\ HomeMatches(data, t) \in SUBSET (DOMAIN data)
      /\ AwayMatches(data, t) \in SUBSET (DOMAIN data)
  BY RowsOfTeam
<1>3. HomeTally(data', t) = HomeTally(data, t) /\ AwayTally(data', t) = AwayTally(data, t)
  BY <1>1, <1>2, TallyKeeps DEF HomeTally, AwayTally
<1>4. OverallTally(data', t) = OverallTally(data, t)
  BY <1>3 DEF OverallTally
<1> QED
  BY <1>3, <1>4 DEF TallyOf

\* Teams of a season never leave its tables.
LEMMA TeamsStay ==
  ASSUME TypeOK, NEW sheet \in Sheets, PlayMatch(sheet)
  PROVE  TeamsOf(data) \subseteq TeamsOf(data')
<1>1. /\ \A i \in DOMAIN data : data'[i] = data[i]
      /\ DOMAIN data \subseteq DOMAIN data'
  BY RowsAfterMatch
<1> QED
  BY <1>1 DEF TeamsOf, HomeTeams, AwayTeams

\* A match leaves the relative order of any two other teams alone, in every
\* table, although every rank is computed anew from all the rows.
THEOREM BystandersSound == Spec => BystandersKeepOrder
<1> DEFINE Keeps ==
      \A type \in TableTypes : \A t, u \in TeamsOf(data) :
        LET played == data'[Len(data')]
        IN  {t, u} \cap {played.HomeTeam, played.AwayTeam} = {} =>
              (Rank(data, type, t) < Rank(data, type, u))
                <=> (Rank(data', type, t) < Rank(data', type, u))
<1>1. TypeOK => RankFollowsCriteria
  BY RankingFromTypeOK
<1>2. TypeOK /\ TypeOK' /\ [Next]_data => [Keeps]_data
  <2> SUFFICES ASSUME TypeOK, TypeOK', NEW sheet \in Sheets, PlayMatch(sheet)
               PROVE  Keeps
    BY DEF Next
  <2> SUFFICES ASSUME NEW type \in TableTypes,
                      NEW t \in TeamsOf(data), NEW u \in TeamsOf(data),
                      t \notin {data'[Len(data')].HomeTeam, data'[Len(data')].AwayTeam},
                      u \notin {data'[Len(data')].HomeTeam, data'[Len(data')].AwayTeam}
               PROVE  (Rank(data, type, t) < Rank(data, type, u))
                        <=> (Rank(data', type, t) < Rank(data', type, u))
    OBVIOUS
  <2>1. RankFollowsCriteria
    BY <1>1
  <2>2. RankFollowsCriteria'
    BY <1>1, PTL
  <2>3. t \in TeamsOf(data') /\ u \in TeamsOf(data')
    BY TeamsStay
  <2>4. /\ TallyOf(data', type, t) = TallyOf(data, type, t)
        /\ TallyOf(data', type, u) = TallyOf(data, type, u)
    BY BystanderKeepsRow
  <2>5. (Rank(data, type, t) < Rank(data, type, u))
          <=> Better(TallyOf(data, type, t), TallyOf(data, type, u))
    BY <2>1 DEF RankFollowsCriteria
  <2>6. (Rank(data', type, t) < Rank(data', type, u))
          <=> Better(TallyOf(data', type, t), TallyOf(data', type, u))
    BY <2>2, <2>3 DEF RankFollowsCriteria
  <2> QED
    BY <2>4, <2>5, <2>6
<1> QED
  BY <1>2, TypeCorrect, PTL DEF Spec, BystandersKeepOrder

-----------------------------------------------------------------------------
(***************************************************************************)
(* The tables implement the standings.                                     *)
(***************************************************************************)
\* No rows, blank tables.
LEMMA TallyOfNoRows ==
  ASSUME NEW type \in TableTypes, NEW t
  PROVE  TallyOf(<< >>, type, t) = Promised!Blank
<1>1. HomeMatches(<< >>, t) = {} /\ AwayMatches(<< >>, t) = {}
  BY DEF HomeMatches, AwayMatches
<1>2. ASSUME NEW own, NEW opp
      PROVE  Tally(<< >>, {}, own, opp) = Promised!Blank
  BY TotalOfNone, FS_EmptySet DEF Tally, Promised!Blank
<1>3. HomeTally(<< >>, t) = Promised!Blank /\ AwayTally(<< >>, t) = Promised!Blank
  BY <1>1, <1>2 DEF HomeTally, AwayTally
<1>4. OverallTally(<< >>, t) = Promised!Blank
  BY <1>3 DEF OverallTally, Promised!Blank
<1> QED
  BY <1>3, <1>4 DEF TallyOf, TableTypes

\* Counting one row more or not.
LEMMA CountAddRow ==
  ASSUME NEW Y, IsFiniteSet(Y), NEW n
  PROVE  Cardinality(Y) = Cardinality(Y \ {n}) + IF n \in Y THEN 1 ELSE 0
<1>1. Cardinality(Y) \in Nat
  BY FS_CardinalityType
<1>2. Cardinality(Y \ {n}) = IF n \in Y THEN Cardinality(Y) - 1 ELSE Cardinality(Y)
  BY FS_RemoveElement
<1> QED
  BY <1>1, <1>2

\* The new row adds its goals to a column's sum over earlier rows, once.
LEMMA GoalsCredit ==
  ASSUME TypeOK, NEW sheet \in Sheets, PlayMatch(sheet),
         NEW M \in SUBSET (DOMAIN data), IsFiniteSet(M), NEW side \in {"H", "A"}
  PROVE  Total(Column(data', side, "FTG"), M \cup {Len(data')})
           = Total(Column(data, side, "FTG"), M) + data'[Len(data')][side].FTG
<1> DEFINE n == Len(data')
           f == Column(data', side, "FTG")
<1>1. /\ n \in DOMAIN data' /\ n \notin M /\ DOMAIN data \subseteq DOMAIN data'
      /\ \A i \in M : data'[i] = data[i]
      /\ data'[n] = Row(Calendar[n], sheet)
  BY RowsAfterMatch
<1>2. f[n] = sheet[side].FTG /\ f[n] = data'[n][side].FTG
  BY <1>1 DEF Column, Row
<1>3. \A i \in M : f[i] = data[i][side].FTG
  BY <1>1 DEF Column
<1>4. \A i \in M \cup {n} : f[i] \in Nat /\ f[i] <= MaxGoals
  BY <1>2, <1>3, SheetGoals, RowGoals
<1>5. Total(f, M \cup {n}) = Total(f, M) + f[n]
  <2> HIDE DEF f, n
  <2> QED
    BY <1>1, <1>4, GoalsAssumption, TotalAddRow
<1> QED
  BY <1>2, <1>5, GoalsKeep

\* Selecting the new row as well credits its match to the tally.
LEMMA TallyCredits ==
  ASSUME TypeOK, NEW sheet \in Sheets, PlayMatch(sheet),
         NEW M \in SUBSET (DOMAIN data), IsFiniteSet(M),
         NEW own \in {"H", "A"}, NEW opp \in {"H", "A"}
  PROVE  Tally(data', M \cup {Len(data')}, own, opp)
           = Promised!Credit(Tally(data, M, own, opp),
                             data'[Len(data')][own].FTG, data'[Len(data')][opp].FTG)
<1> DEFINE n == Len(data')
           N == M \cup {n}
           gf == data'[n][own].FTG
           ga == data'[n][opp].FTG
           won(d, S)  == {i \in S : d[i][own].FTG > d[i][opp].FTG}
           draw(d, S) == {i \in S : d[i][own].FTG = d[i][opp].FTG}
           lost(d, S) == {i \in S : d[i][own].FTG < d[i][opp].FTG}
           scored   == Total(Column(data, own, "FTG"), M)
           conceded == Total(Column(data, opp, "FTG"), M)
<1>1. /\ n \in DOMAIN data' /\ n \notin M
      /\ \A i \in M : data'[i] = data[i]
      /\ data'[n] = Row(Calendar[n], sheet)
  BY RowsAfterMatch
<1>2. gf \in Nat /\ ga \in Nat
  BY <1>1, SheetGoals DEF Row
<1>3. /\ won(data', N) \ {n} = won(data, M) /\ (n \in won(data', N) <=> gf > ga)
      /\ draw(data', N) \ {n} = draw(data, M) /\ (n \in draw(data', N) <=> gf = ga)
      /\ lost(data', N) \ {n} = lost(data, M) /\ (n \in lost(data', N) <=> gf < ga)
  BY <1>1
<1>4. /\ Cardinality(won(data', N))  = Cardinality(won(data, M)) + Promised!One(gf > ga)
      /\ Cardinality(draw(data', N)) = Cardinality(draw(data, M)) + Promised!One(gf = ga)
      /\ Cardinality(lost(data', N)) = Cardinality(lost(data, M)) + Promised!One(gf < ga)
  <2>1. /\ IsFiniteSet(won(data', N)) /\ IsFiniteSet(draw(data', N))
        /\ IsFiniteSet(lost(data', N))
    <3>1. /\ won(data', N) \in SUBSET N /\ draw(data', N) \in SUBSET N
          /\ lost(data', N) \in SUBSET N
      OBVIOUS
    <3>2. IsFiniteSet(N)
      BY FS_AddElement
    <3> HIDE DEF won, draw, lost, N
    <3> QED
      BY <3>1, <3>2, FS_Subset
  <2> HIDE DEF won, draw, lost, n, gf, ga, N
  <2>2. Cardinality(won(data', N)) = Cardinality(won(data, M)) + Promised!One(gf > ga)
    <3>1. Cardinality(won(data', N))
            = Cardinality(won(data', N) \ {n}) + IF n \in won(data', N) THEN 1 ELSE 0
      BY <2>1, CountAddRow
    <3> QED
      BY <1>3, <3>1 DEF Promised!One
  <2>3. Cardinality(draw(data', N)) = Cardinality(draw(data, M)) + Promised!One(gf = ga)
    <3>1. Cardinality(draw(data', N))
            = Cardinality(draw(data', N) \ {n}) + IF n \in draw(data', N) THEN 1 ELSE 0
      BY <2>1, CountAddRow
    <3> QED
      BY <1>3, <3>1 DEF Promised!One
  <2>4. Cardinality(lost(data', N)) = Cardinality(lost(data, M)) + Promised!One(gf < ga)
    <3>1. Cardinality(lost(data', N))
            = Cardinality(lost(data', N) \ {n}) + IF n \in lost(data', N) THEN 1 ELSE 0
      BY <2>1, CountAddRow
    <3> QED
      BY <1>3, <3>1 DEF Promised!One
  <2> QED
    BY <2>2, <2>3, <2>4
<1>5. /\ Total(Column(data', own, "FTG"), N) = scored + gf
      /\ Total(Column(data', opp, "FTG"), N) = conceded + ga
  BY GoalsCredit
<1>6. Cardinality(N) = Cardinality(M) + 1
  BY <1>1, FS_AddElement
<1>7. scored \in Nat /\ conceded \in Nat
  BY GoalsOfRows
<1>8. /\ Cardinality(won(data, M)) \in Nat /\ Cardinality(draw(data, M)) \in Nat
      /\ Promised!One(gf > ga) \in Nat /\ Promised!One(gf = ga) \in Nat
  <2>1. won(data, M) \in SUBSET M /\ draw(data, M) \in SUBSET M
    OBVIOUS
  <2> HIDE DEF won, draw
  <2> QED
    BY <2>1, FS_Subset, FS_CardinalityType DEF Promised!One
<1> DEFINE before == Tally(data, M, own, opp)
           after == Tally(data', N, own, opp)
           w == Promised!One(gf > ga)
           d == Promised!One(gf = ga)
<1>9. /\ after.gd = (scored + gf) - (conceded + ga)
      /\ before.gd + (gf - ga) = (scored + gf) - (conceded + ga)
  <2>1. before.gd = scored - conceded /\ after.gd = (scored + gf) - (conceded + ga)
    BY <1>5 DEF Tally
  <2> HIDE DEF before, after, scored, conceded, gf, ga
  <2> QED
    BY <1>2, <1>7, <2>1, SMT
<1>10. after.points = before.points + 3 * w + d
  <2> DEFINE cw == Cardinality(won(data, M))
             cd == Cardinality(draw(data, M))
  <2>1. before.points = cw * 3 + cd /\ after.points = (cw + w) * 3 + (cd + d)
    BY <1>4 DEF Tally
  <2>2. cw \in Nat /\ cd \in Nat /\ w \in Nat /\ d \in Nat
    BY <1>8
  <2> HIDE DEF cw, cd, w, d, before, after
  <2> QED
    BY <2>1, <2>2, SMT
<1>11. after = Promised!Credit(before, gf, ga)
  BY <1>4, <1>5, <1>6, <1>9, <1>10 DEF Tally, Promised!Credit
<1> QED
  BY <1>11

\* The rows of the standings.
Standing == [played : Nat, won : Nat, draw : Nat, lost : Nat, goals_scored : Nat,
             goals_conceded : Nat, gd : Int, points : Nat]

\* A counted table row has naturals, and an integer goal difference.
LEMMA TallyType ==
  ASSUME TypeOK, NEW M \in SUBSET (DOMAIN data), IsFiniteSet(M),
         NEW own \in {"H", "A"}, NEW opp \in {"H", "A"}
  PROVE  Tally(data, M, own, opp) \in Standing
<1> DEFINE won  == {i \in M : data[i][own].FTG > data[i][opp].FTG}
           draw == {i \in M : data[i][own].FTG = data[i][opp].FTG}
           lost == {i \in M : data[i][own].FTG < data[i][opp].FTG}
           scored   == Total(Column(data, own, "FTG"), M)
           conceded == Total(Column(data, opp, "FTG"), M)
<1>1. /\ Cardinality(won) \in Nat /\ Cardinality(draw) \in Nat
      /\ Cardinality(lost) \in Nat /\ Cardinality(M) \in Nat
  <2>1. won \in SUBSET M /\ draw \in SUBSET M /\ lost \in SUBSET M
    OBVIOUS
  <2> HIDE DEF won, draw, lost
  <2> QED
    BY <2>1, FS_Subset, FS_CardinalityType
<1>2. scored \in Nat /\ conceded \in Nat
  BY GoalsOfRows
<1>3. scored - conceded \in Int /\ Cardinality(won) * 3 + Cardinality(draw) \in Nat
  <2> HIDE DEF won, draw, scored, conceded
  <2> QED
    BY <1>1, <1>2
<1> QED
  BY <1>1, <1>2, <1>3 DEF Tally, Standing

\* A match at one venue credits the overall row as it credits that venue's.
LEMMA OverallCredits ==
  ASSUME NEW d, NEW e, NEW t, NEW gf \in Nat, NEW ga \in Nat,
         HomeTally(d, t) \in Standing, AwayTally(d, t) \in Standing,
         \/ /\ HomeTally(e, t) = Promised!Credit(HomeTally(d, t), gf, ga)
            /\ AwayTally(e, t) = AwayTally(d, t)
         \/ /\ HomeTally(e, t) = HomeTally(d, t)
            /\ AwayTally(e, t) = Promised!Credit(AwayTally(d, t), gf, ga)
  PROVE  OverallTally(e, t) = Promised!Credit(OverallTally(d, t), gf, ga)
<1> DEFINE h == HomeTally(d, t)
           a == AwayTally(d, t)
           hh == HomeTally(e, t)
           aa == AwayTally(e, t)
           w == Promised!One(gf > ga)
           q == Promised!One(gf = ga)
           l == Promised!One(gf < ga)
<1>1. /\ h.played \in Nat /\ h.won \in Nat /\ h.draw \in Nat /\ h.lost \in Nat
      /\ h.goals_scored \in Nat /\ h.goals_conceded \in Nat /\ h.gd \in Int
      /\ a.played \in Nat /\ a.won \in Nat /\ a.draw \in Nat /\ a.lost \in Nat
      /\ a.goals_scored \in Nat /\ a.goals_conceded \in Nat /\ a.gd \in Int
  BY DEF Standing
<1>2. w \in Nat /\ q \in Nat /\ l \in Nat
  BY DEF Promised!One
<1>3. /\ hh.played + aa.played = h.played + a.played + 1
      /\ hh.won + aa.won = h.won + a.won + w
      /\ hh.draw + aa.draw = h.draw + a.draw + q
      /\ hh.lost + aa.lost = h.lost + a.lost + l
      /\ hh.goals_scored + aa.goals_scored = h.goals_scored + a.goals_scored + gf
      /\ hh.goals_conceded + aa.goals_conceded = h.goals_conceded + a.goals_conceded + ga
      /\ hh.gd + aa.gd = h.gd + a.gd + (gf - ga)
  <2>1. CASE hh = Promised!Credit(h, gf, ga) /\ aa = a
    <3>1. /\ hh.played = h.played + 1 /\ hh.won = h.won + w /\ hh.draw = h.draw + q
          /\ hh.lost = h.lost + l /\ hh.goals_scored = h.goals_scored + gf
          /\ hh.goals_conceded = h.goals_conceded + ga /\ hh.gd = h.gd + (gf - ga)
      BY <2>1 DEF Promised!Credit
    <3> HIDE DEF h, a, hh, aa, w, q, l
    <3> QED
      BY <1>1, <1>2, <2>1, <3>1
  <2>2. CASE hh = h /\ aa = Promised!Credit(a, gf, ga)
    <3>1. /\ aa.played = a.played + 1 /\ aa.won = a.won + w /\ aa.draw = a.draw + q
          /\ aa.lost = a.lost + l /\ aa.goals_scored = a.goals_scored + gf
          /\ aa.goals_conceded = a.goals_conceded + ga /\ aa.gd = a.gd + (gf - ga)
      BY <2>2 DEF Promised!Credit
    <3> HIDE DEF h, a, hh, aa, w, q, l
    <3>2. h.gd + (a.gd + (gf - ga)) = h.gd + a.gd + (gf - ga)
      BY <1>1, SMT
    <3>3. hh.gd + aa.gd = h.gd + a.gd + (gf - ga)
      BY <2>2, <3>1, <3>2
    <3> QED
      BY <1>1, <1>2, <2>2, <3>1, <3>3
  <2> QED
    BY <2>1, <2>2
<1>4. (hh.won + aa.won) * 3 + (hh.draw + aa.draw)
        = (h.won + a.won) * 3 + (h.draw + a.draw) + 3 * w + q
  <2> HIDE DEF h, a, hh, aa, w, q
  <2> QED
    BY <1>1, <1>2, <1>3
<1> QED
  BY <1>3, <1>4 DEF OverallTally, Promised!Credit

\* What a match does to the row of any team in the three tables.
LEMMA MatchCreditsTables ==
  ASSUME TypeOK, NEW sheet \in Sheets, PlayMatch(sheet), NEW t,
         NEW home, home = data'[Len(data')].HomeTeam,
         NEW away, away = data'[Len(data')].AwayTeam,
         NEW gh, gh = data'[Len(data')].H.FTG, NEW ga, ga = data'[Len(data')].A.FTG
  PROVE  /\ TallyOf(data', "home", t)
              = IF t = home THEN Promised!Credit(TallyOf(data, "home", t), gh, ga)
                            ELSE TallyOf(data, "home", t)
         /\ TallyOf(data', "away", t)
              = IF t = away THEN Promised!Credit(TallyOf(data, "away", t), ga, gh)
                            ELSE TallyOf(data, "away", t)
         /\ TallyOf(data', "overall", t)
              = IF t = home THEN Promised!Credit(TallyOf(data, "overall", t), gh, ga)
                ELSE IF t = away THEN Promised!Credit(TallyOf(data, "overall", t), ga, gh)
                ELSE TallyOf(data, "overall", t)
<1> DEFINE n == Len(data')
           H == HomeMatches(data, t)
           A == AwayMatches(data, t)
<1>1. /\ H \in SUBSET (DOMAIN data) /\ IsFiniteSet(H)
      /\ A \in SUBSET (DOMAIN data) /\ IsFiniteSet(A)
  BY RowsOfTeam
<1>2. /\ HomeMatches(data', t) = IF t = home THEN H \cup {n} ELSE H
      /\ AwayMatches(data', t) = IF t = away THEN A \cup {n} ELSE A
      /\ home # away
      /\ data'[n] = Row(Calendar[n], sheet)
  BY RowsAfterMatch
<1>3. HomeTally(data', t) = IF t = home THEN Promised!Credit(HomeTally(data, t), gh, ga)
                                        ELSE HomeTally(data, t)
  <2>1. CASE t = home
    <3>1. Tally(data', H \cup {n}, "H", "A") = Promised!Credit(Tally(data, H, "H", "A"), gh, ga)
      BY <1>1, TallyCredits
    <3> QED
      BY <1>2, <2>1, <3>1 DEF HomeTally
  <2>2. CASE t # home
    <3>1. Tally(data', H, "H", "A") = Tally(data, H, "H", "A")
      BY <1>1, TallyKeeps
    <3> QED
      BY <1>2, <2>2, <3>1 DEF HomeTally
  <2> QED
    BY <2>1, <2>2
<1>4. AwayTally(data', t) = IF t = away THEN Promised!Credit(AwayTally(data, t), ga, gh)
                                        ELSE AwayTally(data, t)
  <2>1. CASE t = away
    <3>1. Tally(data', A \cup {n}, "A", "H") = Promised!Credit(Tally(data, A, "A", "H"), ga, gh)
      BY <1>1, TallyCredits
    <3> QED
      BY <1>2, <2>1, <3>1 DEF AwayTally
  <2>2. CASE t # away
    <3>1. Tally(data', A, "A", "H") = Tally(data, A, "A", "H")
      BY <1>1, TallyKeeps
    <3> QED
      BY <1>2, <2>2, <3>1 DEF AwayTally
  <2> QED
    BY <2>1, <2>2
<1>5. HomeTally(data, t) \in Standing /\ AwayTally(data, t) \in Standing
  BY <1>1, TallyType DEF HomeTally, AwayTally
<1>6. gh \in Nat /\ ga \in Nat
  BY <1>2, SheetGoals DEF Row
<1>7. OverallTally(data', t)
        = IF t = home THEN Promised!Credit(OverallTally(data, t), gh, ga)
          ELSE IF t = away THEN Promised!Credit(OverallTally(data, t), ga, gh)
          ELSE OverallTally(data, t)
  <2>1. CASE t = home
    <3>1. /\ HomeTally(data', t) = Promised!Credit(HomeTally(data, t), gh, ga)
          /\ AwayTally(data', t) = AwayTally(data, t)
      BY <1>2, <1>3, <1>4, <2>1
    <3> QED
      BY <1>5, <1>6, <2>1, <3>1, OverallCredits
  <2>2. CASE t = away
    <3>1. /\ HomeTally(data', t) = HomeTally(data, t)
          /\ AwayTally(data', t) = Promised!Credit(AwayTally(data, t), ga, gh)
      BY <1>2, <1>3, <1>4, <2>2
    <3> QED
      BY <1>2, <1>5, <1>6, <2>2, <3>1, OverallCredits
  <2>3. CASE t # home /\ t # away
    BY <1>3, <1>4, <2>3 DEF OverallTally
  <2> QED
    BY <2>1, <2>2, <2>3
<1> QED
  BY <1>3, <1>4, <1>7 DEF TallyOf

\* calc_main_tables implements the standings: the tables recomputed from the
\* whole file after a match are the old tables with that match credited once
\* to each of its two teams.
THEOREM StandingsImplemented == Spec => ImplementsStandings
<1> DEFINE tables == [type \in TableTypes |-> [t \in Teams |-> TallyOf(data, type, t)]]
<1>1. Init => Promised!Init
  <2> SUFFICES ASSUME data = << >>
               PROVE  tables = [type \in {"overall", "home", "away"}
                                  |-> [t \in Teams |-> Promised!Blank]]
    BY DEF Init, Promised!Init
  <2> QED
    BY TallyOfNoRows DEF TableTypes
<1>2. TypeOK /\ [Next]_data => [Promised!Next]_tables
  <2> SUFFICES ASSUME TypeOK, NEW sheet \in Sheets, PlayMatch(sheet)
               PROVE  Promised!Next
    BY DEF Next
  <2> DEFINE match == data'[Len(data')]
             home == match.HomeTeam
             away == match.AwayTeam
             gh == match.H.FTG
             ga == match.A.FTG
  <2>1. /\ home \in Teams /\ away \in Teams /\ home # away
        /\ gh \in 0 .. MaxGoals /\ ga \in 0 .. MaxGoals
    <3>1. /\ TypeOK' /\ Len(data') \in DOMAIN data' /\ home # away
          /\ match = Row(Calendar[Len(data')], sheet)
      BY RowsAfterMatch
    <3>2. match \in Match
      BY <3>1 DEF TypeOK
    <3>3. match.H = sheet.H /\ match.A = sheet.A
      BY <3>1 DEF Row
    <3>4. gh \in Nat /\ gh <= MaxGoals /\ ga \in Nat /\ ga <= MaxGoals
      BY <3>3, SheetGoals
    <3> QED
      BY <3>1, <3>2, <3>4, GoalsAssumption DEF Match
  <2>2. Promised!Match(home, away, gh, ga)
    <3> DEFINE credited ==
          [tables EXCEPT !["overall"][home] = Promised!Credit(@, gh, ga),
                         !["overall"][away] = Promised!Credit(@, ga, gh),
                         !["home"][home]    = Promised!Credit(@, gh, ga),
                         !["away"][away]    = Promised!Credit(@, ga, gh)]
    <3>1. ASSUME NEW t \in Teams
          PROVE  /\ TallyOf(data', "home", t) = credited["home"][t]
                 /\ TallyOf(data', "away", t) = credited["away"][t]
                 /\ TallyOf(data', "overall", t) = credited["overall"][t]
      <4>1. /\ TallyOf(data', "home", t)
                 = IF t = home THEN Promised!Credit(TallyOf(data, "home", t), gh, ga)
                               ELSE TallyOf(data, "home", t)
            /\ TallyOf(data', "away", t)
                 = IF t = away THEN Promised!Credit(TallyOf(data, "away", t), ga, gh)
                               ELSE TallyOf(data, "away", t)
            /\ TallyOf(data', "overall", t)
                 = IF t = home THEN Promised!Credit(TallyOf(data, "overall", t), gh, ga)
                   ELSE IF t = away THEN Promised!Credit(TallyOf(data, "overall", t), ga, gh)
                   ELSE TallyOf(data, "overall", t)
        BY MatchCreditsTables
      <4> HIDE DEF home, away, gh, ga
      <4>2. /\ credited["home"][t]
                 = IF t = home THEN Promised!Credit(TallyOf(data, "home", t), gh, ga)
                               ELSE TallyOf(data, "home", t)
            /\ credited["away"][t]
                 = IF t = away THEN Promised!Credit(TallyOf(data, "away", t), ga, gh)
                               ELSE TallyOf(data, "away", t)
            /\ credited["overall"][t]
                 = IF t = home THEN Promised!Credit(TallyOf(data, "overall", t), gh, ga)
                   ELSE IF t = away THEN Promised!Credit(TallyOf(data, "overall", t), ga, gh)
                   ELSE TallyOf(data, "overall", t)
        BY <2>1 DEF TableTypes
      <4> QED
        BY <4>1, <4>2
    <3>2. credited = [type \in TableTypes |-> [t \in Teams |-> credited[type][t]]]
      BY <2>1 DEF TableTypes
    <3>3. [type \in TableTypes |-> [t \in Teams |-> TallyOf(data', type, t)]] = credited
      <4> HIDE DEF credited
      <4>1. \A type \in TableTypes : \A t \in Teams :
              TallyOf(data', type, t) = credited[type][t]
        BY <3>1 DEF TableTypes
      <4> QED
        BY <3>2, <4>1
    <3> QED
      BY <3>3 DEF Promised!Match
  <2> QED
    BY <2>1, <2>2 DEF Promised!Next
<1> QED
  BY <1>1, <1>2, TypeCorrect, PTL DEF Spec, ImplementsStandings, Promised!Spec
=============================================================================
