---------------------------- MODULE ReportProofs ----------------------------
(***************************************************************************)
(* What SeasonSummary reports besides the ranking, for every league: the   *)
(* averages and the head-to-head page, the season-wide summaries set       *)
(* against the tables, and the results matrix.  Each property holds of     *)
(* every file that TypeOK describes, so none needs an invariant of its     *)
(* own; what they need is to add up over teams, rows and scorelines.       *)
(***************************************************************************)
EXTENDS SeasonReport, SeasonProofs

-----------------------------------------------------------------------------
(***************************************************************************)
(* The file's rows.                                                        *)
(***************************************************************************)
\* Every cell of the file's paired columns is a natural.
LEMMA ColumnOfRows ==
  ASSUME TypeOK, NEW side \in {"H", "A"}, NEW name \in Columns
  PROVE  \A i \in DOMAIN data : /\ Column(data, side, name)[i] = data[i][side][name]
                                /\ data[i][side][name] \in Nat
<1> SUFFICES ASSUME NEW i \in DOMAIN data
             PROVE  /\ Column(data, side, name)[i] = data[i][side][name]
                    /\ data[i][side][name] \in Nat
  OBVIOUS
<1>1. data[i] \in Match
  BY DEF TypeOK
<1>2. data[i][side] \in [Columns -> Nat]
  BY <1>1 DEF Match, Side
<1> QED
  BY <1>2 DEF Column

\* The file is finite.
LEMMA RowsOfFile ==
  ASSUME TypeOK
  PROVE  /\ DOMAIN data = 1 .. Len(data) /\ Len(data) \in Nat
         /\ IsFiniteSet(DOMAIN data) /\ Cardinality(DOMAIN data) = Len(data)
<1>1. DOMAIN data = 1 .. Len(data) /\ Len(data) \in Nat
  BY DEF TypeOK
<1>2. IsFiniteSet(1 .. Len(data)) /\ Cardinality(1 .. Len(data)) = Len(data)
  <2> DEFINE n == Len(data)
  <2>1. n \in Nat
    BY <1>1
  <2> HIDE DEF n
  <2>2. 1 \in Int /\ n \in Int /\ (1 > n => n = 0)
    BY <2>1
  <2>3. /\ IsFiniteSet(1 .. n)
        /\ Cardinality(1 .. n) = IF 1 > n THEN 0 ELSE n - 1 + 1
    BY <2>2, FS_Interval
  <2>4. IsFiniteSet(1 .. n) /\ Cardinality(1 .. n) = n
    BY <2>2, <2>3
  <2> QED
    BY <2>4 DEF n
<1> QED
  BY <1>1, <1>2

-----------------------------------------------------------------------------
(***************************************************************************)
(* Fractions.                                                              *)
(***************************************************************************)
Weighted(x, n, y, m) == DivF(AddF(MulF(x, Int64(n)), MulF(y, Int64(m))), Int64(n + m))

\* Means of n and of m values, weighted by n and m, are the mean of all.
LEMMA WeightedMean ==
  ASSUME NEW a \in Nat, NEW b \in Nat, NEW n \in Nat \ {0}, NEW m \in Nat \ {0}
  PROVE  EqF(Weighted(Float(a, n), n, Float(b, m), m), Float(a + b, n + m))
<1> DEFINE w == Weighted(Float(a, n), n, Float(b, m), m)
           k == n * m
<1>1. k \in Nat \ {0} /\ n * 1 = n /\ m * 1 = m /\ n + m \in Nat \ {0}
  OBVIOUS
<1>2. MulF(Float(a, n), Int64(n)) = Float(a * n, n) /\ MulF(Float(b, m), Int64(m)) = Float(b * m, m)
  BY <1>1 DEF MulF, Float, Int64
<1>3. w = Float(((a * n) * m + (b * m) * n) * 1, k * (n + m))
  BY <1>1, <1>2 DEF Weighted, AddF, DivF, Float, Int64
<1>4. (a * n) * m = a * k /\ (b * m) * n = b * k
  OBVIOUS
<1> HIDE DEF k
<1>5. w = Float((a + b) * k, k * (n + m))
  <2>1. (a * k + b * k) * 1 = (a + b) * k
    BY <1>1
  <2> QED
    BY <1>3, <1>4, <2>1
<1>6. k * (n + m) # 0
  BY <1>1
<1>7. ((a + b) * k) * (n + m) = (a + b) * (k * (n + m))
  BY <1>1
<1> HIDE DEF w
<1> QED
  BY <1>1, <1>5, <1>6, <1>7 DEF EqF, IsNumber, Float, w

\* A venue without a match makes the weighted mean NaN.
LEMMA WeightedNaN ==
  ASSUME NEW a \in Nat, NEW b \in Nat, NEW n \in Nat, NEW m \in Nat,
         (a = 0 /\ n = 0) \/ (b = 0 /\ m = 0)
  PROVE  IsNaN(Weighted(Float(a, n), n, Float(b, m), m))
<1>1. CASE a = 0 /\ n = 0
  <2>1. MulF(Float(a, n), Int64(n)) = Float(0, 0)
    BY <1>1 DEF MulF, Float, Int64
  <2>2. MulF(Float(b, m), Int64(m)) = Float(b * m, m)
    BY DEF MulF, Float, Int64
  <2>3. AddF(Float(0, 0), Float(b * m, m)) = Float(0, 0)
    BY DEF AddF, Float
  <2>4. DivF(Float(0, 0), Int64(n + m)) = Float(0, 0)
    BY DEF DivF, Float, Int64
  <2> QED
    BY <2>1, <2>2, <2>3, <2>4 DEF Weighted, IsNaN, Float
<1>2. CASE b = 0 /\ m = 0
  <2>1. MulF(Float(b, m), Int64(m)) = Float(0, 0)
    BY <1>2 DEF MulF, Float, Int64
  <2>2. MulF(Float(a, n), Int64(n)) = Float(a * n, n)
    BY DEF MulF, Float, Int64
  <2>3. AddF(Float(a * n, n), Float(0, 0)) = Float(0, 0)
    BY DEF AddF, Float
  <2>4. DivF(Float(0, 0), Int64(n + m)) = Float(0, 0)
    BY DEF DivF, Float, Int64
  <2> QED
    BY <2>1, <2>2, <2>3, <2>4 DEF Weighted, IsNaN, Float
<1> QED
  BY <1>1, <1>2

\* If x is p per match and y is q per match, their sum is p + q per match.
LEMMA SumOfMeans ==
  ASSUME NEW xn \in Nat, NEW xd \in Nat, NEW yn \in Nat, NEW yd \in Nat,
         NEW p \in Nat, NEW q \in Nat, NEW n \in Nat,
         EqF(Float(xn, xd), Float(p, n)), EqF(Float(yn, yd), Float(q, n))
  PROVE  EqF(AddF(Float(xn, xd), Float(yn, yd)), Float(p + q, n))
<1>1. /\ xd # 0 /\ yd # 0 /\ n # 0
      /\ xn * n = p * xd /\ yn * n = q * yd
  BY DEF EqF, IsNumber, Float
<1>2. AddF(Float(xn, xd), Float(yn, yd)) = Float(xn * yd + yn * xd, xd * yd)
  BY <1>1 DEF AddF, Float
<1>3. (xn * yd + yn * xd) * n = (p + q) * (xd * yd)
  <2>1. (xn * yd + yn * xd) * n = (xn * n) * yd + (yn * n) * xd
    OBVIOUS
  <2>2. (p * xd) * yd + (q * yd) * xd = (p + q) * (xd * yd)
    OBVIOUS
  <2> QED
    BY <1>1, <2>1, <2>2
<1>4. xd * yd # 0
  BY <1>1
<1> QED
  BY <1>1, <1>2, <1>3, <1>4 DEF EqF, IsNumber, Float

-----------------------------------------------------------------------------
(***************************************************************************)
(* Overall averages.                                                       *)
(***************************************************************************)
\* The sum of any column over some rows of the file is a natural.
LEMMA ColumnTotal ==
  ASSUME TypeOK, NEW side \in {"H", "A"}, NEW name \in Columns,
         NEW M \in SUBSET (DOMAIN data), IsFiniteSet(M)
  PROVE  Total(Column(data, side, name), M) \in Nat
<1>1. \A i \in M : Column(data, side, name)[i] \in Nat
  BY ColumnOfRows
<1> QED
  BY <1>1, TotalIsSum

\* The total of an average's column over the matches of one venue.
VenueTotal(m, M, own, opp) ==
  Total(Column(data, IF AverageColumns[m][1] = "own" THEN own ELSE opp,
               AverageColumns[m][2]), M)

\* A venue's average is its total over its matches.
LEMMA VenueAverage ==
  ASSUME NEW m \in DOMAIN AverageColumns, NEW M, NEW own, NEW opp
  PROVE  /\ VenueAverages(data, M, own, opp)[m] = Float(VenueTotal(m, M, own, opp), Cardinality(M))
         /\ m \in DOMAIN VenueAverages(data, M, own, opp)
<1> DEFINE side == [own |-> own, opp |-> opp]
<1>1. AverageColumns[m][1] \in {"own", "opp"}
  BY DEF AverageColumns
<1>2. side[AverageColumns[m][1]] = IF AverageColumns[m][1] = "own" THEN own ELSE opp
  BY <1>1
<1>3. m \notin DOMAIN RatioColumns
  BY DEF AverageColumns, RatioColumns
<1>4. VenueAverages(data, M, own, opp)[m]
        = Mean(Column(data, side[AverageColumns[m][1]], AverageColumns[m][2]), M)
  BY <1>3 DEF VenueAverages
<1> QED
  BY <1>2, <1>4 DEF VenueAverages, VenueTotal, Mean

\* An overall average is the weighted mean of two venue averages.
LEMMA OverallAverage ==
  ASSUME TypeOK, NEW t, NEW m \in DOMAIN AverageColumns
  PROVE  LET H == HomeMatches(data, t)
             A == AwayMatches(data, t)
             h == VenueTotal(m, H, "H", "A")
             a == VenueTotal(m, A, "A", "H")
         IN  /\ OverallAverages(data, t)[m]
                  = Weighted(Float(h, Cardinality(H)), Cardinality(H),
                             Float(a, Cardinality(A)), Cardinality(A))
             /\ h \in Nat /\ a \in Nat
             /\ Cardinality(H) \in Nat /\ Cardinality(A) \in Nat
             /\ H = {} <=> Cardinality(H) = 0
             /\ A = {} <=> Cardinality(A) = 0
             /\ H = {} => h = 0
             /\ A = {} => a = 0
<1> DEFINE H == HomeMatches(data, t)
           A == AwayMatches(data, t)
           h == VenueTotal(m, H, "H", "A")
           a == VenueTotal(m, A, "A", "H")
<1>1. /\ IsFiniteSet(H) /\ IsFiniteSet(A)
      /\ H \in SUBSET (DOMAIN data) /\ A \in SUBSET (DOMAIN data)
  BY RowsOfTeam
<1>2. AverageColumns[m][2] \in Columns
  BY DEF AverageColumns, Columns
<1>3. h \in Nat /\ a \in Nat
  BY <1>1, <1>2, ColumnTotal DEF VenueTotal
<1>4. /\ Cardinality(H) \in Nat /\ Cardinality(A) \in Nat
      /\ H = {} <=> Cardinality(H) = 0
      /\ A = {} <=> Cardinality(A) = 0
  BY <1>1, FS_EmptySet, FS_CardinalityType
<1>5. (H = {} => h = 0) /\ (A = {} => a = 0)
  BY TotalOfNone DEF VenueTotal
<1>6. /\ HomeAverages(data, t)[m] = Float(h, Cardinality(H))
      /\ AwayAverages(data, t)[m] = Float(a, Cardinality(A))
      /\ m \in DOMAIN HomeAverages(data, t)
  BY VenueAverage DEF HomeAverages, AwayAverages
<1>7. OverallAverages(data, t)[m]
        = Weighted(Float(h, Cardinality(H)), Cardinality(H), Float(a, Cardinality(A)), Cardinality(A))
  BY <1>6 DEF OverallAverages, Weighted
<1> QED
  BY <1>3, <1>4, <1>5, <1>7

\* An overall average is the average over all matches of the team, or NaN
\* while the team has played at one venue only.
LEMMA PooledAverage ==
  ASSUME TypeOK, NEW t, NEW m \in DOMAIN AverageColumns
  PROVE  LET H == HomeMatches(data, t)
             A == AwayMatches(data, t)
         IN  IF H # {} /\ A # {}
               THEN EqF(OverallAverages(data, t)[m],
                        Float(VenueTotal(m, H, "H", "A") + VenueTotal(m, A, "A", "H"),
                              Cardinality(H) + Cardinality(A)))
               ELSE IsNaN(OverallAverages(data, t)[m])
<1> DEFINE H == HomeMatches(data, t)
           A == AwayMatches(data, t)
           h == VenueTotal(m, H, "H", "A")
           a == VenueTotal(m, A, "A", "H")
<1>1. /\ OverallAverages(data, t)[m]
           = Weighted(Float(h, Cardinality(H)), Cardinality(H), Float(a, Cardinality(A)), Cardinality(A))
      /\ h \in Nat /\ a \in Nat
      /\ Cardinality(H) \in Nat /\ Cardinality(A) \in Nat
      /\ H = {} <=> Cardinality(H) = 0
      /\ A = {} <=> Cardinality(A) = 0
      /\ H = {} => h = 0
      /\ A = {} => a = 0
  BY OverallAverage
<1> HIDE DEF H, A, h, a
<1>2. ASSUME H # {}, A # {}
      PROVE  EqF(OverallAverages(data, t)[m], Float(h + a, Cardinality(H) + Cardinality(A)))
  <2>1. Cardinality(H) \in Nat \ {0} /\ Cardinality(A) \in Nat \ {0}
    BY <1>1, <1>2
  <2> QED
    BY <1>1, <2>1, WeightedMean
<1>3. ASSUME H = {} \/ A = {}  PROVE IsNaN(OverallAverages(data, t)[m])
  <2>1. (h = 0 /\ Cardinality(H) = 0) \/ (a = 0 /\ Cardinality(A) = 0)
    BY <1>1, <1>3
  <2> QED
    BY <1>1, <2>1, WeightedNaN
<1> QED
  BY <1>2, <1>3 DEF H, A, h, a

\* Weighting the venue averages by matches played pools them.
LEMMA AveragesFromTypeOK ==
  ASSUME TypeOK  PROVE AveragesArePooled
<1>1. ASSUME NEW m \in DOMAIN AverageColumns  PROVE AverageColumns[m][1] \in {"own", "opp"}
  BY DEF AverageColumns
<1> QED
  BY <1>1, PooledAverage DEF AveragesArePooled, VenueTotal

(***************************************************************************)
(* calc_main_tables weights the averages of the two venues by matches      *)
(* played, which gives the average over all matches of the team once it    *)
(* has played at both, and NaN before, for every league.                   *)
(***************************************************************************)
THEOREM AveragesPooled == Spec => []AveragesArePooled
<1>1. TypeOK => AveragesArePooled
  BY AveragesFromTypeOK
<1> QED
  BY <1>1, TypeCorrect, PTL

-----------------------------------------------------------------------------
(***************************************************************************)
(* Head to head.                                                           *)
(***************************************************************************)
\* A match is won, drawn or lost, and every match in one way.
LEMMA EveryMatchDecided ==
  ASSUME TypeOK, NEW M \in SUBSET (DOMAIN data), IsFiniteSet(M),
         NEW own \in {"H", "A"}, NEW opp \in {"H", "A"}
  PROVE  LET row == Tally(data, M, own, opp)
         IN  row.played = row.won + row.draw + row.lost
<1> DEFINE W == {i \in M : data[i][own].FTG > data[i][opp].FTG}
           D == {i \in M : data[i][own].FTG = data[i][opp].FTG}
           L == {i \in M : data[i][own].FTG < data[i][opp].FTG}
<1>1. /\ W \in SUBSET M /\ D \in SUBSET M /\ L \in SUBSET M
      /\ M = (W \cup D) \cup L
      /\ W \cap D = {} /\ (W \cup D) \cap L = {}
  <2>1. \A i \in M : data[i][own].FTG \in Nat /\ data[i][opp].FTG \in Nat
    BY RowGoals
  <2> QED
    BY <2>1
<1>2. Tally(data, M, own, opp).played = Cardinality(M)
      /\ Tally(data, M, own, opp).won = Cardinality(W)
      /\ Tally(data, M, own, opp).draw = Cardinality(D)
      /\ Tally(data, M, own, opp).lost = Cardinality(L)
  BY DEF Tally
<1> HIDE DEF W, D, L
<1>3. IsFiniteSet(W) /\ IsFiniteSet(D) /\ IsFiniteSet(L)
  BY <1>1, FS_Subset
<1>4. /\ Cardinality(W) \in Nat /\ Cardinality(D) \in Nat /\ Cardinality(L) \in Nat
      /\ Cardinality({}) = 0
  BY <1>3, FS_CardinalityType, FS_EmptySet
<1>5. /\ IsFiniteSet(W \cup D)
      /\ Cardinality(W \cup D) = Cardinality(W) + Cardinality(D) - Cardinality(W \cap D)
  BY <1>3, FS_Union
<1>6. Cardinality((W \cup D) \cup L)
        = Cardinality(W \cup D) + Cardinality(L) - Cardinality((W \cup D) \cap L)
  BY <1>3, <1>5, FS_Union
<1>7. Cardinality(M) = Cardinality(W) + Cardinality(D) + Cardinality(L)
  <2>1. /\ Cardinality(W \cup D) = Cardinality(W) + Cardinality(D) - 0
        /\ Cardinality(M) = Cardinality(W \cup D) + Cardinality(L) - 0
    BY <1>1, <1>4, <1>5, <1>6, Zenon
  <2> QED
    BY <1>4, <2>1
<1> QED
  BY <1>2, <1>7

IsFraction(x) == \E p, q \in Nat : x = Float(p, q)

\* A weighted mean of two fractions is a fraction.
LEMMA WeightedType ==
  ASSUME NEW a \in Nat, NEW b \in Nat, NEW n \in Nat, NEW m \in Nat
  PROVE  IsFraction(Weighted(Float(a, n), n, Float(b, m), m))
<1>1. \E p, q \in Nat : MulF(Float(a, n), Int64(n)) = Float(p, q)
  BY DEF MulF, Float, Int64
<1>2. \E p, q \in Nat : MulF(Float(b, m), Int64(m)) = Float(p, q)
  BY DEF MulF, Float, Int64
<1>3. PICK p \in Nat, q \in Nat : MulF(Float(a, n), Int64(n)) = Float(p, q)
  BY <1>1
<1>4. PICK r \in Nat, s \in Nat : MulF(Float(b, m), Int64(m)) = Float(r, s)
  BY <1>2
<1>5. \E u, v \in Nat : AddF(Float(p, q), Float(r, s)) = Float(u, v)
  <2>1. p * r \in Nat /\ p * s + r * q \in Nat /\ q * s \in Nat /\ 0 \in Nat
    OBVIOUS
  <2> QED
    BY <2>1 DEF AddF, Float
<1>6. PICK u \in Nat, v \in Nat : AddF(Float(p, q), Float(r, s)) = Float(u, v)
  BY <1>5
<1>7. DivF(Float(u, v), Int64(n + m)) = Float(u * 1, v * (n + m))
  BY DEF DivF, Float, Int64
<1>8. u * 1 \in Nat /\ v * (n + m) \in Nat
  OBVIOUS
<1> QED
  BY <1>3, <1>4, <1>6, <1>7, <1>8 DEF Weighted, IsFraction

\* Goals scored and conceded per match add up to goals per match.
LEMMA GoalsPerMatch ==
  ASSUME TypeOK, NEW t,
         HomeMatches(data, t) # {}, AwayMatches(data, t) # {}
  PROVE  LET h == HomeTally(data, t)
             a == AwayTally(data, t)
             o == OverallAverages(data, t)
         IN  EqF(AddF(o["goals_scored_pg"], o["goals_conceded_pg"]),
                 Float((h.goals_scored + a.goals_scored) + (h.goals_conceded + a.goals_conceded),
                       h.played + a.played))
<1> DEFINE h == HomeTally(data, t)
           a == AwayTally(data, t)
           o == OverallAverages(data, t)
<1>1. "goals_scored_pg" \in DOMAIN AverageColumns /\ "goals_conceded_pg" \in DOMAIN AverageColumns
  BY DEF AverageColumns
<1>2. ASSUME NEW m \in {"goals_scored_pg", "goals_conceded_pg"}
      PROVE  IsFraction(o[m])
  <2> DEFINE H == HomeMatches(data, t)
             A == AwayMatches(data, t)
             hm == VenueTotal(m, H, "H", "A")
             am == VenueTotal(m, A, "A", "H")
  <2>1. /\ o[m] = Weighted(Float(hm, Cardinality(H)), Cardinality(H),
                           Float(am, Cardinality(A)), Cardinality(A))
        /\ hm \in Nat /\ am \in Nat
        /\ Cardinality(H) \in Nat /\ Cardinality(A) \in Nat
    BY <1>1, <1>2, OverallAverage
  <2> HIDE DEF o, H, A, hm, am
  <2> QED
    BY <2>1, WeightedType
<1>3. /\ EqF(o["goals_scored_pg"], Float(h.goals_scored + a.goals_scored, h.played + a.played))
      /\ EqF(o["goals_conceded_pg"], Float(h.goals_conceded + a.goals_conceded, h.played + a.played))
  <2>1. /\ VenueTotal("goals_scored_pg", HomeMatches(data, t), "H", "A") = h.goals_scored
        /\ VenueTotal("goals_scored_pg", AwayMatches(data, t), "A", "H") = a.goals_scored
        /\ VenueTotal("goals_conceded_pg", HomeMatches(data, t), "H", "A") = h.goals_conceded
        /\ VenueTotal("goals_conceded_pg", AwayMatches(data, t), "A", "H") = a.goals_conceded
        /\ Cardinality(HomeMatches(data, t)) = h.played
        /\ Cardinality(AwayMatches(data, t)) = a.played
    BY DEF VenueTotal, AverageColumns, HomeTally, AwayTally, Tally
  <2> QED
    BY <1>1, <2>1, PooledAverage
<1>4. h \in Standing /\ a \in Standing
  BY RowsOfTeam, TallyType DEF HomeTally, AwayTally
<1> HIDE DEF h, a, o
<1>5. /\ h.goals_scored + a.goals_scored \in Nat
      /\ h.goals_conceded + a.goals_conceded \in Nat
      /\ h.played + a.played \in Nat
  BY <1>4 DEF Standing
<1>6. PICK xn \in Nat, xd \in Nat : o["goals_scored_pg"] = Float(xn, xd)
  BY <1>2 DEF IsFraction
<1>7. PICK yn \in Nat, yd \in Nat : o["goals_conceded_pg"] = Float(yn, yd)
  BY <1>2 DEF IsFraction
<1>8. EqF(AddF(o["goals_scored_pg"], o["goals_conceded_pg"]),
          Float((h.goals_scored + a.goals_scored) + (h.goals_conceded + a.goals_conceded),
                h.played + a.played))
  <2> DEFINE gs == h.goals_scored + a.goals_scored
             gc == h.goals_conceded + a.goals_conceded
             mp == h.played + a.played
  <2>1. /\ gs \in Nat /\ gc \in Nat /\ mp \in Nat
        /\ EqF(Float(xn, xd), Float(gs, mp)) /\ EqF(Float(yn, yd), Float(gc, mp))
    BY <1>3, <1>5, <1>6, <1>7
  <2> HIDE DEF gs, gc, mp
  <2>2. EqF(AddF(Float(xn, xd), Float(yn, yd)), Float(gs + gc, mp))
    BY <2>1, SumOfMeans
  <2> QED
    BY <1>6, <1>7, <2>2 DEF gs, gc, mp
<1> QED
  BY <1>8 DEF h, a, o

\* The three rows of the head-to-head page fit together in every state.
LEMMA HeadToHeadFromTypeOK ==
  ASSUME TypeOK  PROVE HeadToHeadAddsUp
<1> SUFFICES ASSUME NEW t \in TeamsOf(data)
             PROVE
        /\ \A f \in {"mp", "win", "draw", "lost", "gs", "gc", "points"} :
             TeamStats(data, t).Total[f] = TeamStats(data, t).Home[f] + TeamStats(data, t).Away[f]
        /\ TeamStats(data, t).Total.mp
             = TeamStats(data, t).Total.win + TeamStats(data, t).Total.draw + TeamStats(data, t).Total.lost
        /\ TeamStats(data, t).Home.mp > 0 /\ TeamStats(data, t).Away.mp > 0 =>
             EqF(TeamStats(data, t).Total.avg_goals,
                 Float(TeamStats(data, t).Total.total_goals, TeamStats(data, t).Total.mp))
  BY DEF HeadToHeadAddsUp
<1> DEFINE s == TeamStats(data, t)
           h == HomeTally(data, t)
           a == AwayTally(data, t)
           x == OverallTally(data, t)
           o == OverallAverages(data, t)
<1>1. /\ s.Home.mp = h.played /\ s.Home.win = h.won /\ s.Home.draw = h.draw /\ s.Home.lost = h.lost
      /\ s.Home.gs = h.goals_scored /\ s.Home.gc = h.goals_conceded /\ s.Home.points = h.points
  BY DEF TeamStats, TableOfRow, TallyOf
<1>2. /\ s.Away.mp = a.played /\ s.Away.win = a.won /\ s.Away.draw = a.draw /\ s.Away.lost = a.lost
      /\ s.Away.gs = a.goals_scored /\ s.Away.gc = a.goals_conceded /\ s.Away.points = a.points
  BY DEF TeamStats, TableOfRow, TallyOf
<1>3. /\ s.Total.mp = x.played /\ s.Total.win = x.won /\ s.Total.draw = x.draw /\ s.Total.lost = x.lost
      /\ s.Total.gs = x.goals_scored /\ s.Total.gc = x.goals_conceded /\ s.Total.points = x.points
      /\ s.Total.total_goals = x.goals_scored + x.goals_conceded
      /\ s.Total.avg_goals = AddF(o["goals_scored_pg"], o["goals_conceded_pg"])
  BY DEF TeamStats, TableOfRow, TallyOf, AveragesOf
<1>4. /\ x.played = h.played + a.played /\ x.won = h.won + a.won /\ x.draw = h.draw + a.draw
      /\ x.lost = h.lost + a.lost /\ x.goals_scored = h.goals_scored + a.goals_scored
      /\ x.goals_conceded = h.goals_conceded + a.goals_conceded
      /\ x.points = x.won * 3 + x.draw
  BY DEF OverallTally
<1>5. h.points = h.won * 3 + h.draw /\ a.points = a.won * 3 + a.draw
  BY DEF HomeTally, AwayTally, Tally
<1>6. h \in Standing /\ a \in Standing
  BY RowsOfTeam, TallyType DEF HomeTally, AwayTally
<1>7. h.played = h.won + h.draw + h.lost /\ a.played = a.won + a.draw + a.lost
  BY RowsOfTeam, EveryMatchDecided DEF HomeTally, AwayTally
<1>8. ASSUME h.played > 0, a.played > 0
      PROVE  EqF(s.Total.avg_goals, Float(s.Total.total_goals, s.Total.mp))
  <2>1. h.played = Cardinality(HomeMatches(data, t)) /\ a.played = Cardinality(AwayMatches(data, t))
    BY DEF HomeTally, AwayTally, Tally
  <2>2. HomeMatches(data, t) # {} /\ AwayMatches(data, t) # {}
    BY <1>8, <2>1, FS_EmptySet
  <2>3. EqF(AddF(o["goals_scored_pg"], o["goals_conceded_pg"]),
            Float((h.goals_scored + a.goals_scored) + (h.goals_conceded + a.goals_conceded),
                  h.played + a.played))
    BY <2>2, GoalsPerMatch
  <2> HIDE DEF s, h, a, x, o
  <2> QED
    BY <1>3, <1>4, <2>3
<1> HIDE DEF s, h, a, x, o
<1>9. /\ h.played \in Nat /\ h.won \in Nat /\ h.draw \in Nat /\ h.lost \in Nat
      /\ a.played \in Nat /\ a.won \in Nat /\ a.draw \in Nat /\ a.lost \in Nat
  BY <1>6 DEF Standing
<1>10. x.points = h.points + a.points
  BY <1>4, <1>5, <1>9
<1>11. x.played = x.won + x.draw + x.lost
  BY <1>4, <1>7, <1>9
<1>12. \A f \in {"mp", "win", "draw", "lost", "gs", "gc", "points"} :
         s.Total[f] = s.Home[f] + s.Away[f]
  BY <1>1, <1>2, <1>3, <1>4, <1>10
<1>13. s.Total.mp = s.Total.win + s.Total.draw + s.Total.lost
  BY <1>3, <1>11
<1>14. s.Home.mp > 0 /\ s.Away.mp > 0 =>
         EqF(s.Total.avg_goals, Float(s.Total.total_goals, s.Total.mp))
  BY <1>1, <1>2, <1>8
<1> QED
  BY <1>12, <1>13, <1>14 DEF s

(***************************************************************************)
(* calc_team_stats, which asks calc_main_tables three times, shows a Total *)
(* row that is its Home and Away rows put together, for every league and   *)
(* every state of its season.                                              *)
(***************************************************************************)
THEOREM HeadToHeadSound == Spec => []HeadToHeadAddsUp
<1>1. TypeOK => HeadToHeadAddsUp
  BY HeadToHeadFromTypeOK
<1> QED
  BY <1>1, TypeCorrect, PTL

-----------------------------------------------------------------------------
(***************************************************************************)
(* What the season's tables add up to.                                     *)
(***************************************************************************)
\* Each row has one home team and one away team, so either venue's rows of
\* the teams split the file.
LEMMA VenuesSplitFile ==
  ASSUME TypeOK, NEW S \in SUBSET (DOMAIN data)
  PROVE  LET home == [t \in TeamsOf(data) |-> S \cap HomeMatches(data, t)]
             away == [t \in TeamsOf(data) |-> S \cap AwayMatches(data, t)]
         IN  /\ UNION {home[t] : t \in TeamsOf(data)} = S
             /\ UNION {away[t] : t \in TeamsOf(data)} = S
             /\ \A t, u \in TeamsOf(data) :
                  t # u => home[t] \cap home[u] = {} /\ away[t] \cap away[u] = {}
             /\ \A t \in TeamsOf(data) : IsFiniteSet(home[t]) /\ IsFiniteSet(away[t])
<1>1. \A i \in S : data[i].HomeTeam \in TeamsOf(data) /\ data[i].AwayTeam \in TeamsOf(data)
  BY DEF TeamsOf, HomeTeams, AwayTeams
<1>2. \A i \in S : i \in HomeMatches(data, data[i].HomeTeam) /\ i \in AwayMatches(data, data[i].AwayTeam)
  BY DEF HomeMatches, AwayMatches
<1>3. \A t : \A i : /\ i \in HomeMatches(data, t) => data[i].HomeTeam = t
                    /\ i \in AwayMatches(data, t) => data[i].AwayTeam = t
  BY DEF HomeMatches, AwayMatches
<1>4. \A t : IsFiniteSet(S \cap HomeMatches(data, t)) /\ IsFiniteSet(S \cap AwayMatches(data, t))
  <2>1. IsFiniteSet(S)
    BY RowsOfFile, FS_Subset
  <2>2. \A t : S \cap HomeMatches(data, t) \in SUBSET S /\ S \cap AwayMatches(data, t) \in SUBSET S
    OBVIOUS
  <2> QED
    BY <2>1, <2>2, FS_Subset
<1> DEFINE home == [t \in TeamsOf(data) |-> S \cap HomeMatches(data, t)]
           away == [t \in TeamsOf(data) |-> S \cap AwayMatches(data, t)]
<1>5. UNION {home[t] : t \in TeamsOf(data)} = S
  BY <1>1, <1>2
<1>6. UNION {away[t] : t \in TeamsOf(data)} = S
  BY <1>1, <1>2
<1>7. \A t, u \in TeamsOf(data) :
        t # u => home[t] \cap home[u] = {} /\ away[t] \cap away[u] = {}
  BY <1>3
<1>8. \A t \in TeamsOf(data) : IsFiniteSet(home[t]) /\ IsFiniteSet(away[t])
  BY <1>4
<1> QED
  BY <1>5, <1>6, <1>7, <1>8

\* Any column summed over the file is its sum over the teams, at either venue.
LEMMA VenueSums ==
  ASSUME TypeOK, NEW f, \A i \in DOMAIN data : f[i] \in Nat
  PROVE  LET T == TeamsOf(data)
         IN  /\ Total(f, DOMAIN data) = SumFunctionOnSet([t \in T |-> Total(f, HomeMatches(data, t))], T)
             /\ Total(f, DOMAIN data) = SumFunctionOnSet([t \in T |-> Total(f, AwayMatches(data, t))], T)
             /\ \A t \in T : /\ Total(f, HomeMatches(data, t)) \in Nat
                             /\ Total(f, AwayMatches(data, t)) \in Nat
             /\ Total(f, DOMAIN data) \in Nat
<1> DEFINE S == DOMAIN data
           T == TeamsOf(data)
           home == [t \in T |-> S \cap HomeMatches(data, t)]
           away == [t \in T |-> S \cap AwayMatches(data, t)]
<1>1. /\ UNION {home[t] : t \in T} = S /\ UNION {away[t] : t \in T} = S
      /\ \A t, u \in T : t # u => home[t] \cap home[u] = {} /\ away[t] \cap away[u] = {}
      /\ \A t \in T : IsFiniteSet(home[t]) /\ IsFiniteSet(away[t])
  BY VenuesSplitFile
<1>2. \A t \in T : home[t] = HomeMatches(data, t) /\ away[t] = AwayMatches(data, t)
  BY DEF HomeMatches, AwayMatches
<1>3. /\ [t \in T |-> Total(f, home[t])] = [t \in T |-> Total(f, HomeMatches(data, t))]
      /\ [t \in T |-> Total(f, away[t])] = [t \in T |-> Total(f, AwayMatches(data, t))]
  BY <1>2
<1>4. IsFiniteSet(T) /\ IsFiniteSet(S)
  BY TeamsOfRows, RowsOfFile
<1>5. \A t \in T : (\A i \in home[t] : f[i] \in Nat) /\ (\A i \in away[t] : f[i] \in Nat)
  OBVIOUS
<1> HIDE DEF home, away, T
<1>6. Total(f, UNION {home[t] : t \in T}) = SumFunctionOnSet([t \in T |-> Total(f, home[t])], T)
  BY <1>1, <1>4, <1>5, TotalByGroup
<1>7. Total(f, UNION {away[t] : t \in T}) = SumFunctionOnSet([t \in T |-> Total(f, away[t])], T)
  BY <1>1, <1>4, <1>5, TotalByGroup
<1>8. \A t \in T : Total(f, home[t]) \in Nat /\ Total(f, away[t]) \in Nat
  BY <1>1, <1>5, TotalIsSum
<1>9. Total(f, S) \in Nat
  BY <1>4, TotalIsSum
<1> QED
  BY <1>1, <1>2, <1>3, <1>6, <1>7, <1>8, <1>9 DEF T

\* Rows of any kind are counted team by team, at either venue.
LEMMA VenueCounts ==
  ASSUME TypeOK, NEW S \in SUBSET (DOMAIN data)
  PROVE  LET T == TeamsOf(data)
         IN  /\ Cardinality(S) = SumFunctionOnSet([t \in T |-> Cardinality(S \cap HomeMatches(data, t))], T)
             /\ Cardinality(S) = SumFunctionOnSet([t \in T |-> Cardinality(S \cap AwayMatches(data, t))], T)
             /\ \A t \in T : /\ Cardinality(S \cap HomeMatches(data, t)) \in Nat
                             /\ Cardinality(S \cap AwayMatches(data, t)) \in Nat
             /\ Cardinality(S) \in Nat
<1> DEFINE T == TeamsOf(data)
           home == [t \in T |-> S \cap HomeMatches(data, t)]
           away == [t \in T |-> S \cap AwayMatches(data, t)]
<1>1. /\ UNION {home[t] : t \in T} = S /\ UNION {away[t] : t \in T} = S
      /\ \A t, u \in T : t # u => home[t] \cap home[u] = {} /\ away[t] \cap away[u] = {}
      /\ \A t \in T : IsFiniteSet(home[t]) /\ IsFiniteSet(away[t])
  BY VenuesSplitFile
<1>2. /\ [t \in T |-> Cardinality(home[t])] = [t \in T |-> Cardinality(S \cap HomeMatches(data, t))]
      /\ [t \in T |-> Cardinality(away[t])] = [t \in T |-> Cardinality(S \cap AwayMatches(data, t))]
      /\ \A t \in T : home[t] = S \cap HomeMatches(data, t) /\ away[t] = S \cap AwayMatches(data, t)
  OBVIOUS
<1>3. IsFiniteSet(T) /\ IsFiniteSet(S)
  BY TeamsOfRows, RowsOfFile, FS_Subset
<1> HIDE DEF home, away, T
<1>4. Cardinality(UNION {home[t] : t \in T}) = SumFunctionOnSet([t \in T |-> Cardinality(home[t])], T)
  BY <1>1, <1>3, CountByGroup
<1>5. Cardinality(UNION {away[t] : t \in T}) = SumFunctionOnSet([t \in T |-> Cardinality(away[t])], T)
  BY <1>1, <1>3, CountByGroup
<1>6. \A t \in T : Cardinality(home[t]) \in Nat /\ Cardinality(away[t]) \in Nat
  BY <1>1, FS_CardinalityType
<1>7. Cardinality(S) \in Nat
  BY <1>3, FS_CardinalityType
<1> QED
  BY <1>1, <1>2, <1>4, <1>5, <1>6, <1>7 DEF T

\* Teams' values that are the sum of two values add up to the sum of both.
LEMMA TeamsAdd ==
  ASSUME TypeOK, NEW f, NEW g, NEW h,
         \A t \in TeamsOf(data) : f[t] \in Int /\ g[t] \in Int /\ h[t] = f[t] + g[t]
  PROVE  /\ SumFunctionOnSet(h, TeamsOf(data))
              = SumFunctionOnSet(f, TeamsOf(data)) + SumFunctionOnSet(g, TeamsOf(data))
         /\ SumFunctionOnSet(f, TeamsOf(data)) \in Int
         /\ SumFunctionOnSet(g, TeamsOf(data)) \in Int
<1> DEFINE T == TeamsOf(data)
<1>1. IsFiniteSet(T)
  BY TeamsOfRows
<1> HIDE DEF T
<1>2. /\ SumFunctionOnSet(h, T) = SumFunctionOnSet(f, T) + SumFunctionOnSet(g, T)
      /\ SumFunctionOnSet(f, T) \in Int /\ SumFunctionOnSet(g, T) \in Int
  BY <1>1, SumAdds DEF T
<1> QED
  BY <1>2 DEF T

\* What the tables' goal columns add up to.
LEMMA GoalTotals ==
  ASSUME TypeOK
  PROVE  LET home == Total(Column(data, "H", "FTG"), DOMAIN data)
             away == Total(Column(data, "A", "FTG"), DOMAIN data)
         IN  /\ TableTotal("home", "goals_scored") = home
             /\ TableTotal("away", "goals_conceded") = home
             /\ TableTotal("away", "goals_scored") = away
             /\ TableTotal("overall", "goals_scored") = home + away
             /\ TableTotal("overall", "gd") = 0
             /\ home \in Nat /\ away \in Nat
<1> DEFINE H == Column(data, "H", "FTG")
           A == Column(data, "A", "FTG")
           home == Total(H, DOMAIN data)
           away == Total(A, DOMAIN data)
           T == TeamsOf(data)
           hs == [t \in T |-> Total(H, HomeMatches(data, t))]
           hc == [t \in T |-> Total(A, HomeMatches(data, t))]
           as == [t \in T |-> Total(A, AwayMatches(data, t))]
           ac == [t \in T |-> Total(H, AwayMatches(data, t))]
<1>1. \A i \in DOMAIN data : H[i] \in Nat /\ A[i] \in Nat
  BY ColumnOfRows DEF Columns
<1>2. /\ home = SumFunctionOnSet(hs, T) /\ home = SumFunctionOnSet(ac, T) /\ home \in Nat
      /\ \A t \in T : Total(H, HomeMatches(data, t)) \in Nat /\ Total(H, AwayMatches(data, t)) \in Nat
  <2> HIDE DEF H, A
  <2> QED
    BY <1>1, VenueSums
<1>3. /\ away = SumFunctionOnSet(as, T) /\ away = SumFunctionOnSet(hc, T) /\ away \in Nat
      /\ \A t \in T : Total(A, HomeMatches(data, t)) \in Nat /\ Total(A, AwayMatches(data, t)) \in Nat
  <2> HIDE DEF H, A
  <2> QED
    BY <1>1, VenueSums
<1>4. /\ [t \in T |-> TallyOf(data, "home", t)["goals_scored"]] = hs
      /\ [t \in T |-> TallyOf(data, "away", t)["goals_conceded"]] = ac
      /\ [t \in T |-> TallyOf(data, "away", t)["goals_scored"]] = as
  BY DEF TallyOf, HomeTally, AwayTally, Tally
<1> DEFINE os == [t \in T |-> TallyOf(data, "overall", t)["goals_scored"]]
           gd == [t \in T |-> TallyOf(data, "overall", t)["gd"]]
           hd == [t \in T |-> Total(H, HomeMatches(data, t)) - Total(A, HomeMatches(data, t))]
           ad == [t \in T |-> Total(A, AwayMatches(data, t)) - Total(H, AwayMatches(data, t))]
<1>5. \A t \in T : /\ hs[t] \in Int /\ as[t] \in Int /\ hc[t] \in Int /\ ac[t] \in Int
                   /\ os[t] = hs[t] + as[t]
                   /\ hs[t] = hd[t] + hc[t] /\ hd[t] \in Int
                   /\ as[t] = ad[t] + ac[t] /\ ad[t] \in Int
                   /\ gd[t] = hd[t] + ad[t]
  <2> TAKE t \in T
  <2>1. /\ os[t] = Total(H, HomeMatches(data, t)) + Total(A, AwayMatches(data, t))
        /\ gd[t] = (Total(H, HomeMatches(data, t)) - Total(A, HomeMatches(data, t)))
                     + (Total(A, AwayMatches(data, t)) - Total(H, AwayMatches(data, t)))
    BY DEF TallyOf, OverallTally, HomeTally, AwayTally, Tally
  <2> HIDE DEF H, A
  <2> QED
    BY <1>2, <1>3, <2>1
<1> HIDE DEF os, gd, hd, ad, hs, as, hc, ac, home, away, T
<1>6. SumFunctionOnSet(os, T) = SumFunctionOnSet(hs, T) + SumFunctionOnSet(as, T)
  BY <1>5, TeamsAdd DEF T
<1>7. SumFunctionOnSet(hs, T) = SumFunctionOnSet(hd, T) + SumFunctionOnSet(hc, T)
  BY <1>5, TeamsAdd DEF T
<1>8. SumFunctionOnSet(as, T) = SumFunctionOnSet(ad, T) + SumFunctionOnSet(ac, T)
  BY <1>5, TeamsAdd DEF T
<1>9. /\ SumFunctionOnSet(gd, T) = SumFunctionOnSet(hd, T) + SumFunctionOnSet(ad, T)
      /\ SumFunctionOnSet(hd, T) \in Int /\ SumFunctionOnSet(ad, T) \in Int
  <2>1. \A t \in T : hd[t] \in Int /\ ad[t] \in Int /\ gd[t] = hd[t] + ad[t]
    BY <1>5
  <2> QED
    BY <2>1, TeamsAdd DEF T
<1>10. TableTotal("overall", "goals_scored") = home + away
  <2>1. SumFunctionOnSet(os, T) = home + away
    BY <1>2, <1>3, <1>6
  <2> QED
    BY <2>1 DEF TableTotal, os, T
<1>11. TableTotal("overall", "gd") = 0
  <2>1. /\ home = SumFunctionOnSet(hd, T) + away
        /\ away = SumFunctionOnSet(ad, T) + home
    BY <1>2, <1>3, <1>7, <1>8, Zenon
  <2>2. SumFunctionOnSet(gd, T) = 0
    BY <1>2, <1>3, <1>9, <2>1
  <2> QED
    BY <2>2 DEF TableTotal, gd, T
<1>12. /\ TableTotal("home", "goals_scored") = home
       /\ TableTotal("away", "goals_conceded") = home
       /\ TableTotal("away", "goals_scored") = away
  BY <1>2, <1>3, <1>4 DEF TableTotal, T
<1> QED
  BY <1>2, <1>3, <1>10, <1>11, <1>12 DEF home, away

\* No half-time score exceeds the full-time score, in any row and in the sum.
LEMMA SecondHalfGoals ==
  ASSUME TypeOK, NEW side \in {"H", "A"}
  PROVE  /\ Total(Column(data, side, "HTG"), DOMAIN data) \in Nat
         /\ Total(Column(data, side, "FTG"), DOMAIN data) \in Nat
         /\ Total(Column(data, side, "HTG"), DOMAIN data) <= Total(Column(data, side, "FTG"), DOMAIN data)
<1> DEFINE f == Column(data, side, "HTG")
           g == Column(data, side, "FTG")
<1>1. ASSUME NEW i \in DOMAIN data  PROVE f[i] \in Nat /\ g[i] \in Nat /\ f[i] <= g[i]
  <2>1. /\ f[i] = data[i][side].HTG /\ f[i] \in Nat
        /\ g[i] = data[i][side].FTG /\ g[i] \in Nat
    BY ColumnOfRows DEF Columns
  <2>2. PICK sheet \in Sheets : data[i] = Row(Calendar[i], sheet)
    BY DEF TypeOK
  <2>3. data[i][side] = sheet[side]
    BY <2>2 DEF Row
  <2>4. sheet[side].HTG <= sheet[side].FTG
    BY SheetsAssumption
  <2> QED
    BY <2>1, <2>3, <2>4
<1> HIDE DEF f, g
<1>2. Total(f, DOMAIN data) <= Total(g, DOMAIN data)
  BY <1>1, RowsOfFile, TotalMonotone
<1>3. Total(f, DOMAIN data) \in Nat /\ Total(g, DOMAIN data) \in Nat
  BY <1>1, RowsOfFile, TotalIsSum
<1> QED
  BY <1>2, <1>3 DEF f, g

\* The goals of the summary are the goals of the tables in every state.
LEMMA GoalsFromTypeOK ==
  ASSUME TypeOK  PROVE GoalsAgreeWithTables
<1> DEFINE goals == SummaryGoals(data)
           T(side, col) == Total(Column(data, side, col), DOMAIN data)
<1>1. /\ goals["home_goals"].ft_cnt = T("H", "FTG")
      /\ goals["away_goals"].ft_cnt = T("A", "FTG")
      /\ goals["total_goals"].ft_cnt = T("H", "FTG") + T("A", "FTG")
      /\ goals["home_goals"].sh_cnt = T("H", "FTG") - T("H", "HTG")
      /\ goals["away_goals"].sh_cnt = T("A", "FTG") - T("A", "HTG")
      /\ goals["total_goals"].sh_cnt = (T("H", "FTG") + T("A", "FTG")) - (T("H", "HTG") + T("A", "HTG"))
  BY DEF SummaryGoals, GoalRows, GoalCount
<1>2. /\ T("H", "HTG") \in Nat /\ T("H", "FTG") \in Nat /\ T("H", "HTG") <= T("H", "FTG")
      /\ T("A", "HTG") \in Nat /\ T("A", "FTG") \in Nat /\ T("A", "HTG") <= T("A", "FTG")
  BY SecondHalfGoals
<1> HIDE DEF goals
<1>3. \A row \in GoalRows : goals[row].sh_cnt >= 0
  <2> HIDE DEF T
  <2> QED
    BY <1>1, <1>2 DEF GoalRows
<1> QED
  BY <1>1, <1>3, GoalTotals DEF GoalsAgreeWithTables, goals

(***************************************************************************)
(* summary_goals and the tables of calc_main_tables count the same goals   *)
(* for every league: two sums over the file and sums over the teams' filtered *)
(* rows agree, goal differences cancel, and no half has negative goals.    *)
(***************************************************************************)
THEOREM GoalsAgree == Spec => []GoalsAgreeWithTables
<1>1. TypeOK => GoalsAgreeWithTables
  BY GoalsFromTypeOK
<1> QED
  BY <1>1, TypeCorrect, PTL

-----------------------------------------------------------------------------
(***************************************************************************)
(* Results.                                                                *)
(***************************************************************************)
\* The result column and the goals of a row say the same.
LEMMA ResultOfRow ==
  ASSUME TypeOK, NEW i \in DOMAIN data
  PROVE  /\ data[i].H.FTG \in Nat /\ data[i].A.FTG \in Nat
         /\ data[i].FTR = "H" <=> data[i].H.FTG > data[i].A.FTG
         /\ data[i].FTR = "A" <=> data[i].A.FTG > data[i].H.FTG
         /\ data[i].FTR = "D" <=> data[i].H.FTG = data[i].A.FTG
<1>1. PICK sheet \in Sheets : data[i] = Row(Calendar[i], sheet)
  BY DEF TypeOK
<1>2. data[i].H = sheet.H /\ data[i].A = sheet.A /\ data[i].FTR = sheet.FTR
  BY <1>1 DEF Row
<1>3. sheet.FTR \in {"H", "D", "A"}
  BY SheetsAssumption DEF Sheet, Results
<1>4. sheet.H.FTG \in Nat /\ sheet.A.FTG \in Nat
  BY SheetGoals
<1>5. /\ sheet.FTR = "H" <=> sheet.H.FTG > sheet.A.FTG
      /\ sheet.FTR = "A" <=> sheet.H.FTG < sheet.A.FTG
  BY SheetsAssumption
<1> QED
  BY <1>2, <1>3, <1>4, <1>5

\* What the tables' result columns add up to.
LEMMA ResultTotals ==
  ASSUME TypeOK
  PROVE  LET n(r) == Cardinality(WithResult(data, r))
         IN  /\ TableTotal("home", "won") = n("H")
             /\ TableTotal("away", "won") = n("A")
             /\ TableTotal("overall", "draw") = n("D") + n("D")
             /\ TableTotal("overall", "points") = (n("H") + n("A")) * 3 + (n("D") + n("D"))
             /\ n("H") \in Nat /\ n("D") \in Nat /\ n("A") \in Nat
<1> DEFINE n(r) == Cardinality(WithResult(data, r))
           T == TeamsOf(data)
           at(r) == [t \in T |-> Cardinality(WithResult(data, r) \cap HomeMatches(data, t))]
           off(r) == [t \in T |-> Cardinality(WithResult(data, r) \cap AwayMatches(data, t))]
<1>1. ASSUME NEW r
      PROVE  /\ n(r) = SumFunctionOnSet(at(r), T) /\ n(r) = SumFunctionOnSet(off(r), T)
             /\ n(r) \in Nat
             /\ \A t \in T : at(r)[t] \in Nat /\ off(r)[t] \in Nat
  <2>1. WithResult(data, r) \in SUBSET (DOMAIN data)
    BY DEF WithResult
  <2> QED
    BY <2>1, VenueCounts
<1>2. ASSUME NEW t \in T
      PROVE  /\ HomeTally(data, t).won = at("H")[t] /\ HomeTally(data, t).draw = at("D")[t]
             /\ AwayTally(data, t).won = off("A")[t] /\ AwayTally(data, t).draw = off("D")[t]
  <2> DEFINE H == HomeMatches(data, t)
             A == AwayMatches(data, t)
  <2>1. \A i \in H : i \in DOMAIN data
    BY DEF HomeMatches
  <2>2. \A i \in A : i \in DOMAIN data
    BY DEF AwayMatches
  <2>3. \A i \in DOMAIN data : /\ i \in WithResult(data, "H") <=> data[i].H.FTG > data[i].A.FTG
                               /\ i \in WithResult(data, "A") <=> data[i].A.FTG > data[i].H.FTG
                               /\ i \in WithResult(data, "D") <=> data[i].H.FTG = data[i].A.FTG
                               /\ i \in WithResult(data, "D") <=> data[i].A.FTG = data[i].H.FTG
    BY ResultOfRow DEF WithResult
  <2> HIDE DEF H, A
  <2>4. {i \in H : data[i]["H"].FTG > data[i]["A"].FTG} = WithResult(data, "H") \cap H
    BY <2>1, <2>3
  <2>5. {i \in H : data[i]["H"].FTG = data[i]["A"].FTG} = WithResult(data, "D") \cap H
    BY <2>1, <2>3
  <2>6. {i \in A : data[i]["A"].FTG > data[i]["H"].FTG} = WithResult(data, "A") \cap A
    BY <2>2, <2>3
  <2>7. {i \in A : data[i]["A"].FTG = data[i]["H"].FTG} = WithResult(data, "D") \cap A
    BY <2>2, <2>3
  <2>8. /\ at("H")[t] = Cardinality(WithResult(data, "H") \cap H)
        /\ at("D")[t] = Cardinality(WithResult(data, "D") \cap H)
        /\ off("A")[t] = Cardinality(WithResult(data, "A") \cap A)
        /\ off("D")[t] = Cardinality(WithResult(data, "D") \cap A)
    BY DEF H, A
  <2>9. /\ HomeTally(data, t).won = Cardinality({i \in H : data[i]["H"].FTG > data[i]["A"].FTG})
        /\ HomeTally(data, t).draw = Cardinality({i \in H : data[i]["H"].FTG = data[i]["A"].FTG})
        /\ AwayTally(data, t).won = Cardinality({i \in A : data[i]["A"].FTG > data[i]["H"].FTG})
        /\ AwayTally(data, t).draw = Cardinality({i \in A : data[i]["A"].FTG = data[i]["H"].FTG})
    BY DEF HomeTally, AwayTally, Tally, H, A
  <2> QED
    BY <2>4, <2>5, <2>6, <2>7, <2>8, <2>9
<1> DEFINE won == [t \in T |-> TallyOf(data, "overall", t)["won"]]
           draw == [t \in T |-> TallyOf(data, "overall", t)["draw"]]
           points == [t \in T |-> TallyOf(data, "overall", t)["points"]]
           three == [t \in T |-> TallyOf(data, "overall", t)["won"] * 3]
<1>3. /\ [t \in T |-> TallyOf(data, "home", t)["won"]] = at("H")
      /\ [t \in T |-> TallyOf(data, "away", t)["won"]] = off("A")
  BY <1>2 DEF TallyOf
<1>4. \A t \in T : /\ won[t] = at("H")[t] + off("A")[t]
                   /\ draw[t] = at("D")[t] + off("D")[t]
                   /\ three[t] = won[t] * 3
                   /\ points[t] = three[t] + draw[t]
  <2> TAKE t \in T
  <2>1. /\ TallyOf(data, "overall", t)["won"] = HomeTally(data, t).won + AwayTally(data, t).won
        /\ TallyOf(data, "overall", t)["draw"] = HomeTally(data, t).draw + AwayTally(data, t).draw
        /\ TallyOf(data, "overall", t)["points"]
             = (HomeTally(data, t).won + AwayTally(data, t).won) * 3
                 + (HomeTally(data, t).draw + AwayTally(data, t).draw)
    BY DEF TallyOf, OverallTally
  <2> HIDE DEF at, off
  <2> QED
    BY <1>2, <2>1
<1>5. \A t \in T : /\ at("H")[t] \in Int /\ off("A")[t] \in Int
                   /\ at("D")[t] \in Int /\ off("D")[t] \in Int
  <2> HIDE DEF at, off
  <2> QED
    BY <1>1
<1> HIDE DEF at, off, won, draw, points, three, n, T
<1>6. \A t \in T : won[t] \in Int /\ draw[t] \in Int /\ three[t] \in Int
  BY <1>4, <1>5
<1>7. SumFunctionOnSet(won, T) = SumFunctionOnSet(at("H"), T) + SumFunctionOnSet(off("A"), T)
  BY <1>4, <1>5, TeamsAdd DEF T
<1>8. SumFunctionOnSet(draw, T) = SumFunctionOnSet(at("D"), T) + SumFunctionOnSet(off("D"), T)
  BY <1>4, <1>5, TeamsAdd DEF T
<1>9. SumFunctionOnSet(three, T) = SumFunctionOnSet(won, T) * 3
  <2>1. IsFiniteSet(T)
    BY TeamsOfRows DEF T
  <2> QED
    BY <1>4, <1>6, <2>1, SumTimes
<1>10. SumFunctionOnSet(points, T) = SumFunctionOnSet(three, T) + SumFunctionOnSet(draw, T)
  BY <1>4, <1>6, TeamsAdd DEF T
<1>11. /\ SumFunctionOnSet(at("H"), T) = n("H") /\ SumFunctionOnSet(off("A"), T) = n("A")
       /\ SumFunctionOnSet(at("D"), T) = n("D") /\ SumFunctionOnSet(off("D"), T) = n("D")
  BY <1>1
<1>12. /\ SumFunctionOnSet(draw, T) = n("D") + n("D")
       /\ SumFunctionOnSet(points, T) = (n("H") + n("A")) * 3 + (n("D") + n("D"))
  BY <1>7, <1>8, <1>9, <1>10, <1>11
<1>13. /\ TableTotal("home", "won") = n("H")
       /\ TableTotal("away", "won") = n("A")
       /\ TableTotal("overall", "draw") = n("D") + n("D")
       /\ TableTotal("overall", "points") = (n("H") + n("A")) * 3 + (n("D") + n("D"))
  BY <1>3, <1>11, <1>12 DEF TableTotal, draw, points, T
<1> QED
  BY <1>1, <1>13 DEF n

\* The results of the summary are the results of the tables in every state.
LEMMA ResultsFromTypeOK ==
  ASSUME TypeOK  PROVE ResultsAgreeWithTables
<1> DEFINE result == SummaryFtResults(data)
           n(r) == Cardinality(WithResult(data, r))
<1>1. /\ result["H"].match_cnt = n("H")
      /\ result["D"].match_cnt = n("D")
      /\ result["A"].match_cnt = n("A")
  BY DEF SummaryFtResults, Results
<1>2. /\ TableTotal("home", "won") = n("H")
      /\ TableTotal("away", "won") = n("A")
      /\ TableTotal("overall", "draw") = n("D") + n("D")
      /\ TableTotal("overall", "points") = (n("H") + n("A")) * 3 + (n("D") + n("D"))
      /\ n("H") \in Nat /\ n("D") \in Nat /\ n("A") \in Nat
  BY ResultTotals
<1> HIDE DEF result, n
<1>3. /\ 2 * n("D") = n("D") + n("D")
      /\ 3 * (n("H") + n("A")) + 2 * n("D") = (n("H") + n("A")) * 3 + (n("D") + n("D"))
  BY <1>2
<1>4. /\ result["H"].match_cnt = TableTotal("home", "won")
      /\ result["A"].match_cnt = TableTotal("away", "won")
      /\ 2 * result["D"].match_cnt = TableTotal("overall", "draw")
      /\ TableTotal("overall", "points")
           = 3 * (result["H"].match_cnt + result["A"].match_cnt) + 2 * result["D"].match_cnt
  BY <1>1, <1>2, <1>3
<1> QED
  BY <1>4 DEF ResultsAgreeWithTables, result

(***************************************************************************)
(* summary_ft_results counts the FTR column and the tables compare goals;  *)
(* for every league they see the same results, so that a decided match is  *)
(* worth three points to the league and a drawn one two.                   *)
(***************************************************************************)
THEOREM ResultsAgree == Spec => []ResultsAgreeWithTables
<1>1. TypeOK => ResultsAgreeWithTables
  BY ResultsFromTypeOK
<1> QED
  BY <1>1, TypeCorrect, PTL

-----------------------------------------------------------------------------
(***************************************************************************)
(* The goal spread and the goal markets.                                   *)
(***************************************************************************)
\* The rows of one scoreline.
OfScore(s) == {i \in DOMAIN data : data[i].H.FTG = s[1] /\ data[i].A.FTG = s[2]}

\* Counting the rows of several scorelines one by one counts them all.
LEMMA ScorelinesCounted ==
  ASSUME TypeOK, NEW S \in SUBSET Scorelines
  PROVE  /\ SumFunctionOnSet(SpreadCounts(data), S)
              = Cardinality({i \in DOMAIN data : <<data[i].H.FTG, data[i].A.FTG>> \in S})
         /\ \A s \in Scorelines : /\ IsFiniteSet(OfScore(s)) /\ OfScore(s) \in SUBSET (DOMAIN data)
                                  /\ SpreadCount(data, s) = Cardinality(OfScore(s))
                                  /\ SpreadCount(data, s) \in Nat
<1> DEFINE G == [s \in S |-> OfScore(s)]
           c == [s \in S |-> Cardinality(G[s])]
<1>1. \A s : OfScore(s) \in SUBSET (DOMAIN data)
  BY DEF OfScore
<1>2. \A s : IsFiniteSet(OfScore(s)) /\ Cardinality(OfScore(s)) \in Nat
  BY <1>1, RowsOfFile, FS_Subset, FS_CardinalityType
<1>3. \A s \in Scorelines : s = <<s[1], s[2]>>
  BY DEF Scorelines
<1>4. \A s, u \in S : s # u => G[s] \cap G[u] = {}
  BY <1>3 DEF OfScore
<1>5. UNION {G[s] : s \in S} = {i \in DOMAIN data : <<data[i].H.FTG, data[i].A.FTG>> \in S}
  <2>1. ASSUME NEW i \in DOMAIN data, <<data[i].H.FTG, data[i].A.FTG>> \in S
        PROVE  i \in UNION {G[s] : s \in S}
    <3> DEFINE s == <<data[i].H.FTG, data[i].A.FTG>>
    <3>1. s \in S /\ i \in G[s]
      BY <2>1 DEF OfScore
    <3> QED
      BY <3>1
  <2>2. ASSUME NEW s \in S, NEW i \in G[s]
        PROVE  i \in DOMAIN data /\ <<data[i].H.FTG, data[i].A.FTG>> \in S
    BY <1>3 DEF OfScore
  <2> QED
    BY <2>1, <2>2
<1>6. \A s \in S : c[s] \in Int /\ c[s] = SpreadCounts(data)[s]
  <2> TAKE s \in S
  <2>1. s \in Scorelines /\ c[s] = Cardinality(OfScore(s))
    OBVIOUS
  <2>2. SpreadCounts(data)[s] = Cardinality(OfScore(s))
    BY <2>1 DEF SpreadCounts, SpreadCount, OfScore
  <2> HIDE DEF c
  <2> QED
    BY <1>2, <2>1, <2>2
<1>7. IsFiniteSet(S)
  <2>1. IsFiniteSet(0 .. 3)
    <3>1. 0 \in Int /\ 3 \in Int
      OBVIOUS
    <3> QED
      BY <3>1, FS_Interval
  <2>2. IsFiniteSet(Scorelines)
    BY <2>1, FS_Product DEF Scorelines
  <2> QED
    BY <2>2, FS_Subset
<1>8. \A s \in S : IsFiniteSet(G[s])
  BY <1>2
<1> HIDE DEF G
<1>9. Cardinality(UNION {G[s] : s \in S}) = SumFunctionOnSet(c, S)
  BY <1>4, <1>7, <1>8, CountByGroup
<1>10. SumFunctionOnSet(c, S) = SumFunctionOnSet(SpreadCounts(data), S)
  <2> HIDE DEF c
  <2> QED
    BY <1>6, <1>7, SumAgrees
<1> QED
  BY <1>1, <1>2, <1>5, <1>9, <1>10 DEF SpreadCount, OfScore

\* The rows that one count leaves out are counted by the difference.
LEMMA CountOfOthers ==
  ASSUME TypeOK, NEW S \in SUBSET (DOMAIN data)
  PROVE  /\ Len(data) - Cardinality(S) = Cardinality(DOMAIN data \ S)
         /\ Cardinality(S) \in Nat /\ IsFiniteSet(S)
<1>1. IsFiniteSet(S) /\ IsFiniteSet(DOMAIN data) /\ S \subseteq DOMAIN data
  BY RowsOfFile, FS_Subset
<1>2. Cardinality(DOMAIN data \ S) = Cardinality(DOMAIN data) - Cardinality(DOMAIN data \cap S)
  BY <1>1, FS_Difference
<1>3. DOMAIN data \cap S = S
  OBVIOUS
<1>4. Cardinality(DOMAIN data) = Len(data)
  BY RowsOfFile
<1> QED
  BY <1>1, <1>2, <1>3, <1>4, FS_CardinalityType

\* A union counts no more than its parts.
LEMMA UnionAtMost ==
  ASSUME NEW S, NEW T, IsFiniteSet(S), IsFiniteSet(T)
  PROVE  /\ IsFiniteSet(S \cup T)
         /\ Cardinality(S \cup T) <= Cardinality(S) + Cardinality(T)
<1>1. /\ IsFiniteSet(S \cup T)
      /\ Cardinality(S \cup T) = Cardinality(S) + Cardinality(T) - Cardinality(S \cap T)
  BY FS_Union
<1>2. IsFiniteSet(S \cap T)
  BY FS_Intersection
<1>3. Cardinality(S) \in Nat /\ Cardinality(T) \in Nat /\ Cardinality(S \cap T) \in Nat
  BY <1>2, FS_CardinalityType
<1> QED
  BY <1>1, <1>3

\* The spread and the markets split the same matches in every state.
LEMMA SpreadFromTypeOK ==
  ASSUME TypeOK  PROVE SpreadAgreesWithMarkets
<1>1. ASSUME NEW k \in 0 .. 3
      PROVE  UnderCount(data, k)
               = SumFunctionOnSet(SpreadCounts(data), {s \in Scorelines : s[1] + s[2] <= k})
  <2> DEFINE S == {s \in Scorelines : s[1] + s[2] <= k}
  <2>1. ASSUME NEW i \in DOMAIN data
        PROVE  <<data[i].H.FTG, data[i].A.FTG>> \in S <=> data[i].H.FTG + data[i].A.FTG <= k
    BY ResultOfRow DEF Scorelines
  <2>2. S \in SUBSET Scorelines
    OBVIOUS
  <2> HIDE DEF S
  <2>3. {i \in DOMAIN data : <<data[i].H.FTG, data[i].A.FTG>> \in S}
          = {i \in DOMAIN data : data[i].H.FTG + data[i].A.FTG <= k}
    BY <2>1
  <2>4. SumFunctionOnSet(SpreadCounts(data), S) = UnderCount(data, k)
    BY <2>2, <2>3, ScorelinesCounted DEF UnderCount
  <2> QED
    BY <2>4 DEF S
<1> DEFINE drawn == {i \in DOMAIN data : <<data[i].H.FTG, data[i].A.FTG>> \in Scorelines}
           rest == {i \in DOMAIN data : data[i].H.FTG > 3 \/ data[i].A.FTG > 3}
           over == {i \in DOMAIN data : data[i].H.FTG + data[i].A.FTG > 4}
           a == OfScore(<<3, 3>>)
           b == OfScore(<<2, 3>>)
           c == OfScore(<<3, 2>>)
<1>2. SpreadRest(data) = Cardinality(rest)
  <2>1. SpreadRest(data) = Len(data) - Cardinality(drawn)
    BY ScorelinesCounted DEF SpreadRest, NumOfMatches
  <2>2. DOMAIN data \ drawn = rest
    BY ResultOfRow DEF Scorelines
  <2> QED
    BY <2>1, <2>2, CountOfOthers
<1>3. OverCount(data, 4) = Cardinality(over)
  <2> DEFINE under == {i \in DOMAIN data : data[i].H.FTG + data[i].A.FTG <= 4}
  <2>1. OverCount(data, 4) = Len(data) - Cardinality(under)
    BY DEF OverCount, UnderCount, NumOfMatches
  <2>2. DOMAIN data \ under = over
    BY ResultOfRow
  <2> QED
    BY <2>1, <2>2, CountOfOthers
<1>4. over \in SUBSET (((rest \cup a) \cup b) \cup c)
  BY ResultOfRow DEF OfScore
<1>5. /\ IsFiniteSet(rest) /\ IsFiniteSet(a) /\ IsFiniteSet(b) /\ IsFiniteSet(c)
  BY CountOfOthers DEF OfScore
<1>6. /\ SpreadCount(data, <<3, 3>>) = Cardinality(a)
      /\ SpreadCount(data, <<2, 3>>) = Cardinality(b)
      /\ SpreadCount(data, <<3, 2>>) = Cardinality(c)
  BY DEF SpreadCount, OfScore
<1> HIDE DEF rest, over, a, b, c
<1>7. /\ Cardinality(rest) \in Nat /\ Cardinality(a) \in Nat
      /\ Cardinality(b) \in Nat /\ Cardinality(c) \in Nat
  BY <1>5, FS_CardinalityType
<1>8. /\ IsFiniteSet(rest \cup a)
      /\ Cardinality(rest \cup a) <= Cardinality(rest) + Cardinality(a)
  BY <1>5, <1>7, UnionAtMost
<1>9. /\ IsFiniteSet((rest \cup a) \cup b)
      /\ Cardinality((rest \cup a) \cup b) <= Cardinality(rest \cup a) + Cardinality(b)
  BY <1>5, <1>8, UnionAtMost
<1>10. /\ IsFiniteSet(((rest \cup a) \cup b) \cup c)
       /\ Cardinality(((rest \cup a) \cup b) \cup c) <= Cardinality((rest \cup a) \cup b) + Cardinality(c)
  BY <1>5, <1>9, UnionAtMost
<1>11. Cardinality(over) <= Cardinality(((rest \cup a) \cup b) \cup c)
  BY <1>4, <1>10, FS_Subset
<1>12. OverCount(data, 4) <= SpreadRest(data) + SpreadCount(data, <<3, 3>>)
         + SpreadCount(data, <<2, 3>>) + SpreadCount(data, <<3, 2>>)
  <2> DEFINE n0 == Cardinality(over)
             n1 == Cardinality(rest \cup a)
             n2 == Cardinality((rest \cup a) \cup b)
             n3 == Cardinality(((rest \cup a) \cup b) \cup c)
  <2>1. n0 \in Nat /\ n1 \in Nat /\ n2 \in Nat /\ n3 \in Nat
    BY <1>4, <1>8, <1>9, <1>10, FS_CardinalityType, FS_Subset
  <2>2. /\ n1 <= Cardinality(rest) + Cardinality(a) /\ n2 <= n1 + Cardinality(b)
        /\ n3 <= n2 + Cardinality(c) /\ n0 <= n3
    BY <1>8, <1>9, <1>10, <1>11
  <2> HIDE DEF n0, n1, n2, n3
  <2>3. n0 <= Cardinality(rest) + Cardinality(a) + Cardinality(b) + Cardinality(c)
    BY <1>7, <2>1, <2>2
  <2> QED
    BY <1>2, <1>3, <1>6, <2>3 DEF n0
<1> QED
  BY <1>1, <1>2, <1>12 DEF SpreadAgreesWithMarkets, rest

(***************************************************************************)
(* summary_goal_spread and summary_goal_markets split the same matches, for *)
(* every league: up to three goals the markets are sums of scorelines, and the *)
(* 4+ row is every match in which a side scored more than three.           *)
(***************************************************************************)
THEOREM SpreadAgrees == Spec => []SpreadAgreesWithMarkets
<1>1. TypeOK => SpreadAgreesWithMarkets
  BY SpreadFromTypeOK
<1> QED
  BY <1>1, TypeCorrect, PTL

\* Whoever gets a goal spread gets the goal markets, in every state.
LEMMA MarketsFromTypeOK ==
  ASSUME TypeOK  PROVE MarketsWheneverSpread
<1> SUFFICES ASSUME ~GoalSpreadRaises(data)  PROVE ~GoalMarketsRaises(data)
  BY DEF MarketsWheneverSpread
<1>1. ASSUME NEW s \in Scorelines  PROVE OfScore(s) # {}
  BY ScorelinesCounted, FS_EmptySet DEF GoalSpreadRaises
<1>2. <<0, 0>> \in Scorelines /\ <<3, 3>> \in Scorelines
  BY DEF Scorelines
<1>3. PICK i \in OfScore(<<0, 0>>) : TRUE
  BY <1>1, <1>2
<1>4. PICK j \in OfScore(<<3, 3>>) : TRUE
  BY <1>1, <1>2
<1>5. /\ i \in DOMAIN data /\ data[i].H.FTG = 0 /\ data[i].A.FTG = 0
      /\ j \in DOMAIN data /\ data[j].H.FTG = 3 /\ data[j].A.FTG = 3
  BY <1>3, <1>4 DEF OfScore
<1>6. ASSUME NEW k \in Markets  PROVE UnderCount(data, k) # 0 /\ OverCount(data, k) # 0
  <2> DEFINE under == {m \in DOMAIN data : data[m].H.FTG + data[m].A.FTG <= k}
  <2>1. i \in under /\ j \in DOMAIN data \ under
    BY <1>5 DEF Markets
  <2>2. /\ UnderCount(data, k) = Cardinality(under)
        /\ OverCount(data, k) = Len(data) - Cardinality(under)
    BY DEF UnderCount, OverCount, NumOfMatches
  <2>3. /\ Len(data) - Cardinality(under) = Cardinality(DOMAIN data \ under)
        /\ IsFiniteSet(under) /\ IsFiniteSet(DOMAIN data \ under)
    BY CountOfOthers
  <2> HIDE DEF under
  <2>4. Cardinality(under) # 0 /\ Cardinality(DOMAIN data \ under) # 0
    BY <2>1, <2>3, FS_EmptySet
  <2> QED
    BY <2>2, <2>3, <2>4
<1> QED
  BY <1>6 DEF GoalMarketsRaises

\* A market has a zero count as long as one of the extremes is missing.
LEMMA ExtremesFromTypeOK ==
  ASSUME TypeOK  PROVE MarketsNeedExtremes
<1> DEFINE goals(i) == data[i].H.FTG + data[i].A.FTG
           under(k) == {i \in DOMAIN data : goals(i) <= k}
           over(k) == DOMAIN data \ under(k)
<1>1. \A i \in DOMAIN data : goals(i) \in Nat
  <2>1. \A i \in DOMAIN data : data[i].H.FTG \in Nat /\ data[i].A.FTG \in Nat
    BY RowGoals
  <2> QED
    BY <2>1
<1>2. ASSUME NEW k \in Markets
      PROVE  /\ UnderCount(data, k) = 0 <=> under(k) = {}
             /\ OverCount(data, k) = 0 <=> over(k) = {}
  <2> DEFINE S == under(k)
  <2>1. UnderCount(data, k) = Cardinality(S) /\ OverCount(data, k) = Len(data) - Cardinality(S)
    BY DEF UnderCount, OverCount, NumOfMatches
  <2>2. S \in SUBSET (DOMAIN data)
    OBVIOUS
  <2> HIDE DEF S
  <2>3. /\ Len(data) - Cardinality(S) = Cardinality(DOMAIN data \ S)
        /\ IsFiniteSet(S) /\ IsFiniteSet(DOMAIN data \ S)
    BY <2>2, CountOfOthers
  <2>4. UnderCount(data, k) = 0 <=> S = {}
    BY <2>1, <2>3, FS_EmptySet
  <2>5. OverCount(data, k) = 0 <=> DOMAIN data \ S = {}
    BY <2>1, <2>3, FS_EmptySet
  <2> QED
    BY <2>4, <2>5 DEF S
<1> HIDE DEF goals
<1>3. ASSUME NEW i \in DOMAIN data, NEW j \in DOMAIN data, goals(i) = 0, goals(j) >= 5,
             NEW k \in Markets
      PROVE  i \in under(k) /\ j \in over(k)
  BY <1>1, <1>3 DEF Markets
<1>4. ASSUME \A k \in Markets : under(k) # {} /\ over(k) # {}
      PROVE  \E i, j \in DOMAIN data : goals(i) = 0 /\ goals(j) >= 5
  <2>1. 0 \in Markets /\ 4 \in Markets
    BY DEF Markets
  <2>2. PICK i \in under(0), j \in over(4) : TRUE
    BY <1>4, <2>1
  <2>3. goals(i) = 0 /\ goals(j) >= 5
    BY <1>1, <2>2
  <2> QED
    BY <2>2, <2>3
<1>5. ~GoalMarketsRaises(data) <=> \A k \in Markets : under(k) # {} /\ over(k) # {}
  <2> HIDE DEF under, over
  <2> QED
    BY <1>2 DEF GoalMarketsRaises
<1>6. ~GoalMarketsRaises(data) <=> \E i, j \in DOMAIN data : goals(i) = 0 /\ goals(j) >= 5
  <2>1. ASSUME NEW i \in DOMAIN data, NEW j \in DOMAIN data, goals(i) = 0, goals(j) >= 5,
               NEW k \in Markets
        PROVE  under(k) # {} /\ over(k) # {}
    BY <1>3, <2>1
  <2> HIDE DEF under, over
  <2> QED
    BY <1>4, <1>5, <2>1
<1> QED
  BY <1>6 DEF MarketsNeedExtremes, goals

(***************************************************************************)
(* For every league, summary_goal_markets divides by zero exactly until a  *)
(* goalless draw and a match of five goals or more have been played.       *)
(***************************************************************************)
THEOREM MarketsAfterExtremes == Spec => []MarketsNeedExtremes
<1>1. TypeOK => MarketsNeedExtremes
  BY ExtremesFromTypeOK
<1> QED
  BY <1>1, TypeCorrect, PTL

(***************************************************************************)
(* Both reports raise when a count they divide by is zero.  For every league, *)
(* if summary_goal_spread does not then summary_goal_markets does not either. *)
(***************************************************************************)
THEOREM MarketsFollowSpread == Spec => []MarketsWheneverSpread
<1>1. TypeOK => MarketsWheneverSpread
  BY MarketsFromTypeOK
<1> QED
  BY <1>1, TypeCorrect, PTL

-----------------------------------------------------------------------------
(***************************************************************************)
(* Statistics.                                                             *)
(***************************************************************************)
\* The red cards of the season-wide statistics are those of the tables.
LEMMA RedCardTotals ==
  ASSUME TypeOK
  PROVE  LET red(type) == SumFunctionOnSet([t \in TeamsOf(data) |-> RedCards(data, type, t)],
                                           TeamsOf(data))
             stats == SummaryStats(data)
         IN  /\ stats["Home team"]["R"].cnt = red("home")
             /\ stats["Away team"]["R"].cnt = red("away")
             /\ stats["Total"]["R"].cnt = red("overall")
<1> DEFINE T == TeamsOf(data)
           H == Column(data, "H", "R")
           A == Column(data, "A", "R")
           B == [i \in DOMAIN data |-> data[i].H["R"] + data[i].A["R"]]
           h == [t \in T |-> Total(H, HomeMatches(data, t))]
           a == [t \in T |-> Total(A, AwayMatches(data, t))]
           both == [t \in T |-> RedCards(data, "overall", t)]
           stats == SummaryStats(data)
<1>1. \A i \in DOMAIN data : H[i] \in Nat /\ A[i] \in Nat /\ B[i] = H[i] + A[i]
  BY ColumnOfRows DEF Columns
<1>2. /\ stats["Home team"]["R"].cnt = Total(H, DOMAIN data)
      /\ stats["Away team"]["R"].cnt = Total(A, DOMAIN data)
      /\ stats["Total"]["R"].cnt = Total(B, DOMAIN data)
  BY DEF SummaryStats, StatRows, StatColumns, StatSeries
<1> HIDE DEF H, A, B, stats
<1>3. /\ Total(H, DOMAIN data) = SumFunctionOnSet(h, T)
      /\ \A t \in T : h[t] \in Nat
  BY <1>1, VenueSums
<1>4. /\ Total(A, DOMAIN data) = SumFunctionOnSet(a, T)
      /\ \A t \in T : a[t] \in Nat
  BY <1>1, VenueSums
<1>5. Total(B, DOMAIN data) = Total(H, DOMAIN data) + Total(A, DOMAIN data)
  BY <1>1, RowsOfFile, TotalOfSums
<1>6. ASSUME NEW t \in T
      PROVE  /\ RedCards(data, "home", t) = h[t] + 0
             /\ RedCards(data, "away", t) = 0 + a[t]
             /\ RedCards(data, "overall", t) = h[t] + a[t]
  BY DEF RedCards, H, A
<1>7. /\ [t \in T |-> RedCards(data, "home", t)] = h
      /\ [t \in T |-> RedCards(data, "away", t)] = a
  <2>1. \A t \in T : RedCards(data, "home", t) = h[t] /\ RedCards(data, "away", t) = a[t]
    <3> TAKE t \in T
    <3>1. h[t] \in Nat /\ a[t] \in Nat
      BY <1>3, <1>4
    <3> HIDE DEF h, a
    <3> QED
      BY <1>6, <3>1
  <2> QED
    BY <2>1
<1>8. SumFunctionOnSet(both, T) = SumFunctionOnSet(h, T) + SumFunctionOnSet(a, T)
  <2>1. \A t \in T : h[t] \in Int /\ a[t] \in Int /\ both[t] = h[t] + a[t]
    BY <1>3, <1>4, <1>6
  <2> HIDE DEF h, a, both
  <2> QED
    BY <2>1, TeamsAdd
<1> QED
  BY <1>2, <1>3, <1>4, <1>5, <1>7, <1>8 DEF stats

\* The extremes of a column over the season bound its mean over any rows.
LEMMA ExtremesBoundMeans ==
  ASSUME TypeOK, NEW side \in {"H", "A"}, NEW col \in StatColumns, NEW row \in StatRows,
         StatSeries(data, row, col) = Column(data, side, col),
         NEW M \in SUBSET (DOMAIN data), M # {}
  PROVE  /\ LeqF(Int64(SummaryStats(data)[row][col].min), Mean(Column(data, side, col), M))
         /\ LeqF(Mean(Column(data, side, col), M), Int64(SummaryStats(data)[row][col].max))
<1> DEFINE f == Column(data, side, col)
           values == {f[i] : i \in DOMAIN data}
           low == SummaryStats(data)[row][col].min
           high == SummaryStats(data)[row][col].max
<1>1. \A i \in DOMAIN data : f[i] \in Nat
  BY ColumnOfRows DEF StatColumns, Columns
<1>2. low = Min(values) /\ high = Max(values)
  BY DEF SummaryStats
<1> HIDE DEF f
<1>3. IsFiniteSet(values) /\ values # {} /\ values \subseteq Int
  <2> DEFINE v == [i \in DOMAIN data |-> f[i]]
  <2>1. v \in Surjection(DOMAIN data, values)
    BY DEF Surjection
  <2>2. IsFiniteSet(DOMAIN data)
    BY RowsOfFile
  <2> HIDE DEF v, values
  <2>3. IsFiniteSet(values)
    BY <2>1, <2>2, FS_Surjection
  <2> QED
    BY <1>1, <2>3 DEF values
<1>4. /\ low \in values /\ \A y \in values : low <= y
      /\ high \in values /\ \A y \in values : high >= y
  <2> HIDE DEF values
  <2>1. /\ \E x \in values : \A y \in values : x <= y
        /\ \E x \in values : \A y \in values : x >= y
    BY <1>3, ExtremesExist
  <2> QED
    BY <1>2, <2>1 DEF Min, Max
<1>5. /\ low \in Nat /\ high \in Nat
      /\ \A i \in DOMAIN data : low <= f[i] /\ f[i] <= high
  BY <1>1, <1>4
<1>6. IsFiniteSet(M)
  BY RowsOfFile, FS_Subset
<1> HIDE DEF low, high, values
<1>7. Cardinality(M) * low <= Total(f, M)
  BY <1>1, <1>5, <1>6, TotalAtLeast
<1>8. Total(f, M) <= Cardinality(M) * high /\ Total(f, M) \in Nat
  BY <1>1, <1>5, <1>6, TotalBounded
<1>9. Cardinality(M) \in Nat /\ Cardinality(M) # 0
  BY <1>6, FS_EmptySet, FS_CardinalityType
<1>10. /\ LeqF(Float(low, 1), Float(Total(f, M), Cardinality(M)))
       /\ LeqF(Float(Total(f, M), Cardinality(M)), Float(high, 1))
  <2> DEFINE n == Cardinality(M)
             s == Total(f, M)
  <2>1. /\ n \in Nat /\ n # 0 /\ s \in Nat /\ n * low <= s /\ s <= n * high
        /\ n * low = low * n /\ n * high = high * n /\ s * 1 = s
    BY <1>5, <1>7, <1>8, <1>9
  <2> HIDE DEF n, s
  <2>2. LeqF(Float(low, 1), Float(s, n)) /\ LeqF(Float(s, n), Float(high, 1))
    BY <2>1 DEF LeqF, Float, IsNumber
  <2> QED
    BY <2>2 DEF n, s
<1> QED
  BY <1>10 DEF Mean, Int64, low, high, f

\* The averages of a venue are means of the columns named for it.
LEMMA VenueMeans ==
  ASSUME NEW M, NEW own, NEW opp
  PROVE  LET avg == VenueAverages(data, M, own, opp)
         IN  /\ avg.fouls_commited = Mean(Column(data, own, "F"), M)
             /\ avg.fouls_suffered = Mean(Column(data, opp, "F"), M)
             /\ avg.corners_for = Mean(Column(data, own, "C"), M)
<1>1. \A m \in {"fouls_commited", "fouls_suffered", "corners_for"} :
        /\ m \in DOMAIN AverageColumns
        /\ VenueAverages(data, M, own, opp)[m]
             = Mean(Column(data, IF AverageColumns[m][1] = "own" THEN own ELSE opp,
                           AverageColumns[m][2]), M)
  <2> TAKE m \in {"fouls_commited", "fouls_suffered", "corners_for"}
  <2>1. m \in DOMAIN AverageColumns
    BY DEF AverageColumns
  <2> QED
    BY <2>1, VenueAverage DEF VenueTotal, Mean
<1>2. /\ AverageColumns["fouls_commited"] = <<"own", "F">>
      /\ AverageColumns["fouls_suffered"] = <<"opp", "F">>
      /\ AverageColumns["corners_for"] = <<"own", "C">>
  BY DEF AverageColumns
<1> QED
  BY <1>1, <1>2

\* The statistics of the summary are those of the tables in every state.
LEMMA StatsFromTypeOK ==
  ASSUME TypeOK  PROVE StatsAgreeWithTables
<1> DEFINE stats == SummaryStats(data)
<1>1. \A col : /\ StatSeries(data, "Home team", col) = Column(data, "H", col)
               /\ StatSeries(data, "Away team", col) = Column(data, "A", col)
  BY DEF StatSeries
<1>2. /\ "F" \in StatColumns /\ "C" \in StatColumns
      /\ "Home team" \in StatRows /\ "Away team" \in StatRows
  BY DEF StatColumns, StatRows
<1>3. ASSUME NEW t, HomeMatches(data, t) # {}
      PROVE  LET avg == HomeAverages(data, t)
             IN  /\ LeqF(Int64(stats["Home team"]["F"].min), avg.fouls_commited)
                 /\ LeqF(avg.fouls_suffered, Int64(stats["Away team"]["F"].max))
                 /\ LeqF(avg.corners_for, Int64(stats["Home team"]["C"].max))
  <2> DEFINE M == HomeMatches(data, t)
  <2>1. M \in SUBSET (DOMAIN data) /\ M # {}
    BY <1>3 DEF HomeMatches
  <2> HIDE DEF M
  <2>2. /\ LeqF(Int64(stats["Home team"]["F"].min), Mean(Column(data, "H", "F"), M))
        /\ LeqF(Mean(Column(data, "A", "F"), M), Int64(stats["Away team"]["F"].max))
        /\ LeqF(Mean(Column(data, "H", "C"), M), Int64(stats["Home team"]["C"].max))
    BY <1>1, <1>2, <2>1, ExtremesBoundMeans
  <2> QED
    BY <2>2, VenueMeans DEF HomeAverages, M
<1>4. ASSUME NEW t, AwayMatches(data, t) # {}
      PROVE  LET avg == AwayAverages(data, t)
             IN  /\ LeqF(Int64(stats["Home team"]["F"].min), avg.fouls_suffered)
                 /\ LeqF(avg.corners_for, Int64(stats["Away team"]["C"].max))
  <2> DEFINE M == AwayMatches(data, t)
  <2>1. M \in SUBSET (DOMAIN data) /\ M # {}
    BY <1>4 DEF AwayMatches
  <2> HIDE DEF M
  <2>2. /\ LeqF(Int64(stats["Home team"]["F"].min), Mean(Column(data, "H", "F"), M))
        /\ LeqF(Mean(Column(data, "A", "C"), M), Int64(stats["Away team"]["C"].max))
    BY <1>1, <1>2, <2>1, ExtremesBoundMeans
  <2> QED
    BY <2>2, VenueMeans DEF AwayAverages, M
<1> HIDE DEF stats
<1> QED
  BY <1>3, <1>4, RedCardTotals DEF StatsAgreeWithTables, stats

(***************************************************************************)
(* For every league, the red cards of summary_stats are those of the tables, *)
(* and its extremes bound the teams' averages of fouls and corners.        *)
(***************************************************************************)
THEOREM StatsAgree == Spec => []StatsAgreeWithTables
<1>1. TypeOK => StatsAgreeWithTables
  BY StatsFromTypeOK
<1> QED
  BY <1>1, TypeCorrect, PTL

-----------------------------------------------------------------------------
(***************************************************************************)
(* Shots per goal.                                                         *)
(***************************************************************************)
\* The weighted mean of two numbers lies between them.
LEMMA WeightedBetween ==
  ASSUME NEW p \in Nat, NEW q \in Nat \ {0}, NEW r \in Nat, NEW s \in Nat \ {0},
         NEW n \in Nat \ {0}, NEW m \in Nat \ {0}
  PROVE  LET x == Float(p, q)
             y == Float(r, s)
             w == Weighted(x, n, y, m)
         IN  \/ LeqF(x, w) /\ LeqF(w, y)
             \/ LeqF(y, w) /\ LeqF(w, x)
<1> DEFINE x == Float(p, q)
           y == Float(r, s)
           w == Weighted(x, n, y, m)
           a == p * s
           b == r * q
           num == a * n + b * m
           den == (q * s) * (n + m)
<1>1. w = Float(num, den)
  <2>1. MulF(x, Int64(n)) = Float(p * n, q) /\ MulF(y, Int64(m)) = Float(r * m, s)
    BY DEF MulF, Float, Int64
  <2>2. AddF(Float(p * n, q), Float(r * m, s)) = Float((p * n) * s + (r * m) * q, q * s)
    BY DEF AddF, Float
  <2>3. (p * n) * s = a * n /\ (r * m) * q = b * m
    OBVIOUS
  <2>4. DivF(Float(a * n + b * m, q * s), Int64(n + m)) = Float(num * 1, den)
    BY DEF DivF, Float, Int64
  <2>5. num * 1 = num
    OBVIOUS
  <2> QED
    BY <2>1, <2>2, <2>3, <2>4, <2>5 DEF Weighted
<1>2. a \in Nat /\ b \in Nat /\ q * s \in Nat \ {0} /\ den \in Nat \ {0}
  <2>1. q * s \in Nat \ {0}
    OBVIOUS
  <2> DEFINE k == q * s
  <2> HIDE DEF k
  <2>2. k * (n + m) \in Nat \ {0}
    BY <2>1 DEF k
  <2> QED
    BY <2>1, <2>2 DEF k
<1>3. /\ p * den = q * (a * n + a * m) /\ num * q = q * (a * n + b * m)
      /\ num * s = s * (a * n + b * m) /\ r * den = s * (b * n + b * m)
  <2>1. p * den = q * (a * n + a * m)
    OBVIOUS
  <2>2. r * den = s * (b * n + b * m)
    OBVIOUS
  <2>3. num * q = q * (a * n + b * m) /\ num * s = s * (a * n + b * m)
    <3> DEFINE k == a * n + b * m
    <3>1. k \in Nat
      BY <1>2
    <3> HIDE DEF k, a, b
    <3> QED
      BY <3>1 DEF k
  <2> QED
    BY <2>1, <2>2, <2>3
<1> HIDE DEF a, b, den, num
<1>4. \A c, d \in Nat : c <= d => c * n <= d * n /\ c * m <= d * m /\ c * q <= d * q /\ c * s <= d * s
  OBVIOUS
<1> DEFINE aa == a * n + a * m
           ab == a * n + b * m
           bb == b * n + b * m
<1>5. num \in Nat /\ aa \in Nat /\ ab \in Nat /\ bb \in Nat
  BY <1>2 DEF num
<1>6. ASSUME a <= b  PROVE LeqF(x, w) /\ LeqF(w, y)
  <2>1. a * n <= b * n /\ a * m <= b * m
    BY <1>2, <1>4, <1>6
  <2>2. aa <= ab /\ ab <= bb
    BY <1>2, <2>1
  <2> HIDE DEF aa, ab, bb
  <2>3. aa * q <= ab * q /\ ab * s <= bb * s
    BY <1>4, <1>5, <2>2
  <2>4. q * aa = aa * q /\ q * ab = ab * q /\ s * ab = ab * s /\ s * bb = bb * s
    BY <1>5
  <2>5. p * den <= num * q /\ num * s <= r * den
    BY <1>3, <2>3, <2>4 DEF aa, ab, bb
  <2> QED
    BY <1>1, <1>2, <2>5 DEF LeqF, IsNumber, Float
<1>7. ASSUME b <= a  PROVE LeqF(y, w) /\ LeqF(w, x)
  <2>1. b * n <= a * n /\ b * m <= a * m
    BY <1>2, <1>4, <1>7
  <2>2. bb <= ab /\ ab <= aa
    BY <1>2, <2>1
  <2> HIDE DEF aa, ab, bb
  <2>3. ab * q <= aa * q /\ bb * s <= ab * s
    BY <1>4, <1>5, <2>2
  <2>4. q * aa = aa * q /\ q * ab = ab * q /\ s * ab = ab * s /\ s * bb = bb * s
    BY <1>5
  <2>5. num * q <= p * den /\ r * den <= num * s
    BY <1>3, <2>3, <2>4 DEF aa, ab, bb
  <2> QED
    BY <1>1, <1>2, <2>5 DEF LeqF, IsNumber, Float
<1>8. a <= b \/ b <= a
  BY <1>2
<1> QED
  BY <1>6, <1>7, <1>8 DEF x, y, w

\* A ratio without a denominator at one venue leaves the weighted mean without.
LEMMA WeightedNoNumber ==
  ASSUME NEW p \in Nat, NEW q \in Nat, NEW r \in Nat, NEW s \in Nat,
         NEW n \in Nat, NEW m \in Nat, q = 0 \/ s = 0
  PROVE  ~IsNumber(Weighted(Float(p, q), n, Float(r, s), m))
<1>1. /\ MulF(Float(p, q), Int64(n)) = Float(p * n, q)
      /\ MulF(Float(r, s), Int64(m)) = Float(r * m, s)
  BY DEF MulF, Float, Int64
<1>2. AddF(Float(p * n, q), Float(r * m, s)).d = 0
  BY DEF AddF, Float
<1>3. \A z : z.d = 0 => DivF(z, Int64(n + m)).d = 0
  BY DEF DivF, Float, Int64
<1> QED
  BY <1>1, <1>2, <1>3 DEF Weighted, IsNumber

\* The columns of each ratio of two averages, and the tally it divides by.
ShotsColumn == [shots_to_score_a_goal |-> "shots_made", shots_to_concede_a_goal |-> "shots_allowed"]
GoalsColumn == [shots_to_score_a_goal |-> "goals_scored_pg", shots_to_concede_a_goal |-> "goals_conceded_pg"]

\* A venue's shots per goal are the ratio of its two totals.
LEMMA VenueRatio ==
  ASSUME NEW c \in DOMAIN RatioColumns, NEW M, NEW own, NEW opp
  PROVE  /\ VenueAverages(data, M, own, opp)[c]
              = Float(VenueTotal(ShotsColumn[c], M, own, opp) * Cardinality(M),
                      Cardinality(M) * VenueTotal(GoalsColumn[c], M, own, opp))
         /\ c \in DOMAIN VenueAverages(data, M, own, opp)
<1> DEFINE avg == VenueAverages(data, M, own, opp)
<1>1. /\ ShotsColumn[c] \in DOMAIN AverageColumns /\ GoalsColumn[c] \in DOMAIN AverageColumns
      /\ RatioColumns[c] = <<ShotsColumn[c], GoalsColumn[c]>>
  BY DEF RatioColumns, ShotsColumn, GoalsColumn, AverageColumns
<1>2. /\ avg[ShotsColumn[c]] = Float(VenueTotal(ShotsColumn[c], M, own, opp), Cardinality(M))
      /\ avg[GoalsColumn[c]] = Float(VenueTotal(GoalsColumn[c], M, own, opp), Cardinality(M))
  BY <1>1, VenueAverage
<1> DEFINE side == [own |-> own, opp |-> opp]
           mean == [m \in DOMAIN AverageColumns |->
                      Mean(Column(data, side[AverageColumns[m][1]], AverageColumns[m][2]), M)]
<1>3. avg = [m \in DOMAIN AverageColumns \cup DOMAIN RatioColumns |->
               IF m \in DOMAIN RatioColumns THEN DivF(mean[RatioColumns[m][1]], mean[RatioColumns[m][2]])
               ELSE mean[m]]
  BY DEF VenueAverages
<1>4. ShotsColumn[c] \notin DOMAIN RatioColumns /\ GoalsColumn[c] \notin DOMAIN RatioColumns
  BY DEF RatioColumns, ShotsColumn, GoalsColumn
<1> HIDE DEF avg, mean
<1>5. /\ avg[ShotsColumn[c]] = mean[ShotsColumn[c]] /\ avg[GoalsColumn[c]] = mean[GoalsColumn[c]]
      /\ avg[c] = DivF(mean[ShotsColumn[c]], mean[GoalsColumn[c]])
      /\ c \in DOMAIN avg
  BY <1>1, <1>3, <1>4
<1>6. avg[c] = DivF(Float(VenueTotal(ShotsColumn[c], M, own, opp), Cardinality(M)),
                    Float(VenueTotal(GoalsColumn[c], M, own, opp), Cardinality(M)))
  BY <1>2, <1>5
<1> QED
  BY <1>5, <1>6 DEF DivF, Float, avg

\* The overall ratio lies between those of the venues, if both have a goal.
LEMMA OverallRatio ==
  ASSUME TypeOK, NEW t, NEW c \in DOMAIN RatioColumns,
         HomeMatches(data, t) # {}, AwayMatches(data, t) # {}
  PROVE  LET h == HomeAverages(data, t)[c]
             a == AwayAverages(data, t)[c]
             o == OverallAverages(data, t)[c]
         IN  IF /\ VenueTotal(GoalsColumn[c], HomeMatches(data, t), "H", "A") > 0
                /\ VenueTotal(GoalsColumn[c], AwayMatches(data, t), "A", "H") > 0
               THEN \/ LeqF(h, o) /\ LeqF(o, a)
                    \/ LeqF(a, o) /\ LeqF(o, h)
               ELSE ~IsNumber(o)
<1> DEFINE H == HomeMatches(data, t)
           A == AwayMatches(data, t)
           n == Cardinality(H)
           m == Cardinality(A)
           hs == VenueTotal(ShotsColumn[c], H, "H", "A")
           hg == VenueTotal(GoalsColumn[c], H, "H", "A")
           as == VenueTotal(ShotsColumn[c], A, "A", "H")
           ag == VenueTotal(GoalsColumn[c], A, "A", "H")
<1>1. /\ IsFiniteSet(H) /\ IsFiniteSet(A)
      /\ H \in SUBSET (DOMAIN data) /\ A \in SUBSET (DOMAIN data)
  BY RowsOfTeam
<1>2. n \in Nat \ {0} /\ m \in Nat \ {0}
  BY <1>1, FS_EmptySet, FS_CardinalityType
<1>3. hs \in Nat /\ hg \in Nat /\ as \in Nat /\ ag \in Nat
  <2>1. /\ ShotsColumn[c] \in DOMAIN AverageColumns /\ GoalsColumn[c] \in DOMAIN AverageColumns
    BY DEF RatioColumns, ShotsColumn, GoalsColumn, AverageColumns
  <2>2. \A k \in DOMAIN AverageColumns : AverageColumns[k][2] \in Columns
    BY DEF AverageColumns, Columns
  <2> QED
    BY <1>1, <2>1, <2>2, ColumnTotal DEF VenueTotal
<1>4. /\ HomeAverages(data, t)[c] = Float(hs * n, n * hg)
      /\ AwayAverages(data, t)[c] = Float(as * m, m * ag)
      /\ c \in DOMAIN HomeAverages(data, t)
  BY VenueRatio DEF HomeAverages, AwayAverages
<1>5. OverallAverages(data, t)[c] = Weighted(Float(hs * n, n * hg), n, Float(as * m, m * ag), m)
  BY <1>4 DEF OverallAverages, Weighted
<1> HIDE DEF H, A, n, m, hs, hg, as, ag
<1>6. hs * n \in Nat /\ n * hg \in Nat /\ as * m \in Nat /\ m * ag \in Nat
  <2>1. \A u, v \in Nat : u * v \in Nat
    OBVIOUS
  <2>2. n \in Nat /\ m \in Nat
    BY <1>2
  <2> QED
    BY <1>3, <2>1, <2>2, Zenon
<1>7. ASSUME hg > 0, ag > 0
      PROVE  \/ /\ LeqF(HomeAverages(data, t)[c], OverallAverages(data, t)[c])
                /\ LeqF(OverallAverages(data, t)[c], AwayAverages(data, t)[c])
             \/ /\ LeqF(AwayAverages(data, t)[c], OverallAverages(data, t)[c])
                /\ LeqF(OverallAverages(data, t)[c], HomeAverages(data, t)[c])
  <2>1. n * hg \in Nat \ {0} /\ m * ag \in Nat \ {0}
    BY <1>2, <1>3, <1>7
  <2> DEFINE p == hs * n
             q == n * hg
             r == as * m
             s == m * ag
  <2>2. p \in Nat /\ q \in Nat \ {0} /\ r \in Nat /\ s \in Nat \ {0}
    BY <1>6, <2>1
  <2>3. /\ HomeAverages(data, t)[c] = Float(p, q) /\ AwayAverages(data, t)[c] = Float(r, s)
        /\ OverallAverages(data, t)[c] = Weighted(Float(p, q), n, Float(r, s), m)
    BY <1>4, <1>5
  <2> HIDE DEF p, q, r, s
  <2> QED
    BY <1>2, <2>2, <2>3, WeightedBetween
<1>8. ASSUME hg = 0 \/ ag = 0  PROVE ~IsNumber(OverallAverages(data, t)[c])
  <2>1. n * hg = 0 \/ m * ag = 0
    BY <1>2, <1>3, <1>8
  <2>2. n \in Nat /\ m \in Nat
    BY <1>2
  <2> DEFINE p == hs * n
             q == n * hg
             r == as * m
             s == m * ag
  <2>3. /\ p \in Nat /\ q \in Nat /\ r \in Nat /\ s \in Nat /\ (q = 0 \/ s = 0)
        /\ OverallAverages(data, t)[c] = Weighted(Float(p, q), n, Float(r, s), m)
    BY <1>5, <1>6, <2>1
  <2> HIDE DEF p, q, r, s
  <2>4. ~IsNumber(Weighted(Float(p, q), n, Float(r, s), m))
    BY <2>2, <2>3, WeightedNoNumber
  <2> QED
    BY <2>3, <2>4
<1> QED
  BY <1>3, <1>7, <1>8 DEF H, A, hg, ag

\* Shots per goal are a weighted mean of two ratios in every state.
LEMMA ShotsFromTypeOK ==
  ASSUME TypeOK  PROVE ShotsPerGoalNeedGoals
<1> SUFFICES ASSUME NEW t \in TeamsOf(data),
                    TeamStats(data, t).Home.mp > 0, TeamStats(data, t).Away.mp > 0
             PROVE  LET s == TeamStats(data, t)
                        between(f) == \/ LeqF(s.Home[f], s.Total[f]) /\ LeqF(s.Total[f], s.Away[f])
                                      \/ LeqF(s.Away[f], s.Total[f]) /\ LeqF(s.Total[f], s.Home[f])
                    IN  /\ IF s.Home.gs > 0 /\ s.Away.gs > 0
                             THEN between("shots_on_goal_f") ELSE ~IsNumber(s.Total.shots_on_goal_f)
                        /\ IF s.Home.gc > 0 /\ s.Away.gc > 0
                             THEN between("shots_on_goal_a") ELSE ~IsNumber(s.Total.shots_on_goal_a)
  BY DEF ShotsPerGoalNeedGoals
<1> DEFINE s == TeamStats(data, t)
           H == HomeMatches(data, t)
           A == AwayMatches(data, t)
<1>1. /\ s.Home.mp = Cardinality(H) /\ s.Away.mp = Cardinality(A)
      /\ s.Home.gs = VenueTotal("goals_scored_pg", H, "H", "A")
      /\ s.Away.gs = VenueTotal("goals_scored_pg", A, "A", "H")
      /\ s.Home.gc = VenueTotal("goals_conceded_pg", H, "H", "A")
      /\ s.Away.gc = VenueTotal("goals_conceded_pg", A, "A", "H")
  BY DEF TeamStats, TableOfRow, TallyOf, HomeTally, AwayTally, Tally, VenueTotal, AverageColumns
<1>2. /\ s.Home.shots_on_goal_f = HomeAverages(data, t)["shots_to_score_a_goal"]
      /\ s.Away.shots_on_goal_f = AwayAverages(data, t)["shots_to_score_a_goal"]
      /\ s.Total.shots_on_goal_f = OverallAverages(data, t)["shots_to_score_a_goal"]
      /\ s.Home.shots_on_goal_a = HomeAverages(data, t)["shots_to_concede_a_goal"]
      /\ s.Away.shots_on_goal_a = AwayAverages(data, t)["shots_to_concede_a_goal"]
      /\ s.Total.shots_on_goal_a = OverallAverages(data, t)["shots_to_concede_a_goal"]
  BY DEF TeamStats, TableOfRow, AveragesOf
<1>3. H # {} /\ A # {}
  BY <1>1, FS_EmptySet
<1>4. /\ "shots_to_score_a_goal" \in DOMAIN RatioColumns
      /\ "shots_to_concede_a_goal" \in DOMAIN RatioColumns
      /\ GoalsColumn["shots_to_score_a_goal"] = "goals_scored_pg"
      /\ GoalsColumn["shots_to_concede_a_goal"] = "goals_conceded_pg"
  BY DEF RatioColumns, GoalsColumn
<1> HIDE DEF s
<1>5. IF s.Home.gs > 0 /\ s.Away.gs > 0
        THEN \/ LeqF(s.Home.shots_on_goal_f, s.Total.shots_on_goal_f) /\ LeqF(s.Total.shots_on_goal_f, s.Away.shots_on_goal_f)
             \/ LeqF(s.Away.shots_on_goal_f, s.Total.shots_on_goal_f) /\ LeqF(s.Total.shots_on_goal_f, s.Home.shots_on_goal_f)
        ELSE ~IsNumber(s.Total.shots_on_goal_f)
  BY <1>1, <1>2, <1>3, <1>4, OverallRatio
<1>6. IF s.Home.gc > 0 /\ s.Away.gc > 0
        THEN \/ LeqF(s.Home.shots_on_goal_a, s.Total.shots_on_goal_a) /\ LeqF(s.Total.shots_on_goal_a, s.Away.shots_on_goal_a)
             \/ LeqF(s.Away.shots_on_goal_a, s.Total.shots_on_goal_a) /\ LeqF(s.Total.shots_on_goal_a, s.Home.shots_on_goal_a)
        ELSE ~IsNumber(s.Total.shots_on_goal_a)
  BY <1>1, <1>2, <1>3, <1>4, OverallRatio
<1> QED
  BY <1>5, <1>6 DEF s

(***************************************************************************)
(* For every league, the Total row's shots per goal lie between those of the *)
(* two venues when both have a goal, and are no number when one has none.  *)
(***************************************************************************)
THEOREM ShotsPerGoalSound == Spec => []ShotsPerGoalNeedGoals
<1>1. TypeOK => ShotsPerGoalNeedGoals
  BY ShotsFromTypeOK
<1> QED
  BY <1>1, TypeCorrect, PTL

-----------------------------------------------------------------------------
(***************************************************************************)
(* The results matrix.                                                     *)
(***************************************************************************)
\* The cell of the results matrix that a row of the file belongs to.
CellOf(i) == <<data[i].HomeTeam, data[i].AwayTeam>>

\* No two rows belong to the same cell, and none to the diagonal.
LEMMA RowsMeetOnce ==
  ASSUME TypeOK, NoFixtureTwice
  PROVE  /\ \A i \in DOMAIN data : data[i].HomeTeam # data[i].AwayTeam
         /\ \A i, j \in DOMAIN data : CellOf(i) = CellOf(j) => i = j
<1>1. ASSUME NEW i \in DOMAIN data
      PROVE  /\ i \in DOMAIN Calendar /\ data[i].HomeTeam # data[i].AwayTeam
             /\ Calendar[i] = [home |-> data[i].HomeTeam, away |-> data[i].AwayTeam]
  <2>1. i \in DOMAIN Calendar
    BY CalendarAssumption DEF TypeOK
  <2>2. data[i].HomeTeam = Calendar[i].home /\ data[i].AwayTeam = Calendar[i].away
    BY DEF TypeOK, Row
  <2>3. Calendar[i] \in Fixture
    BY <2>1, CalendarAssumption
  <2> QED
    BY <2>1, <2>2, <2>3, CalendarAssumption DEF Fixture
<1>2. ASSUME NEW i \in DOMAIN data, NEW j \in DOMAIN data, CellOf(i) = CellOf(j)
      PROVE  i = j
  <2>1. data[i].HomeTeam = data[j].HomeTeam /\ data[i].AwayTeam = data[j].AwayTeam
    BY <1>2 DEF CellOf
  <2>2. Calendar[i] = Calendar[j]
    BY <1>1, <2>1
  <2> QED
    BY <1>1, <2>2 DEF NoFixtureTwice
<1> QED
  BY <1>1, <1>2

\* Rows and cells correspond, and a cell shows the score of its row.
LEMMA CellsAreRows ==
  ASSUME TypeOK, NoFixtureTwice, ~MatrixRaises(data), HomeTeams(data) = TeamsOf(data)
  PROVE  /\ \A i \in DOMAIN data : /\ CellOf(i) \in MatrixCells(data)
                                   /\ ResultMatrix(data)[CellOf(i)].home_score = data[i].H.FTG
                                   /\ ResultMatrix(data)[CellOf(i)].away_score = data[i].A.FTG
         /\ \A i, j \in DOMAIN data : CellOf(i) = CellOf(j) => i = j
         /\ \A c \in MatrixCells(data) : \E i \in DOMAIN data : c = CellOf(i)
<1>1. \A i \in DOMAIN data : data[i].HomeTeam # data[i].AwayTeam
  BY RowsMeetOnce
<1>2. \A i, j \in DOMAIN data : CellOf(i) = CellOf(j) => i = j
  BY RowsMeetOnce
<1>3. ASSUME NEW i \in DOMAIN data
      PROVE  /\ CellOf(i) \in MatrixCells(data)
             /\ Meetings(data, CellOf(i)[1], CellOf(i)[2]) = {i}
  <2>1. data[i].HomeTeam \in HomeTeams(data) /\ data[i].AwayTeam \in TeamsOf(data)
    BY DEF HomeTeams, AwayTeams, TeamsOf
  <2>2. CellOf(i) \in MatrixCells(data)
    BY <1>1, <2>1 DEF MatrixCells, CellOf
  <2>3. \A j : j \in Meetings(data, CellOf(i)[1], CellOf(i)[2])
                 <=> j \in DOMAIN data /\ CellOf(j) = CellOf(i)
    BY DEF Meetings, HomeMatches, AwayMatches, CellOf
  <2> QED
    BY <1>2, <2>2, <2>3
<1>4. ASSUME NEW i \in DOMAIN data
      PROVE  /\ ResultMatrix(data)[CellOf(i)].home_score = data[i].H.FTG
             /\ ResultMatrix(data)[CellOf(i)].away_score = data[i].A.FTG
  <2>1. (CHOOSE k \in {i} : \A j \in {i} : k <= j) = i
    <3>1. i \in Nat
      BY DEF TypeOK
    <3>2. \E k \in {i} : \A j \in {i} : k <= j
      BY <3>1
    <3> QED
      BY <3>2
  <2>2. ResultMatrix(data)[CellOf(i)]
          = LET met   == Meetings(data, CellOf(i)[1], CellOf(i)[2])
                first == CHOOSE k \in met : \A j \in met : k <= j
            IN  [home_score |-> data[first].H.FTG, away_score |-> data[first].A.FTG]
    BY <1>3 DEF ResultMatrix
  <2>3. ResultMatrix(data)[CellOf(i)]
          = LET first == CHOOSE k \in {i} : \A j \in {i} : k <= j
            IN  [home_score |-> data[first].H.FTG, away_score |-> data[first].A.FTG]
    BY <1>3, <2>2
  <2>4. ResultMatrix(data)[CellOf(i)] = [home_score |-> data[i].H.FTG, away_score |-> data[i].A.FTG]
    BY <2>1, <2>3
  <2> QED
    BY <2>4
<1>5. ASSUME NEW c \in MatrixCells(data)  PROVE \E i \in DOMAIN data : c = CellOf(i)
  <2>1. PICK i \in Meetings(data, c[1], c[2]) : TRUE
    BY DEF MatrixRaises
  <2>2. i \in DOMAIN data /\ data[i].HomeTeam = c[1] /\ data[i].AwayTeam = c[2]
    BY DEF Meetings, HomeMatches, AwayMatches
  <2>3. c = <<c[1], c[2]>>
    BY DEF MatrixCells
  <2> QED
    BY <2>2, <2>3 DEF CellOf
<1> QED
  BY <1>2, <1>3, <1>4, <1>5

\* Counting or adding over some rows is counting or adding over their cells.
LEMMA CellsForRows ==
  ASSUME TypeOK, NoFixtureTwice, ~MatrixRaises(data), HomeTeams(data) = TeamsOf(data),
         NEW S \in SUBSET (DOMAIN data), NEW K \in SUBSET MatrixCells(data),
         \A i \in DOMAIN data : i \in S <=> CellOf(i) \in K
  PROVE  /\ Cardinality(S) = Cardinality(K)
         /\ \A f, g : (\A i \in DOMAIN data : f[i] \in Nat /\ f[i] = g[CellOf(i)])
                        => Total(f, S) = Total(g, K)
<1> DEFINE b == [i \in S |-> CellOf(i)]
<1>1. \A i, j \in DOMAIN data : CellOf(i) = CellOf(j) => i = j
  BY CellsAreRows
<1>2. \A c \in MatrixCells(data) : \E i \in DOMAIN data : c = CellOf(i)
  BY CellsAreRows
<1>3. b \in Bijection(S, K)
  <2>1. b \in [S -> K]
    OBVIOUS
  <2>2. \A i, j \in S : b[i] = b[j] => i = j
    BY <1>1
  <2>3. \A c \in K : \E i \in S : b[i] = c
    BY <1>2
  <2> HIDE DEF b
  <2> QED
    BY <2>1, <2>2, <2>3 DEF Bijection, Injection, Surjection, IsInjective
<1>4. IsFiniteSet(S)
  BY RowsOfFile, FS_Subset
<1>5. Cardinality(S) = Cardinality(K)
  <2>1. ExistsBijection(S, K)
    BY <1>3 DEF ExistsBijection
  <2> QED
    BY <1>4, <2>1, FS_Bijection
<1>6. ASSUME NEW f, NEW g, \A i \in DOMAIN data : f[i] \in Nat /\ f[i] = g[CellOf(i)]
      PROVE  Total(f, S) = Total(g, K)
  <2>1. \A i \in S : f[i] \in Nat /\ f[i] = g[b[i]]
    BY <1>6
  <2> HIDE DEF b
  <2> QED
    BY <1>3, <1>4, <2>1, TotalReindexed
<1> QED
  BY <1>5, <1>6

\* The cells of a matrix that can be built tell the table in every state.
LEMMA MatrixFromTypeOK ==
  ASSUME TypeOK, NoFixtureTwice  PROVE MatrixTellsTheTable
<1> DEFINE matrix == ResultMatrix(data)
           homeOf(t) == {c \in DOMAIN matrix : c[1] = t}
           awayOf(t) == {c \in DOMAIN matrix : c[2] = t}
           score(side) == [c \in DOMAIN matrix |-> matrix[c][side]]
           wins(t) == {c \in homeOf(t) : matrix[c].home_score > matrix[c].away_score}
                      \cup {c \in awayOf(t) : matrix[c].home_score < matrix[c].away_score}
           draws(t) == {c \in homeOf(t) \cup awayOf(t) :
                          matrix[c].home_score = matrix[c].away_score}
<1> SUFFICES ASSUME ~MatrixRaises(data), HomeTeams(data) = TeamsOf(data), NEW t \in TeamsOf(data)
             PROVE  /\ OverallTally(data, t).points = 3 * Cardinality(wins(t)) + Cardinality(draws(t))
                    /\ OverallTally(data, t).goals_scored
                         = Total(score("home_score"), homeOf(t)) + Total(score("away_score"), awayOf(t))
  BY DEF MatrixTellsTheTable
<1> DEFINE H == HomeMatches(data, t)
           A == AwayMatches(data, t)
           HW == {i \in H : data[i].H.FTG > data[i].A.FTG}
           AW == {i \in A : data[i].A.FTG > data[i].H.FTG}
           HD == {i \in H : data[i].H.FTG = data[i].A.FTG}
           AD == {i \in A : data[i].A.FTG = data[i].H.FTG}
<1>1. \A i \in DOMAIN data : /\ CellOf(i) \in DOMAIN matrix
                             /\ matrix[CellOf(i)].home_score = data[i].H.FTG
                             /\ matrix[CellOf(i)].away_score = data[i].A.FTG
  BY CellsAreRows DEF ResultMatrix
<1>2. DOMAIN matrix = MatrixCells(data)
  BY DEF ResultMatrix
<1>3. \A i \in DOMAIN data : /\ data[i].H.FTG \in Nat /\ data[i].A.FTG \in Nat
                             /\ CellOf(i)[1] = data[i].HomeTeam /\ CellOf(i)[2] = data[i].AwayTeam
                             /\ i \in H <=> data[i].HomeTeam = t
                             /\ i \in A <=> data[i].AwayTeam = t
  BY RowGoals DEF CellOf, HomeMatches, AwayMatches
<1>4. H \in SUBSET (DOMAIN data) /\ A \in SUBSET (DOMAIN data) /\ H \cap A = {}
  BY RowsOfTeam
<1> HIDE DEF matrix, H, A
<1>5. \A i \in DOMAIN data : /\ i \in H <=> CellOf(i) \in homeOf(t)
                             /\ i \in A <=> CellOf(i) \in awayOf(t)
                             /\ i \in HW \cup AW <=> CellOf(i) \in wins(t)
                             /\ i \in HD \cup AD <=> CellOf(i) \in draws(t)
  BY <1>1, <1>3
<1>6. /\ homeOf(t) \in SUBSET MatrixCells(data) /\ awayOf(t) \in SUBSET MatrixCells(data)
      /\ wins(t) \in SUBSET MatrixCells(data) /\ draws(t) \in SUBSET MatrixCells(data)
  BY <1>2
<1>7. /\ HW \cup AW \in SUBSET (DOMAIN data) /\ HD \cup AD \in SUBSET (DOMAIN data)
      /\ HW \cap AW = {} /\ HD \cap AD = {}
      /\ HW \in SUBSET (DOMAIN data) /\ AW \in SUBSET (DOMAIN data)
      /\ HD \in SUBSET (DOMAIN data) /\ AD \in SUBSET (DOMAIN data)
  BY <1>4
<1>8. /\ OverallTally(data, t).points
           = (Cardinality(HW) + Cardinality(AW)) * 3 + (Cardinality(HD) + Cardinality(AD))
      /\ OverallTally(data, t).goals_scored
           = Total(Column(data, "H", "FTG"), H) + Total(Column(data, "A", "FTG"), A)
  BY DEF OverallTally, HomeTally, AwayTally, Tally, H, A
<1>9. ASSUME NEW i \in DOMAIN data
      PROVE  /\ Column(data, "H", "FTG")[i] \in Nat
             /\ Column(data, "H", "FTG")[i] = score("home_score")[CellOf(i)]
             /\ Column(data, "A", "FTG")[i] \in Nat
             /\ Column(data, "A", "FTG")[i] = score("away_score")[CellOf(i)]
  BY <1>1, <1>3 DEF Column
<1> HIDE DEF homeOf, awayOf, wins, draws, HW, AW, HD, AD, score
<1>10. /\ Total(Column(data, "H", "FTG"), H) = Total(score("home_score"), homeOf(t))
       /\ Total(Column(data, "A", "FTG"), A) = Total(score("away_score"), awayOf(t))
  <2>1. \A f, g : (\A i \in DOMAIN data : f[i] \in Nat /\ f[i] = g[CellOf(i)])
                    => Total(f, H) = Total(g, homeOf(t))
    BY <1>4, <1>5, <1>6, CellsForRows
  <2>2. \A f, g : (\A i \in DOMAIN data : f[i] \in Nat /\ f[i] = g[CellOf(i)])
                    => Total(f, A) = Total(g, awayOf(t))
    BY <1>4, <1>5, <1>6, CellsForRows
  <2> QED
    BY <1>9, <2>1, <2>2
<1>11. /\ Cardinality(HW \cup AW) = Cardinality(wins(t))
       /\ Cardinality(HD \cup AD) = Cardinality(draws(t))
  BY <1>5, <1>6, <1>7, CellsForRows
<1>12. ASSUME NEW S \in SUBSET (DOMAIN data), NEW T \in SUBSET (DOMAIN data), S \cap T = {}
       PROVE  /\ Cardinality(S \cup T) = Cardinality(S) + Cardinality(T)
              /\ Cardinality(S) \in Nat /\ Cardinality(T) \in Nat
  <2>1. IsFiniteSet(S) /\ IsFiniteSet(T)
    BY RowsOfFile, FS_Subset
  <2>2. Cardinality(S \cup T) = Cardinality(S) + Cardinality(T) - Cardinality(S \cap T)
    BY <2>1, FS_Union
  <2>3. Cardinality(S \cup T) = Cardinality(S) + Cardinality(T) - 0
    BY <1>12, <2>2, FS_EmptySet, Zenon
  <2>4. Cardinality(S) \in Nat /\ Cardinality(T) \in Nat
    BY <2>1, FS_CardinalityType
  <2> QED
    BY <2>3, <2>4
<1>13. /\ Cardinality(wins(t)) = Cardinality(HW) + Cardinality(AW)
       /\ Cardinality(draws(t)) = Cardinality(HD) + Cardinality(AD)
       /\ Cardinality(HW) \in Nat /\ Cardinality(AW) \in Nat
       /\ Cardinality(HD) \in Nat /\ Cardinality(AD) \in Nat
  BY <1>7, <1>11, <1>12
<1> QED
  BY <1>8, <1>10, <1>13

(***************************************************************************)
(* For every league in which no fixture is played twice, the matrix that   *)
(* get_result_matrix builds holds every match once, and the points and goals *)
(* counted from its cells are those of calc_main_tables.                   *)
(***************************************************************************)
THEOREM MatrixSound == NoFixtureTwice => (Spec => []MatrixTellsTheTable)
<1> SUFFICES ASSUME NoFixtureTwice  PROVE Spec => []MatrixTellsTheTable
  OBVIOUS
<1>1. TypeOK => MatrixTellsTheTable
  BY MatrixFromTypeOK
<1> QED
  BY <1>1, TypeCorrect, PTL

\* A club that has played as many of these matches as it has opponents has
\* played one against each, and the other way round.
LEMMA OneMatchPerOpponent ==
  ASSUME NEW M, IsFiniteSet(M), NEW T, IsFiniteSet(T), NEW t \in T,
         NEW opponent \in [M -> T \ {t}],
         \A i, j \in M : opponent[i] = opponent[j] => i = j
  PROVE  Cardinality(M) = Cardinality(T) - 1 <=> \A u \in T \ {t} : \E i \in M : opponent[i] = u
<1> DEFINE U == T \ {t}
<1>1. IsFiniteSet(U) /\ Cardinality(U) = Cardinality(T) - 1
  <2>1. IsFiniteSet(U) /\ Cardinality(U) = IF t \in T THEN Cardinality(T) - 1 ELSE Cardinality(T)
    BY FS_RemoveElement
  <2> QED
    BY <2>1
<1>2. opponent \in Injection(M, U)
  BY DEF Injection, IsInjective
<1> HIDE DEF U
<1>3. ASSUME Cardinality(M) = Cardinality(U)
      PROVE  opponent \in Surjection(M, U)
  BY <1>1, <1>2, <1>3, FS_Injection
<1>4. ASSUME opponent \in Surjection(M, U)
      PROVE  Cardinality(M) = Cardinality(U)
  <2>1. ExistsBijection(M, U)
    BY <1>2, <1>4 DEF ExistsBijection, Bijection
  <2> QED
    BY <2>1, FS_Bijection
<1>5. opponent \in Surjection(M, U) <=> \A u \in U : \E i \in M : opponent[i] = u
  BY DEF Surjection, U
<1> QED
  BY <1>1, <1>3, <1>4, <1>5 DEF U

\* Counting the opponents met decides in every state whether the matrix exists.
LEMMA MeetingsFromTypeOK ==
  ASSUME TypeOK, NoFixtureTwice  PROVE MatrixOnlyWhenAllMet
<1> DEFINE T == TeamsOf(data)
           H(t) == HomeMatches(data, t)
           A(t) == AwayMatches(data, t)
           met(t, u) == \E i \in DOMAIN data : data[i].HomeTeam = t /\ data[i].AwayTeam = u
<1> SUFFICES ASSUME HomeTeams(data) = T
             PROVE  ~MatrixRaises(data) <=>
                      \A t \in T : /\ Cardinality(H(t)) = Cardinality(T) - 1
                                   /\ Cardinality(A(t)) = Cardinality(T) - 1
  BY DEF MatrixOnlyWhenAllMet, HomeTally, AwayTally, Tally
<1>1. /\ \A i \in DOMAIN data : data[i].HomeTeam # data[i].AwayTeam
      /\ \A i, j \in DOMAIN data : data[i].HomeTeam = data[j].HomeTeam
                                   /\ data[i].AwayTeam = data[j].AwayTeam => i = j
  BY RowsMeetOnce DEF CellOf
<1>2. \A i \in DOMAIN data : data[i].HomeTeam \in T /\ data[i].AwayTeam \in T
  BY DEF TeamsOf, HomeTeams, AwayTeams
<1>3. IsFiniteSet(T)
  BY TeamsOfRows
<1>4. ~MatrixRaises(data) <=> \A t, u \in T : t # u => met(t, u)
  <2>1. \A t, u : Meetings(data, t, u) # {} <=> met(t, u)
    BY DEF Meetings, HomeMatches, AwayMatches
  <2>2. \A t, u \in T : t # u => /\ <<t, u>> \in MatrixCells(data)
                                 /\ <<t, u>>[1] = t /\ <<t, u>>[2] = u
    BY DEF MatrixCells
  <2>3. \A c \in MatrixCells(data) : c[1] \in T /\ c[2] \in T /\ c[1] # c[2]
    BY DEF MatrixCells
  <2>4. MatrixRaises(data) <=> \E c \in MatrixCells(data) : ~met(c[1], c[2])
    BY <2>1 DEF MatrixRaises
  <2> HIDE DEF T, met
  <2>5. ASSUME NEW c \in MatrixCells(data), ~met(c[1], c[2])
        PROVE  \E t, u \in T : t # u /\ ~met(t, u)
    BY <2>3, <2>5
  <2>6. ASSUME NEW t \in T, NEW u \in T, t # u, ~met(t, u)
        PROVE  \E c \in MatrixCells(data) : ~met(c[1], c[2])
    <3>1. <<t, u>> \in MatrixCells(data) /\ ~met(<<t, u>>[1], <<t, u>>[2])
      BY <2>2, <2>6
    <3> QED
      BY <3>1
  <2> QED
    BY <2>4, <2>5, <2>6
<1>5. ASSUME NEW t \in T
      PROVE  /\ Cardinality(H(t)) = Cardinality(T) - 1 <=> \A u \in T \ {t} : met(t, u)
             /\ Cardinality(A(t)) = Cardinality(T) - 1 <=> \A u \in T \ {t} : met(u, t)
  <2> DEFINE guests == [i \in H(t) |-> data[i].AwayTeam]
             hosts  == [i \in A(t) |-> data[i].HomeTeam]
  <2>1. IsFiniteSet(H(t)) /\ IsFiniteSet(A(t))
    BY RowsOfTeam
  <2>2. /\ \A i : i \in H(t) <=> i \in DOMAIN data /\ data[i].HomeTeam = t
        /\ \A i : i \in A(t) <=> i \in DOMAIN data /\ data[i].AwayTeam = t
    BY DEF HomeMatches, AwayMatches
  <2> HIDE DEF T, H, A
  <2>3. guests \in [H(t) -> T \ {t}] /\ hosts \in [A(t) -> T \ {t}]
    BY <1>1, <1>2, <2>2
  <2>4. /\ \A i, j \in H(t) : guests[i] = guests[j] => i = j
        /\ \A i, j \in A(t) : hosts[i] = hosts[j] => i = j
    BY <1>1, <2>2
  <2>5. /\ \A u : (\E i \in H(t) : guests[i] = u) <=> met(t, u)
        /\ \A u : (\E i \in A(t) : hosts[i] = u) <=> met(u, t)
    BY <2>2
  <2> HIDE DEF guests, hosts, met
  <2>6. Cardinality(H(t)) = Cardinality(T) - 1
          <=> \A u \in T \ {t} : \E i \in H(t) : guests[i] = u
    BY <1>3, <2>1, <2>3, <2>4, OneMatchPerOpponent
  <2>7. Cardinality(A(t)) = Cardinality(T) - 1
          <=> \A u \in T \ {t} : \E i \in A(t) : hosts[i] = u
    BY <1>3, <2>1, <2>3, <2>4, OneMatchPerOpponent
  <2> QED
    BY <2>5, <2>6, <2>7
<1> HIDE DEF T, H, A, met
<1> QED
  BY <1>4, <1>5

(***************************************************************************)
(* For every league in which no fixture is played twice: once every club   *)
(* has hosted, get_result_matrix raises until the home and away tables     *)
(* show that each club has played every other at both grounds.             *)
(***************************************************************************)
THEOREM MatrixExists == NoFixtureTwice => (Spec => []MatrixOnlyWhenAllMet)
<1> SUFFICES ASSUME NoFixtureTwice  PROVE Spec => []MatrixOnlyWhenAllMet
  OBVIOUS
<1>1. TypeOK => MatrixOnlyWhenAllMet
  BY MeetingsFromTypeOK
<1> QED
  BY <1>1, TypeCorrect, PTL
=============================================================================
