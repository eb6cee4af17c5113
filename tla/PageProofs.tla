------------------------------ MODULE PageProofs ------------------------------
(***************************************************************************)
(* The page of the dashboard, for every file, every choice of clubs and    *)
(* any number of touches.                                                  *)
(*                                                                         *)
(* That a page at rest is current says nothing about runs on the way.  The *)
(* invariant says at each statement what the run has drawn so far, that    *)
(* the branches it took were those of the values it reads, and how these   *)
(* relate to the values in the browser.                                    *)
(***************************************************************************)
EXTENDS PlApp, DataFrameTheorems

\* The first n elements on the page are s; stale ones may follow.
Shows(shown, n, s) ==
  n = Len(s) /\ n <= Len(shown) /\ \A i \in 1 .. n : shown[i] = s[i]

\* What is in the sidebar and in the main area of a run that is at p, has
\* loaded df and reads these values.
SidebarAt(p, df, values) ==
  CASE p \in {"load", "page_menu"} -> << >>
    [] p = "season_menu" -> <<PageMenu>>
    [] p \in {"result_matrix", "table_menu", "results_matrix", "home_menu"} ->
         <<PageMenu, SeasonMenu(df)>>
    [] p = "league_table" -> <<PageMenu, SeasonMenu(df), TableMenu>>
    [] p = "away_menu" -> <<PageMenu, SeasonMenu(df), HomeMenu>>
    [] p \in {"home_header", "home_stats", "away_header", "away_stats"} ->
         <<PageMenu, SeasonMenu(df), HomeMenu, AwayMenu>>
    [] p = "end" -> SidebarOf(df, values)

MainAt(p, df, values) ==
  LET data == Data(df, values)
      home == Selected(values, HomeMenu)
      away == Selected(values, AwayMenu)
  IN  CASE p = "home_stats" -> <<HeaderElement(home)>>
        [] p = "away_header" -> <<HeaderElement(home), StatsElement(data, home)>>
        [] p = "away_stats" ->
             <<HeaderElement(home), StatsElement(data, home), HeaderElement(away)>>
        [] p = "end" -> MainOf(df, values)
        [] OTHER -> << >>

Statements == StCalls \cup {"result_matrix", "end"}
LeagueStatements == {"table_menu", "league_table"}
HeadStatements == {"home_menu", "away_menu", "home_header", "home_stats",
                   "away_header", "away_stats"}

\* Such a run gets to p only if its file and its values lead it there.
BranchAt(p, df, values) ==
  LET data == Data(df, values)
      choice == Selected(values, PageMenu)
  IN  /\ p \notin {"load", "end"} => df # EmptyFile
      /\ p \in LeagueStatements \cup {"results_matrix"} \cup HeadStatements =>
           ~MatrixRaises(data) /\ data # << >>
      /\ p \in LeagueStatements => choice = "league_tables"
      /\ p = "results_matrix" => choice = "results_matrix"
      /\ p \in HeadStatements => choice = "head_to_head"
      /\ p \in {"away_header", "away_stats"} =>
           Selected(values, HomeMenu) \in TeamsOf(data)

-----------------------------------------------------------------------------
IsSeq(s) == \E S : s \in Seq(S)

PageOK ==
  /\ DOMAIN display = Areas
  /\ \A a \in Areas : IsSeq(display[a])
  /\ cursor \in [Areas -> Nat]
  /\ \A a \in Areas : cursor[a] <= Len(display[a])

ControlOK == rerun \in BOOLEAN /\ pc \in Statements \cup {"idle"} /\ touches \in Nat

\* Every remembered value is one of its widget's options.
ValuesOK ==
  /\ \A w \in DOMAIN store : store[w] \in DOMAIN w.options
  /\ \A w \in DOMAIN states : states[w] \in DOMAIN w.options

RunOK ==
  pc # "idle" =>
    /\ BranchAt(pc, all_df, states)
    /\ Shows(display["sidebar"], cursor["sidebar"], SidebarAt(pc, all_df, states))
    /\ Shows(display["main"], cursor["main"], MainAt(pc, all_df, states))

RestOK ==
  AtRest => /\ display["sidebar"] = SidebarOf(all_df, states)
            /\ display["main"] = MainOf(all_df, states)

\* Without a new touch the run reads what is in the browser.
RemembersOK ==
  ~rerun =>
    \A w : ~w.button /\ (pc = "idle" => w \in ToSet(display["sidebar"])) =>
      /\ w \in DOMAIN store <=> w \in DOMAIN states
      /\ w \in DOMAIN store => store[w] = states[w]

Inv == PageOK /\ ControlOK /\ ValuesOK /\ RunOK /\ RestOK /\ RemembersOK

-----------------------------------------------------------------------------
(***************************************************************************)
(* Sequences written out.                                                  *)
(***************************************************************************)
\* A tuple is a sequence of its elements.
LEMMA TuplesAreSeqs ==
  /\ IsSeq(<< >>)
  /\ \A a : IsSeq(<<a>>)
  /\ \A a, b : IsSeq(<<a, b>>)
  /\ \A a, b, c : IsSeq(<<a, b, c>>)
  /\ \A a, b, c, d : IsSeq(<<a, b, c, d>>)
<1>1. << >> \in Seq({}) /\ \A a : <<a>> \in Seq({a})
  OBVIOUS
<1>2. \A a, b : <<a, b>> \in Seq({a, b})
  OBVIOUS
<1>3. \A a, b, c : <<a, b, c>> \in Seq({a, b, c})
  OBVIOUS
<1>4. \A a, b, c, d : <<a, b, c, d>> \in Seq({a, b, c, d})
  OBVIOUS
<1> QED
  BY <1>1, <1>2, <1>3, <1>4 DEF IsSeq

\* Appending an element to a tuple of one,
LEMMA AppendTwo ==
  ASSUME NEW a, NEW b
  PROVE  Append(<<a>>, b) = <<a, b>>
<1> DEFINE s == Append(<<a>>, b)
           t == <<a, b>>
           S == {a, b}
<1>1. s \in Seq(S) /\ t \in Seq(S) /\ Len(s) = 2 /\ Len(t) = 2
  OBVIOUS
<1>2. s[1] = a /\ s[2] = b
  OBVIOUS
<1>3. t[1] = a /\ t[2] = b
  OBVIOUS
<1> HIDE DEF s, t
<1>4. s = t
  BY <1>1, <1>2, <1>3
<1> QED
  BY <1>4 DEF s, t

\* of two,
LEMMA AppendThree ==
  ASSUME NEW a, NEW b, NEW c
  PROVE  Append(<<a, b>>, c) = <<a, b, c>>
<1> DEFINE s == Append(<<a, b>>, c)
           t == <<a, b, c>>
           S == {a, b, c}
<1>1. s \in Seq(S) /\ t \in Seq(S) /\ Len(s) = 3 /\ Len(t) = 3
  OBVIOUS
<1>2. s[1] = a /\ s[2] = b /\ s[3] = c
  OBVIOUS
<1>3. t[1] = a /\ t[2] = b /\ t[3] = c
  OBVIOUS
<1> HIDE DEF s, t
<1>4. s = t
  BY <1>1, <1>2, <1>3
<1> QED
  BY <1>4 DEF s, t

\* or of three elements.
LEMMA AppendFour ==
  ASSUME NEW a, NEW b, NEW c, NEW d
  PROVE  Append(<<a, b, c>>, d) = <<a, b, c, d>>
<1> DEFINE s == Append(<<a, b, c>>, d)
           t == <<a, b, c, d>>
           S == {a, b, c, d}
<1>1. s \in Seq(S) /\ t \in Seq(S) /\ Len(s) = 4 /\ Len(t) = 4
  OBVIOUS
<1>2. s[1] = a /\ s[2] = b /\ s[3] = c /\ s[4] = d
  OBVIOUS
<1>3. t[1] = a /\ t[2] = b /\ t[3] = c /\ t[4] = d
  OBVIOUS
<1> HIDE DEF s, t
<1>4. s = t
  BY <1>1, <1>2, <1>3
<1> QED
  BY <1>4 DEF s, t

\* Putting one element
LEMMA ConcatThree ==
  ASSUME NEW a, NEW b, NEW c
  PROVE  <<a, b>> \o <<c>> = <<a, b, c>>
<1> DEFINE s == <<a, b>> \o <<c>>
           t == <<a, b, c>>
           S == {a, b, c}
<1>1. s \in Seq(S) /\ t \in Seq(S) /\ Len(s) = 3 /\ Len(t) = 3
  OBVIOUS
<1>2. s[1] = a /\ s[2] = b /\ s[3] = c
  OBVIOUS
<1>3. t[1] = a /\ t[2] = b /\ t[3] = c
  OBVIOUS
<1> HIDE DEF s, t
<1>4. s = t
  BY <1>1, <1>2, <1>3
<1> QED
  BY <1>4 DEF s, t

\* or two elements after two.
LEMMA ConcatFour ==
  ASSUME NEW a, NEW b, NEW c, NEW d
  PROVE  <<a, b>> \o <<c, d>> = <<a, b, c, d>>
<1> DEFINE s == <<a, b>> \o <<c, d>>
           t == <<a, b, c, d>>
           S == {a, b, c, d}
<1>1. s \in Seq(S) /\ t \in Seq(S) /\ Len(s) = 4 /\ Len(t) = 4
  OBVIOUS
<1>2. s[1] = a /\ s[2] = b /\ s[3] = c /\ s[4] = d
  OBVIOUS
<1>3. t[1] = a /\ t[2] = b /\ t[3] = c /\ t[4] = d
  OBVIOUS
<1> HIDE DEF s, t
<1>4. s = t
  BY <1>1, <1>2, <1>3
<1> QED
  BY <1>4 DEF s, t

-----------------------------------------------------------------------------
(***************************************************************************)
(* Drawing.                                                                *)
(***************************************************************************)
\* An element is drawn after those the run has drawn already.
LEMMA EmitShows ==
  ASSUME PageOK, NEW area \in Areas, NEW element, NEW s, IsSeq(s),
         Emit(area, element), Shows(display[area], cursor[area], s)
  PROVE  /\ PageOK'
         /\ Shows(display'[area], cursor'[area], Append(s, element))
         /\ \A a \in Areas \ {area} : cursor'[a] = cursor[a] /\ display'[a] = display[a]
<1> DEFINE n == cursor[area] + 1
           d == display[area]
           e == IF n \in DOMAIN d THEN [d EXCEPT ![n] = element] ELSE Append(d, element)
<1>1. PICK S, T : d \in Seq(S) /\ s \in Seq(T)
  BY DEF PageOK, IsSeq
<1>2. /\ cursor[area] \in Nat /\ n \in Nat /\ cursor[area] <= Len(d) /\ cursor[area] = Len(s)
      /\ \A i \in 1 .. Len(s) : d[i] = s[i]
  BY DEF PageOK, Shows
<1>3. /\ cursor' = [cursor EXCEPT ![area] = n]
      /\ display' = [display EXCEPT ![area] = e]
  BY DEF Emit
<1>4. /\ cursor'[area] = n /\ display'[area] = e
      /\ cursor' \in [Areas -> Nat] /\ DOMAIN display' = Areas
      /\ \A a \in Areas \ {area} : cursor'[a] = cursor[a] /\ display'[a] = display[a]
  <2> HIDE DEF e
  <2> QED
    BY <1>2, <1>3 DEF PageOK
<1>5. /\ e \in Seq(S \cup {element}) /\ n <= Len(e) /\ e[n] = element
      /\ \A i \in 1 .. Len(s) : e[i] = d[i]
  <2>1. CASE n \in DOMAIN d
    BY <1>1, <1>2, <2>1
  <2>2. CASE n \notin DOMAIN d
    <3>1. n = Len(d) + 1
      BY <1>1, <1>2, <2>2
    <3> QED
      BY <1>1, <1>2, <2>2, <3>1
  <2> QED
    BY <2>1, <2>2
<1> HIDE DEF e
<1>6. /\ \A a \in Areas : IsSeq(display'[a])
      /\ \A a \in Areas : cursor'[a] <= Len(display'[a])
  BY <1>4, <1>5 DEF PageOK, IsSeq
<1>7. /\ Len(Append(s, element)) = n
      /\ Append(s, element)[n] = element
      /\ \A i \in 1 .. Len(s) : Append(s, element)[i] = s[i]
      /\ \A i \in 1 .. n : i \in 1 .. Len(s) \/ i = n
  BY <1>1, <1>2
<1>8. /\ cursor'[area] = Len(Append(s, element))
      /\ Len(Append(s, element)) <= Len(display'[area])
      /\ \A i \in 1 .. Len(Append(s, element)) : display'[area][i] = Append(s, element)[i]
  BY <1>2, <1>4, <1>5, <1>7
<1> QED
  BY <1>4, <1>6, <1>8 DEF Shows, PageOK

\* What the run has drawn is all there is once the rest is cut off.
LEMMA ShowsAll ==
  ASSUME PageOK, NEW area \in Areas, NEW s, IsSeq(s),
         Shows(display[area], cursor[area], s)
  PROVE  SubSeq(display[area], 1, cursor[area]) = s
<1> DEFINE d == display[area]
<1>1. PICK S, T : d \in Seq(S) /\ s \in Seq(T)
  BY DEF PageOK, IsSeq
<1>2. /\ cursor[area] = Len(s) /\ Len(s) <= Len(d) /\ Len(s) \in Nat
      /\ \A i \in 1 .. Len(s) : d[i] = s[i]
  BY DEF Shows
<1> HIDE DEF d
<1>3. SubSeq(d, 1, Len(s)) = [i \in 1 .. Len(s) |-> d[i]]
  BY <1>1, <1>2
<1>4. s = [i \in 1 .. Len(s) |-> s[i]]
  BY <1>1
<1>5. SubSeq(d, 1, Len(s)) = s
  BY <1>2, <1>3, <1>4
<1> QED
  BY <1>2, <1>5 DEF d

-----------------------------------------------------------------------------
(***************************************************************************)
(* The pages a run can end with.                                           *)
(***************************************************************************)
\* A season without rows has no pair of teams that has not met.
LEMMA EmptyMatrix == ~MatrixRaises(<< >>)
<1>1. HomeTeams(<< >>) = {}
  BY DEF HomeTeams
<1>2. MatrixCells(<< >>) = {}
  BY <1>1 DEF MatrixCells
<1> QED
  BY <1>2 DEF MatrixRaises

\* The six pages, without the case distinctions of SidebarOf and MainOf.
LEMMA PagesEnd ==
  ASSUME NEW df, NEW values, NEW data, data = Data(df, values),
         NEW menu, menu = Selected(values, PageMenu)
  PROVE  /\ df = EmptyFile =>
              /\ SidebarOf(df, values) = << >>
              /\ MainOf(df, values) = <<ErrorElement("EmptyDataError")>>
         /\ df # EmptyFile /\ data = << >> =>
              /\ SidebarOf(df, values) = <<PageMenu, SeasonMenu(df)>>
              /\ MainOf(df, values) = <<ErrorElement("KeyError")>>
         /\ df # EmptyFile /\ MatrixRaises(data) =>
              /\ SidebarOf(df, values) = <<PageMenu, SeasonMenu(df)>>
              /\ MainOf(df, values) = <<ErrorElement("IndexError")>>
         /\ df # EmptyFile /\ data # << >> /\ ~MatrixRaises(data) =>
              /\ menu = "league_tables" =>
                   /\ SidebarOf(df, values) = <<PageMenu, SeasonMenu(df), TableMenu>>
                   /\ MainOf(df, values) = <<TableElement(data, Selected(values, TableMenu))>>
              /\ menu = "results_matrix" =>
                   /\ SidebarOf(df, values) = <<PageMenu, SeasonMenu(df)>>
                   /\ MainOf(df, values) = <<MatrixElement(data)>>
              /\ menu = "head_to_head" =>
                   /\ SidebarOf(df, values) = <<PageMenu, SeasonMenu(df), HomeMenu, AwayMenu>>
                   /\ MainOf(df, values)
                        = ColumnsOf(data, Selected(values, HomeMenu), Selected(values, AwayMenu))
<1>1. ASSUME df = EmptyFile
      PROVE  /\ SidebarOf(df, values) = << >>
             /\ MainOf(df, values) = <<ErrorElement("EmptyDataError")>>
  BY <1>1 DEF SidebarOf, MainOf
<1>2. ASSUME df # EmptyFile, data = << >>
      PROVE  /\ SidebarOf(df, values) = <<PageMenu, SeasonMenu(df)>>
             /\ MainOf(df, values) = <<ErrorElement("KeyError")>>
  BY <1>2, EmptyMatrix DEF SidebarOf, MainOf
<1>3. ASSUME df # EmptyFile, MatrixRaises(data)
      PROVE  /\ SidebarOf(df, values) = <<PageMenu, SeasonMenu(df)>>
             /\ MainOf(df, values) = <<ErrorElement("IndexError")>>
  BY <1>3, EmptyMatrix DEF SidebarOf, MainOf
<1>4. ASSUME df # EmptyFile, data # << >>, ~MatrixRaises(data)
      PROVE  MainOf(df, values) = PageOf(data, values)
  BY <1>4 DEF MainOf
<1>5. ASSUME df # EmptyFile, data # << >>, ~MatrixRaises(data), menu = "league_tables"
      PROVE  /\ SidebarOf(df, values) = <<PageMenu, SeasonMenu(df), TableMenu>>
             /\ MainOf(df, values) = <<TableElement(data, Selected(values, TableMenu))>>
  <2>1. SidebarOf(df, values) = <<PageMenu, SeasonMenu(df)>> \o <<TableMenu>>
    BY <1>5 DEF SidebarOf
  <2>2. PageOf(data, values) = <<TableElement(data, Selected(values, TableMenu))>>
    BY <1>5 DEF PageOf
  <2> QED
    BY <1>4, <1>5, <2>1, <2>2, ConcatThree
<1>6. ASSUME df # EmptyFile, data # << >>, ~MatrixRaises(data), menu = "results_matrix"
      PROVE  /\ SidebarOf(df, values) = <<PageMenu, SeasonMenu(df)>>
             /\ MainOf(df, values) = <<MatrixElement(data)>>
  <2>1. SidebarOf(df, values) = <<PageMenu, SeasonMenu(df)>> \o << >>
    BY <1>6 DEF SidebarOf
  <2>2. PageOf(data, values) = <<MatrixElement(data)>>
    BY <1>6 DEF PageOf
  <2> QED
    BY <1>4, <1>6, <2>1, <2>2
<1>7. ASSUME df # EmptyFile, data # << >>, ~MatrixRaises(data), menu = "head_to_head"
      PROVE  /\ SidebarOf(df, values) = <<PageMenu, SeasonMenu(df), HomeMenu, AwayMenu>>
             /\ MainOf(df, values)
                  = ColumnsOf(data, Selected(values, HomeMenu), Selected(values, AwayMenu))
  <2>1. SidebarOf(df, values) = <<PageMenu, SeasonMenu(df)>> \o <<HomeMenu, AwayMenu>>
    BY <1>7 DEF SidebarOf
  <2>2. PageOf(data, values)
          = ColumnsOf(data, Selected(values, HomeMenu), Selected(values, AwayMenu))
    BY <1>7 DEF PageOf
  <2> QED
    BY <1>4, <1>7, <2>1, <2>2, ConcatFour
<1> QED
  BY <1>1, <1>2, <1>3, <1>5, <1>6, <1>7

\* A value that is remembered for the page menu, or none, selects a page.
LEMMA PageSelected ==
  ASSUME NEW values, \A w \in DOMAIN values : values[w] \in DOMAIN w.options
  PROVE  Selected(values, PageMenu) \in {"league_tables", "results_matrix", "head_to_head"}
<1>1. /\ PageMenu.options = <<"league_tables", "results_matrix", "head_to_head">>
      /\ PageMenu.index = 1
  BY DEF PageMenu, Selectbox
<1>2. PageMenu.options # << >>
  BY <1>1
<1>3. \A i \in DOMAIN PageMenu.options :
        PageMenu.options[i] \in {"league_tables", "results_matrix", "head_to_head"}
  BY <1>1
<1>4. 1 \in DOMAIN PageMenu.options
  BY <1>1
<1> HIDE DEF PageMenu
<1> QED
  BY <1>1, <1>2, <1>3, <1>4 DEF Selected

\* What a run has drawn is a sequence, whatever its elements are.
LEMMA DrawnIsSeq ==
  ASSUME NEW p \in Statements, NEW df, NEW values,
         Selected(values, PageMenu) \in {"league_tables", "results_matrix", "head_to_head"}
  PROVE  IsSeq(SidebarAt(p, df, values)) /\ IsSeq(MainAt(p, df, values))
<1>1. ASSUME NEW data, NEW home, NEW away  PROVE IsSeq(ColumnsOf(data, home, away))
  BY TuplesAreSeqs DEF ColumnsOf
<1>2. IsSeq(SidebarOf(df, values)) /\ IsSeq(MainOf(df, values))
  <2>1. CASE df = EmptyFile
    BY <2>1, PagesEnd, TuplesAreSeqs
  <2>2. CASE df # EmptyFile /\ (Data(df, values) = << >> \/ MatrixRaises(Data(df, values)))
    BY <2>2, PagesEnd, TuplesAreSeqs
  <2>3. CASE df # EmptyFile /\ Data(df, values) # << >> /\ ~MatrixRaises(Data(df, values))
    <3>1. CASE Selected(values, PageMenu) = "league_tables"
      BY <2>3, <3>1, PagesEnd, TuplesAreSeqs
    <3>2. CASE Selected(values, PageMenu) = "results_matrix"
      BY <2>3, <3>2, PagesEnd, TuplesAreSeqs
    <3>3. CASE Selected(values, PageMenu) = "head_to_head"
      BY <1>1, <2>3, <3>3, PagesEnd, TuplesAreSeqs
    <3> QED
      BY <3>1, <3>2, <3>3
  <2> QED
    BY <2>1, <2>2, <2>3
<1>3. IsSeq(SidebarAt(p, df, values))
  BY <1>2, TuplesAreSeqs DEF SidebarAt, Statements, StCalls
<1>4. IsSeq(MainAt(p, df, values))
  BY <1>2, TuplesAreSeqs DEF MainAt
<1> QED
  BY <1>3, <1>4

-----------------------------------------------------------------------------
(***************************************************************************)
(* A step within a run.                                                    *)
(***************************************************************************)
\* Values that fit their widgets select a page in this run.
LEMMA RunSelectsPage ==
  ASSUME Inv
  PROVE  Selected(states, PageMenu) \in {"league_tables", "results_matrix", "head_to_head"}
BY PageSelected DEF Inv, ValuesOK

\* It is enough to know the page, and the branch that leads to the next
\* statement p.
LEMMA RunOn ==
  ASSUME Inv, pc # "idle", NEW p \in Statements, pc' = p, NEW df, all_df' = df,
         UNCHANGED <<store, rerun, states, touches>>, PageOK', BranchAt(p, df, states),
         Shows(display'["sidebar"], cursor'["sidebar"], SidebarAt(p, df, states)),
         Shows(display'["main"], cursor'["main"], MainAt(p, df, states))
  PROVE  Inv'
<1>1. p # "idle"
  BY DEF Statements, StCalls
<1>2. ControlOK' /\ ValuesOK'
  BY DEF Inv, ControlOK, ValuesOK
<1>3. RunOK'
  BY DEF RunOK
<1>4. RestOK'
  BY <1>1 DEF RestOK, AtRest
<1>5. RemembersOK'
  BY <1>1 DEF Inv, RemembersOK
<1> QED
  BY <1>2, <1>3, <1>4, <1>5 DEF Inv

\* Drawing e takes the run from pc to p.
LEMMA DrawKeeps ==
  ASSUME Inv, pc # "idle", NEW area \in {"sidebar", "main"}, NEW e, NEW p \in Statements,
         Draw(area, e, p), all_df' = all_df, touches' = touches,
         BranchAt(p, all_df, states),
         SidebarAt(p, all_df, states)
           = IF area = "sidebar" THEN Append(SidebarAt(pc, all_df, states), e)
                                 ELSE SidebarAt(pc, all_df, states),
         MainAt(p, all_df, states)
           = IF area = "main" THEN Append(MainAt(pc, all_df, states), e)
                              ELSE MainAt(pc, all_df, states)
  PROVE  Inv'
<1>1. /\ Emit(area, e) /\ pc' = p /\ UNCHANGED <<store, rerun, states, touches>>
      /\ PageOK /\ area \in Areas /\ "sidebar" \in Areas /\ "main" \in Areas
  BY DEF Draw, Inv, Areas
<1>2. /\ Shows(display["sidebar"], cursor["sidebar"], SidebarAt(pc, all_df, states))
      /\ Shows(display["main"], cursor["main"], MainAt(pc, all_df, states))
      /\ IsSeq(SidebarAt(pc, all_df, states)) /\ IsSeq(MainAt(pc, all_df, states))
  <2>1. pc \in Statements
    BY DEF Inv, ControlOK
  <2> QED
    BY <2>1, DrawnIsSeq, RunSelectsPage DEF Inv, RunOK
<1>3. CASE area = "sidebar"
  <2>1. /\ PageOK' /\ display'["main"] = display["main"] /\ cursor'["main"] = cursor["main"]
        /\ Shows(display'["sidebar"], cursor'["sidebar"], Append(SidebarAt(pc, all_df, states), e))
    BY <1>1, <1>2, <1>3, EmitShows
  <2> QED
    BY <1>1, <1>2, <1>3, <2>1, RunOn
<1>4. CASE area = "main"
  <2>1. /\ PageOK' /\ display'["sidebar"] = display["sidebar"]
        /\ cursor'["sidebar"] = cursor["sidebar"]
        /\ Shows(display'["main"], cursor'["main"], Append(MainAt(pc, all_df, states), e))
    BY <1>1, <1>2, <1>4, EmitShows
  <2> QED
    BY <1>1, <1>2, <1>4, <2>1, RunOn
<1> QED
  BY <1>3, <1>4

\* An exception ends the run, below what it has drawn.
LEMMA RaiseKeeps ==
  ASSUME Inv, pc # "idle", NEW e, NEW df, all_df' = df, Raise(e), touches' = touches,
         SidebarAt(pc, all_df, states) = SidebarOf(df, states),
         Append(MainAt(pc, all_df, states), e) = MainOf(df, states)
  PROVE  Inv'
<1>1. /\ Emit("main", e) /\ pc' = "end" /\ UNCHANGED <<store, rerun, states, touches>>
      /\ PageOK /\ "sidebar" \in Areas /\ "main" \in Areas
  BY DEF Raise, Inv, Areas
<1>2. /\ Shows(display["sidebar"], cursor["sidebar"], SidebarAt(pc, all_df, states))
      /\ Shows(display["main"], cursor["main"], MainAt(pc, all_df, states))
      /\ IsSeq(MainAt(pc, all_df, states))
  <2>1. pc \in Statements
    BY DEF Inv, ControlOK
  <2> QED
    BY <2>1, DrawnIsSeq, RunSelectsPage DEF Inv, RunOK
<1>3. /\ PageOK' /\ display'["sidebar"] = display["sidebar"]
      /\ cursor'["sidebar"] = cursor["sidebar"]
      /\ Shows(display'["main"], cursor'["main"], Append(MainAt(pc, all_df, states), e))
  BY <1>1, <1>2, EmitShows
<1>4. /\ "end" \in Statements /\ BranchAt("end", df, states)
      /\ SidebarAt("end", df, states) = SidebarOf(df, states)
      /\ MainAt("end", df, states) = MainOf(df, states)
  BY DEF Statements, BranchAt, SidebarAt, MainAt, LeagueStatements, HeadStatements
<1> QED
  BY <1>1, <1>2, <1>3, <1>4, RunOn

\* A statement that draws nothing.
LEMMA ComputeKeeps ==
  ASSUME Inv, pc # "idle", NEW p \in Statements, NEW df, all_df' = df, Compute(p),
         touches' = touches, BranchAt(p, df, states),
         SidebarAt(p, df, states) = SidebarAt(pc, all_df, states),
         MainAt(p, df, states) = MainAt(pc, all_df, states)
  PROVE  Inv'
<1>1. pc' = p /\ UNCHANGED <<store, rerun, states, touches>> /\ display' = display /\ cursor' = cursor
  BY DEF Compute, page
<1>2. PageOK'
  BY <1>1 DEF Inv, PageOK
<1>3. /\ Shows(display["sidebar"], cursor["sidebar"], SidebarAt(pc, all_df, states))
      /\ Shows(display["main"], cursor["main"], MainAt(pc, all_df, states))
  BY DEF Inv, RunOK
<1> QED
  BY <1>1, <1>2, <1>3, RunOn

-----------------------------------------------------------------------------
(***************************************************************************)
(* The statements of the script.                                           *)
(***************************************************************************)
\* Loading the file.
LEMMA LoadKeeps ==
  ASSUME Inv, Load, touches' = touches  PROVE Inv'
<1>1. /\ pc = "load" /\ pc # "idle" /\ all_df' = bet_data
      /\ SidebarAt(pc, all_df, states) = << >> /\ MainAt(pc, all_df, states) = << >>
  BY DEF Load, SidebarAt, MainAt
<1>2. CASE bet_data = EmptyFile /\ Raise(ErrorElement("EmptyDataError"))
  <2>1. Append(<< >>, ErrorElement("EmptyDataError")) = <<ErrorElement("EmptyDataError")>>
    OBVIOUS
  <2>2. /\ SidebarOf(bet_data, states) = << >>
        /\ MainOf(bet_data, states) = <<ErrorElement("EmptyDataError")>>
    BY <1>2, PagesEnd
  <2> QED
    BY <1>1, <1>2, <2>1, <2>2, RaiseKeeps
<1>3. CASE bet_data # EmptyFile /\ Compute("page_menu")
  <2>1. /\ "page_menu" \in Statements /\ BranchAt("page_menu", bet_data, states)
        /\ SidebarAt("page_menu", bet_data, states) = << >>
        /\ MainAt("page_menu", bet_data, states) = << >>
    BY <1>3 DEF Statements, StCalls, BranchAt, LeagueStatements, HeadStatements, SidebarAt, MainAt
  <2> QED
    BY <1>1, <1>3, <2>1, ComputeKeeps
<1> QED
  BY <1>2, <1>3 DEF Load

\* The two menus that every page has.
LEMMA MenusKeep ==
  ASSUME Inv, DrawPageMenu \/ DrawSeasonMenu, all_df' = all_df, touches' = touches
  PROVE  Inv'
<1>1. all_df # EmptyFile
  BY DEF Inv, RunOK, BranchAt, DrawPageMenu, DrawSeasonMenu
<1>2. CASE DrawPageMenu
  <2>1. /\ pc = "page_menu" /\ Draw("sidebar", PageMenu, "season_menu")
        /\ SidebarAt(pc, all_df, states) = << >> /\ MainAt(pc, all_df, states) = << >>
    BY <1>2 DEF DrawPageMenu, SidebarAt, MainAt
  <2>2. /\ "season_menu" \in Statements /\ BranchAt("season_menu", all_df, states)
        /\ SidebarAt("season_menu", all_df, states) = <<PageMenu>>
        /\ MainAt("season_menu", all_df, states) = << >>
    BY <1>1 DEF Statements, StCalls, BranchAt, LeagueStatements, HeadStatements, SidebarAt, MainAt
  <2>3. Append(<< >>, PageMenu) = <<PageMenu>> /\ pc # "idle"
    BY <2>1
  <2> QED
    BY <2>1, <2>2, <2>3, DrawKeeps
<1>3. CASE DrawSeasonMenu
  <2>1. /\ pc = "season_menu" /\ Draw("sidebar", SeasonMenu(all_df), "result_matrix")
        /\ SidebarAt(pc, all_df, states) = <<PageMenu>> /\ MainAt(pc, all_df, states) = << >>
    BY <1>3 DEF DrawSeasonMenu, SidebarAt, MainAt
  <2>2. /\ "result_matrix" \in Statements /\ BranchAt("result_matrix", all_df, states)
        /\ SidebarAt("result_matrix", all_df, states) = <<PageMenu, SeasonMenu(all_df)>>
        /\ MainAt("result_matrix", all_df, states) = << >>
    BY <1>1 DEF Statements, StCalls, BranchAt, LeagueStatements, HeadStatements, SidebarAt, MainAt
  <2>3. Append(<<PageMenu>>, SeasonMenu(all_df)) = <<PageMenu, SeasonMenu(all_df)>> /\ pc # "idle"
    BY <2>1, AppendTwo
  <2> QED
    BY <2>1, <2>2, <2>3, DrawKeeps
<1> QED
  BY <1>2, <1>3

\* The results matrix decides whether the run goes on, and the page where.
LEMMA MatrixKeeps ==
  ASSUME Inv, ComputeMatrix, all_df' = all_df, touches' = touches  PROVE Inv'
<1> DEFINE p == FirstOfPage[Selected(states, PageMenu)]
<1>1. /\ pc = "result_matrix" /\ pc # "idle" /\ all_df # EmptyFile
      /\ SidebarAt(pc, all_df, states) = <<PageMenu, SeasonMenu(all_df)>>
      /\ MainAt(pc, all_df, states) = << >>
  BY DEF ComputeMatrix, Inv, RunOK, BranchAt, SidebarAt, MainAt
<1>2. rows = Data(all_df, states)
  BY DEF rows
<1>3. CASE MatrixRaises(rows) /\ Raise(ErrorElement("IndexError"))
  <2>1. Append(<< >>, ErrorElement("IndexError")) = <<ErrorElement("IndexError")>>
    OBVIOUS
  <2> QED
    BY <1>1, <1>2, <1>3, <2>1, PagesEnd, RaiseKeeps
<1>4. CASE rows = << >> /\ Raise(ErrorElement("KeyError"))
  <2>1. Append(<< >>, ErrorElement("KeyError")) = <<ErrorElement("KeyError")>>
    OBVIOUS
  <2> QED
    BY <1>1, <1>2, <1>4, <2>1, PagesEnd, RaiseKeeps
<1>5. CASE ~MatrixRaises(rows) /\ rows # << >> /\ Compute(p)
  <2>1. /\ Selected(states, PageMenu) = "league_tables" => p = "table_menu"
        /\ Selected(states, PageMenu) = "results_matrix" => p = "results_matrix"
        /\ Selected(states, PageMenu) = "head_to_head" => p = "home_menu"
    <3>1. ToSet(PageMenu.options) = {"league_tables", "results_matrix", "head_to_head"}
      BY DEF ToSet, PageMenu, Selectbox
    <3> QED
      BY <3>1 DEF FirstOfPage
  <2> HIDE DEF p
  <2>2. /\ p \in Statements /\ BranchAt(p, all_df, states)
        /\ SidebarAt(p, all_df, states) = <<PageMenu, SeasonMenu(all_df)>>
        /\ MainAt(p, all_df, states) = << >>
    BY <1>1, <1>2, <1>5, <2>1, RunSelectsPage
       DEF Statements, StCalls, BranchAt, LeagueStatements, HeadStatements, SidebarAt, MainAt
  <2> QED
    BY <1>1, <1>5, <2>2, ComputeKeeps
<1> QED
  BY <1>3, <1>4, <1>5 DEF ComputeMatrix

\* The two pages that end with one element.
LEMMA TablePagesKeep ==
  ASSUME Inv, LeagueTablesPage \/ ResultsMatrixPage, all_df' = all_df, touches' = touches
  PROVE  Inv'
<1>1. rows = Data(all_df, states)
  BY DEF rows
<1>2. /\ all_df # EmptyFile /\ rows # << >> /\ ~MatrixRaises(rows) /\ pc # "idle"
      /\ BranchAt(pc, all_df, states)
  BY <1>1 DEF Inv, RunOK, BranchAt, LeagueTablesPage, ResultsMatrixPage, LeagueStatements
<1>3. /\ "end" \in Statements /\ BranchAt("end", all_df, states)
      /\ SidebarAt("end", all_df, states) = SidebarOf(all_df, states)
      /\ MainAt("end", all_df, states) = MainOf(all_df, states)
  BY DEF Statements, BranchAt, LeagueStatements, HeadStatements, SidebarAt, MainAt
<1>4. CASE pc = "table_menu" /\ Draw("sidebar", TableMenu, "league_table")
  <2>1. /\ SidebarAt(pc, all_df, states) = <<PageMenu, SeasonMenu(all_df)>>
        /\ MainAt(pc, all_df, states) = << >>
    BY <1>4 DEF SidebarAt, MainAt
  <2>2. /\ "league_table" \in Statements /\ BranchAt("league_table", all_df, states)
        /\ SidebarAt("league_table", all_df, states) = <<PageMenu, SeasonMenu(all_df), TableMenu>>
        /\ MainAt("league_table", all_df, states) = << >>
    BY <1>2, <1>4 DEF Statements, StCalls, BranchAt, LeagueStatements, HeadStatements, SidebarAt, MainAt
  <2> QED
    BY <1>2, <1>4, <2>1, <2>2, AppendThree, DrawKeeps
<1>5. CASE pc = "league_table"
           /\ Draw("main", TableElement(rows, Selected(states, TableMenu)), "end")
  <2> DEFINE e == TableElement(rows, Selected(states, TableMenu))
  <2>1. /\ SidebarAt(pc, all_df, states) = <<PageMenu, SeasonMenu(all_df), TableMenu>>
        /\ MainAt(pc, all_df, states) = << >>
        /\ Selected(states, PageMenu) = "league_tables"
    BY <1>2, <1>5 DEF SidebarAt, MainAt, BranchAt, LeagueStatements
  <2>2. /\ SidebarOf(all_df, states) = <<PageMenu, SeasonMenu(all_df), TableMenu>>
        /\ MainOf(all_df, states) = <<e>>
    BY <1>1, <1>2, <2>1, PagesEnd
  <2> HIDE DEF e
  <2>3. Append(<< >>, e) = <<e>>
    OBVIOUS
  <2> QED
    BY <1>2, <1>3, <1>5, <2>1, <2>2, <2>3, DrawKeeps DEF e
<1>6. CASE pc = "results_matrix" /\ Draw("main", MatrixElement(rows), "end")
  <2> DEFINE e == MatrixElement(rows)
  <2>1. /\ SidebarAt(pc, all_df, states) = <<PageMenu, SeasonMenu(all_df)>>
        /\ MainAt(pc, all_df, states) = << >>
        /\ Selected(states, PageMenu) = "results_matrix"
    BY <1>2, <1>6 DEF SidebarAt, MainAt, BranchAt
  <2>2. /\ SidebarOf(all_df, states) = <<PageMenu, SeasonMenu(all_df)>>
        /\ MainOf(all_df, states) = <<e>>
    BY <1>1, <1>2, <2>1, PagesEnd
  <2> HIDE DEF e
  <2>3. Append(<< >>, e) = <<e>>
    OBVIOUS
  <2> QED
    BY <1>2, <1>3, <1>6, <2>1, <2>2, <2>3, DrawKeeps DEF e
<1> QED
  BY <1>4, <1>5, <1>6 DEF LeagueTablesPage, ResultsMatrixPage

\* The menus of the head-to-head page.
LEMMA TeamMenusKeep ==
  ASSUME Inv, all_df' = all_df, touches' = touches,
         \/ pc = "home_menu" /\ Draw("sidebar", HomeMenu, "away_menu")
         \/ pc = "away_menu" /\ Draw("sidebar", AwayMenu, "home_header")
  PROVE  Inv'
<1>1. BranchAt(pc, all_df, states) /\ pc # "idle"
  BY DEF Inv, RunOK
<1>2. CASE pc = "home_menu" /\ Draw("sidebar", HomeMenu, "away_menu")
  <2>1. /\ SidebarAt(pc, all_df, states) = <<PageMenu, SeasonMenu(all_df)>>
        /\ MainAt(pc, all_df, states) = << >>
    BY <1>2 DEF SidebarAt, MainAt
  <2>2. /\ "away_menu" \in Statements /\ BranchAt("away_menu", all_df, states)
        /\ SidebarAt("away_menu", all_df, states) = <<PageMenu, SeasonMenu(all_df), HomeMenu>>
        /\ MainAt("away_menu", all_df, states) = << >>
    BY <1>1, <1>2 DEF Statements, StCalls, BranchAt, LeagueStatements, HeadStatements, SidebarAt, MainAt
  <2> QED
    BY <1>1, <1>2, <2>1, <2>2, AppendThree, DrawKeeps
<1>3. CASE pc = "away_menu" /\ Draw("sidebar", AwayMenu, "home_header")
  <2>1. /\ SidebarAt(pc, all_df, states) = <<PageMenu, SeasonMenu(all_df), HomeMenu>>
        /\ MainAt(pc, all_df, states) = << >>
    BY <1>3 DEF SidebarAt, MainAt
  <2>2. /\ "home_header" \in Statements /\ BranchAt("home_header", all_df, states)
        /\ SidebarAt("home_header", all_df, states)
             = <<PageMenu, SeasonMenu(all_df), HomeMenu, AwayMenu>>
        /\ MainAt("home_header", all_df, states) = << >>
    BY <1>1, <1>3 DEF Statements, StCalls, BranchAt, LeagueStatements, HeadStatements, SidebarAt, MainAt
  <2> QED
    BY <1>1, <1>3, <2>1, <2>2, AppendFour, DrawKeeps
<1> QED
  BY <1>2, <1>3

\* The columns of the two teams: each a header and the team's statistics, or
\* an exception for a team that is not in the season.
LEMMA ColumnsKeep ==
  ASSUME Inv, all_df' = all_df, touches' = touches,
         \/ DrawHeader("home_header", HomeMenu, "home_stats")
         \/ DrawStats("home_stats", HomeMenu, "away_header")
         \/ DrawHeader("away_header", AwayMenu, "away_stats")
         \/ DrawStats("away_stats", AwayMenu, "end")
  PROVE  Inv'
<1> DEFINE home == Selected(states, HomeMenu)
           away == Selected(states, AwayMenu)
           menus == <<PageMenu, SeasonMenu(all_df), HomeMenu, AwayMenu>>
           hh == HeaderElement(home)
           hs == StatsElement(rows, home)
           ah == HeaderElement(away)
           as == StatsElement(rows, away)
           ke == ErrorElement("KeyError")
<1>1. rows = Data(all_df, states)
  BY DEF rows
<1>2. /\ pc \in {"home_header", "home_stats", "away_header", "away_stats"}
      /\ pc # "idle" /\ BranchAt(pc, all_df, states)
      /\ SidebarAt(pc, all_df, states) = menus
  BY DEF DrawHeader, DrawStats, Inv, RunOK, SidebarAt
<1>3. /\ all_df # EmptyFile /\ rows # << >> /\ ~MatrixRaises(rows)
      /\ Selected(states, PageMenu) = "head_to_head"
      /\ pc \in {"away_header", "away_stats"} => home \in TeamsOf(rows)
  BY <1>1, <1>2 DEF BranchAt, HeadStatements
<1>4. /\ SidebarOf(all_df, states) = menus
      /\ MainOf(all_df, states) = ColumnsOf(rows, home, away)
  BY <1>1, <1>3, PagesEnd
<1>5. ASSUME NEW p \in {"home_stats", "away_header", "away_stats"},
             p \in {"away_header", "away_stats"} => home \in TeamsOf(rows)
      PROVE  p \in Statements /\ BranchAt(p, all_df, states) /\ SidebarAt(p, all_df, states) = menus
  BY <1>1, <1>3, <1>5
     DEF Statements, StCalls, BranchAt, LeagueStatements, HeadStatements, SidebarAt
<1>6. /\ pc = "home_header" => MainAt(pc, all_df, states) = << >>
      /\ MainAt("home_stats", all_df, states) = <<hh>>
      /\ MainAt("away_header", all_df, states) = <<hh, hs>>
      /\ MainAt("away_stats", all_df, states) = <<hh, hs, ah>>
  BY <1>1 DEF MainAt
<1>7. /\ "end" \in Statements /\ BranchAt("end", all_df, states)
      /\ SidebarAt("end", all_df, states) = SidebarOf(all_df, states)
      /\ MainAt("end", all_df, states) = MainOf(all_df, states)
  BY DEF Statements, BranchAt, LeagueStatements, HeadStatements, SidebarAt, MainAt
<1>8. /\ home \notin TeamsOf(rows) => ColumnsOf(rows, home, away) = <<hh, ke>>
      /\ home \in TeamsOf(rows) /\ away \notin TeamsOf(rows) =>
           ColumnsOf(rows, home, away) = <<hh, hs, ah, ke>>
      /\ home \in TeamsOf(rows) /\ away \in TeamsOf(rows) =>
           ColumnsOf(rows, home, away) = <<hh, hs, ah, as>>
  BY DEF ColumnsOf
<1>9. CASE DrawHeader("home_header", HomeMenu, "home_stats")
  <2>1. pc = "home_header" /\ Draw("main", hh, "home_stats")
    BY <1>9 DEF DrawHeader
  <2>2. Append(<< >>, hh) = <<hh>>
    <3> HIDE DEF hh
    <3> QED
      OBVIOUS
  <2> HIDE DEF menus, hh
  <2> QED
    BY <1>2, <1>5, <1>6, <2>1, <2>2, DrawKeeps
<1>10. CASE DrawStats("home_stats", HomeMenu, "away_header")
  <2>1. pc = "home_stats"
        /\ \/ home \notin TeamsOf(rows) /\ Raise(ke)
           \/ home \in TeamsOf(rows) /\ Draw("main", hs, "away_header")
    BY <1>10 DEF DrawStats, TeamStatsRaises
  <2>2. Append(<<hh>>, ke) = <<hh, ke>> /\ Append(<<hh>>, hs) = <<hh, hs>>
    BY AppendTwo
  <2> HIDE DEF menus, home, hh, hs, ke
  <2>3. CASE home \notin TeamsOf(rows) /\ Raise(ke)
    BY <1>2, <1>4, <1>6, <1>8, <2>1, <2>2, <2>3, RaiseKeeps
  <2>4. CASE home \in TeamsOf(rows) /\ Draw("main", hs, "away_header")
    BY <1>2, <1>5, <1>6, <2>1, <2>2, <2>4, DrawKeeps
  <2> QED
    BY <2>1, <2>3, <2>4
<1>11. CASE DrawHeader("away_header", AwayMenu, "away_stats")
  <2>1. pc = "away_header" /\ Draw("main", ah, "away_stats")
    BY <1>11 DEF DrawHeader
  <2>2. Append(<<hh, hs>>, ah) = <<hh, hs, ah>>
    BY AppendThree
  <2> HIDE DEF menus, home, hh, hs, ah
  <2> QED
    BY <1>2, <1>3, <1>5, <1>6, <2>1, <2>2, DrawKeeps
<1>12. CASE DrawStats("away_stats", AwayMenu, "end")
  <2>1. pc = "away_stats"
        /\ \/ away \notin TeamsOf(rows) /\ Raise(ke)
           \/ away \in TeamsOf(rows) /\ Draw("main", as, "end")
    BY <1>12 DEF DrawStats, TeamStatsRaises
  <2>2. Append(<<hh, hs, ah>>, ke) = <<hh, hs, ah, ke>> /\ Append(<<hh, hs, ah>>, as) = <<hh, hs, ah, as>>
    BY AppendFour
  <2> HIDE DEF menus, home, away, hh, hs, ah, as, ke
  <2>3. CASE away \notin TeamsOf(rows) /\ Raise(ke)
    BY <1>2, <1>3, <1>4, <1>6, <1>8, <2>1, <2>2, <2>3, RaiseKeeps
  <2>4. CASE away \in TeamsOf(rows) /\ Draw("main", as, "end")
    BY <1>2, <1>3, <1>4, <1>6, <1>7, <1>8, <2>1, <2>2, <2>4, DrawKeeps
  <2> QED
    BY <2>1, <2>3, <2>4
<1> QED
  BY <1>9, <1>10, <1>11, <1>12

-----------------------------------------------------------------------------
(***************************************************************************)
(* Runs begin and end, and the user.                                       *)
(***************************************************************************)
\* A run begins, on the page another one has left or was drawing.
LEMMA StartRunKeeps ==
  ASSUME Inv, StartRun(StCalls), all_df' = all_df, touches' = touches  PROVE Inv'
<1>1. /\ pc' = "load" /\ rerun' = FALSE /\ states' = store /\ cursor' = Top /\ display' = display
      /\ store' = [w \in {v \in DOMAIN store : ~v.button} |-> store[w]]
  BY DEF StartRun
<1>2. /\ "load" \in Statements /\ "sidebar" \in Areas /\ "main" \in Areas
      /\ \A a \in Areas : cursor'[a] = 0 /\ IsSeq(display[a])
      /\ cursor' \in [Areas -> Nat]
  BY <1>1 DEF Statements, StCalls, Areas, Top, Inv, PageOK
<1>3. \A a \in Areas : 0 <= Len(display[a])
  BY <1>2 DEF IsSeq
<1>4. PageOK'
  BY <1>1, <1>2, <1>3 DEF Inv, PageOK
<1>5. ControlOK' /\ ValuesOK' /\ RestOK'
  BY <1>1, <1>2 DEF Inv, ControlOK, ValuesOK, RestOK, AtRest
<1>6. RunOK'
  <2>1. /\ BranchAt("load", all_df, store)
        /\ SidebarAt("load", all_df, store) = << >> /\ MainAt("load", all_df, store) = << >>
    BY DEF BranchAt, LeagueStatements, HeadStatements, SidebarAt, MainAt
  <2>2. Shows(display'["sidebar"], cursor'["sidebar"], << >>) /\ Shows(display'["main"], cursor'["main"], << >>)
    BY <1>1, <1>2, <1>3 DEF Shows
  <2> QED
    BY <1>1, <2>1, <2>2 DEF RunOK
<1>7. RemembersOK'
  BY <1>1 DEF RemembersOK
<1> QED
  BY <1>4, <1>5, <1>6, <1>7 DEF Inv

\* What a run has drawn when it ends is its whole page.
LEMMA EndRunShows ==
  ASSUME Inv, EndRun
  PROVE  display'["sidebar"] = SidebarOf(all_df, states) /\ display'["main"] = MainOf(all_df, states)
<1>1. /\ "end" \in Statements /\ "sidebar" \in Areas /\ "main" \in Areas
      /\ SidebarAt("end", all_df, states) = SidebarOf(all_df, states)
      /\ MainAt("end", all_df, states) = MainOf(all_df, states)
  BY DEF Statements, Areas, SidebarAt, MainAt
<1>2. pc = "end" /\ display' = [a \in Areas |-> SubSeq(display[a], 1, cursor[a])]
  BY DEF EndRun
<1>3. /\ Shows(display["sidebar"], cursor["sidebar"], SidebarOf(all_df, states))
      /\ Shows(display["main"], cursor["main"], MainOf(all_df, states))
      /\ IsSeq(SidebarOf(all_df, states)) /\ IsSeq(MainOf(all_df, states))
  BY <1>1, <1>2, DrawnIsSeq, RunSelectsPage DEF Inv, RunOK
<1> QED
  BY <1>1, <1>2, <1>3, ShowsAll DEF Inv

\* A run ends; its page is what it has drawn.
LEMMA EndRunKeeps ==
  ASSUME Inv, EndRun, all_df' = all_df, touches' = touches  PROVE Inv'
<1>1. /\ pc = "end" /\ pc' = "idle" /\ cursor' = cursor /\ rerun' = rerun /\ states' = states
      /\ display' = [a \in Areas |-> SubSeq(display[a], 1, cursor[a])]
      /\ store' = [w \in {v \in DOMAIN store : rerun \/ v \in ToSet(display'["sidebar"])} |-> store[w]]
  BY DEF EndRun
<1>2. ASSUME NEW a \in Areas
      PROVE  IsSeq(display'[a]) /\ cursor'[a] <= Len(display'[a])
  <2>1. PICK S : display[a] \in Seq(S)
    BY DEF Inv, PageOK, IsSeq
  <2>2. cursor[a] \in Nat /\ cursor[a] <= Len(display[a])
    BY DEF Inv, PageOK
  <2>3. SubSeq(display[a], 1, cursor[a]) \in Seq(S) /\ Len(SubSeq(display[a], 1, cursor[a])) = cursor[a]
    BY <2>1, <2>2
  <2>4. display'[a] = SubSeq(display[a], 1, cursor[a]) /\ cursor'[a] = cursor[a]
    BY <1>1
  <2>5. IsSeq(display'[a])
    BY <2>3, <2>4 DEF IsSeq
  <2> QED
    BY <2>2, <2>3, <2>4, <2>5
<1>3. PageOK'
  BY <1>1, <1>2 DEF Inv, PageOK
<1>4. ControlOK' /\ ValuesOK' /\ RunOK'
  BY <1>1 DEF Inv, ControlOK, ValuesOK, RunOK
<1>5. display'["sidebar"] = SidebarOf(all_df, states) /\ display'["main"] = MainOf(all_df, states)
  BY EndRunShows
<1>6. RestOK'
  BY <1>1, <1>5 DEF RestOK
<1>7. RemembersOK'
  BY <1>1 DEF Inv, RemembersOK
<1> QED
  BY <1>3, <1>4, <1>6, <1>7 DEF Inv

\* A touch asks for a run, which is all that the present one learns of it.
LEMMA TouchKeeps ==
  ASSUME Inv, User  PROVE Inv'
<1>1. PICK menu \in ToSet(display.sidebar) : \E i \in DOMAIN menu.options : Pick(menu, i)
  BY DEF User
<1>2. PICK i \in DOMAIN menu.options : Pick(menu, i)
  BY <1>1
<1>3. /\ rerun' = TRUE /\ UNCHANGED <<display, cursor, pc, states, all_df>> /\ touches' = touches + 1
      /\ store' = [w \in DOMAIN store \cup {menu} |-> IF w \in {menu} THEN i ELSE store[w]]
  BY <1>2 DEF Pick, Touch, Updated, page
<1>4. PageOK' /\ ControlOK' /\ ValuesOK'
  BY <1>3 DEF Inv, PageOK, ControlOK, ValuesOK
<1>5. RunOK' /\ RestOK' /\ RemembersOK'
  BY <1>3 DEF Inv, RunOK, RestOK, AtRest, RemembersOK
<1> QED
  BY <1>4, <1>5 DEF Inv

\* Nothing else matters to the page.
LEMMA SameKeeps ==
  ASSUME Inv, UNCHANGED <<streamlit, all_df, touches>>  PROVE Inv'
<1>1. UNCHANGED <<store, display, cursor, rerun, pc, states, all_df, touches>>
  BY DEF streamlit, page
<1> QED
  BY <1>1 DEF Inv, PageOK, ControlOK, ValuesOK, RunOK, RestOK, AtRest, RemembersOK

\* The page invariant.
LEMMA PageInvariant == Spec => []Inv
<1>1. Init => Inv
  <2> SUFFICES ASSUME Init  PROVE Inv
    OBVIOUS
  <2>1. /\ store = << >> /\ states = << >> /\ rerun = TRUE /\ pc = "idle" /\ touches = 0
        /\ display = [a \in Areas |-> << >>] /\ cursor = [a \in Areas |-> 0]
    BY DEF Init, Open, Top
  <2>2. PageOK
    BY <2>1, TuplesAreSeqs DEF PageOK
  <2>3. ControlOK /\ ValuesOK /\ RunOK /\ RestOK /\ RemembersOK
    BY <2>1 DEF ControlOK, ValuesOK, RunOK, RestOK, AtRest, RemembersOK
  <2> QED
    BY <2>2, <2>3 DEF Inv
<1>2. Inv /\ [Next]_vars => Inv'
  <2> SUFFICES ASSUME Inv, [Next]_vars  PROVE Inv'
    OBVIOUS
  <2>1. CASE Load /\ UNCHANGED <<bet_data, touches>>
    BY <2>1, LoadKeeps
  <2>2. ASSUME Show, UNCHANGED <<bet_data, all_df, touches>>  PROVE Inv'
    <3>1. CASE DrawPageMenu \/ DrawSeasonMenu
      BY <2>2, <3>1, MenusKeep
    <3>2. CASE ComputeMatrix
      BY <2>2, <3>2, MatrixKeeps
    <3>3. CASE LeagueTablesPage \/ ResultsMatrixPage
      BY <2>2, <3>3, TablePagesKeep
    <3>4. CASE HeadToHeadPage
      BY <2>2, <3>4, TeamMenusKeep, ColumnsKeep DEF HeadToHeadPage
    <3>5. CASE StartRun(StCalls)
      BY <2>2, <3>5, StartRunKeeps
    <3>6. CASE EndRun
      BY <2>2, <3>6, EndRunKeeps
    <3> QED
      BY <2>2, <3>1, <3>2, <3>3, <3>4, <3>5, <3>6 DEF Show
  <2>3. CASE User
    BY <2>3, TouchKeeps
  <2>4. CASE ReplaceFile
    BY <2>4, SameKeeps DEF ReplaceFile
  <2>5. CASE UNCHANGED vars
    BY <2>5, SameKeeps DEF vars
  <2> QED
    BY <2>1, <2>2, <2>3, <2>4, <2>5 DEF Next, Server
<1> QED
  BY <1>1, <1>2, PTL DEF Spec

-----------------------------------------------------------------------------
(***************************************************************************)
(* The page at rest.                                                       *)
(***************************************************************************)
\* The elements of a tuple.
LEMMA TuplesToSet ==
  /\ \A a, b : ToSet(<<a, b>>) = {a, b}
  /\ \A a, b, c : ToSet(<<a, b, c>>) = {a, b, c}
  /\ \A a, b, c, d : ToSet(<<a, b, c, d>>) = {a, b, c, d}
BY DEF ToSet

\* Every page but that of an empty file has the two menus.
LEMMA MenusOnPage ==
  ASSUME NEW df, df # EmptyFile, NEW values,
         Selected(values, PageMenu) \in {"league_tables", "results_matrix", "head_to_head"}
  PROVE  {PageMenu, SeasonMenu(df)} \subseteq ToSet(SidebarOf(df, values))
<1>1. CASE Data(df, values) = << >> \/ MatrixRaises(Data(df, values))
  BY <1>1, PagesEnd, TuplesToSet
<1>2. CASE Data(df, values) # << >> /\ ~MatrixRaises(Data(df, values))
  <2>1. CASE Selected(values, PageMenu) = "league_tables"
    BY <1>2, <2>1, PagesEnd, TuplesToSet
  <2>2. CASE Selected(values, PageMenu) = "results_matrix"
    BY <1>2, <2>2, PagesEnd, TuplesToSet
  <2>3. CASE Selected(values, PageMenu) = "head_to_head"
    BY <1>2, <2>3, PagesEnd, TuplesToSet
  <2> QED
    BY <2>1, <2>2, <2>3
<1> QED
  BY <1>1, <1>2

\* Values that agree on the widgets of a page make the same page.
LEMMA SamePage ==
  ASSUME NEW df, NEW u, NEW v,
         \A w \in ToSet(SidebarOf(df, u)) : ~w.button => Selected(u, w) = Selected(v, w),
         Selected(u, PageMenu) \in {"league_tables", "results_matrix", "head_to_head"}
  PROVE  SidebarOf(df, u) = SidebarOf(df, v) /\ MainOf(df, u) = MainOf(df, v)
<1>1. \A w \in {PageMenu, SeasonMenu(df), TableMenu, HomeMenu, AwayMenu} : ~w.button
  BY DEF PageMenu, SeasonMenu, TableMenu, HomeMenu, AwayMenu, Selectbox
<1>2. CASE df = EmptyFile
  BY <1>2, PagesEnd
<1>3. CASE df # EmptyFile
  <2>1. /\ Selected(u, PageMenu) = Selected(v, PageMenu)
        /\ Selected(u, SeasonMenu(df)) = Selected(v, SeasonMenu(df))
    BY <1>1, <1>3, MenusOnPage
  <2>2. Data(df, u) = Data(df, v)
    BY <2>1 DEF Data
  <2>3. CASE Data(df, u) = << >> \/ MatrixRaises(Data(df, u))
    BY <1>3, <2>2, <2>3, PagesEnd
  <2>4. CASE Data(df, u) # << >> /\ ~MatrixRaises(Data(df, u))
    <3> DEFINE full(values, menu) == /\ Data(df, values) # << >> /\ ~MatrixRaises(Data(df, values))
                                     /\ Selected(values, PageMenu) = menu
    <3>1. CASE Selected(u, PageMenu) = "league_tables"
      <4>1. TableMenu \in ToSet(SidebarOf(df, u))
        BY <1>3, <2>4, <3>1, PagesEnd, TuplesToSet
      <4>2. Selected(u, TableMenu) = Selected(v, TableMenu)
        BY <1>1, <4>1
      <4>3. full(u, "league_tables") /\ full(v, "league_tables")
        BY <2>1, <2>2, <2>4, <3>1
      <4>4. /\ SidebarOf(df, u) = <<PageMenu, SeasonMenu(df), TableMenu>>
            /\ MainOf(df, u) = <<TableElement(Data(df, u), Selected(u, TableMenu))>>
        BY <1>3, <4>3, PagesEnd
      <4>5. /\ SidebarOf(df, v) = <<PageMenu, SeasonMenu(df), TableMenu>>
            /\ MainOf(df, v) = <<TableElement(Data(df, v), Selected(v, TableMenu))>>
        BY <1>3, <4>3, PagesEnd
      <4> QED
        BY <2>2, <4>2, <4>4, <4>5
    <3>2. CASE Selected(u, PageMenu) = "results_matrix"
      <4>1. full(u, "results_matrix") /\ full(v, "results_matrix")
        BY <2>1, <2>2, <2>4, <3>2
      <4>2. /\ SidebarOf(df, u) = <<PageMenu, SeasonMenu(df)>>
            /\ MainOf(df, u) = <<MatrixElement(Data(df, u))>>
        BY <1>3, <4>1, PagesEnd
      <4>3. /\ SidebarOf(df, v) = <<PageMenu, SeasonMenu(df)>>
            /\ MainOf(df, v) = <<MatrixElement(Data(df, v))>>
        BY <1>3, <4>1, PagesEnd
      <4> QED
        BY <2>2, <4>2, <4>3
    <3>3. CASE Selected(u, PageMenu) = "head_to_head"
      <4>1. HomeMenu \in ToSet(SidebarOf(df, u)) /\ AwayMenu \in ToSet(SidebarOf(df, u))
        BY <1>3, <2>4, <3>3, PagesEnd, TuplesToSet
      <4>2. Selected(u, HomeMenu) = Selected(v, HomeMenu) /\ Selected(u, AwayMenu) = Selected(v, AwayMenu)
        BY <1>1, <4>1
      <4>3. full(u, "head_to_head") /\ full(v, "head_to_head")
        BY <2>1, <2>2, <2>4, <3>3
      <4>4. /\ SidebarOf(df, u) = <<PageMenu, SeasonMenu(df), HomeMenu, AwayMenu>>
            /\ MainOf(df, u) = ColumnsOf(Data(df, u), Selected(u, HomeMenu), Selected(u, AwayMenu))
        BY <1>3, <4>3, PagesEnd
      <4>5. /\ SidebarOf(df, v) = <<PageMenu, SeasonMenu(df), HomeMenu, AwayMenu>>
            /\ MainOf(df, v) = ColumnsOf(Data(df, v), Selected(v, HomeMenu), Selected(v, AwayMenu))
        BY <1>3, <4>3, PagesEnd
      <4> QED
        BY <2>2, <4>2, <4>4, <4>5
    <3> QED
      BY <3>1, <3>2, <3>3
  <2> QED
    BY <2>3, <2>4
<1> QED
  BY <1>2, <1>3

(***************************************************************************)
(* Whatever came before, a page of pl_app.py at rest is the one page that  *)
(* belongs to the values of its widgets and to one reading of the file:    *)
(* nothing of an earlier run is left on it, nothing is missing.  For every *)
(* file, choice of clubs and number of touches.                            *)
(***************************************************************************)
THEOREM RestingPage == Spec => []RestingPageIsCurrent
<1>1. Inv => RestingPageIsCurrent
  <2> SUFFICES ASSUME Inv, AtRest
               PROVE  /\ display["sidebar"] = SidebarOf(all_df, store)
                      /\ display["main"] = MainOf(all_df, store)
    BY DEF RestingPageIsCurrent
  <2>1. display["sidebar"] = SidebarOf(all_df, states) /\ display["main"] = MainOf(all_df, states)
    BY DEF Inv, RestOK
  <2>2. ASSUME NEW w \in ToSet(SidebarOf(all_df, states)), ~w.button
        PROVE  Selected(states, w) = Selected(store, w)
    <3>1. /\ w \in DOMAIN store <=> w \in DOMAIN states
          /\ w \in DOMAIN store => store[w] = states[w]
      BY <2>1, <2>2 DEF Inv, RemembersOK, AtRest
    <3> QED
      BY <3>1 DEF Selected
  <2> QED
    BY <2>1, <2>2, RunSelectsPage, SamePage
<1> QED
  BY <1>1, PageInvariant, PTL

(***************************************************************************)
(* Runs may be given up or fail, and pages come and go: as long as the     *)
(* user touches nothing, the page and the season that were picked stay.    *)
(***************************************************************************)
THEOREM PicksStay == Spec => PageAndSeasonStayPicked
<1>1. Inv /\ [Next]_vars =>
        [touches' = touches /\ all_df # EmptyFile =>
           \A menu \in DOMAIN store \cap {PageMenu, SeasonMenu(all_df)} :
             menu \in DOMAIN store' /\ store'[menu] = store[menu]]_vars
  <2> SUFFICES ASSUME Inv, Next, touches' = touches, all_df # EmptyFile,
                      NEW menu \in DOMAIN store \cap {PageMenu, SeasonMenu(all_df)}
               PROVE  menu \in DOMAIN store' /\ store'[menu] = store[menu]
    OBVIOUS
  <2>1. ASSUME store' = store  PROVE menu \in DOMAIN store' /\ store'[menu] = store[menu]
    BY <2>1
  <2>2. ~menu.button
    BY DEF PageMenu, SeasonMenu, Selectbox
  <2>3. CASE Load
    BY <2>1, <2>3 DEF Load, Raise, Compute
  <2>4. CASE DrawPageMenu \/ DrawSeasonMenu \/ LeagueTablesPage \/ ResultsMatrixPage
    BY <2>1, <2>4 DEF DrawPageMenu, DrawSeasonMenu, LeagueTablesPage, ResultsMatrixPage, Draw
  <2>5. CASE ComputeMatrix \/ HeadToHeadPage
    BY <2>1, <2>5 DEF ComputeMatrix, HeadToHeadPage, DrawHeader, DrawStats, Draw, Raise, Compute
  <2>6. CASE StartRun(StCalls)
    BY <2>2, <2>6 DEF StartRun
  <2>7. CASE EndRun
    <3>1. display'["sidebar"] = SidebarOf(all_df, states)
      BY <2>7, EndRunShows
    <3>2. menu \in ToSet(display'["sidebar"])
      <4>1. {PageMenu, SeasonMenu(all_df)} \subseteq ToSet(SidebarOf(all_df, states))
        BY MenusOnPage, RunSelectsPage
      <4> QED
        BY <3>1, <4>1
    <3>3. store' = [w \in {v \in DOMAIN store : rerun \/ v \in ToSet(display'["sidebar"])} |-> store[w]]
      BY <2>7 DEF EndRun
    <3> QED
      BY <3>2, <3>3
  <2>8. CASE User
    <3>1. touches' = touches + 1 /\ touches \in Nat
      BY <2>8 DEF User, Pick, Inv, ControlOK
    <3> QED
      BY <3>1
  <2>9. CASE ReplaceFile
    BY <2>1, <2>9 DEF ReplaceFile, streamlit
  <2> QED
    BY <2>3, <2>4, <2>5, <2>6, <2>7, <2>8, <2>9 DEF Next, Server, Show
<1> QED
  BY <1>1, PageInvariant, PTL DEF Spec, PageAndSeasonStayPicked

-----------------------------------------------------------------------------
(***************************************************************************)
(* Types.  The invariant above leaves out the stale elements of a sidebar, *)
(* which is where a menu on another file's seasons can still be touched.   *)
(***************************************************************************)
\* The default of a menu is one of its options.
HasDefault(w) == w.options # << >> => w.index \in DOMAIN w.options

FilesOK == bet_data \in Files /\ all_df \in Files \cup {EmptyFile} /\ touches \in 0 .. MaxTouches

WidgetsOK == \A i \in DOMAIN display["sidebar"] : HasDefault(display["sidebar"][i])

TypeInv == Inv /\ FilesOK /\ WidgetsOK

\* The options of a season menu: the seasons of the rows that are the first of
\* their season, in the order of the rows.
LEMMA SeasonsInOrder ==
  ASSUME NEW D, NEW df \in Seq(D)
  PROVE  /\ IsSeq(Seasons(df))
         /\ \E p \in [1 .. Len(Seasons(df)) -> 1 .. Len(df)] :
              /\ \A k \in DOMAIN p : /\ Seasons(df)[k] = df[p[k]].season
                                     /\ \A j \in 1 .. p[k] - 1 : df[j].season # df[p[k]].season
              /\ \A k, l \in DOMAIN p : k < l => p[k] < p[l]
              /\ \A i \in 1 .. Len(df) :
                   (\A j \in 1 .. i - 1 : df[j].season # df[i].season) =>
                     \E k \in DOMAIN p : p[k] = i
<1> DEFINE season == [i \in DOMAIN df |-> df[i].season]
           mask == [i \in DOMAIN df |-> \A j \in 1 .. i - 1 : season[j] # season[i]]
           S == {df[i].season : i \in DOMAIN df}
           options == Masked(season, mask)
<1>1. DOMAIN df = 1 .. Len(df) /\ Len(df) \in Nat
  OBVIOUS
<1>2. season \in Seq(S) /\ Len(season) = Len(df)
  BY <1>1
<1>3. \A i \in 1 .. Len(df) : season[i] = df[i].season
  BY <1>1
<1>4. \A i \in 1 .. Len(df) : mask[i] <=> \A j \in 1 .. i - 1 : df[j].season # df[i].season
  <2> SUFFICES ASSUME NEW i \in 1 .. Len(df)
               PROVE  mask[i] <=> \A j \in 1 .. i - 1 : df[j].season # df[i].season
    OBVIOUS
  <2>1. \A j \in 1 .. i - 1 : j \in 1 .. Len(df)
    BY <1>1
  <2>2. mask[i] <=> \A j \in 1 .. i - 1 : season[j] # season[i]
    BY <1>1
  <2> HIDE DEF season, mask
  <2> QED
    BY <1>3, <2>1, <2>2
<1>5. Seasons(df) = options
  BY DEF Seasons
<1> HIDE DEF season, mask, S
<1>6. options \in Seq(S) /\ \E p : MaskedAt(season, mask, p)
  BY <1>2, MaskedPositions, Zenon
<1>7. PICK p \in [1 .. Len(options) -> 1 .. Len(df)] :
           /\ \A k \in DOMAIN p : mask[p[k]] /\ options[k] = season[p[k]]
           /\ \A k, l \in DOMAIN p : k < l => p[k] < p[l]
           /\ \A i \in 1 .. Len(df) : mask[i] => \E k \in DOMAIN p : p[k] = i
  BY <1>2, <1>6 DEF MaskedAt
<1> HIDE DEF options
<1>8. \A k \in DOMAIN p : p[k] \in 1 .. Len(df)
  OBVIOUS
<1>9. \A k \in DOMAIN p : /\ options[k] = df[p[k]].season
                          /\ \A j \in 1 .. p[k] - 1 : df[j].season # df[p[k]].season
  BY <1>3, <1>4, <1>7, <1>8
<1>10. \A i \in 1 .. Len(df) :
         (\A j \in 1 .. i - 1 : df[j].season # df[i].season) => \E k \in DOMAIN p : p[k] = i
  BY <1>4, <1>7
<1>11. IsSeq(options)
  BY <1>6 DEF IsSeq
<1> QED
  BY <1>5, <1>7, <1>9, <1>10, <1>11

\* The frame of a run that could load one is a sequence of rows.
LEMMA FramesAreSeqs ==
  ASSUME FilesOK, all_df # EmptyFile
  PROVE  \E D : all_df \in Seq(D)
BY FramesAssumption DEF FilesOK

\* The default of the season menu is the last season.
LEMMA MenusHaveDefaults ==
  /\ \A w \in {PageMenu, TableMenu, HomeMenu, AwayMenu} : HasDefault(w)
  /\ FilesOK /\ all_df # EmptyFile => HasDefault(SeasonMenu(all_df))
<1>1. ASSUME FilesOK, all_df # EmptyFile  PROVE HasDefault(SeasonMenu(all_df))
  <2> DEFINE s == Seasons(all_df)
             w == SeasonMenu(all_df)
  <2>1. IsSeq(s)
    BY <1>1, FramesAreSeqs, SeasonsInOrder
  <2>2. w.options = s /\ w.index = Len(s)
    BY DEF SeasonMenu, Selectbox
  <2> HIDE DEF s
  <2>3. s # << >> => Len(s) \in DOMAIN s
    BY <2>1 DEF IsSeq
  <2> QED
    BY <2>2, <2>3 DEF HasDefault
<1>2. HasDefault(PageMenu) /\ HasDefault(TableMenu)
  BY DEF PageMenu, TableMenu, Selectbox, HasDefault
<1>3. HasDefault(HomeMenu) /\ HasDefault(AwayMenu)
  <2>1. 1 \in DOMAIN MenuTeams /\ 2 \in DOMAIN MenuTeams
    BY MenuAssumption
  <2> QED
    BY <2>1 DEF HomeMenu, AwayMenu, Selectbox, HasDefault
<1> QED
  BY <1>1, <1>2, <1>3

\* An element drawn in the sidebar leaves the other elements there.
LEMMA EmitDefaults ==
  ASSUME PageOK, WidgetsOK, NEW area \in {"sidebar", "main"}, NEW element,
         area = "sidebar" => HasDefault(element), Emit(area, element)
  PROVE  WidgetsOK'
<1> DEFINE n == cursor[area] + 1
           d == display[area]
           e == IF n \in DOMAIN d THEN [d EXCEPT ![n] = element] ELSE Append(d, element)
<1>1. display' = [display EXCEPT ![area] = e] /\ DOMAIN display = Areas /\ area \in Areas
  BY DEF Emit, PageOK, Areas
<1>2. PICK S : d \in Seq(S)
  BY <1>1 DEF PageOK, IsSeq
<1> HIDE DEF d
<1>3. \A i \in DOMAIN e : e[i] = element \/ (i \in DOMAIN d /\ e[i] = d[i])
  BY <1>2
<1> HIDE DEF e
<1>4. CASE area = "sidebar"
  BY <1>1, <1>3, <1>4 DEF WidgetsOK, d
<1>5. CASE area = "main"
  <2>1. display'["sidebar"] = display["sidebar"]
    BY <1>1, <1>5
  <2> QED
    BY <2>1 DEF WidgetsOK
<1> QED
  BY <1>4, <1>5

\* What the script draws in the sidebar are its menus.
LEMMA ShowDefaults ==
  ASSUME TypeInv, Load \/ Show  PROVE WidgetsOK'
<1>1. /\ PageOK /\ WidgetsOK /\ DOMAIN display = Areas /\ "sidebar" \in Areas
      /\ \A w \in {PageMenu, TableMenu, HomeMenu, AwayMenu} : HasDefault(w)
  BY MenusHaveDefaults DEF TypeInv, Inv, PageOK, Areas
<1>2. ASSUME display' = display  PROVE WidgetsOK'
  BY <1>1, <1>2 DEF WidgetsOK
<1>3. ASSUME NEW w, HasDefault(w), NEW next, Draw("sidebar", w, next)
      PROVE  WidgetsOK'
  BY <1>1, <1>3, EmitDefaults DEF Draw
<1>4. ASSUME NEW element, NEW next, Draw("main", element, next)  PROVE WidgetsOK'
  BY <1>1, <1>4, EmitDefaults DEF Draw
<1>5. ASSUME NEW element, Raise(element)  PROVE WidgetsOK'
  BY <1>1, <1>5, EmitDefaults DEF Raise
<1>6. CASE Load
  BY <1>2, <1>5, <1>6 DEF Load, Compute, page
<1>7. CASE DrawPageMenu \/ LeagueTablesPage \/ ResultsMatrixPage
  BY <1>1, <1>3, <1>4, <1>7 DEF DrawPageMenu, LeagueTablesPage, ResultsMatrixPage
<1>8. CASE ComputeMatrix
  BY <1>2, <1>5, <1>8 DEF ComputeMatrix, Compute, page
<1>9. CASE HeadToHeadPage
  BY <1>1, <1>3, <1>4, <1>5, <1>9 DEF HeadToHeadPage, DrawHeader, DrawStats
<1>10. CASE StartRun(StCalls)
  BY <1>2, <1>10 DEF StartRun
<1>11. CASE EndRun
  <2>1. /\ cursor["sidebar"] \in Nat /\ cursor["sidebar"] <= Len(display["sidebar"])
        /\ display'["sidebar"] = SubSeq(display["sidebar"], 1, cursor["sidebar"])
    BY <1>1, <1>11 DEF EndRun, PageOK
  <2>2. PICK S : display["sidebar"] \in Seq(S)
    BY <1>1 DEF PageOK, IsSeq
  <2>3. \A i \in DOMAIN display'["sidebar"] :
          i \in DOMAIN display["sidebar"] /\ display'["sidebar"][i] = display["sidebar"][i]
    BY <2>1, <2>2
  <2> QED
    BY <1>1, <2>3 DEF WidgetsOK
<1>12. CASE DrawSeasonMenu
  <2>1. all_df # EmptyFile
    BY <1>12 DEF DrawSeasonMenu, TypeInv, Inv, RunOK, BranchAt
  <2>2. HasDefault(SeasonMenu(all_df))
    BY <2>1, MenusHaveDefaults DEF TypeInv
  <2> QED
    BY <1>3, <1>12, <2>2 DEF DrawSeasonMenu
<1> QED
  BY <1>6, <1>7, <1>8, <1>9, <1>10, <1>11, <1>12 DEF Show

\* The invariant with the types, in every behaviour.
LEMMA TypeInvariant == Spec => []TypeInv
<1>1. Init => FilesOK /\ WidgetsOK
  BY TouchesAssumption DEF Init, Open, Areas, FilesOK, WidgetsOK
<1>2. TypeInv /\ [Next]_vars => (FilesOK /\ WidgetsOK)'
  <2> SUFFICES ASSUME TypeInv, [Next]_vars  PROVE (FilesOK /\ WidgetsOK)'
    OBVIOUS
  <2>1. CASE Load /\ UNCHANGED <<bet_data, touches>>
    <3>1. FilesOK'
      BY <2>1 DEF TypeInv, FilesOK, Load
    <3> QED
      BY <2>1, <3>1, ShowDefaults
  <2>2. CASE Show /\ UNCHANGED <<bet_data, all_df, touches>>
    <3>1. FilesOK'
      BY <2>2 DEF TypeInv, FilesOK
    <3> QED
      BY <2>2, <3>1, ShowDefaults
  <2>3. CASE User
    <3>1. /\ touches < MaxTouches /\ touches' = touches + 1
          /\ UNCHANGED <<bet_data, all_df, display>>
      BY <2>3 DEF User, Pick, Touch, page
    <3>2. touches' \in 0 .. MaxTouches
      BY <3>1, TouchesAssumption DEF TypeInv, FilesOK
    <3> QED
      BY <3>1, <3>2 DEF TypeInv, FilesOK, WidgetsOK
  <2>4. CASE ReplaceFile
    BY <2>4 DEF ReplaceFile, streamlit, page, TypeInv, FilesOK, WidgetsOK
  <2>5. CASE UNCHANGED vars
    BY <2>5 DEF vars, streamlit, page, TypeInv, FilesOK, WidgetsOK
  <2> QED
    BY <2>1, <2>2, <2>3, <2>4, <2>5 DEF Next, Server
<1>3. Spec => [](FilesOK /\ WidgetsOK)
  BY <1>1, <1>2, PageInvariant, PTL DEF Spec, TypeInv
<1> QED
  BY <1>3, PageInvariant, PTL DEF TypeInv

(***************************************************************************)
(* Every widget that is shown or remembered points at one of its options,  *)
(* also the ones that an earlier run left in the sidebar, for every file   *)
(* and any number of touches.                                              *)
(***************************************************************************)
THEOREM PageTypeCorrect == Spec => []TypeOK
<1>1. TypeInv => TypeOK
  <2> SUFFICES ASSUME TypeInv  PROVE TypeOK
    OBVIOUS
  <2>1. \A a \in Areas : cursor[a] \in 0 .. Len(display[a])
    <3> SUFFICES ASSUME NEW a \in Areas  PROVE cursor[a] \in 0 .. Len(display[a])
      OBVIOUS
    <3>1. IsSeq(display[a]) /\ cursor[a] \in Nat /\ cursor[a] <= Len(display[a])
      BY DEF TypeInv, Inv, PageOK
    <3> QED
      BY <3>1 DEF IsSeq
  <2>2. \A w \in ToSet(display["sidebar"]) : w.options # << >> => w.index \in DOMAIN w.options
    BY DEF TypeInv, WidgetsOK, HasDefault, ToSet
  <2>3. \A values \in {store, states} : \A w \in DOMAIN values : values[w] \in DOMAIN w.options
    BY DEF TypeInv, Inv, ValuesOK
  <2>4. rerun \in BOOLEAN /\ touches \in 0 .. MaxTouches
        /\ pc \in StCalls \cup {"idle", "result_matrix", "end"}
    BY DEF TypeInv, Inv, ControlOK, FilesOK, Statements
  <2> QED
    BY <2>1, <2>2, <2>3, <2>4 DEF TypeOK, StreamlitTypeOK
<1> QED
  BY <1>1, TypeInvariant, PTL
=============================================================================
