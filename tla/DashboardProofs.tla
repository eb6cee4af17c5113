--------------------------- MODULE DashboardProofs ---------------------------
(***************************************************************************)
(* The dashboard on the files of the importer, for every set of season     *)
(* files, every order in which they are listed and every moment at which   *)
(* bet_data.csv is copied.                                                 *)
(*                                                                         *)
(* A page at rest is made from one file (PageProofs), the file is a part   *)
(* of the frames of some season files (SeasonFileTheorems), and the season *)
(* menu has their seasons in the order of their first rows.                *)
(***************************************************************************)
EXTENDS Dashboard, PageProofs, SeasonFileTheorems

-----------------------------------------------------------------------------
(***************************************************************************)
(* The season menu and the rows of a season.                               *)
(***************************************************************************)
\* Entry k of the season menu is the season of row p[k], the first of it.
MenuRows(df, p) ==
  /\ p \in [1 .. Len(Seasons(df)) -> 1 .. Len(df)]
  /\ \A k \in DOMAIN p : /\ Seasons(df)[k] = df[p[k]].season
                         /\ \A j \in 1 .. p[k] - 1 : df[j].season # df[p[k]].season
  /\ \A k, l \in DOMAIN p : k < l => p[k] < p[l]

\* The season menu has such rows.
LEMMA MenuHasRows ==
  ASSUME NEW D, NEW df \in Seq(D)
  PROVE  /\ Len(Seasons(df)) \in Nat /\ DOMAIN Seasons(df) = 1 .. Len(Seasons(df))
         /\ \E p : MenuRows(df, p)
<1>1. IsSeq(Seasons(df)) /\ \E p : MenuRows(df, p)
  BY SeasonsInOrder DEF MenuRows
<1> QED
  BY <1>1 DEF IsSeq

\* Row i is of a frame that is not after that of row j, and before it if they
\* are of two seasons.
InOrder(order, frames, df, ends, i, j) ==
  \E f, g \in 1 .. Len(frames) :
    /\ f <= g /\ ends[f] \in Nat
    /\ df[i].season = SeasonOf(order[f]) /\ df[j].season = SeasonOf(order[g])
    /\ df[i].season # df[j].season => ends[f] < j

\* Earlier rows are of earlier frames.
LEMMA RowsInOrder ==
  ASSUME NEW order, NEW frames, NEW df, Len(df) \in Nat, Len(frames) \in Nat, NEW ends,
         SeasonBlocks(frames, Keys(order, frames), df, ends),
         NEW i \in 1 .. Len(df), NEW j \in 1 .. Len(df), i <= j
  PROVE  InOrder(order, frames, df, ends, i, j)
<1>1. PICK f \in 1 .. Len(frames) :
        ends[f - 1] < i /\ i <= ends[f] /\ df[i].season = Keys(order, frames)[f]
  BY DEF SeasonBlocks
<1>2. PICK g \in 1 .. Len(frames) :
        ends[g - 1] < j /\ j <= ends[g] /\ df[j].season = Keys(order, frames)[g]
  BY DEF SeasonBlocks
<1>3. /\ ends \in [0 .. Len(frames) -> Nat]
      /\ \A k, l \in 0 .. Len(frames) : k <= l => ends[k] <= ends[l]
      /\ \A r \in 1 .. Len(df) :
           df[r].season = Keys(order, frames)[f] <=> ends[f - 1] < r /\ r <= ends[f]
  BY DEF SeasonBlocks
<1>4. /\ f \in 0 .. Len(frames) /\ f - 1 \in 0 .. Len(frames)
      /\ g \in 0 .. Len(frames) /\ g - 1 \in 0 .. Len(frames)
  OBVIOUS
<1>5. ends[f] \in Nat /\ ends[f - 1] \in Nat /\ ends[g] \in Nat /\ ends[g - 1] \in Nat
  BY <1>3, <1>4
<1>6. f <= g
  <2> SUFFICES ASSUME g < f  PROVE FALSE
    OBVIOUS
  <2>1. ends[g] <= ends[f - 1]
    BY <1>3, <1>4
  <2> QED
    BY <1>1, <1>2, <1>5, <2>1
<1>7. ASSUME df[i].season # df[j].season  PROVE ends[f] < j
  <2>1. ~(ends[f - 1] < j /\ j <= ends[f])
    BY <1>1, <1>3, <1>7
  <2> QED
    BY <1>1, <1>5, <2>1
<1> QED
  BY <1>1, <1>2, <1>5, <1>6, <1>7 DEF Keys, InOrder

\* The rows the page selects for a season that it lists.
LEMMA SeasonOfMenu ==
  ASSUME NEW df, NEW r \in DOMAIN df, NEW name, df[r].season = SeasonOf(name)
  PROVE  SeasonRows(df)[df[r].season]
           = Masked(df, [i \in DOMAIN df |-> df[i].season = SeasonOf(name)])
<1> DEFINE s == df[r].season
<1>1. SeasonRows(df)[s] = Masked(df, [i \in DOMAIN df |-> df[i].season = s /\ s # NaN])
  BY DEF SeasonRows
<1>2. s # NaN /\ s = SeasonOf(name)
  <2>1. Len(s) = 2 /\ Len(<< >>) = 0
    BY DEF SeasonOf
  <2> QED
    BY <2>1 DEF NaN
<1> HIDE DEF s
<1>3. [i \in DOMAIN df |-> df[i].season = s /\ s # NaN] = [i \in DOMAIN df |-> df[i].season = s]
  BY <1>2
<1> QED
  BY <1>1, <1>2, <1>3 DEF s

(***************************************************************************)
(* Of a season that is followed by two others in the menu, the page has    *)
(* all rows: the file was cut after its last row.                          *)
(***************************************************************************)
LEMMA OlderSeasonIsWhole ==
  ASSUME NEW df \in Contents, NEW k \in 1 .. Len(Seasons(df)), k < Len(Seasons(df)) - 1
  PROVE  IsWhole(SeasonRows(df)[Seasons(df)[k]])
<1>1. PICK order, frames, n :
        FramesOfFiles(order, frames) /\ IsPart(Concat(frames), n, df)
  BY ContentIsPart
<1>2. PICK ends : SeasonsOfPart(order, frames, n, df, ends)
  BY <1>1, PartSeasons
<1> DEFINE whole == Concat(frames)
<1>3. SeasonBlocks(frames, Keys(order, frames), whole, ends)
  BY <1>2 DEF SeasonsOfPart
<1>4. /\ df \in Seq(AllRows \cup LostRows) /\ n \in Nat /\ n <= Len(whole)
      /\ \A i \in 1 .. n : df[i] = whole[i]
      /\ Len(df) \in {n, n + 1}
  BY <1>1 DEF IsPart
<1>5. Len(whole) \in Nat /\ Len(frames) \in Nat /\ DOMAIN frames = 1 .. Len(frames)
  <2>1. frames \in Seq(Seq(AllRows))
    BY <1>1 DEF FramesOfFiles
  <2>2. whole \in Seq(AllRows)
    BY <1>1, ConcatType
  <2>3. Len(frames) \in Nat /\ DOMAIN frames = 1 .. Len(frames)
    BY <2>1
  <2> QED
    BY <2>2, <2>3, LenIsNat
<1> HIDE DEF whole
<1>6. PICK p : MenuRows(df, p)
  BY <1>4, MenuHasRows
<1> DEFINE L == Len(Seasons(df))
<1>7. L \in Nat
  BY <1>4, MenuHasRows
<1>8. /\ p \in [1 .. L -> 1 .. Len(df)] /\ k \in 1 .. L /\ k < L - 1
      /\ \A l \in 1 .. L : \A m \in 1 .. L : l < m => p[l] < p[m]
      /\ \A l \in 1 .. L : /\ Seasons(df)[l] = df[p[l]].season
                           /\ \A j \in 1 .. p[l] - 1 : df[j].season # df[p[l]].season
  BY <1>6 DEF MenuRows
<1> HIDE DEF L
<1>9. k + 1 \in 1 .. L /\ k + 2 \in 1 .. L
  BY <1>7, <1>8
<1> DEFINE i == p[k]
           j == p[k + 1]
           z == p[k + 2]
<1>10. i \in 1 .. Len(df) /\ j \in 1 .. Len(df) /\ z \in 1 .. Len(df) /\ i < j /\ j < z
  BY <1>7, <1>8, <1>9
<1>11. Seasons(df)[k] = df[i].season /\ \A q \in 1 .. j - 1 : df[q].season # df[j].season
  BY <1>8, <1>9
<1> HIDE DEF i, j, z
<1>12. i \in 1 .. Len(whole) /\ j \in 1 .. Len(whole) /\ i <= j /\ j <= n
       /\ i \in 1 .. n /\ j \in 1 .. n /\ i \in 1 .. j - 1
  BY <1>4, <1>5, <1>10
<1>13. whole[i] = df[i] /\ whole[j] = df[j] /\ whole[i].season # whole[j].season
  BY <1>4, <1>11, <1>12
<1>14. InOrder(order, frames, whole, ends, i, j)
  BY <1>3, <1>5, <1>12, RowsInOrder
<1>15. PICK f \in 1 .. Len(frames) :
         whole[i].season = SeasonOf(order[f]) /\ ends[f] < j /\ ends[f] \in Nat
  BY <1>13, <1>14 DEF InOrder
<1>16. Masked(df, [q \in DOMAIN df |-> df[q].season = SeasonOf(order[f])]) = frames[f]
  <2>1. ends[f] <= n
    BY <1>4, <1>12, <1>15
  <2> QED
    BY <1>2, <2>1 DEF SeasonsOfPart
<1>17. SeasonRows(df)[Seasons(df)[k]] = frames[f]
  <2>1. i \in DOMAIN df
    BY <1>4, <1>10
  <2> QED
    BY <1>11, <1>13, <1>15, <1>16, <2>1, SeasonOfMenu
<1>18. \E v \in Readable(order[f]) : frames[f] = Frame(order[f], v)
  BY <1>1, <1>5 DEF FramesOfFiles
<1>19. order[f] \in Names
  <2>1. PICK S \in SUBSET Names : order \in Listings(S)
    BY <1>1 DEF FramesOfFiles
  <2>2. order \in Seq(S) /\ Len(frames) <= Len(order)
    BY <1>1, <2>1, ListingType DEF FramesOfFiles
  <2> QED
    BY <1>5, <2>2
<1> QED
  BY <1>17, <1>18, <1>19 DEF IsWhole

(***************************************************************************)
(* In an import of files that were listed from the oldest to the newest,   *)
(* the last entry of the menu is the newest.                               *)
(***************************************************************************)
LEMMA LastSeasonIsNewest ==
  ASSUME NEW df \in OrderedImports, NEW k \in DOMAIN Seasons(df)
  PROVE  Seasons(df)[k][1] <= Seasons(df)[Len(Seasons(df))][1]
<1>1. PICK S \in SUBSET Names : \E o \in Listings(S) : OldestFirst(o) /\ df \in ImportsOf(o)
  BY DEF OrderedImports
<1>2. PICK order \in Listings(S) : OldestFirst(order) /\ df \in ImportsOf(order)
  BY <1>1
<1>3. PICK frames : FramesOfFiles(order, frames) /\ df = Concat(frames)
  BY <1>2, ImportIsConcat
<1>4. df \in Seq(AllRows) /\ \E ends : SeasonBlocks(frames, Keys(order, frames), df, ends)
  BY <1>3, ConcatType
<1>5. PICK ends : SeasonBlocks(frames, Keys(order, frames), df, ends)
  BY <1>4
<1>6. Len(df) \in Nat /\ Len(frames) \in Nat /\ DOMAIN frames = 1 .. Len(frames)
  <2>1. frames \in Seq(Seq(AllRows))
    BY <1>3 DEF FramesOfFiles
  <2>2. Len(frames) \in Nat /\ DOMAIN frames = 1 .. Len(frames)
    BY <2>1
  <2> QED
    BY <1>4, <2>2, LenIsNat
<1>7. \A f \in 1 .. Len(frames) : f \in DOMAIN order /\ order[f] \in Names
  <2>1. order \in Seq(S) /\ Len(frames) <= Len(order)
    BY <1>2, <1>3, ListingType DEF FramesOfFiles
  <2> QED
    BY <1>6, <2>1
<1>8. PICK p : MenuRows(df, p)
  BY <1>4, MenuHasRows
<1> DEFINE L == Len(Seasons(df))
<1>9. L \in Nat /\ k \in 1 .. L
  BY <1>4, MenuHasRows
<1>10. /\ p \in [1 .. L -> 1 .. Len(df)]
       /\ \A l \in 1 .. L : \A m \in 1 .. L : l < m => p[l] < p[m]
       /\ \A l \in 1 .. L : Seasons(df)[l] = df[p[l]].season
  BY <1>8 DEF MenuRows
<1> HIDE DEF L
<1>11. L \in 1 .. L /\ (k < L \/ k = L)
  BY <1>9
<1>12. p[k] \in 1 .. Len(df) /\ p[L] \in 1 .. Len(df) /\ p[k] <= p[L]
  BY <1>9, <1>10, <1>11
<1>13. InOrder(order, frames, df, ends, p[k], p[L])
  BY <1>5, <1>6, <1>12, RowsInOrder
<1>14. PICK f \in 1 .. Len(frames), g \in 1 .. Len(frames) :
         /\ f <= g /\ df[p[k]].season = SeasonOf(order[f])
         /\ df[p[L]].season = SeasonOf(order[g])
  BY <1>13 DEF InOrder
<1>15. Seasons(df)[k][1] = order[f][2] /\ Seasons(df)[L][1] = order[g][2]
  BY <1>9, <1>10, <1>11, <1>14 DEF SeasonOf
<1>16. order[f][2] <= order[g][2]
  <2>1. order[f][2] \in Nat
    BY <1>7, NameAssumption
  <2>2. CASE f = g
    BY <2>1, <2>2
  <2>3. CASE f < g
    <3>1. order[f][2] < order[g][2] /\ order[g][2] \in Nat
      BY <1>2, <1>7, <2>3, NameAssumption DEF OldestFirst
    <3> QED
      BY <2>1, <3>1
  <2> QED
    BY <1>14, <2>2, <2>3
<1> QED
  BY <1>15, <1>16 DEF L

-----------------------------------------------------------------------------
(***************************************************************************)
(* The page.                                                               *)
(***************************************************************************)
\* The season menu at rest is that of the file, if there is one.
LEMMA SeasonMenuAtRest ==
  ASSUME TypeInv, RestingPageIsCurrent, AtRest, NEW menu \in SeasonMenus
  PROVE  menu = SeasonMenu(all_df) /\ all_df # EmptyFile
<1> DEFINE df == all_df
           choice == Selected(store, PageMenu)
           data == Data(df, store)
<1>1. display.sidebar = SidebarOf(df, store)
  BY DEF RestingPageIsCurrent
<1>2. choice \in {"league_tables", "results_matrix", "head_to_head"}
  BY PageSelected DEF TypeInv, Inv, ValuesOK
<1>3. menu \in ToSet(SidebarOf(df, store)) /\ menu.label = "season"
  BY <1>1 DEF SeasonMenus
<1>4. df # EmptyFile
  <2> SUFFICES ASSUME df = EmptyFile  PROVE FALSE
    OBVIOUS
  <2>1. SidebarOf(df, store) = << >>
    BY PagesEnd
  <2> QED
    BY <1>3, <2>1 DEF ToSet
<1>5. \/ SidebarOf(df, store) = <<PageMenu, SeasonMenu(df)>>
      \/ SidebarOf(df, store) = <<PageMenu, SeasonMenu(df), TableMenu>>
      \/ SidebarOf(df, store) = <<PageMenu, SeasonMenu(df), HomeMenu, AwayMenu>>
  <2>1. CASE data = << >> \/ MatrixRaises(data)
    BY <1>4, <2>1, PagesEnd
  <2>2. CASE data # << >> /\ ~MatrixRaises(data)
    <3>1. CASE choice = "league_tables"
      BY <1>4, <2>2, <3>1, PagesEnd
    <3>2. CASE choice = "results_matrix"
      BY <1>4, <2>2, <3>2, PagesEnd
    <3>3. CASE choice = "head_to_head"
      BY <1>4, <2>2, <3>3, PagesEnd
    <3> QED
      BY <1>2, <3>1, <3>2, <3>3
  <2> QED
    BY <2>1, <2>2
<1>6. menu \in {PageMenu, SeasonMenu(df), TableMenu, HomeMenu, AwayMenu}
  BY <1>3, <1>5, TuplesToSet
<1>7. /\ PageMenu.label = "page" /\ TableMenu.label = "table"
      /\ HomeMenu.label = "home_team" /\ AwayMenu.label = "away_team"
  BY DEF PageMenu, TableMenu, HomeMenu, AwayMenu, Selectbox
<1> QED
  BY <1>3, <1>4, <1>6, <1>7

\* Whatever the page makes a table, a matrix or statistics of is the selected
\* season.
LEMMA DataAtRest ==
  ASSUME TypeInv, RestingPageIsCurrent, AtRest, NEW i \in DOMAIN display.main,
         display.main[i].kind \in {"calc_main_tables", "get_result_matrix", "calc_team_stats"}
  PROVE  display.main[i].data = Data(all_df, store)
<1> DEFINE df == all_df
           choice == Selected(store, PageMenu)
           data == Data(df, store)
           e == display.main[i]
<1>1. display.main = MainOf(df, store)
  BY DEF RestingPageIsCurrent
<1>2. choice \in {"league_tables", "results_matrix", "head_to_head"}
  BY PageSelected DEF TypeInv, Inv, ValuesOK
<1>3. \A name : ErrorElement(name).kind = "exception"
  BY DEF ErrorElement, Element
<1>4. ASSUME NEW name, MainOf(df, store) = <<ErrorElement(name)>>  PROVE FALSE
  <2>1. i = 1 /\ e = ErrorElement(name)
    BY <1>1, <1>4
  <2> QED
    BY <1>3, <2>1
<1>5. df # EmptyFile /\ data # << >> /\ ~MatrixRaises(data)
  <2>1. df = EmptyFile => MainOf(df, store) = <<ErrorElement("EmptyDataError")>>
    BY PagesEnd
  <2>2. df # EmptyFile /\ data = << >> => MainOf(df, store) = <<ErrorElement("KeyError")>>
    BY PagesEnd
  <2>3. df # EmptyFile /\ MatrixRaises(data) => MainOf(df, store) = <<ErrorElement("IndexError")>>
    BY PagesEnd
  <2> QED
    BY <1>3, <1>4, <2>1, <2>2, <2>3
<1>6. CASE choice = "league_tables"
  <2>1. MainOf(df, store) = <<TableElement(data, Selected(store, TableMenu))>>
    BY <1>5, <1>6, PagesEnd
  <2> QED
    BY <1>1, <2>1 DEF TableElement, Element
<1>7. CASE choice = "results_matrix"
  <2>1. MainOf(df, store) = <<MatrixElement(data)>>
    BY <1>5, <1>7, PagesEnd
  <2>2. e = MatrixElement(data)
    BY <1>1, <2>1
  <2>3. MatrixElement(data).data = data
    BY DEF MatrixElement, Element
  <2> QED
    BY <2>2, <2>3
<1>8. CASE choice = "head_to_head"
  <2>1. MainOf(df, store)
          = ColumnsOf(data, Selected(store, HomeMenu), Selected(store, AwayMenu))
    BY <1>5, <1>8, PagesEnd
  <2>2. \E name : e \in {HeaderElement(name), StatsElement(data, name), ErrorElement(name)}
    BY <1>1, <2>1 DEF ColumnsOf
  <2>3. \A name : HeaderElement(name).kind = "header" /\ StatsElement(data, name).data = data
    BY DEF HeaderElement, StatsElement, Element
  <2> QED
    BY <1>3, <2>2, <2>3
<1> QED
  BY <1>2, <1>6, <1>7, <1>8

(***************************************************************************)
(* Whatever the importer was doing when bet_data.csv was copied: a page at *)
(* rest that shows a table, a matrix or a team of a season followed by two *)
(* others in the menu shows all of that season, as some download had it.   *)
(***************************************************************************)
THEOREM OlderSeasonsWhole == Spec => []OlderSeasonsAreWhole
<1>1. TypeInv /\ RestingPageIsCurrent => OlderSeasonsAreWhole
  <2> SUFFICES ASSUME TypeInv, RestingPageIsCurrent, AtRest, NEW menu \in SeasonMenus,
                      (IF menu \in DOMAIN store THEN store[menu] ELSE menu.index)
                        < Len(menu.options) - 1,
                      NEW i \in DOMAIN display.main,
                      display.main[i].kind \in {"calc_main_tables", "get_result_matrix", "calc_team_stats"}
               PROVE  IsWhole(display.main[i].data)
    BY DEF OlderSeasonsAreWhole
  <2> DEFINE s == Seasons(all_df)
  <2>1. menu = SeasonMenu(all_df) /\ all_df # EmptyFile /\ menu.options = s /\ menu.index = Len(s)
    BY SeasonMenuAtRest DEF SeasonMenu, Selectbox
  <2>2. all_df \in Contents
    BY <2>1, FilesAssumption DEF TypeInv, FilesOK
  <2>3. Len(s) \in Nat /\ DOMAIN s = 1 .. Len(s)
    BY <2>1, FramesAreSeqs, MenuHasRows DEF TypeInv
  <2>4. all_df # << >> \/ s = << >>
    <3> SUFFICES ASSUME all_df = << >>  PROVE s = << >>
      OBVIOUS
    <3>1. << >> \in Seq({}) /\ Len(<< >>) = 0
      OBVIOUS
    <3>2. PICK p : MenuRows(<< >>, p)
      BY <3>1, MenuHasRows
    <3>3. p \in [1 .. Len(s) -> 1 .. 0]
      BY <3>1, <3>2 DEF MenuRows
    <3>4. Len(s) = 0
      <4>1. 1 \notin 1 .. Len(s)
        <5> HIDE DEF s
        <5> SUFFICES ASSUME 1 \in 1 .. Len(s)  PROVE FALSE
          OBVIOUS
        <5>1. p[1] \in 1 .. 0
          BY <3>3
        <5> QED
          BY <5>1
      <4> HIDE DEF s
      <4> QED
        BY <2>3, <4>1
    <3>5. IsSeq(s)
      BY <3>1, SeasonsInOrder
    <3> QED
      BY <3>4, <3>5 DEF IsSeq
  <2> HIDE DEF s
  <2>5. menu \in DOMAIN store /\ store[menu] < Len(s) - 1
    BY <2>1, <2>3
  <2>6. store[menu] \in 1 .. Len(s)
    BY <2>1, <2>3, <2>5 DEF TypeInv, Inv, ValuesOK
  <2>7. Data(all_df, store) = SeasonRows(all_df)[s[store[menu]]]
    <3>1. s # << >>
      BY <2>3, <2>6
    <3> QED
      BY <2>1, <2>4, <2>5, <3>1 DEF Data, Selected
  <2>8. IsWhole(SeasonRows(all_df)[s[store[menu]]])
    BY <2>2, <2>5, <2>6, OlderSeasonIsWhole DEF s
  <2> QED
    BY <2>7, <2>8, DataAtRest
<1> QED
  BY <1>1, TypeInvariant, RestingPage, PTL

(***************************************************************************)
(* "index=len(season_menu) - 1" (pl_app.py:52) is the newest season on     *)
(* every page that is made from an import of files listed in order.        *)
(***************************************************************************)
THEOREM NewestIsDefault == Spec => []NewestSeasonByDefault
<1>1. TypeInv /\ RestingPageIsCurrent => NewestSeasonByDefault
  <2> SUFFICES ASSUME TypeInv, RestingPageIsCurrent, AtRest, all_df \in OrderedImports,
                      NEW menu \in SeasonMenus, NEW i \in DOMAIN menu.options
               PROVE  menu.options[i][1] <= menu.options[menu.index][1]
    BY DEF NewestSeasonByDefault
  <2>1. menu.options = Seasons(all_df) /\ menu.index = Len(Seasons(all_df))
    BY SeasonMenuAtRest DEF SeasonMenu, Selectbox
  <2> QED
    BY <2>1, LastSeasonIsNewest
<1> QED
  BY <1>1, TypeInvariant, RestingPage, PTL
=============================================================================
