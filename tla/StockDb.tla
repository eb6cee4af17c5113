------------------------------- MODULE StockDb -------------------------------
(***************************************************************************)
(* stock_data.py, the schema of app.db, and the queries of stock_app.py on *)
(* it.  A database is a record of four tables: the two that fill menus are *)
(* sequences of rows, the others are sets.                                 *)
(***************************************************************************)
EXTENDS Integers, SequencesExt

CONSTANT NULL  \* a column without a value

\* Tables are finite and primary keys unique; foreign keys may be dangling or
\* NULL, since nothing in the schema or in SQLite's defaults forbids either,
\* and so may the value of a momentum.
IsDatabase(db) ==
  /\ db.stock_list \in Seq(ToSet(db.stock_list))
  /\ db.candle_patterns \in Seq(ToSet(db.candle_patterns))
  /\ IsFiniteSet(db.stock_prices) /\ IsFiniteSet(db.stock_momentums)
  /\ \A i, j \in DOMAIN db.stock_list :
       db.stock_list[i].stock_id = db.stock_list[j].stock_id => i = j
  /\ \A i, j \in DOMAIN db.candle_patterns :
       db.candle_patterns[i].pattern_id = db.candle_patterns[j].pattern_id => i = j
  /\ \A p, q \in db.stock_prices : p.price_id = q.price_id => p = q
  /\ \A m, n \in db.stock_momentums : m.momentum_id = n.momentum_id => m = n

-----------------------------------------------------------------------------
\* all_stocks.index, candle_patterns.index and top_patterns.index
StockIds(db)   == [i \in DOMAIN db.stock_list |-> db.stock_list[i].stock_id]
PatternIds(db) == [i \in DOMAIN db.candle_patterns |-> db.candle_patterns[i].pattern_id]
TopPatterns(db) == {p.pattern_id : p \in {q \in ToSet(db.candle_patterns) : q.is_top}}

\* all_stocks.loc[stock_id]
StockOf(db, stock_id) == CHOOSE s \in ToSet(db.stock_list) : s.stock_id = stock_id

\* StockList JOIN StockPrices JOIN StockMomentums JOIN CandlePatterns
Joined(db) ==
  {r \in [stock : ToSet(db.stock_list), price : db.stock_prices,
          momentum : db.stock_momentums, pattern : ToSet(db.candle_patterns)] :
     /\ r.price.stock_id = r.stock.stock_id
     /\ r.momentum.price_id = r.price.price_id
     /\ r.momentum.pattern_id = r.pattern.pattern_id}

\* get_page_data: one row per recognised pattern, in no particular order.
PageData(db, patterns, mark_date) ==
  {r \in Joined(db) : r.pattern.pattern_id \in patterns /\ r.price.date = mark_date}

\* Mutant: the range leaves out its ends.
GraphDataInside(db, stock, start_date, end_date) ==
  {p \in db.stock_prices : /\ p.stock_id = stock.stock_id
                           /\ start_date < p.date /\ p.date < end_date}

\* get_graph_data: stock.prices between two dates, both included.
GraphData(db, stock, start_date, end_date) ==
  {p \in db.stock_prices : /\ p.stock_id = stock.stock_id
                           /\ start_date <= p.date /\ p.date <= end_date}
=============================================================================
