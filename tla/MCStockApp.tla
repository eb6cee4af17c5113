----------------------------- MODULE MCStockApp -----------------------------
(***************************************************************************)
(* StockApp on an empty database, on one with two stocks, three patterns   *)
(* of which two are top patterns, and three days, and on a small one with  *)
(* values that the script does not expect.                                 *)
(***************************************************************************)
EXTENDS StockApp

Empty == [stock_list |-> << >>, stock_prices |-> {}, candle_patterns |-> << >>,
          stock_momentums |-> {}]

Price(id, stock, date) == [price_id |-> id, stock_id |-> stock, date |-> date]

Momentum(id, pattern, price, value) ==
  [momentum_id |-> id, pattern_id |-> pattern, price_id |-> price, value |-> value]

\* On day 2 the first stock shows a top pattern twice over, one of each
\* trend, and the second stock another pattern; on day 1 there is one more
\* top pattern.  Stock 3 was dropped from the list and price 9 is missing.
Filled ==
  [stock_list |-> << [stock_id |-> 1, code |-> <<"sh", "600000">>],
                     [stock_id |-> 2, code |-> <<"sz", "000001">>] >>,
   stock_prices |-> {Price(1, 1, 1), Price(2, 1, 2), Price(3, 2, 1), Price(4, 2, 2),
                     Price(5, 3, 2), Price(6, 1, 3)},
   candle_patterns |-> << [pattern_id |-> 1, is_top |-> FALSE],
                          [pattern_id |-> 2, is_top |-> TRUE],
                          [pattern_id |-> 3, is_top |-> TRUE] >>,
   stock_momentums |-> {Momentum(1, 2, 2, 100), Momentum(2, 3, 2, -100),
                        Momentum(3, 1, 4, 100), Momentum(4, 2, 3, -100),
                        Momentum(5, 2, 5, 100), Momentum(6, 3, 9, 100)}]

\* The only stock has a code without a dot, and two of its three recognitions
\* on day 2 are bearish and bullish; the other has no momentum.
Flawed ==
  [stock_list |-> << [stock_id |-> 1, code |-> <<"600000">>] >>,
   stock_prices |-> {Price(1, 1, 2)},
   candle_patterns |-> << [pattern_id |-> 1, is_top |-> TRUE] >>,
   stock_momentums |-> {Momentum(1, 1, 1, 100), Momentum(2, 1, 1, -100), Momentum(3, 1, 1, NULL)}]

MCDatabases == {Empty, Filled, Flawed}
=============================================================================
