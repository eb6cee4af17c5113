------------------------------ MODULE DataFrame ------------------------------
(***************************************************************************)
(* The part of pandas and numpy that data_proc.py computes with, modelled  *)
(* from how data_proc.py uses it.                                          *)
(*                                                                         *)
(* A DataFrame is a sequence of rows; a selection of rows (df[mask]) is a  *)
(* set of row positions; a numeric column is a function from positions to  *)
(* naturals.                                                               *)
(***************************************************************************)
EXTENDS Integers, Sequences, FiniteSets

\* df[mask]: the rows at which the mask, a column of booleans, is true.
Masked(df, mask) ==
  LET upTo[n \in 0 .. Len(df)] ==
        IF n = 0 THEN << >>
        ELSE IF mask[n] THEN Append(upTo[n - 1], df[n])
        ELSE upTo[n - 1]
  IN  upTo[Len(df)]

(***************************************************************************)
(* Series.sum() of column f over the rows S, as the number of units the    *)
(* rows contribute.  A sum over a set is usually written as a fold; this   *)
(* form says the same and lets proofs use the theorems on cardinality.     *)
(***************************************************************************)
Total(f, S) == Cardinality(UNION {{i} \X (1 .. f[i]) : i \in S})

(***************************************************************************)
(* A float64 is a fraction n/d of naturals.  d = 0 is what IEEE division   *)
(* yields without raising: NaN for n = 0 and inf otherwise.  NaN absorbs   *)
(* and inf * 0 is NaN, as in numpy.                                        *)
(***************************************************************************)
Float(n, d) == [n |-> n, d |-> d]
Int64(n) == Float(n, 1)

IsNumber(x) == x.d # 0
IsNaN(x)    == x.d = 0 /\ x.n = 0

AddF(x, y) == IF x.d = 0 /\ y.d = 0
                THEN Float(x.n * y.n, 0)
                ELSE Float(x.n * y.d + y.n * x.d, x.d * y.d)
MulF(x, y) == Float(x.n * y.n, x.d * y.d)
DivF(x, y) == Float(x.n * y.d, x.d * y.n)

\* Equality and order of two numbers (NaN compares false with everything).
EqF(x, y) == IsNumber(x) /\ IsNumber(y) /\ x.n * y.d = y.n * x.d
LeqF(x, y) == IsNumber(x) /\ IsNumber(y) /\ x.n * y.d <= y.n * x.d

\* Series.mean() over the rows S; NaN when no row is selected.
Mean(f, S) == Float(Total(f, S), Cardinality(S))
=============================================================================
