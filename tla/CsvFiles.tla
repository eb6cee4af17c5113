------------------------------- MODULE CsvFiles -------------------------------
(***************************************************************************)
(* Csv files, as read_csv sees them: the rows under the header, or a file  *)
(* without a single line, not even the header, which it cannot read.  A    *)
(* file that only has its header is one without rows, << >>.               *)
(***************************************************************************)

\* Reading it is an EmptyDataError.
CONSTANT EmptyFile
=============================================================================
