----------------------------- MODULE SeasonFiles -----------------------------
(***************************************************************************)
(* The season files of data/bet and what bet_data.csv can hold when it is  *)
(* made from them, as the importer promises it to whoever reads the file.  *)
(***************************************************************************)
EXTENDS CsvFiles, DataFrame, SequencesExt

\* Downloads[name] are the successive contents of a season file, EmptyFile for
\* a download that came out empty.
CONSTANT Downloads

Names == DOMAIN Downloads

Versions == UNION {Range(Downloads[name]) : name \in Names}

ASSUME DownloadsAssumption ==
  /\ IsFiniteSet(Names) /\ Downloads \in [Names -> Seq(Versions) \ {<< >>}]
  /\ \A version \in Versions \ {EmptyFile} : version \in Seq(Range(version))

\* A name is its first three characters, two years and the rest.
ASSUME NameAssumption ==
  \A name, other \in Names :
    /\ Len(name) = 4 /\ name[2] \in Nat /\ name[3] \in Nat
    /\ <<name[2], name[3]>> = <<other[2], other[3]>> => name = other

\* file_name[3:5] + "-" + file_name[5:7]
SeasonOf(name) == << name[2], name[3] >>

\* current_df["season"] = season
Tagged(rows, season) ==
  [i \in DOMAIN rows |-> [column \in {"season"} \cup DOMAIN rows[i] |->
                            IF column = "season" THEN season ELSE rows[i][column]]]

\* The downloads that read_csv can read.
Readable(name) == {v \in DOMAIN Downloads[name] : Downloads[name][v] # EmptyFile}

Frame(name, version) == Tagged(Downloads[name][version], SeasonOf(name))

\* Mutant: the rows keep their index within the file and are sorted by it.
ConcatByIndex(frames) ==
  LET longest == Max({Len(frames[f]) : f \in DOMAIN frames})
      having(i) == {f \in DOMAIN frames : i \in DOMAIN frames[f]}
  IN  FlattenSeq([i \in 1 .. longest |->
        LET order == SetToSortSeq(having(i), <)
        IN  [k \in DOMAIN order |-> frames[order[k]][i]]])

\* pd.concat(dfs, ignore_index=True)
Concat(frames) == FlattenSeq(frames)

\* glob lists the files in no particular order.
Listings(present) ==
  {order \in [1 .. Cardinality(present) -> present] : IsInjective(order)}

\* A row that is cut in or before its season column.
CutRows(row) == {[row EXCEPT !.season = cut] : cut \in {<< >>, << row.season[1] >>}}

\* A file that ends after n of its rows, or in the row after them.
CutAfter(rows, n) ==
  {SubSeq(rows, 1, n)} \cup {Append(SubSeq(rows, 1, n), row) : row \in CutRows(rows[n + 1])}

-----------------------------------------------------------------------------
(***************************************************************************)
(* Every file that can come out of an import, whichever files it found, in *)
(* whichever order, in whichever download.                                 *)
(***************************************************************************)
ImportsOf(order) ==
  LET versions == {v \in [DOMAIN order -> UNION {Readable(name) : name \in Names}] :
                     \A f \in DOMAIN order : v[f] \in Readable(order[f])}
  IN  {Concat([f \in DOMAIN order |-> Frame(order[f], v[f])]) : v \in versions}

Imports == UNION {ImportsOf(order) :
                    order \in UNION {Listings(S) : S \in (SUBSET Names) \ {{}}}}

\* What is in the file while it is written, afterwards, and for ever when the
\* writer was killed.
Contents ==
  Imports \cup UNION {UNION {CutAfter(rows, n) : n \in 0 .. Len(rows) - 1} : rows \in Imports}
=============================================================================
