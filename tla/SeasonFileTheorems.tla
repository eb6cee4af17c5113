-------------------------- MODULE SeasonFileTheorems --------------------------
(***************************************************************************)
(* Lemmas about season files, the frames made from them and the parts of   *)
(* their concatenation that readers of bet_data.csv can find, for every    *)
(* set of season files.                                                    *)
(***************************************************************************)
EXTENDS SeasonFiles, DataFrameTheorems

\* All rows of all frames.
AllRows ==
  UNION {UNION {Range(Frame(name, v)) : v \in Readable(name)} : name \in Names}

-----------------------------------------------------------------------------
(***************************************************************************)
(* Frames and listings.                                                    *)
(***************************************************************************)
\* A frame has rows of its own season only.
LEMMA FrameType ==
  ASSUME NEW name \in Names, NEW v \in Readable(name)
  PROVE  /\ Frame(name, v) \in Seq(AllRows)
         /\ \A i \in 1 .. Len(Frame(name, v)) : Frame(name, v)[i].season = SeasonOf(name)
         /\ \A row \in Range(Frame(name, v)) : "season" \in DOMAIN row
<1> DEFINE rows == Downloads[name][v]
           frame == Frame(name, v)
<1>1. rows \in Versions /\ rows # EmptyFile
  <2>1. rows \in Range(Downloads[name]) /\ rows # EmptyFile
    BY DEF Range, Readable
  <2> QED
    BY <2>1 DEF Versions
<1>2. rows \in Seq(Range(rows))
  BY <1>1, DownloadsAssumption
<1>3. DOMAIN rows = 1 .. Len(rows) /\ Len(rows) \in Nat
  BY <1>2
<1>4. DOMAIN frame = 1 .. Len(rows) /\ frame = [i \in 1 .. Len(rows) |-> frame[i]]
  BY <1>3 DEF Frame, Tagged
<1>5. ASSUME NEW i \in 1 .. Len(rows)
      PROVE  /\ frame[i].season = SeasonOf(name) /\ "season" \in DOMAIN frame[i]
             /\ frame[i] \in AllRows
  <2>1. frame[i] = [column \in {"season"} \cup DOMAIN rows[i] |->
                      IF column = "season" THEN SeasonOf(name) ELSE rows[i][column]]
    BY <1>3 DEF Frame, Tagged
  <2>2. frame[i] \in Range(frame)
    BY <1>4 DEF Range
  <2>3. frame[i] \in AllRows
    BY <2>2 DEF AllRows
  <2> HIDE DEF frame
  <2> QED
    BY <2>1, <2>3
<1> HIDE DEF frame, rows
<1>6. frame \in Seq(AllRows) /\ Len(frame) = Len(rows)
  BY <1>3, <1>4, <1>5
<1>7. \A row \in Range(frame) : "season" \in DOMAIN row
  BY <1>4, <1>5 DEF Range
<1> QED
  BY <1>5, <1>6, <1>7 DEF frame, rows

LostRows == UNION {CutRows(row) : row \in AllRows}

\* What is left of the season of a cut row is no season of any file.
LEMMA CutRowLosesSeason ==
  ASSUME NEW row \in AllRows, NEW cut \in CutRows(row), NEW name
  PROVE  cut.season # SeasonOf(name)
<1>1. PICK file \in Names :
        \E v \in Readable(file) : row \in Range(Frame(file, v))
  BY DEF AllRows
<1>2. "season" \in DOMAIN row
  BY <1>1, FrameType
<1>3. PICK rest \in {<< >>, << row.season[1] >>} : cut = [row EXCEPT !.season = rest]
  BY DEF CutRows
<1>4. cut.season = rest
  BY <1>2, <1>3
<1>5. rest # SeasonOf(name)
  <2>1. Len(rest) \in {0, 1}
    BY <1>3
  <2>2. Len(SeasonOf(name)) = 2
    BY DEF SeasonOf
  <2> QED
    BY <2>1, <2>2
<1> QED
  BY <1>4, <1>5

\* A listing is a sequence of all files it lists, each once.
LEMMA ListingType ==
  ASSUME NEW S \in SUBSET Names, NEW order \in Listings(S)
  PROVE  /\ order \in Seq(S) /\ DOMAIN order = 1 .. Cardinality(S)
         /\ Len(order) = Cardinality(S)
         /\ S = {} => order = << >>
         /\ \A f, g \in DOMAIN order : order[f] = order[g] => f = g
         /\ \A name \in S : \E f \in DOMAIN order : order[f] = name
<1>1. IsFiniteSet(S)
  BY DownloadsAssumption, FS_Subset
<1>2. Cardinality(S) \in Nat /\ (S = {} => Cardinality(S) = 0)
  BY <1>1, FS_CardinalityType, FS_EmptySet
<1>3. order \in [1 .. Cardinality(S) -> S] /\ IsInjective(order)
  BY DEF Listings
<1>4. order \in Surjection(1 .. Cardinality(S), S)
  <2>1. order \in Injection(1 .. Cardinality(S), S)
    BY <1>3 DEF Injection
  <2>2. Cardinality(1 .. Cardinality(S)) = Cardinality(S)
    <3>1. 1 \in Int /\ Cardinality(S) \in Int
      BY <1>2
    <3>2. Cardinality(1 .. Cardinality(S))
            = IF 1 > Cardinality(S) THEN 0 ELSE Cardinality(S) - 1 + 1
      BY <3>1, FS_Interval
    <3> QED
      BY <1>2, <3>2
  <2> QED
    BY <1>1, <2>1, <2>2, FS_Injection
<1>5. \A name \in S : \E f \in DOMAIN order : order[f] = name
  BY <1>3, <1>4 DEF Surjection
<1> QED
  BY <1>2, <1>3, <1>5 DEF IsInjective

\* Two files have two seasons.
LEMMA SeasonsDiffer ==
  ASSUME NEW name \in Names, NEW other \in Names, SeasonOf(name) = SeasonOf(other)
  PROVE  name = other
BY NameAssumption DEF SeasonOf

-----------------------------------------------------------------------------
(***************************************************************************)
(* Concatenations of frames, and parts of them.                            *)
(***************************************************************************)
\* One frame for each of some files, in the order of a listing.
FramesOfFiles(order, frames) ==
  /\ \E S \in SUBSET Names : order \in Listings(S)
  /\ frames \in Seq(Seq(AllRows)) /\ Len(frames) <= Len(order)
  /\ \A f \in DOMAIN frames :
       \E v \in Readable(order[f]) : frames[f] = Frame(order[f], v)

Keys(order, frames) == [f \in 1 .. Len(frames) |-> SeasonOf(order[f])]

\* The first n rows, and perhaps one more that has lost its season.
IsPart(rows, n, csv) ==
  /\ csv \in Seq(AllRows \cup LostRows) /\ n \in Nat /\ n <= Len(rows)
  /\ \A i \in 1 .. n : csv[i] = rows[i]
  /\ \/ Len(csv) = n
     \/ Len(csv) = n + 1 /\ \A name \in Names : csv[n + 1].season # SeasonOf(name)

\* A file that is cut is such a part,
LEMMA CutIsPart ==
  ASSUME NEW rows \in Seq(AllRows), NEW n \in 0 .. Len(rows) - 1, NEW csv \in CutAfter(rows, n)
  PROVE  IsPart(rows, n, csv)
<1>1. n \in Nat /\ n <= Len(rows) /\ n + 1 \in 1 .. Len(rows) /\ rows[n + 1] \in AllRows
  OBVIOUS
<1> DEFINE part == SubSeq(rows, 1, n)
<1>2. part \in Seq(AllRows) /\ Len(part) = n /\ \A i \in 1 .. n : part[i] = rows[i]
  BY <1>1
<1> HIDE DEF part
<1>3. CASE csv = part
  BY <1>1, <1>2, <1>3 DEF IsPart
<1>4. ASSUME NEW cut \in CutRows(rows[n + 1]), csv = Append(part, cut)
      PROVE  IsPart(rows, n, csv)
  <2>1. cut \in LostRows /\ \A name \in Names : cut.season # SeasonOf(name)
    BY <1>1, CutRowLosesSeason DEF LostRows
  <2>2. part \in Seq(AllRows \cup LostRows)
    BY <1>2
  <2>3. /\ csv \in Seq(AllRows \cup LostRows) /\ Len(csv) = n + 1 /\ csv[n + 1] = cut
        /\ \A i \in 1 .. n : csv[i] = rows[i]
    BY <1>1, <1>2, <1>4, <2>1, <2>2
  <2> QED
    BY <1>1, <2>1, <2>3 DEF IsPart
<1> QED
  BY <1>3, <1>4 DEF CutAfter, part

\* and so is one that is not.
LEMMA WholeIsPart ==
  ASSUME NEW rows \in Seq(AllRows)
  PROVE  IsPart(rows, Len(rows), rows)
BY DEF IsPart

\* An import is the concatenation of a frame for each of its files.
LEMMA ImportIsConcat ==
  ASSUME NEW S \in SUBSET Names, NEW order \in Listings(S), NEW rows \in ImportsOf(order)
  PROVE  \E frames : FramesOfFiles(order, frames) /\ rows = Concat(frames)
<1>1. PICK v : /\ \A f \in DOMAIN order : v[f] \in Readable(order[f])
               /\ rows = Concat([f \in DOMAIN order |-> Frame(order[f], v[f])])
  BY DEF ImportsOf
<1> DEFINE frames == [f \in DOMAIN order |-> Frame(order[f], v[f])]
<1>2. /\ DOMAIN order = 1 .. Cardinality(S) /\ Len(order) = Cardinality(S)
      /\ \A f \in DOMAIN order : order[f] \in Names
  <2>1. order \in Seq(S)
    BY ListingType
  <2> QED
    BY <2>1, ListingType
<1>3. Cardinality(S) \in Nat
  BY DownloadsAssumption, FS_Subset, FS_CardinalityType
<1>4. ASSUME NEW f \in DOMAIN order
      PROVE  /\ v[f] \in Readable(order[f]) /\ frames[f] = Frame(order[f], v[f])
             /\ frames[f] \in Seq(AllRows)
  <2>1. v[f] \in Readable(order[f])
    BY <1>1
  <2>2. Frame(order[f], v[f]) \in Seq(AllRows)
    BY <1>2, <2>1, FrameType
  <2> QED
    BY <2>1, <2>2
<1>5. frames = [f \in 1 .. Cardinality(S) |-> frames[f]]
  BY <1>2
<1> HIDE DEF frames
<1>6. frames \in Seq(Seq(AllRows)) /\ Len(frames) = Cardinality(S) /\ DOMAIN frames = DOMAIN order
  BY <1>2, <1>3, <1>4, <1>5
<1>7. FramesOfFiles(order, frames)
  <2>1. Len(frames) <= Len(order)
    BY <1>2, <1>3, <1>6
  <2>2. \A f \in DOMAIN frames :
          \E u \in Readable(order[f]) : frames[f] = Frame(order[f], u)
    BY <1>4, <1>6
  <2> QED
    BY <1>6, <2>1, <2>2 DEF FramesOfFiles
<1> QED
  BY <1>1, <1>7 DEF frames

\* What readers find is a part of the frames of some files.
LEMMA ContentIsPart ==
  ASSUME NEW csv \in Contents
  PROVE  \E order, frames, n : FramesOfFiles(order, frames) /\ IsPart(Concat(frames), n, csv)
<1>1. ASSUME NEW rows \in Imports
      PROVE  \E order, frames : /\ FramesOfFiles(order, frames) /\ rows = Concat(frames)
                                /\ rows \in Seq(AllRows)
  <2>1. PICK S \in SUBSET Names : \E order \in Listings(S) : rows \in ImportsOf(order)
    BY DEF Imports
  <2>2. PICK order \in Listings(S) : rows \in ImportsOf(order)
    BY <2>1
  <2>3. PICK frames : FramesOfFiles(order, frames) /\ rows = Concat(frames)
    BY <2>2, ImportIsConcat
  <2>4. frames \in Seq(Seq(AllRows))
    BY <2>3 DEF FramesOfFiles
  <2>5. rows \in Seq(AllRows)
    BY <2>3, <2>4, FlattenBlocks DEF Concat
  <2> QED
    BY <2>3, <2>5
<1>2. CASE csv \in Imports
  <2>1. PICK order, frames : FramesOfFiles(order, frames) /\ csv = Concat(frames)
                             /\ csv \in Seq(AllRows)
    BY <1>1, <1>2
  <2>2. IsPart(csv, Len(csv), csv)
    BY <2>1, WholeIsPart
  <2> QED
    BY <2>1, <2>2
<1>3. ASSUME NEW rows \in Imports, NEW n \in 0 .. Len(rows) - 1, csv \in CutAfter(rows, n)
      PROVE  \E order, frames, k :
               FramesOfFiles(order, frames) /\ IsPart(Concat(frames), k, csv)
  <2>1. PICK order, frames : FramesOfFiles(order, frames) /\ rows = Concat(frames)
                             /\ rows \in Seq(AllRows)
    BY <1>1
  <2>2. IsPart(rows, n, csv)
    BY <1>3, <2>1, CutIsPart
  <2> QED
    BY <2>1, <2>2
<1> QED
  BY <1>2, <1>3 DEF Contents

\* The concatenation has the rows of each file in one block.
LEMMA ConcatType ==
  ASSUME NEW order, NEW frames, FramesOfFiles(order, frames)
  PROVE  /\ Concat(frames) \in Seq(AllRows)
         /\ \E ends : SeasonBlocks(frames, Keys(order, frames), Concat(frames), ends)
<1> DEFINE key == Keys(order, frames)
<1>1. frames \in Seq(Seq(AllRows)) /\ DOMAIN frames = 1 .. Len(frames) /\ Len(frames) \in Nat
  <2>1. frames \in Seq(Seq(AllRows))
    BY DEF FramesOfFiles
  <2> QED
    BY <2>1
<1>2. PICK S \in SUBSET Names : order \in Listings(S)
  BY DEF FramesOfFiles
<1>3. \A f \in 1 .. Len(frames) : f \in DOMAIN order /\ order[f] \in Names
  <2>1. order \in Seq(S) /\ Len(frames) <= Len(order)
    BY <1>2, ListingType DEF FramesOfFiles
  <2> QED
    BY <1>1, <2>1
<1>4. ASSUME NEW f \in 1 .. Len(frames), NEW k \in 1 .. Len(frames[f])
      PROVE  frames[f][k].season = key[f]
  <2>1. PICK v \in Readable(order[f]) : frames[f] = Frame(order[f], v)
    BY <1>1 DEF FramesOfFiles
  <2>2. frames[f][k].season = SeasonOf(order[f])
    BY <1>3, <2>1, FrameType
  <2> QED
    BY <2>2 DEF Keys
<1>5. ASSUME NEW f \in 1 .. Len(frames), NEW g \in 1 .. Len(frames), key[f] = key[g]
      PROVE  f = g
  <2>1. SeasonOf(order[f]) = SeasonOf(order[g])
    BY <1>5 DEF Keys
  <2>2. order[f] = order[g]
    BY <1>3, <2>1, SeasonsDiffer
  <2> QED
    BY <1>2, <1>3, <2>2, ListingType
<1> HIDE DEF key
<1>6. /\ FlattenSeq(frames) \in Seq(AllRows)
      /\ \E ends : SeasonBlocks(frames, key, FlattenSeq(frames), ends)
  BY <1>1, <1>4, <1>5, SeasonsOfConcat, Zenon
<1> QED
  BY <1>6 DEF Concat, key

(***************************************************************************)
(* In a part, the season of each frame that ends before row n is whole and *)
(* that of each frame that begins after it is missing.                     *)
(***************************************************************************)
SeasonsOfPart(order, frames, n, csv, ends) ==
  /\ SeasonBlocks(frames, Keys(order, frames), Concat(frames), ends)
  /\ \A f \in 1 .. Len(frames) :
       LET found == Masked(csv, [i \in DOMAIN csv |-> csv[i].season = SeasonOf(order[f])])
       IN  /\ ends[f] <= n => found = frames[f]
           /\ n <= ends[f - 1] => found = << >>

\* Every part has its seasons so.
LEMMA PartSeasons ==
  ASSUME NEW order, NEW frames, FramesOfFiles(order, frames), NEW n, NEW csv,
         IsPart(Concat(frames), n, csv)
  PROVE  \E ends : SeasonsOfPart(order, frames, n, csv, ends)
<1> DEFINE D == AllRows \cup LostRows
           rows == Concat(frames)
<1>1. frames \in Seq(Seq(AllRows)) /\ Len(frames) \in Nat
      /\ \A f \in 1 .. Len(frames) : frames[f] \in Seq(AllRows)
  <2>1. frames \in Seq(Seq(AllRows))
    BY DEF FramesOfFiles
  <2> QED
    BY <2>1
<1>2. rows \in Seq(AllRows) /\ csv \in Seq(D) /\ n \in Nat
  BY ConcatType DEF IsPart
<1>3. PICK ends : SeasonBlocks(frames, Keys(order, frames), rows, ends)
  BY ConcatType
<1>4. ASSUME NEW f \in 1 .. Len(frames)
      PROVE  LET found == Masked(csv, [i \in DOMAIN csv |-> csv[i].season = SeasonOf(order[f])])
             IN  /\ ends[f] <= n => found = frames[f]
                 /\ n <= ends[f - 1] => found = << >>
  <2> DEFINE season == Keys(order, frames)[f]
             frame == frames[f]
             mask == [i \in DOMAIN csv |-> csv[i].season = SeasonOf(order[f])]
             a == ends[f - 1]
             b == ends[f]
  <2>1. season = SeasonOf(order[f]) /\ order[f] \in Names
    <3>1. PICK S \in SUBSET Names : order \in Listings(S)
      BY DEF FramesOfFiles
    <3>2. order \in Seq(S) /\ Len(frames) <= Len(order)
      BY <3>1, ListingType DEF FramesOfFiles
    <3> QED
      BY <1>1, <3>2 DEF Keys
  <2>2. f \in 0 .. Len(frames) /\ f - 1 \in 0 .. Len(frames)
        /\ Len(frames) \in 0 .. Len(frames) /\ f <= Len(frames)
    BY <1>1
  <2>3. a \in Nat /\ b \in Nat /\ b = a + Len(frame) /\ b <= Len(rows)
    <3>1. a \in Nat /\ b \in Nat
      BY <1>3, <2>2, Zenon DEF SeasonBlocks
    <3>2. b = a + Len(frame)
      BY <1>3, Zenon DEF SeasonBlocks
    <3>3. ends[Len(frames)] = Len(rows)
          /\ \A i, j \in 0 .. Len(frames) : i <= j => ends[i] <= ends[j]
      BY <1>3 DEF SeasonBlocks
    <3>4. b <= ends[Len(frames)]
      BY <2>2, <3>3
    <3> QED
      BY <3>1, <3>2, <3>3, <3>4
  <2>4. frame \in Seq(D) /\ rows \in Seq(D)
    <3>1. frame \in Seq(AllRows)
      BY <1>1
    <3> HIDE DEF rows, frame
    <3> QED
      BY <1>2, <3>1
  <2>5. \A i \in 1 .. Len(csv) : mask[i] <=> csv[i].season = season
    <3>1. DOMAIN csv = 1 .. Len(csv)
      BY <1>2
    <3> QED
      BY <2>1, <3>1
  <2>6. /\ Len(csv) = n \/ (Len(csv) = n + 1 /\ csv[n + 1].season # season)
        /\ n <= Len(rows) /\ \A i \in 1 .. n : csv[i] = rows[i]
    BY <2>1 DEF IsPart
  <2>7. /\ \A k \in 1 .. Len(frame) : rows[a + k] = frame[k]
        /\ \A r \in 1 .. Len(rows) : rows[r].season = season <=> a < r /\ r <= b
    BY <1>3 DEF SeasonBlocks
  <2> HIDE DEF season, frame, mask, a, b, D, rows
  <2>8. CutSeason(rows, frame, a, b, season, csv, n, mask)
    BY <2>3, <2>5, <2>6, <2>7, Zenon DEF CutSeason
  <2>9. /\ b <= n => Masked(csv, mask) = frame
        /\ n <= a => Masked(csv, mask) = << >>
    BY <1>2, <2>3, <2>4, <2>8, SeasonsOfCut
  <2> QED
    BY <2>9 DEF a, b, frame, mask
<1> QED
  BY <1>3, <1>4 DEF SeasonsOfPart
=============================================================================
