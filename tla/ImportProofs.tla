----------------------------- MODULE ImportProofs -----------------------------
(***************************************************************************)
(* What the importer promises, for every set of season files and every     *)
(* history of downloads: whatever is in bet_data.csv is an import or the   *)
(* beginning of one, in which all seasons but one are whole or missing,    *)
(* and none is older than the listing.                                     *)
(*                                                                         *)
(* None of this is inductive: what is written next are the frames in dfs,  *)
(* so the invariant says which frames of which files they are.             *)
(***************************************************************************)
EXTENDS BetImport, SeasonFileTheorems

\* The downloads that the importer can have read since it listed the files.
ReadSince(name) ==
  {v \in listed[name] .. bet_dir[name] : v \in Readable(name)}

DirOK ==
  /\ bet_dir \in [Names -> Nat] /\ listed \in [Names -> Nat]
  /\ \A name \in Names : listed[name] <= bet_dir[name] /\ bet_dir[name] <= Len(Downloads[name])

\* An importer has read frames of the first of its files.
HasRead ==
  /\ step \in {"idle", "reading", "writing"}
  /\ files \in Seq(Names) /\ dfs \in Seq(Seq(AllRows)) /\ Len(dfs) <= Len(files)
  /\ \A f \in DOMAIN dfs : \E v \in ReadSince(files[f]) : dfs[f] = Frame(files[f], v)

\* While it runs, its files are those that were there when it began.
HasListed == step # "idle" => files \in Listings({name \in Names : listed[name] > 0})

\* It writes when it has read them all.
WritesAll ==
  step = "writing" =>
    /\ files # << >> /\ Len(dfs) = Len(files)
    /\ import = [from |-> listed, whole |-> FALSE]

ImportOK ==
  /\ import \in [from : [Names -> Nat], whole : BOOLEAN]
  /\ \A name \in Names : import.from[name] <= bet_dir[name]

ReadingOK == DirOK /\ HasRead /\ HasListed /\ WritesAll /\ ImportOK

Inv == ReadingOK /\ ContentIsPromised /\ ImportIsFresh /\ OneSeasonIsCutAtMost

-----------------------------------------------------------------------------
(***************************************************************************)
(* What is read and what is written.                                       *)
(***************************************************************************)
\* What the importer has read.
LEMMA FramesRead ==
  ASSUME ReadingOK, NEW f \in DOMAIN dfs
  PROVE  /\ files[f] \in Names /\ dfs[f] \in Seq(AllRows)
         /\ \A i \in 1 .. Len(dfs[f]) : dfs[f][i].season = SeasonOf(files[f])
         /\ \E v \in Readable(files[f]) :
              /\ dfs[f] = Frame(files[f], v)
              /\ v \in listed[files[f]] .. bet_dir[files[f]]
<1>1. /\ files \in Seq(Names) /\ dfs \in Seq(Seq(AllRows)) /\ Len(dfs) <= Len(files)
      /\ \E v \in ReadSince(files[f]) : dfs[f] = Frame(files[f], v)
  BY DEF ReadingOK, HasRead
<1>2. files[f] \in Names
  BY <1>1
<1> DEFINE name == files[f]
<1>3. PICK v \in ReadSince(name) : dfs[f] = Frame(name, v)
  BY <1>1
<1> HIDE DEF name
<1>4. name \in Names /\ v \in listed[name] .. bet_dir[name] /\ v \in Readable(name)
  BY <1>2, <1>3 DEF ReadSince, name
<1>5. /\ dfs[f] \in Seq(AllRows)
      /\ \A i \in 1 .. Len(dfs[f]) : dfs[f][i].season = SeasonOf(name)
  BY <1>3, <1>4, FrameType
<1> QED
  BY <1>3, <1>4, <1>5 DEF name

\* Frames of all listed files, one after the other, are an import.
LEMMA RowsAreAnImport ==
  ASSUME ReadingOK, step = "writing"  PROVE Rows \in Imports
<1> DEFINE S == {name \in Names : listed[name] > 0}
<1>1. S \in SUBSET Names /\ files \in Listings(S)
  BY DEF ReadingOK, HasListed
<1> HIDE DEF S
<1>2. /\ files \in Seq(S) /\ Len(files) = Len(dfs) /\ files # << >>
      /\ S # {} /\ DOMAIN dfs = DOMAIN files /\ DOMAIN files = 1 .. Len(dfs)
  <2>1. files \in Seq(S) /\ Len(files) = Len(dfs) /\ files # << >> /\ S # {}
    BY <1>1, ListingType DEF ReadingOK, WritesAll
  <2>2. dfs \in Seq(Seq(AllRows))
    BY DEF ReadingOK, HasRead
  <2> QED
    BY <2>1, <2>2
<1> DEFINE version == [f \in DOMAIN files |->
                         CHOOSE v \in Readable(files[f]) : dfs[f] = Frame(files[f], v)]
<1>3. ASSUME NEW f \in DOMAIN files
      PROVE  /\ version[f] \in Readable(files[f]) /\ dfs[f] = Frame(files[f], version[f])
             /\ files[f] \in Names
  <2>1. files[f] \in Names /\ \E v \in Readable(files[f]) : dfs[f] = Frame(files[f], v)
    BY <1>2, FramesRead
  <2> QED
    BY <2>1
<1>4. version \in [DOMAIN files -> UNION {Readable(name) : name \in Names}]
  <2>1. \A f \in DOMAIN files : version[f] \in UNION {Readable(name) : name \in Names}
    BY <1>3
  <2> QED
    BY <2>1
<1>5. dfs = [f \in DOMAIN files |-> Frame(files[f], version[f])]
  <2> HIDE DEF version
  <2>1. dfs = [f \in DOMAIN files |-> dfs[f]]
    BY <1>2 DEF ReadingOK, HasRead
  <2> QED
    BY <1>3, <2>1
<1>6. Rows \in ImportsOf(files)
  <2> HIDE DEF version
  <2> QED
    BY <1>3, <1>4, <1>5 DEF Rows, ImportsOf
<1>7. files \in UNION {Listings(T) : T \in (SUBSET Names) \ {{}}}
  BY <1>1, <1>2
<1> QED
  BY <1>6, <1>7 DEF Imports

\* The frames it has read are of its files.
LEMMA FramesAreOfFiles ==
  ASSUME ReadingOK, step = "writing"  PROVE FramesOfFiles(files, dfs)
<1>1. \E S \in SUBSET Names : files \in Listings(S)
  BY DEF ReadingOK, HasListed
<1>2. dfs \in Seq(Seq(AllRows)) /\ Len(dfs) <= Len(files)
  BY DEF ReadingOK, HasRead
<1>3. \A f \in DOMAIN dfs : \E v \in Readable(files[f]) : dfs[f] = Frame(files[f], v)
  BY FramesRead
<1> QED
  BY <1>1, <1>2, <1>3 DEF FramesOfFiles

(***************************************************************************)
(* In a part of the rows to be written, the season of each frame that ends *)
(* before row n is whole and that of each frame that begins after it is    *)
(* missing.                                                                *)
(***************************************************************************)
LEMMA WrittenSeasons ==
  ASSUME ReadingOK, step = "writing", NEW csv, NEW n, IsPart(Rows, n, csv)
  PROVE  \E ends \in [0 .. Len(dfs) -> Nat] :
           /\ ends[Len(dfs)] = Len(Rows)
           /\ \A f, g \in 0 .. Len(dfs) : f <= g => ends[f] <= ends[g]
           /\ \A f \in 1 .. Len(dfs) :
                /\ ends[f] <= n => SeasonIn(csv, files[f]) = dfs[f]
                /\ n <= ends[f - 1] => SeasonIn(csv, files[f]) = << >>
           /\ \A i \in 1 .. n : \E f \in 1 .. Len(dfs) : csv[i].season = SeasonOf(files[f])
<1>1. FramesOfFiles(files, dfs) /\ IsPart(Concat(dfs), n, csv) /\ Rows = Concat(dfs)
  BY FramesAreOfFiles DEF Rows
<1>2. PICK ends : SeasonsOfPart(files, dfs, n, csv, ends)
  BY <1>1, PartSeasons
<1>3. SeasonBlocks(dfs, Keys(files, dfs), Rows, ends)
  BY <1>1, <1>2 DEF SeasonsOfPart
<1>4. \A f \in 1 .. Len(dfs) :
        /\ ends[f] <= n => SeasonIn(csv, files[f]) = dfs[f]
        /\ n <= ends[f - 1] => SeasonIn(csv, files[f]) = << >>
  BY <1>2 DEF SeasonsOfPart, SeasonIn
<1>5. ASSUME NEW i \in 1 .. n
      PROVE  \E f \in 1 .. Len(dfs) : csv[i].season = SeasonOf(files[f])
  <2>1. Len(Rows) \in Nat /\ n \in Nat /\ n <= Len(Rows) /\ csv[i] = Rows[i]
    <3>1. Rows \in Seq(AllRows)
      BY <1>1, ConcatType
    <3> QED
      BY <3>1 DEF IsPart
  <2>2. i \in 1 .. Len(Rows)
    BY <2>1
  <2>3. PICK f \in 1 .. Len(dfs) : Rows[i].season = Keys(files, dfs)[f]
    BY <1>3, <2>2 DEF SeasonBlocks
  <2> QED
    BY <2>1, <2>3 DEF Keys
<1> QED
  BY <1>3, <1>4, <1>5, Zenon DEF SeasonBlocks

\* The files of an importer that writes are the imported ones.
LEMMA WritesImported ==
  ASSUME ReadingOK, step = "writing"
  PROVE  /\ \A f \in 1 .. Len(dfs) : files[f] \in Imported
         /\ \A name \in Imported : \E f \in 1 .. Len(dfs) : files[f] = name
<1> DEFINE S == {name \in Names : listed[name] > 0}
<1>1. S \in SUBSET Names /\ files \in Listings(S)
  BY DEF ReadingOK, HasListed
<1>2. Imported = S
  BY DEF ReadingOK, WritesAll, Imported
<1> HIDE DEF S
<1>3. files \in Seq(S) /\ Len(files) = Len(dfs) /\ \A name \in S : \E f \in DOMAIN files : files[f] = name
  BY <1>1, ListingType DEF ReadingOK, WritesAll
<1>4. DOMAIN files = 1 .. Len(dfs) /\ \A f \in DOMAIN files : files[f] \in S
  BY <1>3
<1> QED
  BY <1>2, <1>3, <1>4

\* A season that is whole is one that was read since the listing.
LEMMA WholeIsFresh ==
  ASSUME ReadingOK, step = "writing", NEW f \in 1 .. Len(dfs), NEW csv,
         SeasonIn(csv, files[f]) = dfs[f]
  PROVE  IsFresh(csv, files[f])
<1>1. f \in DOMAIN dfs
  BY DEF ReadingOK, HasRead
<1> QED
  BY <1>1, FramesRead DEF IsFresh, ReadingOK, WritesAll

(***************************************************************************)
(* Of two imported seasons, the one written first is whole or the other is *)
(* not begun; all are whole when all rows are written.                     *)
(***************************************************************************)
LEMMA WrittenIsFresh ==
  ASSUME ReadingOK, step = "writing", NEW csv, NEW n, IsPart(Rows, n, csv)
  PROVE  /\ \A name, other \in Imported :
              name # other => \E m \in {name, other} :
                                SeasonIn(csv, m) = << >> \/ IsFresh(csv, m)
         /\ n = Len(Rows) => \A name \in Imported : IsFresh(csv, name)
         /\ \A i \in 1 .. n : csv[i].season \in {SeasonOf(m) : m \in Imported}
<1>1. PICK ends \in [0 .. Len(dfs) -> Nat] :
        /\ ends[Len(dfs)] = Len(Rows)
        /\ \A f, g \in 0 .. Len(dfs) : f <= g => ends[f] <= ends[g]
        /\ \A f \in 1 .. Len(dfs) :
             /\ ends[f] <= n => SeasonIn(csv, files[f]) = dfs[f]
             /\ n <= ends[f - 1] => SeasonIn(csv, files[f]) = << >>
        /\ \A i \in 1 .. n : \E f \in 1 .. Len(dfs) : csv[i].season = SeasonOf(files[f])
  BY WrittenSeasons
<1>2. Len(dfs) \in Nat /\ n \in Nat
  BY DEF ReadingOK, HasRead, IsPart
<1>3. ASSUME NEW f \in 1 .. Len(dfs), NEW g \in 1 .. Len(dfs), f < g
      PROVE  IsFresh(csv, files[f]) \/ SeasonIn(csv, files[g]) = << >>
  <2>1. f \in 0 .. Len(dfs) /\ g - 1 \in 0 .. Len(dfs) /\ f <= g - 1
    BY <1>2, <1>3
  <2>2. ends[f] <= ends[g - 1] /\ ends[f] \in Nat /\ ends[g - 1] \in Nat
    BY <1>1, <2>1, Zenon
  <2>3. CASE ends[f] <= n
    BY <1>1, <2>3, WholeIsFresh
  <2>4. CASE n <= ends[g - 1]
    BY <1>1, <2>4
  <2> QED
    BY <1>2, <2>2, <2>3, <2>4
<1>4. ASSUME NEW name \in Imported, NEW other \in Imported, name # other
      PROVE  \E m \in {name, other} : SeasonIn(csv, m) = << >> \/ IsFresh(csv, m)
  <2>1. PICK f \in 1 .. Len(dfs) : files[f] = name
    BY WritesImported
  <2>2. PICK g \in 1 .. Len(dfs) : files[g] = other
    BY WritesImported
  <2>3. f < g \/ g < f
    BY <1>2, <1>4, <2>1, <2>2
  <2> QED
    BY <1>3, <2>1, <2>2, <2>3
<1>5. ASSUME n = Len(Rows), NEW name \in Imported  PROVE IsFresh(csv, name)
  <2>1. PICK f \in 1 .. Len(dfs) : files[f] = name
    BY WritesImported
  <2>2. f \in 0 .. Len(dfs) /\ Len(dfs) \in 0 .. Len(dfs) /\ f <= Len(dfs)
    BY <1>2
  <2>3. ends[f] <= n
    BY <1>1, <1>5, <2>2, Zenon
  <2> QED
    BY <1>1, <2>1, <2>3, WholeIsFresh
<1>6. \A i \in 1 .. n : csv[i].season \in {SeasonOf(m) : m \in Imported}
  BY <1>1, WritesImported
<1> QED
  BY <1>4, <1>5, <1>6

-----------------------------------------------------------------------------
(***************************************************************************)
(* The steps of the importer, of whoever downloads and of whoever kills it *)
(* keep the invariant.                                                     *)
(***************************************************************************)
\* The properties of the file that no step but writing disturbs.
FileOK == ContentIsPromised /\ ImportIsFresh /\ OneSeasonIsCutAtMost

\* A file that is left alone stays fresh, whatever is downloaded.
LEMMA FileStays ==
  ASSUME Inv, UNCHANGED <<bet_csv, import>>,
         \A name \in Names : bet_dir'[name] \in Nat /\ bet_dir'[name] >= bet_dir[name]
  PROVE  FileOK'
<1>1. Imported' = Imported /\ Imported \subseteq Names
  BY DEF Imported
<1>2. ASSUME NEW name \in Names, IsFresh(bet_csv, name)  PROVE IsFresh(bet_csv, name)'
  <2>1. PICK v \in import.from[name] .. bet_dir[name] :
          v \in Readable(name) /\ SeasonIn(bet_csv, name) = Frame(name, v)
    BY <1>2 DEF IsFresh
  <2>2. bet_dir[name] \in Nat /\ import.from[name] \in Nat
    BY DEF Inv, ReadingOK, DirOK, ImportOK
  <2>3. v \in import'.from[name] .. bet_dir'[name]
    BY <2>1, <2>2
  <2> QED
    BY <2>1, <2>3 DEF IsFresh
<1>3. ContentIsPromised'
  BY DEF Inv, ContentIsPromised
<1>4. ImportIsFresh'
  BY <1>1, <1>2 DEF Inv, ImportIsFresh
<1>5. OneSeasonIsCutAtMost'
  BY <1>1, <1>2 DEF Inv, OneSeasonIsCutAtMost
<1> QED
  BY <1>3, <1>4, <1>5 DEF FileOK

\* Listing the files that are there.
LEMMA StartKeeps ==
  ASSUME Inv, Start  PROVE Inv'
<1>1. /\ bet_dir' = bet_dir /\ bet_csv' = bet_csv /\ import' = import /\ listed' = bet_dir
      /\ step' = "reading" /\ dfs' = << >> /\ files' \in Listings(Present)
      /\ Present = {name \in Names : listed'[name] > 0}
  BY DEF Start, Present
<1>2. Present \in SUBSET Names /\ \A name \in Names : bet_dir[name] \in Nat
  BY DEF Inv, ReadingOK, DirOK, Present
<1>3. FileOK'
  BY <1>1, <1>2, FileStays
<1>4. files' \in Seq(Present)
  BY <1>1, <1>2, ListingType
<1>5. files' \in Seq(Names)
  BY <1>2, <1>4
<1>6. DirOK' /\ ImportOK'
  BY <1>1 DEF Inv, ReadingOK, DirOK, ImportOK
<1>7. HasRead'
  BY <1>1, <1>5 DEF HasRead
<1>8. HasListed' /\ WritesAll'
  BY <1>1 DEF HasListed, WritesAll
<1> QED
  BY <1>3, <1>6, <1>7, <1>8 DEF Inv, ReadingOK, FileOK

\* Reading the next file.
LEMMA ReadKeeps ==
  ASSUME Inv, ReadFile  PROVE Inv'
<1> DEFINE name == files[Len(dfs) + 1]
           frame == Frame(name, bet_dir[name])
<1>1. /\ bet_dir' = bet_dir /\ files' = files /\ bet_csv' = bet_csv /\ listed' = listed
      /\ import' = import /\ step = "reading" /\ Len(dfs) < Len(files)
      /\ \/ step' = "idle" /\ dfs' = dfs
         \/ /\ bet_dir[name] \in Readable(name)
            /\ dfs' = Append(dfs, frame) /\ step' = step
  BY DEF ReadFile
<1>2. \A other \in Names : bet_dir[other] \in Nat
  BY DEF Inv, ReadingOK, DirOK
<1>3. FileOK'
  BY <1>1, <1>2, FileStays
<1>4. DirOK' /\ ImportOK'
  BY <1>1 DEF Inv, ReadingOK, DirOK, ImportOK
<1>5. HasListed' /\ WritesAll'
  BY <1>1 DEF Inv, ReadingOK, HasListed, WritesAll
<1>6. CASE step' = "idle" /\ dfs' = dfs
  <2>1. HasRead'
    BY <1>1, <1>6 DEF Inv, ReadingOK, HasRead, ReadSince
  <2> QED
    BY <1>3, <1>4, <1>5, <2>1 DEF Inv, ReadingOK, FileOK
<1>7. CASE bet_dir[name] \in Readable(name) /\ dfs' = Append(dfs, frame) /\ step' = step
  <2>1. /\ files \in Seq(Names) /\ dfs \in Seq(Seq(AllRows))
        /\ \A f \in DOMAIN dfs : \E v \in ReadSince(files[f]) : dfs[f] = Frame(files[f], v)
    BY DEF Inv, ReadingOK, HasRead
  <2>2. Len(dfs) + 1 \in 1 .. Len(files) /\ Len(dfs) \in Nat /\ DOMAIN dfs = 1 .. Len(dfs)
    BY <1>1, <2>1
  <2>3. name \in Names
    BY <2>1, <2>2
  <2>4. bet_dir[name] \in Readable(name)
    BY <1>7
  <2> HIDE DEF name
  <2>5. /\ listed[name] \in Nat /\ bet_dir[name] \in Nat
        /\ listed[name] <= bet_dir[name]
    BY <2>3 DEF Inv, ReadingOK, DirOK
  <2>6. frame \in Seq(AllRows)
    BY <2>3, <2>4, FrameType
  <2>7. bet_dir[name] \in ReadSince(name)
    BY <2>4, <2>5 DEF ReadSince
  <2>8. \E v \in ReadSince(name) : frame = Frame(name, v)
    BY <2>7
  <2> HIDE DEF frame
  <2>9. /\ dfs' \in Seq(Seq(AllRows)) /\ Len(dfs') = Len(dfs) + 1
        /\ DOMAIN dfs' = 1 .. Len(dfs) + 1
        /\ \A f \in DOMAIN dfs : dfs'[f] = dfs[f]
        /\ dfs'[Len(dfs) + 1] = frame
    BY <1>7, <2>1, <2>6
  <2>10. \A f \in DOMAIN dfs' : \E v \in ReadSince(files[f]) : dfs'[f] = Frame(files[f], v)
    <3> SUFFICES ASSUME NEW f \in DOMAIN dfs'
                 PROVE  \E v \in ReadSince(files[f]) : dfs'[f] = Frame(files[f], v)
      OBVIOUS
    <3>1. CASE f = Len(dfs) + 1
      BY <2>8, <2>9, <3>1 DEF name
    <3>2. CASE f # Len(dfs) + 1
      <4>1. f \in DOMAIN dfs
        BY <2>2, <2>9, <3>2
      <4> QED
        BY <2>1, <2>9, <4>1
    <3> QED
      BY <3>1, <3>2
  <2>11. Len(dfs') <= Len(files')
    <3>1. Len(files) \in Nat
      BY <2>1
    <3> QED
      BY <1>1, <2>2, <2>9, <3>1
  <2>12. \A f \in DOMAIN dfs' : ReadSince(files[f])' = ReadSince(files[f])
    BY <1>1 DEF ReadSince
  <2>13. HasRead'
    BY <1>1, <1>7, <2>1, <2>9, <2>10, <2>11, <2>12 DEF HasRead
  <2> QED
    BY <1>3, <1>4, <1>5, <2>13 DEF Inv, ReadingOK, FileOK
<1> QED
  BY <1>1, <1>6, <1>7

\* A download adds to what may be read.
LEMMA DownloadKeeps ==
  ASSUME Inv, NEW name \in Names, Download(name)  PROVE Inv'
<1>1. /\ step' = step /\ files' = files /\ dfs' = dfs /\ listed' = listed
      /\ bet_csv' = bet_csv /\ import' = import
      /\ bet_dir' = [bet_dir EXCEPT ![name] = @ + 1] /\ bet_dir[name] < Len(Downloads[name])
  BY DEF Download, importer
<1>2. /\ bet_dir \in [Names -> Nat] /\ listed \in [Names -> Nat]
      /\ import.from \in [Names -> Nat]
      /\ \A other \in Names : /\ listed[other] <= bet_dir[other]
                              /\ bet_dir[other] <= Len(Downloads[other])
                              /\ import.from[other] <= bet_dir[other]
  BY DEF Inv, ReadingOK, DirOK, ImportOK
<1>3. Len(Downloads[name]) \in Nat
  BY DownloadsAssumption
<1>4. /\ bet_dir' \in [Names -> Nat]
      /\ \A other \in Names : bet_dir'[other] >= bet_dir[other]
                                /\ bet_dir'[other] <= Len(Downloads[other])
  BY <1>1, <1>2, <1>3
<1>5. \A other \in Names : bet_dir[other] \in Nat /\ bet_dir'[other] \in Nat
  BY <1>2, <1>4
<1>6. FileOK'
  BY <1>1, <1>4, <1>5, FileStays
<1>7. DirOK' /\ ImportOK'
  <2>1. \A other \in Names : /\ listed'[other] <= bet_dir'[other]
                             /\ import'.from[other] <= bet_dir'[other]
    <3> SUFFICES ASSUME NEW other \in Names
                 PROVE  listed'[other] <= bet_dir'[other] /\ import'.from[other] <= bet_dir'[other]
      OBVIOUS
    <3>1. listed[other] \in Nat /\ import.from[other] \in Nat
      BY <1>2
    <3> QED
      BY <1>1, <1>2, <1>4, <1>5, <3>1
  <2> QED
    BY <1>1, <1>2, <1>4, <2>1 DEF Inv, ReadingOK, DirOK, ImportOK
<1>8. ASSUME NEW f \in DOMAIN dfs  PROVE ReadSince(files[f]) \subseteq ReadSince(files[f])'
  <2>1. files[f] \in Names
    BY FramesRead DEF Inv
  <2>2. /\ bet_dir'[files[f]] >= bet_dir[files[f]] /\ listed[files[f]] \in Nat
        /\ bet_dir[files[f]] \in Nat /\ bet_dir'[files[f]] \in Nat
    BY <1>2, <1>4, <1>5, <2>1
  <2> QED
    BY <1>1, <2>2 DEF ReadSince
<1>9. HasRead'
  <2>1. \A f \in DOMAIN dfs : \E v \in ReadSince(files[f])' : dfs[f] = Frame(files[f], v)
    BY <1>8 DEF Inv, ReadingOK, HasRead
  <2> QED
    BY <1>1, <2>1 DEF Inv, ReadingOK, HasRead
<1>10. HasListed' /\ WritesAll'
  BY <1>1 DEF Inv, ReadingOK, HasListed, WritesAll
<1> QED
  BY <1>6, <1>7, <1>9, <1>10 DEF Inv, ReadingOK, FileOK

\* Emptying the file.
LEMMA OpenKeeps ==
  ASSUME Inv, OpenFile  PROVE Inv'
<1>1. /\ bet_dir' = bet_dir /\ files' = files /\ dfs' = dfs /\ listed' = listed
      /\ step = "reading" /\ step' = "writing" /\ files # << >> /\ Len(dfs) = Len(files)
      /\ bet_csv' = << >> /\ import' = [from |-> listed, whole |-> FALSE]
  BY DEF OpenFile
<1>2. DirOK' /\ ImportOK'
  BY <1>1 DEF Inv, ReadingOK, DirOK, ImportOK
<1>3. HasRead' /\ HasListed' /\ WritesAll'
  BY <1>1 DEF Inv, ReadingOK, HasRead, HasListed, WritesAll, ReadSince
<1>4. \A name : SeasonIn(<< >>, name) = << >>
  <2> SUFFICES ASSUME NEW name  PROVE SeasonIn(<< >>, name) = << >>
    OBVIOUS
  <2> DEFINE mask == [i \in DOMAIN << >> |-> << >>[i].season = SeasonOf(name)]
  <2>1. << >> \in Seq({}) /\ Len(<< >>) = 0
    OBVIOUS
  <2> HIDE DEF mask
  <2>2. Masked(<< >>, mask) = << >>
    <3>1. PICK f : Masked(<< >>, mask) = f[Len(<< >>)] /\ f[0] = << >>
      BY <2>1, MaskedByRow, Zenon
    <3> QED
      BY <2>1, <3>1, Zenon
  <2> QED
    BY <2>2 DEF SeasonIn, mask
<1>5. ContentIsPromised' /\ ImportIsFresh'
  BY <1>1 DEF ContentIsPromised, ImportIsFresh
<1>6. OneSeasonIsCutAtMost'
  BY <1>1, <1>4 DEF OneSeasonIsCutAtMost
<1> QED
  BY <1>2, <1>3, <1>5, <1>6 DEF Inv, ReadingOK

\* The rows that the importer writes.
LEMMA RowsType ==
  ASSUME ReadingOK  PROVE Rows \in Seq(AllRows)
<1>1. dfs \in Seq(Seq(AllRows))
  BY DEF ReadingOK, HasRead
<1> QED
  BY <1>1, FlattenBlocks DEF Rows, Concat

\* Writing a part of them.
LEMMA FlushKeeps ==
  ASSUME Inv, Flush  PROVE Inv'
<1>1. /\ bet_dir' = bet_dir /\ files' = files /\ dfs' = dfs /\ listed' = listed
      /\ step = "writing" /\ step' = "writing" /\ import' = import
  BY DEF Flush, importer
<1>2. PICK n \in 0 .. Len(Rows) - 1 : bet_csv' \in CutAfter(Rows, n)
  BY DEF Flush
<1>3. ReadingOK /\ Rows \in Seq(AllRows)
  BY RowsType DEF Inv
<1>4. DirOK' /\ ImportOK' /\ HasRead' /\ HasListed' /\ WritesAll'
  BY <1>1 DEF Inv, ReadingOK, DirOK, ImportOK, HasRead, HasListed, WritesAll, ReadSince
<1>5. ContentIsPromised'
  <2>1. Rows \in Imports
    BY <1>1, <1>3, RowsAreAnImport
  <2>2. bet_csv' \in UNION {CutAfter(Rows, k) : k \in 0 .. Len(Rows) - 1}
    BY <1>2
  <2> QED
    BY <2>1, <2>2 DEF Contents, ContentIsPromised
<1>6. n \in Nat /\ n <= Len(Rows) /\ n + 1 \in 1 .. Len(Rows) /\ Rows[n + 1] \in AllRows
  BY <1>2, <1>3
<1>7. IsPart(Rows, n, bet_csv')
  BY <1>2, <1>3, CutIsPart
<1>8. /\ bet_csv' \in Seq(AllRows \cup LostRows)
      /\ Len(bet_csv') \in {n, n + 1}
  BY <1>7 DEF IsPart
<1>9. /\ \A name, other \in Imported :
           name # other => \E m \in {name, other} :
                             SeasonIn(bet_csv', m) = << >> \/ IsFresh(bet_csv', m)
      /\ \A i \in 1 .. n : bet_csv'[i].season \in {SeasonOf(m) : m \in Imported}
  BY <1>1, <1>3, <1>7, WrittenIsFresh
<1>10. import.whole = FALSE /\ Imported' = Imported
       /\ \A m : IsFresh(bet_csv', m) <=> IsFresh(bet_csv, m)'
  BY <1>1, <1>3 DEF ReadingOK, WritesAll, Imported, IsFresh
<1>11. ImportIsFresh'
  BY <1>1, <1>10 DEF ImportIsFresh
<1>12. ASSUME NEW i \in DOMAIN bet_csv', bet_csv'[i].season \notin {SeasonOf(m) : m \in Imported}
       PROVE  i = Len(bet_csv')
  <2>1. DOMAIN bet_csv' = 1 .. Len(bet_csv') /\ i \notin 1 .. n
    BY <1>8, <1>9, <1>12
  <2> DEFINE l == Len(bet_csv')
  <2>2. (l = n \/ l = n + 1) /\ i \in 1 .. l
    BY <1>8, <2>1
  <2> HIDE DEF l
  <2>3. i = l
    BY <1>6, <2>1, <2>2
  <2> QED
    BY <2>3 DEF l
<1>13. OneSeasonIsCutAtMost'
  BY <1>1, <1>9, <1>10, <1>12 DEF OneSeasonIsCutAtMost
<1> QED
  BY <1>4, <1>5, <1>11, <1>13 DEF Inv, ReadingOK

\* Writing all of them.
LEMMA CloseKeeps ==
  ASSUME Inv, Close  PROVE Inv'
<1>1. /\ bet_dir' = bet_dir /\ files' = files /\ dfs' = dfs /\ listed' = listed
      /\ step = "writing" /\ step' = "idle" /\ bet_csv' = Rows
      /\ import' = [import EXCEPT !.whole = TRUE]
  BY DEF Close
<1>2. ReadingOK /\ Rows \in Seq(AllRows)
  BY RowsType DEF Inv
<1>3. import'.from = import.from /\ import' \in [from : [Names -> Nat], whole : BOOLEAN]
  BY <1>1, <1>2 DEF ReadingOK, ImportOK
<1>4. DirOK' /\ ImportOK' /\ HasRead' /\ HasListed' /\ WritesAll'
  BY <1>1, <1>2, <1>3 DEF ReadingOK, DirOK, ImportOK, HasRead, HasListed, WritesAll, ReadSince
<1>5. ContentIsPromised'
  BY <1>1, <1>2, RowsAreAnImport DEF Contents, ContentIsPromised
<1>6. /\ \A name \in Imported : IsFresh(Rows, name)
      /\ \A i \in 1 .. Len(Rows) : Rows[i].season \in {SeasonOf(m) : m \in Imported}
  <2>1. IsPart(Rows, Len(Rows), Rows)
    BY <1>2, WholeIsPart
  <2> QED
    BY <1>1, <1>2, <2>1, WrittenIsFresh
<1>7. Imported' = Imported /\ \A m : IsFresh(Rows, m) <=> IsFresh(bet_csv, m)'
  BY <1>1, <1>3 DEF Imported, IsFresh
<1>8. DOMAIN bet_csv' = 1 .. Len(Rows)
  BY <1>1, <1>2
<1>9. ImportIsFresh'
  BY <1>1, <1>6, <1>7, <1>8 DEF ImportIsFresh
<1>10. OneSeasonIsCutAtMost'
  BY <1>1, <1>6, <1>7, <1>8 DEF OneSeasonIsCutAtMost
<1> QED
  BY <1>4, <1>5, <1>9, <1>10 DEF Inv, ReadingOK

\* Nothing but the step changes when there is nothing to read, or when the
\* importer is killed; and nothing at all when somebody else moves.
LEMMA OthersKeep ==
  ASSUME Inv, NothingToConcat \/ Kill \/ UNCHANGED vars  PROVE Inv'
<1>1. /\ bet_dir' = bet_dir /\ files' = files /\ dfs' = dfs /\ listed' = listed
      /\ bet_csv' = bet_csv /\ import' = import /\ step' \in {step, "idle"}
  BY DEF NothingToConcat, Kill, vars, importer
<1>2. \A name \in Names : bet_dir[name] \in Nat
  BY DEF Inv, ReadingOK, DirOK
<1>3. FileOK'
  BY <1>1, <1>2, FileStays
<1>4. DirOK' /\ ImportOK' /\ HasRead' /\ HasListed' /\ WritesAll'
  BY <1>1 DEF Inv, ReadingOK, DirOK, ImportOK, HasRead, HasListed, WritesAll, ReadSince
<1> QED
  BY <1>3, <1>4 DEF Inv, ReadingOK, FileOK

\* Before the first import.
LEMMA InitInv ==
  ASSUME Init  PROVE Inv
<1>1. bet_dir \in [Names -> Nat] /\ \A name \in Names : bet_dir[name] <= Len(Downloads[name])
  <2>1. ASSUME NEW name \in Names  PROVE Len(Downloads[name]) \in Nat \ {0}
    <3>1. Downloads[name] \in Seq(Versions) /\ Downloads[name] # << >>
      BY DownloadsAssumption
    <3> QED
      BY <3>1
  <2> QED
    BY <2>1 DEF Init
<1>2. DirOK /\ ImportOK
  BY <1>1 DEF Init, DirOK, ImportOK
<1>3. HasRead /\ HasListed /\ WritesAll
  BY DEF Init, HasRead, HasListed, WritesAll
<1>4. Imported = {}
  BY DEF Init, Imported
<1>5. ContentIsPromised /\ ImportIsFresh /\ OneSeasonIsCutAtMost
  BY <1>4 DEF Init, ContentIsPromised, ImportIsFresh, OneSeasonIsCutAtMost
<1> QED
  BY <1>2, <1>3, <1>5 DEF Inv, ReadingOK

\* The invariant, in every behaviour.
LEMMA Invariance == Spec => []Inv
<1>1. Inv /\ [Next]_vars => Inv'
  <2> SUFFICES ASSUME Inv, [Next]_vars  PROVE Inv'
    OBVIOUS
  <2>1. CASE Start
    BY <2>1, StartKeeps
  <2>2. CASE ReadFile
    BY <2>2, ReadKeeps
  <2>3. CASE OpenFile
    BY <2>3, OpenKeeps
  <2>4. CASE Flush
    BY <2>4, FlushKeeps
  <2>5. CASE Close
    BY <2>5, CloseKeeps
  <2>6. CASE NothingToConcat \/ Kill \/ UNCHANGED vars
    BY <2>6, OthersKeep
  <2>7. ASSUME NEW name \in Names, Download(name)  PROVE Inv'
    BY <2>7, DownloadKeeps
  <2> QED
    BY <2>1, <2>2, <2>3, <2>4, <2>5, <2>6, <2>7 DEF Next, Importer
<1> QED
  BY <1>1, InitInv, PTL DEF Spec

-----------------------------------------------------------------------------
(***************************************************************************)
(* The frames an importer has read are those of its files, in their order, *)
(* each with the season of its own file, whatever happens to the files.    *)
(***************************************************************************)
THEOREM ImportTypeCorrect == Spec => []TypeOK
<1>1. Inv => TypeOK
  <2> SUFFICES ASSUME Inv  PROVE TypeOK
    OBVIOUS
  <2>1. \A name \in Names : bet_dir[name] \in 0 .. Len(Downloads[name])
    <3> SUFFICES ASSUME NEW name \in Names  PROVE bet_dir[name] \in 0 .. Len(Downloads[name])
      OBVIOUS
    <3>1. Len(Downloads[name]) \in Nat
      BY DownloadsAssumption
    <3> QED
      BY <3>1 DEF Inv, ReadingOK, DirOK
  <2>2. /\ step \in {"idle", "reading", "writing"} /\ files \in Seq(Names)
        /\ Len(dfs) <= Len(files) /\ import.whole \in BOOLEAN
    BY DEF Inv, ReadingOK, HasRead, ImportOK
  <2>3. \A f \in DOMAIN dfs : \A i \in DOMAIN dfs[f] : dfs[f][i].season = SeasonOf(files[f])
    <3> SUFFICES ASSUME NEW f \in DOMAIN dfs
                 PROVE  \A i \in DOMAIN dfs[f] : dfs[f][i].season = SeasonOf(files[f])
      OBVIOUS
    <3>1. /\ dfs[f] \in Seq(AllRows)
          /\ \A i \in 1 .. Len(dfs[f]) : dfs[f][i].season = SeasonOf(files[f])
      BY FramesRead DEF Inv
    <3> QED
      BY <3>1
  <2> QED
    BY <2>1, <2>2, <2>3 DEF TypeOK
<1> QED
  BY <1>1, Invariance, PTL

(***************************************************************************)
(* read_csv_data and whoever kills it leave bet_data.csv empty, with an    *)
(* import or with the beginning of one, for all season files and however   *)
(* they are downloaded anew meanwhile: what Dashboard assumes of the file. *)
(***************************************************************************)
THEOREM ContentPromised == Spec => []ContentIsPromised
<1>1. Inv => ContentIsPromised
  BY DEF Inv
<1> QED
  BY <1>1, Invariance, PTL

(***************************************************************************)
(* An import that read_csv_data has written to its end holds every season  *)
(* file that was there when it began, once, as it was then or became       *)
(* since, for any number of files, listed in any order.                    *)
(***************************************************************************)
THEOREM ImportFresh == Spec => []ImportIsFresh
<1>1. Inv => ImportIsFresh
  BY DEF Inv
<1> QED
  BY <1>1, Invariance, PTL

(***************************************************************************)
(* At no moment does bet_data.csv hold more than one season that is cut    *)
(* short, and only its last row can have lost its season.                  *)
(***************************************************************************)
THEOREM CutAtMostOnce == Spec => []OneSeasonIsCutAtMost
<1>1. Inv => OneSeasonIsCutAtMost
  BY DEF Inv
<1> QED
  BY <1>1, Invariance, PTL
=============================================================================
