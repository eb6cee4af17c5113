------------------------------ MODULE BetImport ------------------------------
(***************************************************************************)
(* data_proc.read_csv_data, the importer: it reads the season files of     *)
(* data/bet one by one, in the order in which glob lists them, and then    *)
(* writes all their rows over data/bet_data.csv.  Meanwhile season files   *)
(* may be downloaded anew, and the importer may be killed at any point.    *)
(***************************************************************************)
EXTENDS SeasonFiles

VARIABLES
  bet_dir,  \* data/bet: which download of each file is there, 0 for none
  step,     \* what the importer does: "idle", "reading" or "writing"
  files,    \* the files it has listed
  dfs,      \* the frames it has read
  bet_csv,  \* the rows of data/bet_data.csv, and half a row at the end; << >>
            \* as long as there are none, whether the header is there or not
  listed,   \* history: bet_dir as it was when the files were listed
  import    \* history: where the rows of bet_csv come from

importer == <<step, files, dfs, listed>>
vars == <<bet_dir, importer, bet_csv, import>>

-----------------------------------------------------------------------------
Init ==
  /\ bet_dir \in [Names -> {0, 1}]
  /\ step = "idle" /\ files = << >> /\ dfs = << >> /\ listed = bet_dir
  /\ bet_csv = << >>
  /\ import = [from |-> [name \in Names |-> 0], whole |-> FALSE]

\* A season file is downloaded, for the first time or again.
Download(name) ==
  /\ bet_dir[name] < Len(Downloads[name])
  /\ bet_dir' = [bet_dir EXCEPT ![name] = @ + 1]
  /\ UNCHANGED <<importer, bet_csv, import>>

Present == {name \in Names : bet_dir[name] > 0}

\* Mutant: the list of frames outlives the call.
StartKeepsFrames ==
  /\ step = "idle" /\ step' = "reading"
  /\ files' \in Listings(Present) /\ listed' = bet_dir
  /\ UNCHANGED <<bet_dir, dfs, bet_csv, import>>

Start ==
  /\ step = "idle" /\ step' = "reading"
  /\ files' \in Listings(Present) /\ dfs' = << >> /\ listed' = bet_dir
  /\ UNCHANGED <<bet_dir, bet_csv, import>>

\* read_csv raises for an empty file, which ends the importer; a file without
\* rows is a frame without rows.
ReadFile ==
  /\ step = "reading" /\ Len(dfs) < Len(files)
  /\ LET name == files[Len(dfs) + 1]
     IN  \/ bet_dir[name] \notin Readable(name) /\ step' = "idle" /\ UNCHANGED dfs
         \/ /\ bet_dir[name] \in Readable(name)
            /\ dfs' = Append(dfs, Frame(name, bet_dir[name]))
            /\ UNCHANGED step
  /\ UNCHANGED <<bet_dir, files, listed, bet_csv, import>>

\* concat raises for no frames at all.
NothingToConcat ==
  /\ step = "reading" /\ files = << >> /\ step' = "idle"
  /\ UNCHANGED <<bet_dir, files, dfs, listed, bet_csv, import>>

\* Mutant: the file is opened before the season files have been read.
OpenFileEarly ==
  /\ step = "reading" /\ files # << >> /\ Len(dfs) + 1 >= Len(files)
  /\ step' = "writing" /\ bet_csv' = << >>
  /\ import' = [from |-> listed, whole |-> FALSE]
  /\ UNCHANGED <<bet_dir, files, dfs, listed>>

\* to_csv empties the file it is about to write.
OpenFile ==
  /\ step = "reading" /\ files # << >> /\ Len(dfs) = Len(files)
  /\ step' = "writing" /\ bet_csv' = << >>
  /\ import' = [from |-> listed, whole |-> FALSE]
  /\ UNCHANGED <<bet_dir, files, dfs, listed>>

Rows == Concat(dfs)

\* A full buffer goes to disk, wherever in a row it ends.
Flush ==
  /\ step = "writing"
  /\ \E n \in 0 .. Len(Rows) - 1 : Len(bet_csv) <= n /\ bet_csv' \in CutAfter(Rows, n)
  /\ UNCHANGED <<bet_dir, importer, import>>

Close ==
  /\ step = "writing" /\ step' = "idle"
  /\ bet_csv' = Rows
  /\ import' = [import EXCEPT !.whole = TRUE]
  /\ UNCHANGED <<bet_dir, files, dfs, listed>>

Kill ==
  /\ step # "idle" /\ step' = "idle"
  /\ UNCHANGED <<bet_dir, files, dfs, listed, bet_csv, import>>

Importer == Start \/ ReadFile \/ NothingToConcat \/ OpenFile \/ Flush \/ Close

Next == Importer \/ Kill \/ \E name \in Names : Download(name)

Spec == Init /\ [][Next]_vars

-----------------------------------------------------------------------------
(***************************************************************************)
(* Properties.                                                             *)
(***************************************************************************)
\* The frames are those of the listed files, in their order, each with the
\* season of its own file.
TypeOK ==
  /\ \A name \in Names : bet_dir[name] \in 0 .. Len(Downloads[name])
  /\ step \in {"idle", "reading", "writing"}
  /\ Len(dfs) <= Len(files) /\ files \in Seq(Names)
  /\ \A f \in DOMAIN dfs : \A i \in DOMAIN dfs[f] : dfs[f][i].season = SeasonOf(files[f])
  /\ import.whole \in BOOLEAN

SeasonIn(csv, name) == Masked(csv, [i \in DOMAIN csv |-> csv[i].season = SeasonOf(name)])

\* The season of a file as some download since the listing had it.
IsFresh(csv, name) ==
  \E v \in import.from[name] .. bet_dir[name] :
    v \in Readable(name) /\ SeasonIn(csv, name) = Frame(name, v)

Imported == {name \in Names : import.from[name] > 0}

(***************************************************************************)
(* Whatever was downloaded while it ran, and whichever later imports       *)
(* failed: an import that was written to its end holds every season file   *)
(* that was there when it began, once, as it was then or as it has become  *)
(* since, and nothing else.                                                *)
(***************************************************************************)
ImportIsFresh ==
  import.whole =>
    /\ \A name \in Imported : IsFresh(bet_csv, name)
    /\ \A i \in DOMAIN bet_csv : bet_csv[i].season \in {SeasonOf(n) : n \in Imported}

(***************************************************************************)
(* A file that is being written, or was left half-way by a writer that was *)
(* killed, lacks seasons and has at most one that is cut short; a row that *)
(* lost its season is the last one.                                        *)
(***************************************************************************)
OneSeasonIsCutAtMost ==
  /\ \A name, other \in Imported :
       name # other => \E n \in {name, other} :
                         SeasonIn(bet_csv, n) = << >> \/ IsFresh(bet_csv, n)
  /\ \A i \in DOMAIN bet_csv :
       bet_csv[i].season \notin {SeasonOf(n) : n \in Imported} =>
         i = Len(bet_csv) /\ ~import.whole

(***************************************************************************)
(* What readers of the file may rely on, whenever they read it and however *)
(* imports and downloads interleaved or broke off: it is empty or one of   *)
(* the Contents, an import in some order or the beginning of one.          *)
(***************************************************************************)
ContentIsPromised == bet_csv = << >> \/ bet_csv \in Contents
=============================================================================
