------------------------------- MODULE Watch -------------------------------
(***************************************************************************)
(* cli/watch.gray, "gray watch": run a program, poll the files it is made  *)
(* of, and run it again when they change; and the people and editors that  *)
(* change those files at any moment.                                       *)
(*                                                                         *)
(* A snapshot is not atomic: the files to watch are listed first, by       *)
(* following the imports from file to file, and then stamped one by one.   *)
(* Nor is a run: grayc reads one file after the other.                     *)
(***************************************************************************)
EXTENDS Naturals, FiniteSets

CONSTANTS
  Sources,    \* the source files, and those that may come to exist
  Main,       \* the file with main()
  FileSizes,  \* the lengths of a file
  MaxEdits,   \* bound: edits in one behaviour
  MaxTime     \* bound: seconds in one behaviour

ASSUME WatchAssumption ==
  /\ Main \in Sources /\ IsFiniteSet(Sources)
  /\ FileSizes \subseteq Nat /\ MaxEdits \in Nat /\ MaxTime \in Nat

VARIABLES
  disk,      \* disk[f]: the file f, for the files that exist
  edits,     \* how many edits there have been
  now,       \* the time in seconds
  used,      \* history: the stamps each file has had, while none came back
  blurred,   \* history: a file has come back to a stamp it had
  directory, \* the source files under the watched directory, now or later;
             \* {}: what is watched is a file
  stage,     \* where in watch_loop the process is
  pending,   \* the files still to be visited by the walk that is going on
  listed,    \* the files that walk has found
  snapshot,  \* the stamps taken so far
  known, latest,
  ran,       \* the files as the last run read them
  runs       \* how many runs there have been

files == <<disk, edits, now, used, blurred>>
walk == <<pending, listed, snapshot>>
watch == <<files, directory, stage, walk, known, latest, ran, runs>>

Nothing == [f \in {} |-> 0]

\* f |-> x, added to the function g.
With(g, f, x) == [h \in DOMAIN g \cup {f} |-> IF h = f THEN x ELSE g[h]]

\* "${info.mod_time}:${info.size}", the time in whole seconds.
Stamp(file) == <<file.mod_time, file.size>>

\* What a snapshot shows of f: its stamp, or that it does not exist.
Seen(d, f) == IF f \in DOMAIN d THEN Stamp(d[f]) ELSE <<>>

\* f has changed.  As long as no file comes back to a stamp, its stamp tells
\* one save of a file from another.
Touch(f) ==
  /\ blurred' = (blurred \/ <<f, Seen(disk', f)>> \in used)
  /\ used' = IF blurred' THEN {} ELSE used \cup {<<f, Seen(disk', f)>>}

\* What scan_imports may find in f.  Nobody scans the files of a directory.
Scannable(f) == IF directory = {} THEN SUBSET (Sources \ {f}) ELSE {{}}

WatchInit ==
  /\ directory \in {{}} \cup {S \in SUBSET Sources : Main \in S}
  /\ \E others \in SUBSET (Sources \ {Main}), size \in FileSizes,
        imports \in SUBSET (Sources \ {Main}), scanned \in Scannable(Main) :
       disk = [f \in {Main} \cup others |->
                 [size |-> size, mod_time |-> 0,
                  imports |-> IF f = Main THEN imports ELSE {},
                  scanned |-> IF f = Main THEN scanned ELSE {}]]
  /\ edits = 0 /\ now = 0
  /\ used = {<<f, Seen(disk, f)>> : f \in Sources} /\ blurred = FALSE
  /\ stage = "execute"
  /\ pending = {Main} /\ listed = {} /\ snapshot = Nothing
  /\ known = Nothing /\ latest = Nothing
  /\ ran = Nothing /\ runs = 1

-----------------------------------------------------------------------------
(* The files.                                                              *)

\* imports is what grayc takes the file to import, scanned what scan_imports
\* finds.  They differ when something follows an import on its line, or a line
\* of a comment begins like one.
Save(f) ==
  /\ edits < MaxEdits
  /\ \E size \in FileSizes, imports \in SUBSET (Sources \ {f}), scanned \in Scannable(f) :
       disk' = With(disk, f, [size |-> size, mod_time |-> now,
                              imports |-> imports, scanned |-> scanned])
  /\ edits' = edits + 1
  /\ Touch(f)
  /\ UNCHANGED <<now, directory, stage, walk, known, latest, ran, runs>>

Delete(f) ==
  /\ edits < MaxEdits
  /\ f \in DOMAIN disk
  /\ disk' = [g \in DOMAIN disk \ {f} |-> disk[g]]
  /\ edits' = edits + 1
  /\ Touch(f)
  /\ UNCHANGED <<now, directory, stage, walk, known, latest, ran, runs>>

Tick ==
  /\ now < MaxTime
  /\ now' = now + 1
  /\ UNCHANGED <<disk, edits, used, blurred, directory, stage, walk, known, latest, ran, runs>>

-----------------------------------------------------------------------------
(* execute_file: grayc reads the main file and what it imports, wherever    *)
(* that is.                                                                *)

Imports(f) == IF f \in DOMAIN disk THEN disk[f].imports ELSE {}

\* The next stage of the loop, which starts its walk at the files of S.
Goto(s, S) ==
  /\ stage' = s
  /\ pending' = S
  /\ listed' = {} /\ snapshot' = Nothing

Read(f) ==
  /\ stage = "execute"
  /\ f \in pending
  /\ listed' = listed \cup {f}
  /\ pending' = (pending \cup Imports(f)) \ listed'
  /\ ran' = IF f \in DOMAIN disk THEN With(ran, f, disk[f]) ELSE ran
  /\ UNCHANGED <<files, directory, stage, snapshot, known, latest, runs>>

\* Bug: the files are stamped again after every run.
EndRunTwice ==
  /\ stage = "execute"
  /\ pending = {}
  /\ Goto("baseline", {Main})
  /\ UNCHANGED <<files, directory, known, latest, ran, runs>>

\* The program has ended.  The first snapshot is taken after the first run;
\* the later runs start with known already set.
EndRun ==
  /\ stage = "execute"
  /\ pending = {}
  /\ Goto(IF runs = 1 THEN "baseline" ELSE "poll", {Main})
  /\ UNCHANGED <<files, directory, known, latest, ran, runs>>

-----------------------------------------------------------------------------
(* take_snapshot(current_files(main_file, directory)).                     *)

Snapshots == {"baseline", "poll", "settle"}

scan_imports(f) == IF f \in DOMAIN disk THEN disk[f].scanned ELSE {}

\* collect_source_files_in_directory, or one file of collect_files_to_watch:
\* the main file is listed whether it exists or not, the files that the scan
\* finds in it when they exist.
List ==
  /\ stage \in Snapshots
  /\ pending # {}
  /\ \/ /\ directory # {}
        /\ pending' = {} /\ listed' = directory \cap DOMAIN disk
     \/ /\ directory = {}
        /\ \E f \in pending :
             /\ listed' = listed \cup {f}
             /\ pending' = (pending \cup (scan_imports(f) \cap DOMAIN disk)) \ listed'
  /\ UNCHANGED <<files, directory, stage, snapshot, known, latest, ran, runs>>

\* io.stat of one of the listed files; a file that has gone gets no stamp.
Stat ==
  /\ stage \in Snapshots
  /\ pending = {} /\ listed # {}
  /\ \E f \in listed :
       /\ listed' = listed \ {f}
       /\ snapshot' = IF f \in DOMAIN disk THEN With(snapshot, f, Stamp(disk[f]))
                      ELSE snapshot
  /\ UNCHANGED <<files, directory, stage, pending, known, latest, ran, runs>>

SnapshotTaken(s) == stage = s /\ pending = {} /\ listed = {}

\* The same files with the same stamps.
snapshots_differ(before, after) == before # after

Baseline ==
  /\ SnapshotTaken("baseline")
  /\ known' = snapshot
  /\ Goto("poll", {Main})
  /\ UNCHANGED <<files, directory, latest, ran, runs>>

Poll ==
  /\ SnapshotTaken("poll")
  /\ \/ ~snapshots_differ(known, snapshot) /\ Goto("poll", {Main}) /\ UNCHANGED latest
     \/ snapshots_differ(known, snapshot) /\ Goto("settle", {Main}) /\ latest' = snapshot
  /\ UNCHANGED <<files, directory, known, ran, runs>>

\* Bug: the stamps the run was started for are not remembered.
SettleForgets ==
  /\ SnapshotTaken("settle")
  /\ \/ /\ snapshots_differ(latest, snapshot)
        /\ latest' = snapshot
        /\ Goto("settle", {Main})
        /\ UNCHANGED <<known, ran, runs>>
     \/ /\ ~snapshots_differ(latest, snapshot)
        /\ latest' = Nothing
        /\ Goto("execute", {Main})
        /\ ran' = Nothing /\ runs' = runs + 1
        /\ UNCHANGED known
  /\ UNCHANGED <<files, directory>>

\* The end of a debounce interval: run the program if nothing changed in it.
Settle ==
  /\ SnapshotTaken("settle")
  /\ \/ /\ snapshots_differ(latest, snapshot)
        /\ latest' = snapshot
        /\ Goto("settle", {Main})
        /\ UNCHANGED <<known, ran, runs>>
     \/ /\ ~snapshots_differ(latest, snapshot)
        /\ known' = snapshot /\ latest' = Nothing
        /\ Goto("execute", {Main})
        /\ ran' = Nothing /\ runs' = runs + 1
  /\ UNCHANGED <<files, directory>>

watch_loop ==
  \/ \E f \in Sources : Read(f)
  \/ EndRun
  \/ List
  \/ Stat
  \/ Baseline
  \/ Poll
  \/ Settle

\* What may happen to the files meanwhile.
Edit ==
  \/ \E f \in Sources : Save(f) \/ Delete(f)
  \/ Tick

WatchNext == Edit \/ watch_loop

WatchSpec == WatchInit /\ [][WatchNext]_watch

\* gray watch is a process the scheduler runs, and a program it starts ends.
\* Nobody has to edit a file.
WatchFairSpec == WatchSpec /\ WF_watch(watch_loop)

-----------------------------------------------------------------------------
(* Properties.                                                             *)

\* One save runs the program at most once, however the snapshots it is seen in
\* straddle it, and without a save nothing is run.
RunsPerEdit == runs <= 1 + edits

\* The files that Links leads to from the main file, there or not.
FollowedBy(Links(_)) ==
  LET reach[n \in Nat] ==
        IF n = 0 THEN {Main} ELSE reach[n - 1] \cup UNION {Links(f) : f \in reach[n - 1]}
  IN  reach[Cardinality(Sources)]

\* The files the program consists of, and those that are watched.
Program == FollowedBy(Imports)
InView == IF directory = {} THEN FollowedBy(scan_imports) ELSE directory

\* The last run read the program as it is on disk.
UpToDate == ran = [f \in Program \cap DOMAIN disk |-> disk[f]]

\* Once a change has been noticed, gray watch ends up having run what is on
\* disk, if it watches the whole program: no later change is lost, neither one
\* during the run (145), nor one while a snapshot was being taken, nor one in a
\* debounce interval (137-143), nor one that adds an import or brings a file
\* into view.  A program can have files that are not watched, against STANDARD.md
\* 5541: in directory mode those outside of it (94-96), else those whose import
\* the scan of the lines does not find (240-257).  A file that comes back to a
\* stamp it had may be missed: saved twice in a second with the same length (106),
\* or created after the stamps were taken and deleted before the next poll.
RerunsCatchUp ==
  <>[](runs > 1 /\ ~blurred /\ Program \subseteq InView => UpToDate)
=============================================================================
