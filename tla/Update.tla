------------------------------- MODULE Update -------------------------------
(***************************************************************************)
(* cli/update.gray, "gray update": fetch a release, check it, and put its  *)
(* binary in place of the executable that is running, with the file        *)
(* operations of stdlib/io.c it is made of.                                *)
(*                                                                         *)
(* Any of the operations can fail, and the process can stop between any two*)
(* of them.  A stop of the machine is another matter: nothing here is      *)
(* synced, so files may be older, or missing, after it.                    *)
(***************************************************************************)
EXTENDS Integers

CONSTANT MaxInstalls   \* bound: how often gray update is started

ASSUME UpdateAssumption == MaxInstalls \in Nat

VARIABLES
  file,         \* file[p]: what is at path p
  step,         \* where in download_and_install the process is
  io,           \* the file operation that is going on
  installs,     \* how often gray update was started
  before,       \* history: the executable when the update started
  unrestored,   \* history: the backup could not be moved back
  misread       \* history: a copy was cut off by a failing read

update == <<file, step, io, installs, before, unrestored, misread>>

\* A version number, or what a copy that was cut off leaves.
Absent == 0
Partial == -1

Missing == [content |-> Absent, executable |-> FALSE]
Works(p) == file[p].content > 0 /\ file[p].executable

NoIo == [op |-> "none"]

UpdateInit ==
  /\ file = [p \in {"gray", "backup", "binary"} |->
               IF p = "gray" THEN [content |-> 1, executable |-> TRUE] ELSE Missing]
  /\ step = "idle" /\ io = NoIo
  /\ installs = 0
  /\ before = file["gray"] /\ unrestored = FALSE /\ misread = FALSE

Put(p, content, executable) ==
  file' = [file EXCEPT ![p] = [content |-> content, executable |-> executable]]

-----------------------------------------------------------------------------
(* gray_io_copy_file and gray_io_move_file.                                *)

\* The operation ends, well or not.
IoEnds(ok) == step' = (IF ok THEN io.then ELSE io.otherwise) /\ io' = NoIo

\* It goes on with its next call.
IoContinues(op) ==
  io' = [op |-> op, from |-> io.from, to |-> io.to, move |-> io.move,
         then |-> io.then, otherwise |-> io.otherwise]

Kept == <<installs, before, unrestored>>
UpdateRest == UNCHANGED <<Kept, misread>>

\* rename replaces the destination at one stroke.
Rename ==
  /\ io.op = "rename"
  /\ \/ /\ file[io.from] # Missing
        /\ file' = [file EXCEPT ![io.to] = file[io.from], ![io.from] = Missing]
        /\ IoEnds(TRUE)
     \/ /\ IoContinues("open")
        /\ UNCHANGED <<file, step>>
  /\ UpdateRest

\* The destination is created with the mode of the source, or keeps its own,
\* and is emptied.
OpenCopy ==
  /\ io.op = "open"
  /\ \/ /\ file[io.from] # Missing
        /\ Put(io.to, Partial, IF file[io.to] = Missing THEN file[io.from].executable
                               ELSE file[io.to].executable)
        /\ IoContinues("write") /\ UNCHANGED step
     \/ /\ IoEnds(FALSE) /\ UNCHANGED file
  /\ UpdateRest

CopyReturns ==
  IF io.move THEN IoContinues("unlink") /\ UNCHANGED step ELSE IoEnds(TRUE)

\* The copy ends: complete; cut off by a write that failed; or cut off by a
\* read that failed, which fread returns as it returns the end of the file.
WriteCopy ==
  /\ io.op = "write"
  /\ \/ /\ Put(io.to, file[io.from].content, file[io.to].executable)
        /\ CopyReturns /\ UNCHANGED misread
     \/ IoEnds(FALSE) /\ UNCHANGED <<file, misread>>
     \/ /\ misread' = TRUE
        /\ CopyReturns /\ UNCHANGED file
  /\ UNCHANGED Kept

\* The result of the unlink of a move is not looked at.
UnlinkMoved ==
  /\ io.op = "unlink"
  /\ \/ file' = [file EXCEPT ![io.from] = Missing]
     \/ UNCHANGED file
  /\ IoEnds(TRUE)
  /\ UpdateRest

move_file(from, to, then, otherwise) ==
  io' = [op |-> "rename", from |-> from, to |-> to, move |-> TRUE,
         then |-> then, otherwise |-> otherwise]

copy_file(from, to, then, otherwise) ==
  io' = [op |-> "open", from |-> from, to |-> to, move |-> FALSE,
         then |-> then, otherwise |-> otherwise]

-----------------------------------------------------------------------------
(* download_and_install and replace_executable.                            *)

At(s) == step = s /\ io = NoIo

RunUpdate ==
  /\ At("idle")
  /\ installs < MaxInstalls
  /\ Works("gray")
  /\ step' = "fetch" /\ installs' = installs + 1
  /\ before' = file["gray"] /\ unrestored' = FALSE
  /\ UNCHANGED <<file, io, misread>>

\* Bug: the archive is not compared with its checksum.
FetchUnchecked ==
  /\ At("fetch")
  /\ \E content \in {installs + 1, Partial} : Put("binary", content, FALSE)
  /\ step' = "chmod_binary"
  /\ UNCHANGED io /\ UpdateRest

\* The archive is downloaded, compared with its checksum and unpacked.  One
\* that was damaged on the way, or that cannot be fetched, goes no further.
fetch_release_binary ==
  /\ At("fetch")
  /\ \/ Put("binary", installs + 1, FALSE) /\ step' = "chmod_binary"
     \/ step' = "failed" /\ UNCHANGED file
  /\ UNCHANGED io /\ UpdateRest

ChmodBinary ==
  /\ At("chmod_binary")
  /\ \/ Put("binary", file["binary"].content, TRUE) /\ step' = "backup"
     \/ step' = "failed" /\ UNCHANGED file
  /\ UNCHANGED io /\ UpdateRest

\* Bug: the binary is copied over the executable.
BackupSkipped ==
  /\ At("backup")
  /\ step' = "install"
  /\ UNCHANGED <<file, io>> /\ UpdateRest

Backup ==
  /\ At("backup")
  /\ move_file("gray", "backup", "install", "failed")
  /\ UNCHANGED <<file, step>> /\ UpdateRest

Install ==
  /\ At("install")
  /\ copy_file("binary", "gray", "chmod_gray", "restore")
  /\ UNCHANGED <<file, step>> /\ UpdateRest

\* Bug: an executable that cannot be made one is left where it is.
ChmodGrayLeaves ==
  /\ At("chmod_gray")
  /\ \/ Put("gray", file["gray"].content, TRUE) /\ step' = "discard"
     \/ step' = "failed" /\ UNCHANGED file
  /\ UNCHANGED io /\ UpdateRest

ChmodGray ==
  /\ At("chmod_gray")
  /\ \/ Put("gray", file["gray"].content, TRUE) /\ step' = "discard"
     \/ /\ step' = "restore"
        /\ \/ file' = [file EXCEPT !["gray"] = Missing]
           \/ UNCHANGED file
  /\ UNCHANGED io /\ UpdateRest

Restore ==
  /\ At("restore")
  /\ move_file("backup", "gray", "failed", "lost")
  /\ UNCHANGED <<file, step>> /\ UpdateRest

\* The move back has failed, which nobody looks at.
Lost ==
  /\ At("lost")
  /\ unrestored' = TRUE /\ step' = "failed"
  /\ UNCHANGED <<file, io, installs, before, misread>>

Discard ==
  /\ At("discard")
  /\ \/ file' = [file EXCEPT !["backup"] = Missing]
     \/ UNCHANGED file
  /\ step' = "done"
  /\ UNCHANGED io /\ UpdateRest

\* The command ends, or after a permission error runs again under sudo, which
\* starts the executable that is there.  The command under sudo does the same.
Return ==
  /\ At("done") \/ At("failed")
  /\ \/ step' = "idle"
     \/ step = "failed" /\ Works("gray") /\ step' = "fetch"
  /\ file' = [file EXCEPT !["binary"] = Missing]
  /\ UNCHANGED <<io, installs, before, unrestored, misread>>

\* The process is killed; the files stay as they are.
Crash ==
  /\ step # "idle"
  /\ step' = "idle" /\ io' = NoIo
  /\ UNCHANGED file /\ UpdateRest

UpdateNext ==
  \/ RunUpdate \/ fetch_release_binary \/ ChmodBinary \/ Backup \/ Install
  \/ ChmodGray \/ Restore \/ Lost \/ Discard \/ Return
  \/ Rename \/ OpenCopy \/ WriteCopy \/ UnlinkMoved
  \/ Crash

-----------------------------------------------------------------------------
(* Properties.                                                             *)

\* Whatever fails and wherever the process stops, a gray that works is either
\* in its place or in .backup (update.gray 223-240), also when several updates
\* have been broken off one after the other: none of them overwrites or deletes
\* the last good copy.  A read that fails while a file is copied is the
\* exception: gray_io_copy_file reports success (io.c 472-476).
Recoverable == misread \/ Works("gray") \/ Works("backup")

\* An update that returns leaves an executable that works: after a success the
\* new one, with a content that was checked; after an error the one it started
\* with, unless the backup could not be moved back.
UpdateReturnsWorking ==
  misread \/
  /\ step = "done" => Works("gray") /\ file["gray"].content = installs + 1
  /\ step = "failed" /\ ~unrestored => file["gray"] = before
=============================================================================
