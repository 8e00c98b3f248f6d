-------------------------- MODULE ToolchainProofs --------------------------
(***************************************************************************)
(* Proofs about the tools: gray update and gray watch, for every number of *)
(* updates, edits and files, and the resolution of imports in grayc, for   *)
(* every set of files and directories and every program made of them.      *)
(***************************************************************************)
EXTENDS Cli, Imports, FiniteSetTheorems, WellFoundedInduction, TLAPS

-----------------------------------------------------------------------------
(* gray update: where the last good executable is at every step.           *)

\* What file operation can be going on at a step, and between which files.
Operation(op, from, to, move, then, otherwise) ==
  [op |-> op, from |-> from, to |-> to, move |-> move, then |-> then, otherwise |-> otherwise]

Moving(from, to, then, otherwise) ==
  \E op \in {"rename", "open", "write", "unlink"} :
    io = Operation(op, from, to, TRUE, then, otherwise)

Copying(from, to, then, otherwise) ==
  \E op \in {"open", "write"} : io = Operation(op, from, to, FALSE, then, otherwise)

IoFits ==
  \/ io = NoIo
  \/ step = "backup" /\ Moving("gray", "backup", "install", "failed")
  \/ step = "install" /\ Copying("binary", "gray", "chmod_gray", "restore")
  \/ step = "restore" /\ Moving("backup", "gray", "failed", "lost")

Steps == {"idle", "fetch", "chmod_binary", "backup", "install", "chmod_gray",
          "restore", "lost", "discard", "done", "failed"}

Paths == {"gray", "backup", "binary"}
Contents == [content : Int, executable : BOOLEAN]

UpdateTypes ==
  /\ file \in [Paths -> Contents]
  /\ step \in Steps /\ installs \in Nat
  /\ IoFits

\* What is at the executable's place or in .backup can be executed, if it has
\* a content at all: that is how a copy gets its mode.
ModesKept == \A p \in {"gray", "backup"} : file[p] = Missing \/ file[p].executable

\* The file at p works, and is the one the update started with.
Original(p) == Works(p) /\ (unrestored \/ file[p] = before)

\* The new binary, which has been checked.
NewBinary == file["binary"].content = installs + 1 /\ file["binary"].executable

\* The copy of the executable that can be relied on, step by step; a move has
\* made its copy when it comes to unlink.
LastGood ==
  /\ step = "idle" => Works("gray") \/ Works("backup")
  /\ step \in {"fetch", "chmod_binary"} => Original("gray")
  /\ step = "backup" => Original(IF io.op = "unlink" THEN "backup" ELSE "gray")
  /\ step \in {"install", "chmod_gray", "lost"} => Original("backup")
  /\ step = "restore" => Original(IF io.op = "unlink" THEN "gray" ELSE "backup")
  /\ step \in {"discard", "done"} => Works("gray") /\ file["gray"].content = installs + 1
  /\ step = "failed" => \/ Original("gray")
                        \/ unrestored /\ Works("backup")

\* What is on its way into place.
NextGood ==
  /\ step = "chmod_binary" => file["binary"].content = installs + 1
  /\ step \in {"backup", "install"} => NewBinary
  /\ step = "install" /\ io.op = "write" => file["gray"] # Missing
  /\ step \in {"backup", "restore"} /\ io.op = "write" => file[io.to] # Missing
  /\ step = "chmod_gray" => file["gray"].content = installs + 1

\* A copy that was cut off by a failing read ends what can be said.
Safe == UpdateTypes /\ ModesKept /\ LastGood /\ NextGood
UpdateInv == misread \/ Safe

\* The update starts with a gray that works.
LEMMA UpdateInitially ==
  ASSUME UpdateInit
  PROVE  UpdateInv
  <1>1. file \in [Paths -> Contents] /\ file["gray"] = [content |-> 1, executable |-> TRUE]
        /\ file["backup"] = Missing
    BY DEF UpdateInit, Paths, Contents, Missing, Absent
  <1>2. UpdateTypes
    BY <1>1 DEF UpdateTypes, UpdateInit, IoFits, Steps, Paths, Contents
  <1>3. ModesKept
    BY <1>1 DEF ModesKept
  <1>4. LastGood /\ NextGood
    BY <1>1 DEF LastGood, NextGood, UpdateInit, Works
  <1>5. QED
    BY <1>2, <1>3, <1>4 DEF UpdateInv, Safe

\* What Put does to the files.
LEMMA PutFacts ==
  ASSUME file \in [Paths -> Contents], NEW p \in Paths, NEW content \in Int,
         NEW executable \in BOOLEAN, Put(p, content, executable)
  PROVE  /\ file' \in [Paths -> Contents]
         /\ file'[p] = [content |-> content, executable |-> executable]
         /\ \A q \in Paths : q # p => file'[q] = file[q]
  BY DEF Put, Contents, Paths

\* What a removal does to the files.
LEMMA RemoveFacts ==
  ASSUME file \in [Paths -> Contents], NEW p \in Paths, file' = [file EXCEPT ![p] = Missing]
  PROVE  /\ file' \in [Paths -> Contents]
         /\ file'[p] = Missing
         /\ \A q \in Paths : q # p => file'[q] = file[q]
  BY DEF Contents, Missing, Absent

\* Nothing is under way at the steps of download_and_install itself.
LEMMA AtStep ==
  ASSUME NEW s, At(s)
  PROVE  step = s /\ io = NoIo /\ io.op = "none"
  BY DEF At, NoIo

\* The same for the steps that fetch and check the new binary.
LEMMA FetchSteps ==
  ASSUME Safe, RunUpdate \/ fetch_release_binary \/ ChmodBinary
  PROVE  Safe'
  <1> USE DEF Safe, UpdateTypes, ModesKept, LastGood, NextGood, Original, NewBinary, Works,
          UpdateRest, Kept
  <1>1. CASE RunUpdate
    <2>1. At("idle") /\ Works("gray") /\ step' = "fetch" /\ file' = file /\ io' = io
          /\ before' = file["gray"] /\ installs' = installs + 1 /\ misread' = misread
          /\ unrestored' = FALSE
      BY <1>1 DEF RunUpdate
    <2>2. step = "idle" /\ io = NoIo /\ io.op = "none"
      BY <2>1, AtStep
    <2>3. UpdateTypes'
      BY <2>1, <2>2 DEF IoFits, Steps, NoIo
    <2>4. ModesKept'
      BY <2>1
    <2>5. LastGood'
      BY <2>1
    <2>6. NextGood'
      BY <2>1
    <2>7. QED
      BY <2>3, <2>4, <2>5, <2>6
  <1>2. CASE fetch_release_binary
    <2>1. step = "fetch" /\ io = NoIo /\ io.op = "none"
      BY <1>2, AtStep DEF fetch_release_binary
    <2>2. CASE Put("binary", installs + 1, FALSE) /\ step' = "chmod_binary"
      <3>1. /\ file' \in [Paths -> Contents]
            /\ file'["gray"] = file["gray"] /\ file'["backup"] = file["backup"]
            /\ file'["binary"] = [content |-> installs + 1, executable |-> FALSE]
        <4>1. installs + 1 \in Int /\ "binary" \in Paths
          BY DEF Paths
        <4>2. QED
          BY <2>2, <4>1, PutFacts DEF Paths
      <3>2. UpdateTypes'
        BY <1>2, <2>1, <2>2, <3>1 DEF fetch_release_binary, IoFits, Steps
      <3>3. QED
        BY <1>2, <2>1, <2>2, <3>1, <3>2 DEF fetch_release_binary
    <2>3. CASE step' = "failed" /\ UNCHANGED file
      BY <1>2, <2>1, <2>3 DEF fetch_release_binary, IoFits, Steps
    <2>4. QED
      BY <1>2, <2>2, <2>3 DEF fetch_release_binary
  <1>3. CASE ChmodBinary
    <2>1. step = "chmod_binary" /\ io = NoIo /\ io.op = "none"
      BY <1>3, AtStep DEF ChmodBinary
    <2>2. CASE Put("binary", file["binary"].content, TRUE) /\ step' = "backup"
      <3>1. /\ file' \in [Paths -> Contents]
            /\ file'["gray"] = file["gray"] /\ file'["backup"] = file["backup"]
            /\ file'["binary"] = [content |-> installs + 1, executable |-> TRUE]
        <4>1. file["binary"].content \in Int /\ "binary" \in Paths
          BY DEF Paths, Contents
        <4>2. QED
          BY <2>1, <2>2, <4>1, PutFacts DEF Paths
      <3>2. UpdateTypes'
        BY <1>3, <2>1, <2>2, <3>1 DEF ChmodBinary, IoFits, Steps
      <3>3. QED
        BY <1>3, <2>1, <2>2, <3>1, <3>2 DEF ChmodBinary
    <2>3. CASE step' = "failed" /\ UNCHANGED file
      BY <1>3, <2>1, <2>3 DEF ChmodBinary, IoFits, Steps
    <2>4. QED
      BY <1>3, <2>2, <2>3 DEF ChmodBinary
  <1>4. QED
    BY <1>1, <1>2, <1>3

\* The file operations are started with the files as they are.
LEMMA StartSteps ==
  ASSUME Safe, Backup \/ Install \/ Restore
  PROVE  Safe'
  <1> USE DEF Safe, UpdateTypes, UpdateRest, Kept
  <1>1. io.op = "none" /\ UNCHANGED <<file, step, installs, before, unrestored>>
    BY AtStep DEF Backup, Install, Restore
  <1>2. IoFits' /\ io'.op \in {"rename", "open"}
    <2>1. CASE Backup
      BY <2>1, AtStep DEF Backup, move_file, IoFits, Moving, Operation
    <2>2. CASE Install
      BY <2>2, AtStep DEF Install, copy_file, IoFits, Copying, Operation
    <2>3. CASE Restore
      BY <2>3, AtStep DEF Restore, move_file, IoFits, Moving, Operation
    <2>4. QED
      BY <2>1, <2>2, <2>3
  <1>3. LastGood'
    BY <1>1, <1>2 DEF LastGood, Original, Works
  <1>4. NextGood'
    BY <1>1, <1>2 DEF NextGood, NewBinary
  <1>5. QED
    BY <1>1, <1>2, <1>3, <1>4 DEF ModesKept

\* The steps that end an update.
LEMMA EndSteps ==
  ASSUME Safe, ChmodGray \/ Lost \/ Discard \/ Return \/ Crash
  PROVE  Safe'
  <1> USE DEF Safe, UpdateTypes, UpdateRest, Kept
  <1>1. CASE ChmodGray
    <2>1. step = "chmod_gray" /\ io = NoIo /\ io.op = "none" /\ io' = io
          /\ UNCHANGED <<installs, before, unrestored>>
      BY <1>1, AtStep DEF ChmodGray
    <2>2. CASE Put("gray", file["gray"].content, TRUE) /\ step' = "discard"
      <3>1. /\ file' \in [Paths -> Contents]
            /\ file'["backup"] = file["backup"] /\ file'["binary"] = file["binary"]
            /\ file'["gray"] = [content |-> installs + 1, executable |-> TRUE]
        <4>1. file["gray"].content \in Int /\ "gray" \in Paths
          BY DEF Paths, Contents
        <4>2. QED
          BY <2>1, <2>2, <4>1, PutFacts DEF Paths, NextGood
      <3>2. UpdateTypes' /\ ModesKept'
        BY <2>1, <2>2, <3>1 DEF IoFits, Steps, NoIo, ModesKept
      <3>3. QED
        BY <2>1, <2>2, <3>1, <3>2 DEF LastGood, NextGood, Works
    <2>3. CASE step' = "restore" /\ \/ file' = [file EXCEPT !["gray"] = Missing]
                                    \/ UNCHANGED file
      <3>1. /\ file' \in [Paths -> Contents]
            /\ file'["backup"] = file["backup"] /\ file'["binary"] = file["binary"]
            /\ file'["gray"] \in {file["gray"], Missing}
        BY <2>3, RemoveFacts DEF Paths
      <3>2. UpdateTypes' /\ ModesKept'
        BY <2>1, <2>3, <3>1 DEF IoFits, Steps, NoIo, ModesKept, Missing
      <3>3. QED
        BY <2>1, <2>3, <3>1, <3>2 DEF LastGood, NextGood, Works, Original
    <2>4. QED
      BY <1>1, <2>2, <2>3 DEF ChmodGray
  <1>2. CASE Lost
    BY <1>2, AtStep DEF Lost, IoFits, Steps, NoIo, ModesKept, LastGood, NextGood, Original, Works
  <1>3. CASE Discard
    <2>1. step = "discard" /\ io = NoIo /\ io.op = "none" /\ io' = io /\ step' = "done"
          /\ UNCHANGED <<installs, before, unrestored>>
      BY <1>3, AtStep DEF Discard
    <2>2. /\ file' \in [Paths -> Contents]
          /\ file'["gray"] = file["gray"] /\ file'["binary"] = file["binary"]
          /\ file'["backup"] \in {file["backup"], Missing}
      BY <1>3, RemoveFacts DEF Paths, Discard
    <2>3. UpdateTypes' /\ ModesKept'
      BY <2>1, <2>2 DEF IoFits, Steps, NoIo, ModesKept, Missing
    <2>4. QED
      BY <2>1, <2>2, <2>3 DEF LastGood, NextGood, Works
  <1>4. CASE Return
    <2>1. step \in {"done", "failed"} /\ io = NoIo /\ io.op = "none" /\ io' = io
          /\ UNCHANGED <<installs, before, unrestored>>
          /\ \/ step' = "idle"
             \/ step = "failed" /\ step' = "fetch" /\ Works("gray")
      BY <1>4, AtStep DEF Return
    <2>2. /\ file' \in [Paths -> Contents]
          /\ file'["gray"] = file["gray"] /\ file'["backup"] = file["backup"]
      BY <1>4, RemoveFacts DEF Paths, Return
    <2>3. UpdateTypes' /\ ModesKept'
      BY <2>1, <2>2 DEF IoFits, Steps, NoIo, ModesKept, Missing
    <2>4. QED
      BY <2>1, <2>2, <2>3 DEF LastGood, NextGood, Works, Original
  <1>5. CASE Crash
    <2>1. Works("gray") \/ Works("backup")
      BY DEF LastGood, Original, Steps
    <2>2. QED
      BY <1>5, <2>1 DEF Crash, LastGood, NextGood, ModesKept, Works, IoFits, Steps, NoIo
  <1>6. QED
    BY <1>1, <1>2, <1>3, <1>4, <1>5

\* What is known of a file operation that is under way.
Underway(s, from, to, move, then, otherwise) ==
  /\ step = s /\ io.from = from /\ io.to = to /\ io.move = move
  /\ io.then = then /\ io.otherwise = otherwise

\* Which of the three operations of the update is underway.
LEMMA Ongoing ==
  ASSUME IoFits, io.op # "none"
  PROVE  /\ \/ Underway("backup", "gray", "backup", TRUE, "install", "failed")
            \/ Underway("install", "binary", "gray", FALSE, "chmod_gray", "restore")
               /\ io.op \in {"open", "write"}
            \/ Underway("restore", "backup", "gray", TRUE, "failed", "lost")
         /\ io = Operation(io.op, io.from, io.to, io.move, io.then, io.otherwise)
  BY DEF IoFits, Moving, Copying, Operation, Underway, NoIo

\* An operation that continues with its next call is still the same.
LEMMA GoesOn ==
  ASSUME IoFits, io.op # "none", NEW op \in {"open", "write", "unlink"}, IoContinues(op),
         step' = step, op = "unlink" => io.move
  PROVE  IoFits' /\ io'.op = op /\ io'.to = io.to
  <1>1. io' = Operation(op, io.from, io.to, io.move, io.then, io.otherwise)
    BY DEF IoContinues, Operation
  <1>2. io'.op = op /\ io'.to = io.to
    BY <1>1 DEF Operation
  <1>3. CASE Underway("backup", "gray", "backup", TRUE, "install", "failed")
    <2>1. step' = "backup" /\ io' = Operation(op, "gray", "backup", TRUE, "install", "failed")
      BY <1>1, <1>3 DEF Underway
    <2>2. QED
      BY <1>2, <2>1 DEF IoFits, Moving, Operation
  <1>4. CASE Underway("install", "binary", "gray", FALSE, "chmod_gray", "restore")
    <2>1. step' = "install" /\ io' = Operation(op, "binary", "gray", FALSE, "chmod_gray", "restore") /\ op \in {"open", "write"}
      BY <1>1, <1>4 DEF Underway
    <2>2. QED
      BY <1>2, <2>1 DEF IoFits, Copying, Operation
  <1>5. CASE Underway("restore", "backup", "gray", TRUE, "failed", "lost")
    <2>1. step' = "restore" /\ io' = Operation(op, "backup", "gray", TRUE, "failed", "lost")
      BY <1>1, <1>5 DEF Underway
    <2>2. QED
      BY <1>2, <2>1 DEF IoFits, Moving, Operation
  <1>6. QED
    BY <1>2, <1>3, <1>4, <1>5, Ongoing

\* A move by rename is one step; a copy, and a move by copy, come to the
\* unlink of the original only when the copy is complete.
LEMMA RenameSteps ==
  ASSUME Safe, Rename
  PROVE  Safe'
  <1> USE DEF Safe, UpdateTypes, UpdateRest, Kept
  <1>1. io.op = "rename" /\ UNCHANGED <<installs, before, unrestored>>
    BY DEF Rename
  <1>2. CASE IoContinues("open") /\ UNCHANGED <<file, step>>
    <2>1. IoFits' /\ io'.op = "open"
      BY <1>1, <1>2, GoesOn
    <2>2. QED
      BY <1>1, <1>2, <2>1 DEF LastGood, NextGood, Original, Works, ModesKept, NewBinary
  <1>3. CASE /\ file' = [file EXCEPT ![io.to] = file[io.from], ![io.from] = Missing]
             /\ IoEnds(TRUE)
    <2>1. io' = NoIo /\ io'.op = "none" /\ step' = io.then /\ IoFits'
      BY <1>3 DEF IoEnds, NoIo, IoFits
    <2>2. CASE Underway("backup", "gray", "backup", TRUE, "install", "failed")
      <3>1. /\ file' \in [Paths -> Contents] /\ file'["gray"] = Missing
            /\ file'["backup"] = file["gray"] /\ file'["binary"] = file["binary"]
        BY <1>3, <2>2 DEF Underway, Paths, Contents, Missing, Absent
      <3>2. QED
        BY <1>1, <2>1, <2>2, <3>1
           DEF Underway, LastGood, NextGood, Original, Works, ModesKept, NewBinary, Steps
    <2>3. CASE Underway("restore", "backup", "gray", TRUE, "failed", "lost")
      <3>1. /\ file' \in [Paths -> Contents] /\ file'["backup"] = Missing
            /\ file'["gray"] = file["backup"] /\ file'["binary"] = file["binary"]
        BY <1>3, <2>3 DEF Underway, Paths, Contents, Missing, Absent
      <3>2. QED
        BY <1>1, <2>1, <2>3, <3>1
           DEF Underway, LastGood, NextGood, Original, Works, ModesKept, NewBinary, Steps
    <2>4. QED
      BY <1>1, <2>2, <2>3, Ongoing
  <1>4. QED
    BY <1>2, <1>3 DEF Rename

\* An operation that fails leaves the copy that could be relied on.
LEMMA FailSteps ==
  ASSUME Safe, io.op \in {"open", "write"}, IoEnds(FALSE), UNCHANGED <<file, installs, before, unrestored>>
  PROVE  Safe'
  <1> USE DEF Safe, UpdateTypes
  <1>1. io' = NoIo /\ io'.op = "none" /\ step' = io.otherwise /\ IoFits'
    BY DEF IoEnds, NoIo, IoFits
  <1>2. QED
    BY <1>1, Ongoing DEF Underway, LastGood, NextGood, Original, Works, ModesKept, NewBinary, Steps

\* The destination of a copy is emptied; the source is what can be relied on.
LEMMA OpenSteps ==
  ASSUME Safe, OpenCopy
  PROVE  Safe'
  <1> USE DEF Safe, UpdateTypes, UpdateRest, Kept
  <1>1. io.op = "open" /\ UNCHANGED <<installs, before, unrestored>>
    BY DEF OpenCopy
  <1> DEFINE mode == IF file[io.to] = Missing THEN file[io.from].executable
                     ELSE file[io.to].executable
  <1>2. CASE /\ file[io.from] # Missing /\ Put(io.to, Partial, mode)
             /\ IoContinues("write") /\ UNCHANGED step
    <2>1. IoFits' /\ io'.op = "write" /\ io'.to = io.to
      BY <1>1, <1>2, GoesOn
    <2>2. io.from \in Paths /\ io.to \in Paths
      BY <1>1, Ongoing DEF Underway, Paths
    <2>3. mode \in BOOLEAN /\ Partial \in Int
      BY <2>2 DEF Contents, Partial
    <2>4. /\ file' \in [Paths -> Contents] /\ file'[io.to] = [content |-> Partial, executable |-> mode]
          /\ \A q \in Paths : q # io.to => file'[q] = file[q]
      <3> HIDE DEF mode
      <3>1. QED
        BY <1>2, <2>2, <2>3, PutFacts
    <2>5. mode
      BY <1>1, <1>2, Ongoing DEF Underway, ModesKept, NextGood, NewBinary
    <2>6. file'[io.to] # Missing
      BY <2>4 DEF Missing, Absent, Partial
    <2>7. QED
      <3> HIDE DEF mode
      <3>1. CASE Underway("backup", "gray", "backup", TRUE, "install", "failed")
        BY <1>1, <1>2, <2>1, <2>4, <2>5, <2>6, <3>1 DEF Underway, Paths, LastGood, NextGood, Original, Works, ModesKept, NewBinary
      <3>2. CASE Underway("install", "binary", "gray", FALSE, "chmod_gray", "restore")
        BY <1>1, <1>2, <2>1, <2>4, <2>5, <2>6, <3>2 DEF Underway, Paths, LastGood, NextGood, Original, Works, ModesKept, NewBinary
      <3>3. CASE Underway("restore", "backup", "gray", TRUE, "failed", "lost")
        BY <1>1, <1>2, <2>1, <2>4, <2>5, <2>6, <3>3 DEF Underway, Paths, LastGood, NextGood, Original, Works, ModesKept, NewBinary
      <3>4. QED
        BY <1>1, <3>1, <3>2, <3>3, Ongoing
  <1>3. CASE IoEnds(FALSE) /\ UNCHANGED file
    BY <1>1, <1>3, FailSteps
  <1>4. QED
    BY <1>2, <1>3 DEF OpenCopy

\* A copy that is complete is as good as its source.
LEMMA WriteSteps ==
  ASSUME Safe, WriteCopy, ~misread'
  PROVE  Safe'
  <1> USE DEF Safe, UpdateTypes, Kept
  <1>1. io.op = "write" /\ UNCHANGED <<installs, before, unrestored>>
    BY DEF WriteCopy
  <1>2. CASE Put(io.to, file[io.from].content, file[io.to].executable) /\ CopyReturns
    <2>1. io.from \in Paths /\ io.to \in Paths
      BY <1>1, Ongoing DEF Underway, Paths
    <2>2. file[io.from].content \in Int /\ file[io.to].executable \in BOOLEAN
      BY <2>1 DEF Contents
    <2>3. /\ file' \in [Paths -> Contents]
          /\ file'[io.to] = [content |-> file[io.from].content, executable |-> file[io.to].executable]
          /\ \A q \in Paths : q # io.to => file'[q] = file[q]
      BY <1>2, <2>1, <2>2, PutFacts
    <2>4. file[io.to].executable
      BY <1>1, Ongoing DEF Underway, ModesKept, NextGood
    <2>5. CASE Underway("install", "binary", "gray", FALSE, "chmod_gray", "restore")
      <3>1. io' = NoIo /\ io'.op = "none" /\ step' = "chmod_gray" /\ IoFits'
        BY <1>2, <2>5 DEF CopyReturns, IoEnds, NoIo, IoFits, Underway
      <3>2. QED
        BY <1>1, <2>3, <2>4, <2>5, <3>1
           DEF Underway, Paths, LastGood, NextGood, Original, Works, ModesKept, NewBinary, Steps
    <2>6. CASE io.move
      <3>1. IoContinues("unlink") /\ step' = step
        BY <1>2, <2>6 DEF CopyReturns
      <3>2. IoFits' /\ io'.op = "unlink"
        BY <1>1, <2>6, <3>1, GoesOn
      <3>3. CASE Underway("backup", "gray", "backup", TRUE, "install", "failed")
        <4>1. file'["backup"] = file["gray"]
          <5>1. file["gray"] \in Contents /\ file["gray"].executable /\ "gray" # "backup"
            BY <1>1, <3>3 DEF Underway, LastGood, Original, Works, Paths
          <5>2. QED
            BY <2>3, <2>4, <3>3, <5>1 DEF Underway, Contents
        <4>2. QED
          BY <1>1, <2>3, <2>4, <3>1, <3>2, <3>3, <4>1
             DEF Underway, Paths, LastGood, NextGood, Original, Works, ModesKept, NewBinary
      <3>4. CASE Underway("restore", "backup", "gray", TRUE, "failed", "lost")
        <4>1. file'["gray"] = file["backup"]
          <5>1. file["backup"] \in Contents /\ file["backup"].executable
            BY <1>1, <3>4 DEF Underway, LastGood, Original, Works, Paths
          <5>2. QED
            BY <2>3, <2>4, <3>4, <5>1 DEF Underway, Contents
        <4>2. QED
          BY <1>1, <2>3, <2>4, <3>1, <3>2, <3>4, <4>1
             DEF Underway, Paths, LastGood, NextGood, Original, Works, ModesKept, NewBinary
      <3>5. QED
        BY <1>1, <2>5, <3>3, <3>4, Ongoing
    <2>7. QED
      BY <1>1, <2>5, <2>6, Ongoing DEF Underway
  <1>3. CASE IoEnds(FALSE) /\ UNCHANGED file
    BY <1>1, <1>3, FailSteps
  <1>4. QED
    BY <1>2, <1>3 DEF WriteCopy

\* The original of a move may go when the copy is complete.
LEMMA UnlinkSteps ==
  ASSUME Safe, UnlinkMoved
  PROVE  Safe'
  <1> USE DEF Safe, UpdateTypes, UpdateRest, Kept
  <1>1. io.op = "unlink" /\ UNCHANGED <<installs, before, unrestored>>
    BY DEF UnlinkMoved
  <1>2. io' = NoIo /\ io'.op = "none" /\ step' = io.then /\ IoFits'
    BY DEF UnlinkMoved, IoEnds, NoIo, IoFits
  <1>3. io.from \in Paths /\ io.to \in Paths /\ io.from # io.to
    BY <1>1, Ongoing DEF Underway, Paths
  <1>4. /\ file' \in [Paths -> Contents] /\ file'[io.from] \in {file[io.from], Missing}
        /\ \A q \in Paths : q # io.from => file'[q] = file[q]
    BY <1>3, RemoveFacts DEF UnlinkMoved
  <1>5. CASE Underway("backup", "gray", "backup", TRUE, "install", "failed")
    BY <1>1, <1>2, <1>4, <1>5
       DEF Underway, Paths, LastGood, NextGood, Original, Works, ModesKept, NewBinary, Steps
  <1>6. CASE Underway("restore", "backup", "gray", TRUE, "failed", "lost")
    BY <1>1, <1>2, <1>4, <1>6
       DEF Underway, Paths, LastGood, NextGood, Original, Works, ModesKept, NewBinary, Steps
  <1>7. QED
    BY <1>1, <1>5, <1>6, Ongoing

\* Every step of the command, and a crash at any of them, keeps a good copy.
LEMMA UpdateStep ==
  ASSUME UpdateInv, [UpdateNext]_update
  PROVE  UpdateInv'
  <1>1. CASE misread
    <2>1. misread'
      BY <1>1 DEF UpdateNext, update, RunUpdate, fetch_release_binary, ChmodBinary, Backup,
        Install, ChmodGray, Restore, Lost, Discard, Return, Rename, OpenCopy, WriteCopy,
        UnlinkMoved, Crash, UpdateRest, Kept
    <2>2. QED
      BY <2>1 DEF UpdateInv
  <1>2. CASE ~misread /\ UNCHANGED update
    BY <1>2 DEF UpdateInv, Safe, UpdateTypes, ModesKept, LastGood, NextGood, Original,
       NewBinary, Works, IoFits, Moving, Copying, update
  <1>3. CASE ~misread /\ UpdateNext
    BY <1>3, FetchSteps, StartSteps, EndSteps, RenameSteps, OpenSteps, WriteSteps, UnlinkSteps
       DEF UpdateInv, UpdateNext
  <1>4. QED
    BY <1>1, <1>2, <1>3

\* While gray watch runs nothing of this changes.
LEMMA UpdateAlways == CliSpec => []UpdateInv
  <1>1. CliInit => UpdateInv
    BY UpdateInitially DEF CliInit
  <1>2. UpdateInv /\ [CliNext]_cli => UpdateInv'
    BY UpdateStep DEF CliNext, run_command, cli
  <1>3. QED
    BY <1>1, <1>2, PTL DEF CliSpec

\* Whatever fails and wherever an update is broken off (update.gray 223-240),
\* however often in a row: a gray that works is in its place or in .backup.
THEOREM UpdateRecoverable == CliSpec => []Recoverable
  <1>1. UpdateInv => Recoverable
    BY DEF UpdateInv, Safe, UpdateTypes, Recoverable, LastGood, Original, Steps
  <1>2. QED
    BY <1>1, UpdateAlways, PTL

\* An update that returns leaves the new executable after a success, and the
\* one it started with after an error, unless the backup could not be moved
\* back (update.gray 223-258).
THEOREM UpdateReturns == CliSpec => []UpdateReturnsWorking
  <1>1. UpdateInv => UpdateReturnsWorking
    BY DEF UpdateInv, Safe, UpdateTypes, UpdateReturnsWorking, LastGood, Original, Steps
  <1>2. QED
    BY <1>1, UpdateAlways, PTL

-----------------------------------------------------------------------------
(* gray watch: the runs that have been started are paid for by edits.      *)

\* S has the main file and what the scan finds in its members, as far as it
\* exists.
Closed(S) == Main \in S /\ \A f \in S : scan_imports(f) \cap DOMAIN disk \subseteq S

\* The files that a walk of the scanned imports comes to.
Reached == {f \in Sources : \A S \in SUBSET Sources : Closed(S) => f \in S}

\* The snapshot that would be taken if nobody changed a file meanwhile.
Watched == (IF directory # {} THEN directory ELSE Reached) \cap DOMAIN disk
TrueSnapshot == [f \in Watched |-> Stamp(disk[f])]

\* The files of the walk that is going on have been listed as they are.
ListingFits ==
  /\ snapshot = Nothing
  /\ directory # {} => pending = {Main} /\ listed = {}
  /\ directory = {} => /\ Main \in listed \cup pending
                       /\ listed \cup pending \subseteq Reached
                       /\ \A f \in listed : scan_imports(f) \cap DOMAIN disk \subseteq listed \cup pending

\* The listed files have been stamped as they are.
StampsFit ==
  /\ listed \cap DOMAIN disk \subseteq Watched
  /\ DOMAIN snapshot \subseteq Watched
  /\ Watched \subseteq listed \cup DOMAIN snapshot
  /\ snapshot = [f \in DOMAIN snapshot |-> Stamp(disk[f])]

WalkFits == IF pending # {} THEN ListingFits ELSE StampsFit

WatchTypes ==
  /\ disk = [f \in DOMAIN disk |-> disk[f]] /\ DOMAIN disk \subseteq Sources
  /\ edits \in Nat /\ runs \in Nat

\* A snapshot that differs from the known one has been paid for by an edit; so
\* has the snapshot that settles.
WatchInv ==
  /\ WatchTypes
  /\ runs <= 1 + edits
  /\ runs = 1 + edits =>
       /\ stage # "settle"
       /\ stage \in {"baseline", "poll"} => WalkFits
       /\ stage = "poll" \/ (stage = "execute" /\ runs # 1) => known = TrueSnapshot
  /\ runs = edits /\ stage = "settle" => WalkFits

\* The main file is reached, and what the scan finds in a file that is reached.
LEMMA ReachedFacts ==
  ASSUME DOMAIN disk \subseteq Sources
  PROVE  /\ Main \in Reached /\ Reached \subseteq Sources
         /\ \A f \in Reached : scan_imports(f) \cap DOMAIN disk \subseteq Reached
         /\ \A S \in SUBSET Sources : Closed(S) => Reached \subseteq S
  BY WatchAssumption DEF Reached, Closed

\* What has to be watched depends on the files only.
LEMMA SameFiles ==
  ASSUME UNCHANGED <<disk, directory>>
  PROVE  /\ Watched' = Watched /\ Reached' = Reached /\ TrueSnapshot' = TrueSnapshot
         /\ \A f : scan_imports(f)' = scan_imports(f)
  <1>1. \A f : scan_imports(f)' = scan_imports(f)
    BY DEF scan_imports
  <1>2. \A S : Closed(S)' <=> Closed(S)
    BY <1>1 DEF Closed
  <1>3. Reached' = Reached
    BY <1>2 DEF Reached
  <1>4. QED
    BY <1>1, <1>3 DEF Watched, TrueSnapshot

\* A walk that has not begun fits the files, whatever they are.
LEMMA GotoFits ==
  ASSUME NEW s, Goto(s, {Main}), WatchTypes, UNCHANGED <<disk, directory>>
  PROVE  WalkFits' /\ stage' = s
  <1>1. Main \in Reached'
    BY ReachedFacts, SameFiles DEF WatchTypes
  <1>2. QED
    BY <1>1 DEF Goto, WalkFits, ListingFits

\* A walk that ends without an edit has the snapshot of the files.
LEMMA TakenFits ==
  ASSUME NEW s, SnapshotTaken(s), WalkFits
  PROVE  snapshot = TrueSnapshot
  BY DEF SnapshotTaken, WalkFits, StampsFit, TrueSnapshot

\* Listing a directory keeps the walk true to the disk.
LEMMA ListFits ==
  ASSUME WatchTypes, WalkFits, List
  PROVE  WalkFits'
  <1> USE DEF WatchTypes
  <1>1. pending # {} /\ ListingFits /\ UNCHANGED <<disk, directory, snapshot>>
    BY DEF List, WalkFits, files
  <1>2. /\ Watched' = Watched /\ Reached' = Reached
        /\ \A f : scan_imports(f)' = scan_imports(f)
    BY <1>1, SameFiles
  <1>3. CASE directory # {}
    <2>1. pending' = {} /\ listed' = directory \cap DOMAIN disk
      BY <1>3 DEF List
    <2>2. snapshot = Nothing /\ DOMAIN snapshot = {}
      BY <1>1 DEF ListingFits, Nothing
    <2>3. Watched = directory \cap DOMAIN disk
      BY <1>3 DEF Watched
    <2>4. QED
      BY <1>1, <1>2, <2>1, <2>2, <2>3 DEF WalkFits, StampsFit, Nothing
  <1>4. CASE directory = {}
    <2>1. PICK f \in pending : /\ listed' = listed \cup {f}
                               /\ pending' = (pending \cup (scan_imports(f) \cap DOMAIN disk)) \ listed'
      BY <1>4 DEF List
    <2>2. /\ Main \in listed' \cup pending'
          /\ listed' \cup pending' \subseteq Reached
          /\ \A g \in listed' : scan_imports(g) \cap DOMAIN disk \subseteq listed' \cup pending'
      BY <1>1, <1>4, <2>1, ReachedFacts DEF ListingFits
    <2>3. CASE pending' # {}
      BY <1>1, <1>2, <1>4, <2>2, <2>3 DEF WalkFits, ListingFits
    <2>4. CASE pending' = {}
      <3>1. Closed(listed') /\ listed' \in SUBSET Sources
        BY <2>2, <2>4, ReachedFacts DEF Closed
      <3>2. listed' = Reached
        BY <2>2, <2>4, <3>1, ReachedFacts
      <3>3. Watched = Reached \cap DOMAIN disk
        BY <1>4 DEF Watched
      <3>4. snapshot = Nothing /\ DOMAIN snapshot = {}
        BY <1>1 DEF ListingFits, Nothing
      <3>5. QED
        BY <1>1, <1>2, <2>4, <3>2, <3>3, <3>4 DEF WalkFits, StampsFit, Nothing
    <2>5. QED
      BY <2>3, <2>4
  <1>5. QED
    BY <1>3, <1>4

\* So does reading the time of a file that was listed.
LEMMA StatFits ==
  ASSUME WatchTypes, WalkFits, Stat
  PROVE  WalkFits'
  <1>1. pending = {} /\ pending' = {} /\ StampsFit /\ UNCHANGED <<disk, directory>>
    BY DEF Stat, WalkFits, files
  <1>2. Watched' = Watched
    BY <1>1, SameFiles
  <1>3. PICK f \in listed :
          /\ listed' = listed \ {f}
          /\ snapshot' = IF f \in DOMAIN disk THEN With(snapshot, f, Stamp(disk[f])) ELSE snapshot
    BY DEF Stat
  <1>4. CASE f \in DOMAIN disk
    <2>1. snapshot' = With(snapshot, f, Stamp(disk[f])) /\ f \in Watched
      BY <1>1, <1>3, <1>4 DEF StampsFit
    <2>2. DOMAIN snapshot' = DOMAIN snapshot \cup {f}
      BY <2>1 DEF With
    <2>3. snapshot' = [g \in DOMAIN snapshot' |-> Stamp(disk[g])]
      BY <1>1, <2>1, <2>2 DEF With, StampsFit
    <2>4. QED
      BY <1>1, <1>2, <1>3, <2>1, <2>2, <2>3 DEF WalkFits, StampsFit
  <1>5. CASE f \notin DOMAIN disk
    <2>1. f \notin Watched
      BY <1>5 DEF Watched
    <2>2. QED
      BY <1>1, <1>2, <1>3, <1>5, <2>1 DEF WalkFits, StampsFit
  <1>6. QED
    BY <1>4, <1>5

\* gray watch starts with one run and no edit.
LEMMA WatchInitially ==
  ASSUME WatchInit
  PROVE  WatchInv
  BY WatchAssumption DEF WatchInit, WatchInv, WatchTypes

\* An edit pays for one more run.
LEMMA EditSteps ==
  ASSUME WatchInv, Edit
  PROVE  WatchInv'
  <1> USE DEF WatchInv, WatchTypes
  <1>1. CASE \E f \in Sources : Save(f) \/ Delete(f)
    <2>1. PICK f \in Sources : Save(f) \/ Delete(f)
      BY <1>1
    <2>2. edits' = edits + 1 /\ runs' = runs /\ stage' = stage
      BY <2>1 DEF Save, Delete
    <2>3. CASE Save(f)
      <3>1. PICK x : disk' = With(disk, f, x)
        BY <2>3 DEF Save
      <3>2. DOMAIN disk' = DOMAIN disk \cup {f} /\ disk' = [g \in DOMAIN disk' |-> disk'[g]]
        BY <3>1 DEF With
      <3>3. QED
        BY <2>2, <3>2
    <2>4. CASE Delete(f)
      BY <2>2, <2>4 DEF Delete
    <2>5. QED
      BY <2>1, <2>3, <2>4
  <1>2. CASE Tick
    <2>1. UNCHANGED <<disk, directory, edits, runs, stage, known, pending, listed, snapshot>>
      BY <1>2 DEF Tick, walk
    <2>2. WalkFits' <=> WalkFits
      BY <2>1, SameFiles DEF WalkFits, ListingFits, StampsFit
    <2>3. QED
      BY <2>1, <2>2, SameFiles
  <1>3. QED
    BY <1>1, <1>2 DEF Edit

\* gray watch never runs the program for nothing.
LEMMA LoopSteps ==
  ASSUME WatchInv, watch_loop
  PROVE  WatchInv'
  <1> USE DEF WatchInv
  <1>1. UNCHANGED <<disk, directory, edits>> /\ WatchTypes
    BY DEF watch_loop, Read, EndRun, List, Stat, Baseline, Poll, Settle, files
  <1>2. TrueSnapshot' = TrueSnapshot
    BY <1>1, SameFiles
  <1>3. CASE \E f \in Sources : Read(f)
    BY <1>1, <1>2, <1>3 DEF Read, WatchTypes
  <1>4. CASE EndRun
    <2>1. WalkFits' /\ stage' = IF runs = 1 THEN "baseline" ELSE "poll"
      BY <1>1, <1>4, GotoFits DEF EndRun
    <2>2. QED
      BY <1>1, <1>2, <1>4, <2>1 DEF EndRun, WatchTypes
  <1>5. CASE List
    BY <1>1, <1>2, <1>5, ListFits DEF List, WatchTypes
  <1>6. CASE Stat
    BY <1>1, <1>2, <1>6, StatFits DEF Stat, WatchTypes
  <1>7. CASE Baseline
    <2>1. WalkFits' /\ stage' = "poll"
      BY <1>1, <1>7, GotoFits DEF Baseline
    <2>2. runs = 1 + edits => snapshot = TrueSnapshot
      BY <1>7, TakenFits DEF Baseline, SnapshotTaken
    <2>3. QED
      BY <1>1, <1>2, <1>7, <2>1, <2>2 DEF Baseline, WatchTypes
  <1>8. CASE Poll
    <2>1. runs = 1 + edits => known = TrueSnapshot /\ snapshot = TrueSnapshot
      BY <1>8, TakenFits DEF Poll, SnapshotTaken
    <2>2. CASE ~snapshots_differ(known, snapshot) /\ Goto("poll", {Main})
      <3>1. WalkFits' /\ stage' = "poll"
        BY <1>1, <2>2, GotoFits
      <3>2. QED
        BY <1>1, <1>2, <1>8, <2>1, <3>1 DEF Poll, WatchTypes
    <2>3. CASE snapshots_differ(known, snapshot) /\ Goto("settle", {Main})
      <3>1. WalkFits' /\ stage' = "settle"
        BY <1>1, <2>3, GotoFits
      <3>2. runs # 1 + edits
        BY <2>1, <2>3 DEF snapshots_differ
      <3>3. QED
        BY <1>1, <1>8, <3>1, <3>2 DEF Poll, WatchTypes
    <2>4. QED
      BY <1>8, <2>2, <2>3 DEF Poll
  <1>9. CASE Settle
    <2>1. stage = "settle" /\ runs # 1 + edits
      BY <1>9 DEF Settle, SnapshotTaken
    <2>2. runs = edits => snapshot = TrueSnapshot
      BY <1>9, <2>1, TakenFits DEF Settle
    <2>3. CASE Goto("settle", {Main}) /\ UNCHANGED <<known, ran, runs>>
      <3>1. WalkFits' /\ stage' = "settle"
        BY <1>1, <2>3, GotoFits
      <3>2. QED
        BY <1>1, <2>1, <2>3, <3>1 DEF WatchTypes
    <2>4. CASE known' = snapshot /\ Goto("execute", {Main}) /\ runs' = runs + 1
      <3>1. stage' = "execute"
        BY <2>4 DEF Goto
      <3>2. QED
        BY <1>1, <1>2, <2>1, <2>2, <2>4, <3>1 DEF WatchTypes
    <2>5. QED
      BY <1>9, <2>3, <2>4 DEF Settle
  <1>10. QED
    BY <1>3, <1>4, <1>5, <1>6, <1>7, <1>8, <1>9 DEF watch_loop

\* One save runs the program at most once, and without a save nothing is run
\* (watch.gray 129-148), however many files and edits there are and however
\* they fall between the stamps of a snapshot.
THEOREM WatchRunsPerEdit == CliSpec => []RunsPerEdit
  <1>1. CliInit => WatchInv
    BY WatchInitially DEF CliInit
  <1>2. WatchInv /\ [CliNext]_cli => WatchInv'
    <2>1. ASSUME WatchInv, UNCHANGED watch PROVE WatchInv'
      <3>1. UNCHANGED <<disk, directory, edits, runs, stage, known, pending, listed, snapshot>>
        BY <2>1 DEF watch, files, walk
      <3>2. WalkFits' <=> WalkFits
        BY <3>1, SameFiles DEF WalkFits, ListingFits, StampsFit
      <3>3. QED
        BY <2>1, <3>1, <3>2, SameFiles DEF WatchInv, WatchTypes
    <2>2. QED
      BY <2>1, EditSteps, LoopSteps DEF CliNext, run_command, cli
  <1>3. WatchInv => RunsPerEdit
    BY DEF WatchInv, RunsPerEdit
  <1>4. QED
    BY <1>1, <1>2, <1>3, PTL DEF CliSpec

-----------------------------------------------------------------------------
(* The inductive invariant.                                                *)

IsSeq(s) == s \in Seq(Range(s))

\* The files that have been merged or will be when the import is over, and
\* those that it has still to look at.
Known == Range(variables) \cup Range(import.parsed)
Pending == Range(import.files)

\* The sequences are sequences, whatever their elements.
Sequential ==
  /\ IsSeq(import_queue) /\ IsSeq(seen) /\ IsSeq(module_files) /\ IsSeq(variables)
  /\ IsSeq(import.files) /\ IsSeq(import.parsed)

\* The files are files, and each that is known has been met.
FilesFit ==
  /\ program \in Programs
  /\ DOMAIN import_hash \subseteq Files /\ Pending \subseteq Files
  /\ Known \subseteq DOMAIN import_hash /\ Entry \in Range(variables)
  /\ \A i \in DOMAIN module_files : module_files[i][1] \in DOMAIN import_hash
  /\ import.path = NULL => import.files = <<>> /\ import.parsed = <<>>

\* No file is there twice.
FilesOnce ==
  /\ IsInjective(variables) /\ IsInjective(import.parsed)
  /\ Range(variables) \cap Range(import.parsed) = {}
  /\ \A i, j \in DOMAIN module_files : module_files[i][1] = module_files[j][1] => i = j

\* What is in the queue was written in a file that is known, and the import
\* that is carried out in one that has been merged.
Origins ==
  /\ \A i \in DOMAIN import_queue : import_queue[i].file \in Known
  /\ import.path # NULL => import.from \in Range(variables)
  /\ \A f \in Range(import.parsed) : import_hash[f].from = import.from

\* A file comes before the one that brought it in.
InOrder ==
  \A i \in DOMAIN variables : variables[i] # Entry =>
    \E j \in DOMAIN variables : i < j /\ variables[j] = import_hash[variables[i]].from

OrderInv == Sequential /\ FilesFit /\ FilesOnce /\ Origins /\ InOrder

\* The path is the target of an import that was accepted.
Bound(path) == \E i \in DOMAIN seen : ~seen[i].stdlib /\ seen[i].path = path

\* Where an import of f went: it waits, its target was bound, or it was dropped
\* since it leads to the directory that f was merged with.
Waits(f, item) == [file |-> f, item |-> item] \in Range(import_queue)
WasDropped(f, item) ==
  /\ import_hash[f].directory
  /\ item.path \in Files \cup DOMAIN Directory /\ Parent[item.path] = Parent[f]

Accounted(f) ==
  \A item \in ItemsOf(f) : ~item.stdlib =>
    Waits(f, item) \/ Bound(item.path) \/ WasDropped(f, item)

\* While there are no errors: all that was met is known; what is bound is
\* known or pending; every import of a known file is accounted for.
Followed ==
  ~has_errors =>
    /\ DOMAIN import_hash \subseteq Known
    /\ \A path : Bound(path) =>
         \A g \in Range(FilesOf(path)) \ {Entry} : g \in Known \cup Pending
    /\ \A f \in Known : Accounted(f)

\* A file that was merged with its directory is in a directory that is bound,
\* and so is the path of the import that is carried out.
Directories ==
  /\ \A f \in DOMAIN import_hash : import_hash[f].directory =>
       Parent[f] \in DOMAIN Directory /\ Bound(Parent[f])
  /\ import.path # NULL => Bound(import.path) /\ Pending \subseteq Range(FilesOf(import.path))

MergeInv == OrderInv /\ Followed /\ Directories

-----------------------------------------------------------------------------
(* Sequences of whatever elements.                                         *)

\* The indices of a sequence.
LEMMA SeqFacts ==
  ASSUME NEW s, IsSeq(s)
  PROVE  /\ Len(s) \in Nat /\ DOMAIN s = 1 .. Len(s) /\ (s = <<>> <=> Len(s) = 0)
         /\ \A i \in 1 .. Len(s) : s[i] \in Range(s)
         /\ \A x \in Range(s) : \E i \in 1 .. Len(s) : s[i] = x
  BY DEF IsSeq, Range

\* A function on 1 .. n is a sequence.
LEMMA FunctionIsSeq ==
  ASSUME NEW n \in Nat, NEW s, s = [i \in DOMAIN s |-> s[i]], DOMAIN s = 1 .. n
  PROVE  IsSeq(s) /\ Len(s) = n
  <1>1. s \in [1 .. n -> Range(s)]
    BY DEF Range
  <1>2. QED
    BY <1>1 DEF IsSeq

\* A sequence of elements of some set is one.
LEMMA AnySeq ==
  ASSUME NEW S, NEW s \in Seq(S)
  PROVE  IsSeq(s)
  <1>1. Len(s) \in Nat /\ DOMAIN s = 1 .. Len(s) /\ s \in [1 .. Len(s) -> S]
    OBVIOUS
  <1>2. s = [i \in DOMAIN s |-> s[i]]
    BY <1>1
  <1>3. QED
    BY <1>1, <1>2, FunctionIsSeq

\* One more element.
LEMMA Appended ==
  ASSUME NEW s, IsSeq(s), NEW e
  PROVE  /\ IsSeq(Append(s, e)) /\ Len(Append(s, e)) = Len(s) + 1
         /\ DOMAIN Append(s, e) = 1 .. Len(s) + 1
         /\ \A i \in 1 .. Len(s) : Append(s, e)[i] = s[i]
         /\ Append(s, e)[Len(s) + 1] = e
  <1> DEFINE S == Range(s) \cup {e}
  <1>1. s \in Seq(S) /\ e \in S
    BY DEF IsSeq
  <1> HIDE DEF S
  <1>2. /\ Append(s, e) \in Seq(S) /\ Len(Append(s, e)) = Len(s) + 1 /\ Len(s) \in Nat
        /\ \A i \in 1 .. Len(s) : Append(s, e)[i] = s[i]
        /\ Append(s, e)[Len(s) + 1] = e
    BY <1>1
  <1>3. DOMAIN Append(s, e) = 1 .. Len(s) + 1
    BY <1>2
  <1>4. IsSeq(Append(s, e))
    BY <1>2, AnySeq
  <1>5. QED
    BY <1>2, <1>3, <1>4

\* Two sequences, one behind the other.
LEMMA Concatenated ==
  ASSUME NEW s, IsSeq(s), NEW t, IsSeq(t)
  PROVE  /\ IsSeq(s \o t) /\ Len(s \o t) = Len(s) + Len(t)
         /\ DOMAIN (s \o t) = 1 .. Len(s) + Len(t)
         /\ \A i \in 1 .. Len(s) : (s \o t)[i] = s[i]
         /\ \A i \in 1 .. Len(t) : (s \o t)[Len(s) + i] = t[i]
         /\ Range(s \o t) = Range(s) \cup Range(t)
  <1> DEFINE S == Range(s) \cup Range(t)
  <1>1. s \in Seq(S) /\ t \in Seq(S)
    BY DEF IsSeq
  <1> HIDE DEF S
  <1>2. /\ s \o t \in Seq(S) /\ Len(s \o t) = Len(s) + Len(t) /\ Len(s) \in Nat /\ Len(t) \in Nat
        /\ DOMAIN (s \o t) = 1 .. Len(s) + Len(t)
    BY <1>1
  <1>3. \A i \in 1 .. Len(s) : (s \o t)[i] = s[i]
    BY <1>1
  <1>4. \A i \in 1 .. Len(t) : (s \o t)[Len(s) + i] = t[i]
    BY <1>1
  <1>5. IsSeq(s \o t)
    BY <1>2, AnySeq
  <1>6. Range(s \o t) \subseteq Range(s) \cup Range(t)
    <2> SUFFICES ASSUME NEW i \in 1 .. Len(s) + Len(t)
                 PROVE  (s \o t)[i] \in Range(s) \cup Range(t)
      BY <1>2 DEF Range
    <2>1. CASE i \in 1 .. Len(s)
      BY <2>1, <1>3, SeqFacts
    <2>2. CASE i \notin 1 .. Len(s)
      <3>1. i - Len(s) \in 1 .. Len(t) /\ i = Len(s) + (i - Len(s))
        BY <1>2, <2>2
      <3>2. QED
        BY <1>4, <3>1, SeqFacts
    <2>3. QED
      BY <2>1, <2>2
  <1>7. Range(s) \subseteq Range(s \o t)
    <2>1. \A i \in 1 .. Len(s) : i \in 1 .. Len(s) + Len(t)
      BY <1>2
    <2>2. QED
      BY <1>2, <1>3, <2>1, SeqFacts DEF Range
  <1>8. Range(t) \subseteq Range(s \o t)
    <2>1. \A i \in 1 .. Len(t) : Len(s) + i \in 1 .. Len(s) + Len(t)
      BY <1>2
    <2>2. QED
      <3>1. \A i \in 1 .. Len(t) : t[i] \in Range(s \o t)
        BY <1>2, <1>4, <2>1 DEF Range
      <3>2. QED
        BY <3>1, SeqFacts
  <1>9. QED
    BY <1>2, <1>3, <1>4, <1>5, <1>6, <1>7, <1>8

\* The first element and the others.
LEMMA Tailed ==
  ASSUME NEW s, IsSeq(s), s # <<>>
  PROVE  /\ IsSeq(Tail(s)) /\ Head(s) \in Range(s)
         /\ Range(s) = Range(Tail(s)) \cup {Head(s)}
  <1>1. /\ Len(s) \in Nat /\ Len(s) >= 1 /\ Head(s) = s[1] /\ 1 \in 1 .. Len(s)
        /\ Tail(s) \in Seq(Range(s)) /\ Len(Tail(s)) = Len(s) - 1
    BY DEF IsSeq
  <1>2. \A i \in 1 .. Len(s) - 1 : Tail(s)[i] = s[i + 1]
    BY DEF IsSeq
  <1>3. DOMAIN Tail(s) = 1 .. Len(s) - 1 /\ Len(s) - 1 \in Nat
    BY <1>1
  <1>4. IsSeq(Tail(s))
    BY <1>1, AnySeq
  <1>5. Range(Tail(s)) \subseteq Range(s) /\ Head(s) \in Range(s)
    BY <1>1, <1>2, <1>3, SeqFacts DEF Range
  <1>6. ASSUME NEW i \in 1 .. Len(s) PROVE s[i] \in Range(Tail(s)) \cup {Head(s)}
    <2>1. CASE i = 1
      BY <1>1, <2>1
    <2>2. CASE i # 1
      <3>1. i - 1 \in 1 .. Len(s) - 1 /\ (i - 1) + 1 = i
        BY <1>1, <2>2
      <3>2. s[i] = Tail(s)[i - 1]
        BY <1>2, <3>1
      <3>3. QED
        BY <1>3, <3>1, <3>2 DEF Range
    <2>3. QED
      BY <2>1, <2>2
  <1>7. QED
    BY <1>4, <1>5, <1>6, SeqFacts

\* The other way round.
LEMMA Reversed ==
  ASSUME NEW s, IsSeq(s)
  PROVE  /\ IsSeq(Reverse(s)) /\ Len(Reverse(s)) = Len(s)
         /\ \A i \in 1 .. Len(s) : Reverse(s)[i] = s[(Len(s) - i) + 1]
         /\ Range(Reverse(s)) = Range(s)
  <1>1. Len(s) \in Nat /\ DOMAIN s = 1 .. Len(s)
    BY SeqFacts
  <1>2. DOMAIN Reverse(s) = 1 .. Len(s) /\ \A i \in 1 .. Len(s) : Reverse(s)[i] = s[(Len(s) - i) + 1]
    BY DEF Reverse
  <1>3. IsSeq(Reverse(s)) /\ Len(Reverse(s)) = Len(s)
    <2>1. Reverse(s) = [i \in DOMAIN Reverse(s) |-> Reverse(s)[i]]
      BY DEF Reverse
    <2>2. QED
      BY <1>1, <1>2, <2>1, FunctionIsSeq
  <1>4. \A i \in 1 .. Len(s) : (Len(s) - i) + 1 \in 1 .. Len(s) /\ (Len(s) - ((Len(s) - i) + 1)) + 1 = i
    BY <1>1
  <1>5. Range(Reverse(s)) \subseteq Range(s)
    BY <1>1, <1>2, <1>4 DEF Range
  <1>6. \A i \in 1 .. Len(s) : s[i] = Reverse(s)[(Len(s) - i) + 1]
    BY <1>2, <1>4
  <1>7. Range(s) \subseteq Range(Reverse(s))
    BY <1>1, <1>2, <1>4, <1>6 DEF Range
  <1>8. QED
    BY <1>2, <1>3, <1>5, <1>7

\* Nothing more.
LEMMA NothingAdded ==
  ASSUME NEW s, IsSeq(s)
  PROVE  s \o <<>> = s
  BY DEF IsSeq

\* One element behind a sequence that does not have it.
LEMMA OneAdded ==
  ASSUME NEW s, IsSeq(s), NEW x
  PROVE  /\ IsSeq(s \o <<x>>) /\ Range(s \o <<x>>) = Range(s) \cup {x}
         /\ IsInjective(s) /\ x \notin Range(s) => IsInjective(s \o <<x>>)
  <1>1. IsSeq(<<x>>) /\ Len(<<x>>) = 1 /\ Range(<<x>>) = {x} /\ <<x>>[1] = x
    BY DEF IsSeq, Range
  <1>2. /\ IsSeq(s \o <<x>>) /\ Range(s \o <<x>>) = Range(s) \cup {x}
        /\ DOMAIN (s \o <<x>>) = 1 .. Len(s) + 1
        /\ \A i \in 1 .. Len(s) : (s \o <<x>>)[i] = s[i]
        /\ (s \o <<x>>)[Len(s) + 1] = x
    <2> DEFINE t == <<x>>
    <2>1. IsSeq(t) /\ Len(t) = 1 /\ Range(t) = {x} /\ t[1] = x /\ 1 \in 1 .. Len(t)
      BY <1>1
    <2> HIDE DEF t
    <2>2. /\ IsSeq(s \o t) /\ DOMAIN (s \o t) = 1 .. Len(s) + Len(t)
          /\ \A i \in 1 .. Len(s) : (s \o t)[i] = s[i]
          /\ \A i \in 1 .. Len(t) : (s \o t)[Len(s) + i] = t[i]
          /\ Range(s \o t) = Range(s) \cup Range(t)
      BY <2>1, Concatenated, ZenonT(30)
    <2>3. (s \o t)[Len(s) + 1] = x
      BY <2>1, <2>2
    <2>4. QED
      BY <2>1, <2>2, <2>3 DEF t
  <1>3. ASSUME IsInjective(s), x \notin Range(s), NEW i \in 1 .. Len(s) + 1, NEW j \in 1 .. Len(s) + 1,
               (s \o <<x>>)[i] = (s \o <<x>>)[j]
        PROVE  i = j
    <2>1. \A k \in 1 .. Len(s) + 1 : k \in 1 .. Len(s) \/ k = Len(s) + 1
      BY SeqFacts
    <2>2. \A k \in 1 .. Len(s) : s[k] # x
      BY <1>3, SeqFacts
    <2>3. \A k, l \in 1 .. Len(s) : s[k] = s[l] => k = l
      BY <1>3, SeqFacts DEF IsInjective
    <2>4. QED
      BY <1>2, <1>3, <2>1, <2>2, <2>3
  <1>4. QED
    BY <1>2, <1>3 DEF IsInjective

-----------------------------------------------------------------------------
(* Files are merged once and in order.                                     *)

\* The entry file alone.
LEMMA OrderInitially ==
  ASSUME Init
  PROVE  OrderInv
  <1>1. /\ program \in Programs /\ import_queue = Queued(Entry, program[Entry]) /\ seen = <<>>
        /\ DOMAIN import_hash = {Entry} /\ module_files = <<>> /\ variables = <<Entry>>
        /\ import.path = NULL /\ import.files = <<>> /\ import.parsed = <<>> /\ Entry \in Files
    BY ImportsAssumption DEF Init, NoImport
  <1>2. IsSeq(<<>>) /\ Range(<<>>) = {} /\ IsSeq(<<Entry>>) /\ Range(<<Entry>>) = {Entry}
    BY DEF IsSeq, Range
  <1>3. IsSeq(import_queue) /\ \A i \in DOMAIN import_queue : import_queue[i].file = Entry
    <2>1. IsSeq(program[Entry])
      BY <1>1, ImportsAssumption DEF IsSeq
    <2>2. DOMAIN import_queue = 1 .. Len(program[Entry]) /\ Len(program[Entry]) \in Nat
      BY <1>1, <2>1, SeqFacts DEF Queued
    <2>3. import_queue = [i \in DOMAIN import_queue |-> import_queue[i]]
      BY <1>1 DEF Queued
    <2>4. \A i \in DOMAIN import_queue : import_queue[i].file = Entry
      BY <1>1 DEF Queued
    <2>5. QED
      BY <2>2, <2>3, <2>4, FunctionIsSeq
  <1>4. Sequential
    BY <1>1, <1>2, <1>3 DEF Sequential
  <1>5. FilesFit
    BY <1>1, <1>2 DEF FilesFit, Known, Pending
  <1>6. FilesOnce
    BY <1>1, <1>2 DEF FilesOnce, IsInjective
  <1>7. Origins
    BY <1>1, <1>2, <1>3 DEF Origins, Known
  <1>8. InOrder
    BY <1>1 DEF InOrder
  <1>9. QED
    BY <1>4, <1>5, <1>6, <1>7, <1>8 DEF OrderInv

\* An item leaves the queue without an import.
LEMMA PopKeeps ==
  ASSUME OrderInv, UNCHANGED <<program, import_hash, module_files, import, variables>>,
         import_queue # <<>>, Pops, IsSeq(seen')
  PROVE  OrderInv'
  <1>1. IsSeq(import_queue') /\ Range(import_queue') \subseteq Range(import_queue)
    BY Tailed DEF OrderInv, Sequential, Pops
  <1>2. Sequential'
    BY <1>1 DEF OrderInv, Sequential
  <1>3. FilesFit' /\ FilesOnce' /\ InOrder'
    BY DEF OrderInv, FilesFit, FilesOnce, InOrder, Known, Pending
  <1>4. Origins'
    <2>1. \A q \in Range(import_queue) : q.file \in Known
      BY DEF OrderInv, Origins, Range
    <2>2. \A i \in DOMAIN import_queue' : import_queue'[i].file \in Known
      BY <1>1, <2>1 DEF Range
    <2>3. QED
      BY <2>2 DEF OrderInv, Origins, Known
  <1>5. QED
    BY <1>2, <1>3, <1>4 DEF OrderInv

\* An item begins an import.
LEMMA BindNewKeeps ==
  ASSUME OrderInv, BindNew
  PROVE  OrderInv'
  <1>1. /\ import = NoImport /\ import_queue # <<>> /\ import_queue' = Tail(import_queue)
        /\ UNCHANGED <<program, import_hash, module_files, variables>>
        /\ Item.path # NULL
    BY DEF BindNew, TakesPath, Takes, Pops
  <1>2. /\ import'.path = Item.path /\ import'.from = From /\ import'.files = FilesOf(Item.path)
        /\ import'.parsed = <<>>
    BY DEF BindNew
  <1>3. IsSeq(seen')
    BY Appended DEF BindNew, Binds, OrderInv, Sequential
  <1>4. IsSeq(import_queue') /\ Range(import_queue') \subseteq Range(import_queue)
        /\ Head(import_queue) \in Range(import_queue)
    BY <1>1, Tailed DEF OrderInv, Sequential
  <1>5. IsSeq(FilesOf(Item.path)) /\ Range(FilesOf(Item.path)) \subseteq Files
    <2>1. CASE Item.path \in Files
      BY <2>1 DEF FilesOf, IsSeq, Range
    <2>2. CASE Item.path \notin Files /\ Item.path \in DOMAIN Directory
      <3>1. Directory[Item.path] \in Seq(Files) /\ Range(Directory[Item.path]) \subseteq Files
        BY <2>2, ImportsAssumption
      <3>2. FilesOf(Item.path) = Directory[Item.path]
        BY <2>2 DEF FilesOf
      <3>3. QED
        BY <3>1, <3>2, AnySeq
    <2>3. CASE Item.path \notin Files /\ Item.path \notin DOMAIN Directory
      BY <2>3 DEF FilesOf, IsSeq, Range
    <2>4. QED
      BY <2>1, <2>2, <2>3
  <1>6. import.parsed = <<>> /\ Range(<<>>) = {} /\ IsSeq(<<>>)
    BY <1>1 DEF NoImport, Range, IsSeq
  <1>7. Known = Range(variables) /\ Known' = Range(variables)
    BY <1>1, <1>2, <1>6 DEF Known
  <1>8. \A q \in Range(import_queue) : q.file \in Range(variables)
    BY <1>7 DEF OrderInv, Origins, Range
  <1>9. Sequential'
    BY <1>1, <1>2, <1>3, <1>4, <1>5, <1>6 DEF OrderInv, Sequential
  <1>10. FilesFit'
    BY <1>1, <1>2, <1>5, <1>7 DEF OrderInv, FilesFit, Pending
  <1>11. FilesOnce'
    BY <1>1, <1>2, <1>6 DEF OrderInv, FilesOnce, IsInjective
  <1>12. Origins'
    <2>1. import'.from \in Range(variables)
      BY <1>2, <1>4, <1>8 DEF From
    <2>2. \A i \in DOMAIN import_queue' : import_queue'[i].file \in Range(variables)
      BY <1>4, <1>8 DEF Range
    <2>3. QED
      BY <1>1, <1>2, <1>6, <1>7, <2>1, <2>2 DEF Origins
  <1>13. InOrder'
    BY <1>1 DEF OrderInv, InOrder
  <1>14. QED
    BY <1>9, <1>10, <1>11, <1>12, <1>13 DEF OrderInv

\* The file at the head of the import is done with, and has not been parsed or
\* not been merged: some of the tables may know it now.
LEMMA FileLeft ==
  ASSUME OrderInv, Parses, Proceeds(<<>>), UNCHANGED <<program, import_queue, seen, variables>>,
         DOMAIN import_hash \subseteq DOMAIN import_hash', DOMAIN import_hash' \subseteq Files,
         \A f \in DOMAIN import_hash : import_hash'[f] = import_hash[f],
         IsSeq(module_files'),
         \A i \in DOMAIN module_files' : module_files'[i][1] \in DOMAIN import_hash',
         \A i, j \in DOMAIN module_files' : module_files'[i][1] = module_files'[j][1] => i = j
  PROVE  OrderInv'
  <1>1. IsSeq(import.files) /\ IsSeq(import.parsed)
    BY DEF OrderInv, Sequential
  <1>2. /\ import'.path = import.path /\ import'.from = import.from
        /\ import'.files = Tail(import.files) /\ import'.parsed = import.parsed
    BY <1>1, NothingAdded DEF Proceeds
  <1>3. IsSeq(import'.files) /\ Range(import'.files) \subseteq Range(import.files)
    BY <1>1, <1>2, Tailed DEF Parses
  <1>4. Known' = Known /\ import.path # NULL
    BY <1>2 DEF Known, OrderInv, FilesFit, Parses
  <1>5. Known \subseteq DOMAIN import_hash
    BY DEF OrderInv, FilesFit
  <1>6. Sequential'
    BY <1>1, <1>2, <1>3 DEF OrderInv, Sequential
  <1>7. FilesFit'
    BY <1>2, <1>3, <1>4 DEF OrderInv, FilesFit, Pending
  <1>8. FilesOnce'
    BY <1>2 DEF OrderInv, FilesOnce
  <1>9. Origins'
    BY <1>2, <1>4, <1>5 DEF OrderInv, Origins, Known
  <1>10. InOrder'
    <2>1. \A i \in DOMAIN variables : import_hash'[variables[i]] = import_hash[variables[i]]
      BY <1>5 DEF Known, Range
    <2>2. QED
      BY <2>1 DEF OrderInv, InOrder
  <1>11. QED
    BY <1>6, <1>7, <1>8, <1>9, <1>10 DEF OrderInv

\* What becomes of the tables when a file is met for the first time.
LEMMA MarkFacts ==
  ASSUME OrderInv, Parses, File \notin DOMAIN import_hash, import_hash' = MarkImported,
         module_files' = Append(module_files, <<File, import.module>>)
  PROVE  /\ File \in Pending /\ File \in Files
         /\ DOMAIN import_hash' = DOMAIN import_hash \cup {File}
         /\ \A f \in DOMAIN import_hash : import_hash'[f] = import_hash[f]
         /\ import_hash'[File].from = import.from /\ import_hash'[File].directory = IsDirectory
         /\ IsSeq(module_files')
         /\ \A i \in DOMAIN module_files' : module_files'[i][1] \in DOMAIN import_hash'
         /\ \A i, j \in DOMAIN module_files' : module_files'[i][1] = module_files'[j][1] => i = j
  <1>1. File \in Pending /\ File \in Files
    BY Tailed DEF OrderInv, Sequential, FilesFit, Pending, Parses, File
  <1>2. /\ DOMAIN import_hash' = DOMAIN import_hash \cup {File}
        /\ \A f \in DOMAIN import_hash : import_hash'[f] = import_hash[f]
        /\ import_hash'[File] = [module |-> import.module, from |-> import.from, directory |-> IsDirectory]
    BY DEF MarkImported
  <1>3. import_hash'[File].from = import.from /\ import_hash'[File].directory = IsDirectory
    BY <1>2
  <1> DEFINE N == Len(module_files)
  <1>4. /\ IsSeq(module_files') /\ DOMAIN module_files' = 1 .. N + 1
        /\ \A i \in 1 .. N : module_files'[i] = module_files[i]
        /\ module_files'[N + 1] = <<File, import.module>>
    BY Appended DEF OrderInv, Sequential
  <1>5. N \in Nat /\ DOMAIN module_files = 1 .. N
    BY SeqFacts DEF OrderInv, Sequential
  <1>6. \A i \in 1 .. N + 1 : i \in 1 .. N \/ i = N + 1
    BY <1>5
  <1>7. \A i \in 1 .. N : module_files[i][1] \in DOMAIN import_hash
    BY <1>5 DEF OrderInv, FilesFit
  <1>8. \A i, j \in 1 .. N : module_files[i][1] = module_files[j][1] => i = j
    BY <1>5 DEF OrderInv, FilesOnce
  <1>9. module_files'[N + 1][1] = File
    BY <1>4
  <1> HIDE DEF N
  <1>10. \A i \in DOMAIN module_files' : module_files'[i][1] \in DOMAIN import_hash'
    BY <1>2, <1>4, <1>6, <1>7, <1>9
  <1>11. \A i, j \in DOMAIN module_files' : module_files'[i][1] = module_files'[j][1] => i = j
    <2>1. \A i \in 1 .. N : module_files'[i][1] \in DOMAIN import_hash /\ module_files'[i][1] # File
      BY <1>4, <1>7
    <2>2. \A i, j \in 1 .. N : module_files'[i][1] = module_files'[j][1] => i = j
      BY <1>4, <1>8
    <2> SUFFICES ASSUME NEW i \in 1 .. N + 1, NEW j \in 1 .. N + 1,
                        module_files'[i][1] = module_files'[j][1]
                 PROVE  i = j
      BY <1>4
    <2>3. CASE i \in 1 .. N /\ j \in 1 .. N
      BY <2>2, <2>3
    <2>4. CASE i = N + 1 /\ j \in 1 .. N
      BY <1>9, <2>1, <2>4
    <2>5. CASE i \in 1 .. N /\ j = N + 1
      BY <1>9, <2>1, <2>5
    <2>6. QED
      BY <1>6, <2>3, <2>4, <2>5
  <1>12. QED
    BY <1>1, <1>2, <1>3, <1>4, <1>10, <1>11

\* A file is parsed, and its imports are appended to the queue.
LEMMA FileParsed ==
  ASSUME OrderInv, Parses, File \notin DOMAIN import_hash, import_hash' = MarkImported,
         module_files' = Append(module_files, <<File, import.module>>),
         Proceeds(<<File>>), InjectImports(program[File]), UNCHANGED <<program, seen, variables>>
  PROVE  /\ OrderInv' /\ Known' = Known \cup {File}
         /\ Range(import_queue) \subseteq Range(import_queue')
         /\ \A i \in DOMAIN program[File] :
              [file |-> File, item |-> WithoutSiblings(program[File])[i]] \in Range(import_queue')
  <1>1. IsSeq(import.files) /\ IsSeq(import.parsed) /\ IsSeq(import_queue)
    BY DEF OrderInv, Sequential
  <1>2. /\ import'.path = import.path /\ import'.from = import.from
        /\ import'.files = Tail(import.files) /\ import'.parsed = import.parsed \o <<File>>
    BY DEF Proceeds
  <1>3. IsSeq(import'.files) /\ Range(import'.files) \subseteq Range(import.files)
    BY <1>1, <1>2, Tailed DEF Parses
  <1>4. /\ File \in Files /\ DOMAIN import_hash' = DOMAIN import_hash \cup {File}
        /\ \A f \in DOMAIN import_hash : import_hash'[f] = import_hash[f]
        /\ import_hash'[File].from = import.from
        /\ IsSeq(module_files')
        /\ \A i \in DOMAIN module_files' : module_files'[i][1] \in DOMAIN import_hash'
        /\ \A i, j \in DOMAIN module_files' : module_files'[i][1] = module_files'[j][1] => i = j
    BY MarkFacts
  <1>5. Known \subseteq DOMAIN import_hash /\ DOMAIN import_hash \subseteq Files /\ import.path # NULL
        /\ Range(variables) \subseteq Known /\ Range(import.parsed) \subseteq Known
    BY DEF OrderInv, FilesFit, Known, Parses
  <1>6. /\ IsSeq(import'.parsed) /\ Range(import'.parsed) = Range(import.parsed) \cup {File}
        /\ IsInjective(import'.parsed)
    <2>1. IsInjective(import.parsed) /\ File \notin Range(import.parsed)
      BY <1>5 DEF OrderInv, FilesOnce
    <2>2. QED
      BY <1>1, <1>2, <2>1, OneAdded, SMTT(30)
  <1>7. Known' = Known \cup {File}
    BY <1>6 DEF Known
  <1> DEFINE items == WithoutSiblings(program[File])
             more == Queued(File, items)
  <1>8. /\ IsSeq(more) /\ DOMAIN more = DOMAIN program[File]
        /\ \A i \in DOMAIN more : more[i] = [file |-> File, item |-> items[i]] /\ more[i].file = File
    <2>1. IsSeq(program[File])
      BY <1>4, ImportsAssumption DEF IsSeq, OrderInv, FilesFit
    <2>2. DOMAIN items = DOMAIN program[File]
      BY DEF WithoutSiblings
    <2> HIDE DEF items
    <2>3. DOMAIN more = DOMAIN program[File] /\ more = [i \in DOMAIN more |-> more[i]]
      BY <2>2 DEF Queued
    <2>4. \A i \in DOMAIN more : more[i] = [file |-> File, item |-> items[i]] /\ more[i].file = File
      BY DEF Queued
    <2> HIDE DEF more
    <2>5. QED
      BY <2>1, <2>3, <2>4, SeqFacts, FunctionIsSeq
  <1>9. IsSeq(import_queue') /\ Range(import_queue') = Range(import_queue) \cup Range(more)
    <2>1. import_queue' = import_queue \o more
      BY DEF InjectImports
    <2> HIDE DEF more
    <2>2. QED
      BY <1>1, <1>8, <2>1, Concatenated
  <1> HIDE DEF items, more
  <1>10. \A i \in DOMAIN program[File] : [file |-> File, item |-> items[i]] \in Range(import_queue')
    BY <1>8, <1>9 DEF Range
  <1>11. \A q \in Range(import_queue') : q.file \in Known'
    <2>1. \A q \in Range(import_queue) : q.file \in Known
      BY DEF OrderInv, Origins, Range
    <2>2. \A q \in Range(more) : q.file = File
      BY <1>8 DEF Range
    <2>3. QED
      BY <1>7, <1>9, <2>1, <2>2
  <1>12. Sequential'
    BY <1>3, <1>4, <1>6, <1>9 DEF OrderInv, Sequential
  <1>13. FilesFit'
    BY <1>2, <1>3, <1>4, <1>5, <1>7 DEF OrderInv, FilesFit, Pending
  <1>14. FilesOnce'
    BY <1>4, <1>5, <1>6 DEF OrderInv, FilesOnce
  <1>15. Origins'
    <2>1. \A f \in Range(import'.parsed) : import_hash'[f].from = import'.from
      BY <1>2, <1>4, <1>5, <1>6 DEF OrderInv, Origins
    <2>2. \A i \in DOMAIN import_queue' : import_queue'[i].file \in Known'
      BY <1>11 DEF Range
    <2>3. QED
      BY <1>2, <2>1, <2>2 DEF OrderInv, Origins
  <1>16. InOrder'
    <2>1. \A i \in DOMAIN variables : import_hash'[variables[i]] = import_hash[variables[i]]
      BY <1>4, <1>5 DEF Known, Range
    <2>2. QED
      BY <2>1 DEF OrderInv, InOrder
  <1>17. QED
    BY <1>7, <1>9, <1>10, <1>12, <1>13, <1>14, <1>15, <1>16 DEF OrderInv, items

\* The files that were parsed go before those that were merged.
LEMMA MergeKeeps ==
  ASSUME OrderInv, MergePass
  PROVE  OrderInv' /\ Known' = Known /\ Pending' = {} /\ Pending = {}
  <1> DEFINE front == Reverse(import.parsed)
             P == Len(import.parsed)
             V == Len(variables)
  <1>1. /\ variables' = front \o variables /\ import' = NoImport /\ import.files = <<>>
        /\ UNCHANGED <<program, import_queue, seen, import_hash, module_files>>
    BY DEF MergePass, Merged, tables
  <1>2. /\ import'.path = NULL /\ import'.files = <<>> /\ import'.parsed = <<>>
        /\ IsSeq(<<>>) /\ Range(<<>>) = {}
    BY <1>1 DEF NoImport, IsSeq, Range
  <1>3. /\ IsSeq(import.parsed) /\ IsSeq(variables)
        /\ IsInjective(import.parsed) /\ IsInjective(variables)
        /\ Range(variables) \cap Range(import.parsed) = {}
    BY DEF OrderInv, Sequential, FilesOnce
  <1>4. /\ P \in Nat /\ V \in Nat /\ DOMAIN import.parsed = 1 .. P /\ DOMAIN variables = 1 .. V
    BY <1>3, SeqFacts
  <1>5. /\ IsSeq(front) /\ Len(front) = P /\ Range(front) = Range(import.parsed)
        /\ \A i \in 1 .. P : front[i] = import.parsed[(P - i) + 1]
    BY <1>3, Reversed
  <1> HIDE DEF front
  <1>6. /\ IsSeq(variables') /\ DOMAIN variables' = 1 .. P + V
        /\ \A i \in 1 .. P : variables'[i] = front[i]
        /\ \A i \in 1 .. V : variables'[P + i] = variables[i]
        /\ Range(variables') = Range(import.parsed) \cup Range(variables)
    <2>1. /\ IsSeq(front \o variables) /\ DOMAIN (front \o variables) = 1 .. Len(front) + V
          /\ \A i \in 1 .. Len(front) : (front \o variables)[i] = front[i]
          /\ \A i \in 1 .. V : (front \o variables)[Len(front) + i] = variables[i]
          /\ Range(front \o variables) = Range(front) \cup Range(variables)
      BY <1>3, <1>5, Concatenated
    <2>2. QED
      BY <1>1, <1>5, <2>1
  <1>7. Known' = Known /\ Pending' = {} /\ Pending = {}
    BY <1>1, <1>2, <1>6 DEF Known, Pending
  <1> HIDE DEF P, V
  <1>8. \A i \in 1 .. P + V : i \in 1 .. P \/ (i - P \in 1 .. V /\ P + (i - P) = i)
    BY <1>4
  <1>9. IsInjective(variables')
    <2> SUFFICES ASSUME NEW i \in 1 .. P + V, NEW j \in 1 .. P + V, variables'[i] = variables'[j]
                 PROVE  i = j
      BY <1>6 DEF IsInjective
    <2>1. \A k \in 1 .. P : variables'[k] \in Range(import.parsed)
      BY <1>5, <1>6, SeqFacts
    <2>2. \A k \in 1 .. P + V : k \notin 1 .. P =>
            variables'[k] = variables[k - P] /\ variables'[k] \in Range(variables)
      <3> SUFFICES ASSUME NEW k \in 1 .. P + V, k \notin 1 .. P
                   PROVE  variables'[k] = variables[k - P] /\ variables'[k] \in Range(variables)
        OBVIOUS
      <3>1. k - P \in 1 .. V /\ P + (k - P) = k
        BY <1>8
      <3>2. variables'[k] = variables[k - P]
        BY <1>6, <3>1
      <3>3. QED
        BY <1>4, <3>1, <3>2 DEF Range
    <2>3. CASE i \in 1 .. P /\ j \in 1 .. P
      <3>1. import.parsed[(P - i) + 1] = import.parsed[(P - j) + 1]
        BY <1>5, <1>6, <2>3
      <3>2. (P - i) + 1 \in 1 .. P /\ (P - j) + 1 \in 1 .. P
        BY <1>4, <2>3
      <3>3. (P - i) + 1 = (P - j) + 1
        BY <1>3, <1>4, <3>1, <3>2 DEF IsInjective
      <3>4. QED
        BY <1>4, <2>3, <3>3
    <2>4. CASE i \notin 1 .. P /\ j \notin 1 .. P
      <3>1. variables[i - P] = variables[j - P]
        BY <2>2, <2>4
      <3>2. i - P \in 1 .. V /\ j - P \in 1 .. V
        BY <1>8, <2>4
      <3>3. i - P = j - P
        BY <1>3, <1>4, <3>1, <3>2 DEF IsInjective
      <3>4. QED
        BY <1>4, <3>3
    <2>5. QED
      BY <1>3, <2>1, <2>2, <2>3, <2>4
  <1>10. InOrder'
    <2> SUFFICES ASSUME NEW i \in 1 .. P + V, variables'[i] # Entry
                 PROVE  \E j \in 1 .. P + V : i < j /\ variables'[j] = import_hash[variables'[i]].from
      <3>1. DOMAIN variables' = 1 .. P + V /\ import_hash' = import_hash
        BY <1>1, <1>6
      <3>2. QED
        BY <3>1 DEF InOrder
    <2>1. CASE i \in 1 .. P
      <3>1. variables'[i] \in Range(import.parsed)
        BY <1>5, <1>6, <2>1, SeqFacts
      <3>2. import.parsed # <<>>
        BY <1>2, <3>1
      <3>3. import_hash[variables'[i]].from = import.from /\ import.from \in Range(variables)
        BY <3>1, <3>2 DEF OrderInv, Origins, FilesFit
      <3>4. PICK j \in 1 .. V : variables[j] = import.from
        BY <1>4, <3>3 DEF Range
      <3>5. P + j \in 1 .. P + V /\ i < P + j /\ variables'[P + j] = import.from
        BY <1>4, <1>6, <2>1, <3>4
      <3>6. QED
        BY <3>3, <3>5
    <2>2. CASE i \notin 1 .. P
      <3>1. i - P \in 1 .. V /\ variables'[i] = variables[i - P]
        BY <1>6, <1>8, <2>2
      <3>2. PICK j \in 1 .. V : i - P < j /\ variables[j] = import_hash[variables[i - P]].from
        BY <1>4, <3>1 DEF OrderInv, InOrder
      <3>3. P + j \in 1 .. P + V /\ i < P + j /\ variables'[P + j] = variables[j]
        BY <1>4, <1>6, <3>2
      <3>4. QED
        BY <3>1, <3>2, <3>3
    <2>3. QED
      BY <2>1, <2>2
  <1>11. Sequential'
    BY <1>1, <1>2, <1>6 DEF OrderInv, Sequential
  <1>12. FilesFit'
    BY <1>1, <1>2, <1>6, <1>7 DEF OrderInv, FilesFit
  <1>13. FilesOnce'
    BY <1>1, <1>2, <1>9 DEF OrderInv, FilesOnce, IsInjective
  <1>14. Origins'
    BY <1>1, <1>2, <1>7 DEF OrderInv, Origins
  <1>15. QED
    BY <1>7, <1>10, <1>11, <1>12, <1>13, <1>14 DEF OrderInv

\* The tables of a file that is met, and not merged since there are errors.
LEMMA FileSpoilt ==
  ASSUME OrderInv, Parses, File \notin DOMAIN import_hash, import_hash' = MarkImported,
         module_files' = Append(module_files, <<File, import.module>>),
         Proceeds(<<>>), UNCHANGED <<program, import_queue, seen, variables>>
  PROVE  OrderInv'
  <1>1. DOMAIN import_hash \subseteq Files
    BY DEF OrderInv, FilesFit
  <1>2. QED
    BY <1>1, MarkFacts, FileLeft

\* Every step keeps the files once and in order.
LEMMA OrderStep ==
  ASSUME OrderInv, [Next]_vars
  PROVE  OrderInv'
  <1>1. CASE UNCHANGED vars
    BY <1>1 DEF vars, tables, OrderInv, Sequential, FilesFit, FilesOnce, Origins, InOrder, Known, Pending
  <1>2. CASE ImportStdlib
    <2>1. /\ import_queue # <<>> /\ Pops
          /\ UNCHANGED <<program, import_hash, module_files, import, variables>>
      BY <1>2 DEF ImportStdlib, Takes
    <2>2. IsSeq(seen)
      BY DEF OrderInv, Sequential
    <2>3. IsSeq(seen')
      <3>1. CASE UNCHANGED seen
        BY <2>2, <3>1
      <3>2. CASE Binds(Module(Item.name, 1), Item.name, NULL, TRUE)
        BY <2>2, <3>2, Appended DEF Binds
      <3>3. QED
        BY <1>2, <3>1, <3>2, Zenon DEF ImportStdlib
    <2>4. QED
      BY <2>1, <2>3, PopKeeps
  <1>3. CASE SkipDropped \/ RejectImport
    <2>1. /\ import_queue # <<>> /\ Pops
          /\ UNCHANGED <<program, seen, import_hash, module_files, import, variables>>
      BY <1>3 DEF SkipDropped, RejectImport, TakesPath, Takes, tables
    <2>2. IsSeq(seen')
      BY <2>1 DEF OrderInv, Sequential
    <2>3. QED
      BY <2>1, <2>2, PopKeeps
  <1>4. CASE BindExisting
    <2>1. /\ import_queue # <<>> /\ Pops
          /\ UNCHANGED <<program, import_hash, module_files, import, variables>>
      BY <1>4 DEF BindExisting, TakesPath, Takes
    <2>2. IsSeq(seen')
      BY <1>4, Appended DEF BindExisting, Binds, OrderInv, Sequential
    <2>3. QED
      BY <2>1, <2>2, PopKeeps
  <1>5. CASE BindNew
    BY <1>5, BindNewKeeps
  <1>6. CASE RefuseEntry \/ SkipFile
    <2>1. /\ Parses /\ Proceeds(<<>>)
          /\ UNCHANGED <<program, import_queue, seen, import_hash, module_files, variables>>
      BY <1>6 DEF RefuseEntry, SkipFile, tables
    <2>2. /\ IsSeq(module_files) /\ DOMAIN import_hash \subseteq Files
          /\ \A i \in DOMAIN module_files : module_files[i][1] \in DOMAIN import_hash
          /\ \A i, j \in DOMAIN module_files : module_files[i][1] = module_files[j][1] => i = j
      BY DEF OrderInv, Sequential, FilesFit, FilesOnce
    <2>3. QED
      BY <2>1, <2>2, FileLeft
  <1>7. CASE ParseFile
    <2>1. /\ Parses /\ File \notin DOMAIN import_hash /\ import_hash' = MarkImported
          /\ module_files' = Append(module_files, <<File, import.module>>)
          /\ UNCHANGED <<program, seen, variables>>
      BY <1>7 DEF ParseFile
    <2>2. CASE Proceeds(<<>>) /\ UNCHANGED import_queue
      BY <2>1, <2>2, FileSpoilt
    <2>3. CASE Proceeds(<<File>>) /\ InjectImports(program[File])
      BY <2>1, <2>3, FileParsed
    <2>4. QED
      BY <1>7, <2>2, <2>3 DEF ParseFile
  <1>8. CASE MergePass
    BY <1>8, MergeKeeps
  <1>9. QED
    BY <1>1, <1>2, <1>3, <1>4, <1>5, <1>6, <1>7, <1>8 DEF Next

\* What the invariant says of the order of the files.
LEMMA OrderSuffices ==
  ASSUME OrderInv
  PROVE  MergedOnceInOrder
  <1>1. IsInjective(variables) /\ IsSeq(variables)
    BY DEF OrderInv, FilesOnce, Sequential
  <1>2. ASSUME NEW i \in DOMAIN variables PROVE Position(variables[i]) = i
    BY <1>1, <1>2 DEF Position, IsInjective
  <1>3. ASSUME NEW f \in Range(variables) \ {Entry}
        PROVE  Position(f) < Position(import_hash[f].from)
    <2>1. PICK i \in DOMAIN variables : variables[i] = f
      BY <1>3 DEF Range
    <2>2. PICK j \in DOMAIN variables : i < j /\ variables[j] = import_hash[f].from
      BY <1>3, <2>1 DEF OrderInv, InOrder
    <2>3. QED
      BY <1>2, <2>1, <2>2
  <1>4. QED
    BY <1>1, <1>3 DEF MergedOnceInOrder, OrderInv, FilesOnce

\* However imports cross, a file is merged once, belongs to one module, and its
\* variables come before those of the file that brought it in (MergePass), for
\* every program.
THEOREM FilesMergedOnce == Spec => []MergedOnceInOrder
  <1>1. Init => OrderInv
    BY OrderInitially
  <1>2. OrderInv /\ [Next]_vars => OrderInv'
    BY OrderStep
  <1>3. OrderInv => MergedOnceInOrder
    BY OrderSuffices
  <1>4. QED
    BY <1>1, <1>2, <1>3, PTL DEF Spec

-----------------------------------------------------------------------------
(* Imports are followed.                                                   *)

\* A name that is bound adds its target, if it has one.
LEMMA BindFacts ==
  ASSUME IsSeq(seen), NEW module, NEW written, NEW path, NEW stdlib \in BOOLEAN,
         Binds(module, written, path, stdlib)
  PROVE  \A p : Bound(p)' <=> (Bound(p) \/ (~stdlib /\ p = path))
  <1> DEFINE e == [module |-> module, written |-> written, path |-> path, file |-> From, stdlib |-> stdlib]
             N == Len(seen)
  <1>1. e.path = path /\ e.stdlib = stdlib
    OBVIOUS
  <1>2. seen' = Append(seen, e)
    BY DEF Binds
  <1> HIDE DEF e
  <1>3. /\ DOMAIN seen' = 1 .. N + 1 /\ N \in Nat /\ DOMAIN seen = 1 .. N
        /\ \A i \in 1 .. N : seen'[i] = seen[i]
        /\ seen'[N + 1] = e
    BY <1>2, Appended, SeqFacts
  <1>4. \A i \in 1 .. N + 1 : i \in 1 .. N \/ i = N + 1
    BY <1>3
  <1>5. \A i \in 1 .. N : i \in 1 .. N + 1
    BY <1>3
  <1>6. N + 1 \in 1 .. N + 1
    BY <1>3
  <1> HIDE DEF N
  <1> SUFFICES ASSUME NEW p
               PROVE  Bound(p)' <=> (Bound(p) \/ (~stdlib /\ p = path))
    OBVIOUS
  <1>7. Bound(p) => Bound(p)'
    BY <1>3, <1>5 DEF Bound
  <1>8. ~stdlib /\ p = path => Bound(p)'
    BY <1>1, <1>3, <1>6 DEF Bound
  <1>9. ASSUME Bound(p)', ~(~stdlib /\ p = path) PROVE Bound(p)
    <2>1. PICK i \in 1 .. N + 1 : ~seen'[i].stdlib /\ seen'[i].path = p
      BY <1>3, <1>9 DEF Bound
    <2>2. i \in 1 .. N
      BY <1>1, <1>3, <1>4, <1>9, <2>1
    <2>3. QED
      BY <1>3, <2>1, <2>2 DEF Bound
  <1>10. QED
    BY <1>7, <1>8, <1>9

\* Without a bind the targets are the same.
LEMMA BoundSame ==
  ASSUME seen' = seen
  PROVE  \A p : Bound(p)' <=> Bound(p)
  BY DEF Bound

\* What the invariant says of an import of a known file.
LEMMA ItemFacts ==
  ASSUME OrderInv, NEW f \in Known, NEW item \in ItemsOf(f), ~item.stdlib
  PROVE  item.path # NULL
  <1>1. f \in Files /\ program \in Programs
    BY DEF OrderInv, FilesFit
  <1>2. PICK i \in DOMAIN program[f] : program[f][i] = item
    BY DEF ItemsOf, Range
  <1>3. QED
    BY <1>1, <1>2, ImportsAssumption

\* An item that leaves the queue is accounted for when its target is bound.
LEMMA PopFollowed ==
  ASSUME OrderInv, import_queue # <<>>, Pops, UNCHANGED <<program, import_hash>>, Known' = Known,
         \A p : Bound(p) => Bound(p)',
         Item.stdlib \/ Item.path = NULL \/ \A p : p = Item.path => Bound(p)',
         \A f \in Known : Accounted(f)
  PROVE  \A f \in Known : Accounted(f)'
  <1>1. Range(import_queue) = Range(import_queue') \cup {Head(import_queue)}
    BY Tailed DEF OrderInv, Sequential, Pops
  <1> SUFFICES ASSUME NEW f \in Known, NEW item \in ItemsOf(f), ~item.stdlib
               PROVE  Waits(f, item)' \/ Bound(item.path)' \/ WasDropped(f, item)'
    BY DEF ItemsOf, Accounted
  <1>2. CASE Waits(f, item)
    <2>1. CASE [file |-> f, item |-> item] = Head(import_queue)
      <3>1. Item = item
        BY <2>1 DEF Item
      <3>2. item.path # NULL
        BY ItemFacts
      <3>3. item.stdlib \/ item.path = NULL \/ Bound(item.path)'
        BY <3>1, Zenon
      <3>4. QED
        BY <3>2, <3>3, Zenon
    <2>2. CASE [file |-> f, item |-> item] # Head(import_queue)
      BY <1>1, <1>2, <2>2 DEF Waits
    <2>3. QED
      BY <2>1, <2>2
  <1>3. CASE Bound(item.path)
    BY <1>3
  <1>4. CASE WasDropped(f, item)
    BY <1>4 DEF WasDropped
  <1>5. Waits(f, item) \/ Bound(item.path) \/ WasDropped(f, item)
    BY DEF Accounted
  <1>6. QED
    BY <1>2, <1>3, <1>4, <1>5, Zenon

\* An item that leaves the queue and begins no import.
LEMMA PopMerge ==
  ASSUME MergeInv, import_queue # <<>>, Pops, ~has_errors' => ~has_errors,
         UNCHANGED <<program, import_hash, import, variables>>,
         \A p : Bound(p)' <=> Bound(p),
         ~has_errors' => Item.stdlib \/ Item.path = NULL \/ Bound(Item.path)
  PROVE  Followed' /\ Directories'
  <1>1. Known' = Known /\ Pending' = Pending
    BY DEF Known, Pending
  <1>2. Directories'
    BY <1>1 DEF MergeInv, Directories
  <1>3. ASSUME ~has_errors'
        PROVE  \A f \in Known : Accounted(f)'
    <2>1. OrderInv /\ \A f \in Known : Accounted(f)
      BY <1>3 DEF MergeInv, Followed
    <2>2. Item.stdlib \/ Item.path = NULL \/ \A p : p = Item.path => Bound(p)'
      BY <1>3, Zenon
    <2>3. QED
      BY <1>1, <2>1, <2>2, PopFollowed
  <1>4. Followed'
    BY <1>1, <1>3 DEF MergeInv, Followed
  <1>5. QED
    BY <1>2, <1>4

\* An item that begins an import: its target is bound and its files are pending.
LEMMA BindNewMerge ==
  ASSUME MergeInv, BindNew
  PROVE  Followed' /\ Directories'
  <1>1. /\ import = NoImport /\ import_queue # <<>> /\ Pops
        /\ UNCHANGED <<program, import_hash, variables, has_errors>>
        /\ Binds(DistinctModule, Written, Item.path, FALSE)
    BY DEF BindNew, TakesPath, Takes
  <1>2. /\ import'.path = Item.path /\ import'.files = FilesOf(Item.path) /\ import'.parsed = <<>>
    BY DEF BindNew
  <1>3. import.parsed = <<>> /\ import.files = <<>> /\ Range(<<>>) = {}
    BY <1>1 DEF NoImport, Range
  <1>4. Known' = Known /\ Pending = {} /\ Pending' = Range(FilesOf(Item.path))
    BY <1>1, <1>2, <1>3 DEF Known, Pending
  <1>5. \A p : Bound(p)' <=> (Bound(p) \/ p = Item.path)
    BY <1>1, BindFacts DEF MergeInv, OrderInv, Sequential
  <1>6. Directories'
    BY <1>1, <1>2, <1>4, <1>5 DEF MergeInv, Directories
  <1>7. ASSUME ~has_errors'
        PROVE  \A f \in Known : Accounted(f)'
    <2>1. OrderInv /\ \A f \in Known : Accounted(f)
      BY <1>1, <1>7 DEF MergeInv, Followed
    <2>2. Item.stdlib \/ Item.path = NULL \/ \A p : p = Item.path => Bound(p)'
      BY <1>5, Zenon
    <2>3. \A p : Bound(p) => Bound(p)'
      BY <1>5, Zenon
    <2>4. QED
      BY <1>1, <1>4, <2>1, <2>2, <2>3, PopFollowed
  <1>8. ASSUME ~has_errors', NEW p, Bound(p)', NEW g \in Range(FilesOf(p)) \ {Entry}
        PROVE  g \in Known \cup Pending'
    BY <1>1, <1>4, <1>5, <1>8 DEF MergeInv, Followed
  <1>9. Followed'
    BY <1>1, <1>4, <1>7, <1>8 DEF MergeInv, Followed
  <1>10. QED
    BY <1>6, <1>9

\* The files that are pending come from the path of the import.
LEMMA PendingShrinks ==
  ASSUME MergeInv, Parses, NEW parsed, Proceeds(parsed)
  PROVE  /\ Pending = Pending' \cup {File} /\ import'.path = import.path
         /\ import.path # NULL /\ Bound(import.path) /\ File \in Range(FilesOf(import.path))
         /\ Pending' \subseteq Range(FilesOf(import.path))
         /\ import.path \in DOMAIN Directory => Parent[File] = import.path
  <1>1. import'.files = Tail(import.files) /\ import'.path = import.path
    BY DEF Proceeds
  <1>2. Pending = Pending' \cup {File}
    BY <1>1, Tailed DEF MergeInv, OrderInv, Sequential, Pending, Parses, File
  <1>3. import.path # NULL
    BY DEF MergeInv, OrderInv, FilesFit, Parses
  <1>4. Bound(import.path) /\ Pending \subseteq Range(FilesOf(import.path))
    BY <1>3 DEF MergeInv, Directories
  <1>5. import.path \in DOMAIN Directory => Parent[File] = import.path
    <2> SUFFICES ASSUME import.path \in DOMAIN Directory
                 PROVE  Parent[File] = import.path
      OBVIOUS
    <2>1. import.path \notin Files
      BY ImportsAssumption
    <2>2. FilesOf(import.path) = Directory[import.path]
      BY <2>1 DEF FilesOf
    <2>3. Range(Directory[import.path]) = {f \in Files : Parent[f] = import.path}
      BY ImportsAssumption
    <2>4. QED
      BY <1>2, <1>4, <2>2, <2>3
  <1>6. QED
    BY <1>1, <1>2, <1>3, <1>4, <1>5

\* A file that has been met, or that is refused with an error.
LEMMA SkipMerge ==
  ASSUME MergeInv, Parses, Proceeds(<<>>),
         UNCHANGED <<program, import_queue, seen, import_hash, variables>>,
         ~has_errors' => ~has_errors /\ File \in DOMAIN import_hash
  PROVE  Followed' /\ Directories'
  <1>1. Known' = Known
    <2>1. import'.parsed = import.parsed
      BY NothingAdded DEF MergeInv, OrderInv, Sequential, Proceeds
    <2>2. QED
      BY <2>1 DEF Known
  <1>2. \A p : Bound(p)' <=> Bound(p)
    BY BoundSame
  <1>3. /\ Pending = Pending' \cup {File} /\ import'.path = import.path
        /\ import.path # NULL /\ Bound(import.path) /\ Pending' \subseteq Range(FilesOf(import.path))
    BY PendingShrinks
  <1>4. Directories'
    BY <1>2, <1>3 DEF MergeInv, Directories
  <1>5. Followed'
    <2> SUFFICES ASSUME ~has_errors'
                 PROVE  /\ DOMAIN import_hash \subseteq Known
                        /\ \A p : Bound(p) =>
                             \A g \in Range(FilesOf(p)) \ {Entry} : g \in Known \cup Pending'
                        /\ \A f \in Known : Accounted(f)
      <3>1. \A f : Accounted(f)' <=> Accounted(f)
        BY <1>2 DEF Accounted, ItemsOf, Waits, WasDropped
      <3>2. QED
        BY <1>1, <1>2, <3>1 DEF Followed
    <2>1. /\ DOMAIN import_hash \subseteq Known
          /\ \A p : Bound(p) =>
               \A g \in Range(FilesOf(p)) \ {Entry} : g \in Known \cup Pending
          /\ \A f \in Known : Accounted(f)
      BY DEF MergeInv, Followed
    <2>2. File \in Known
      BY <2>1
    <2>3. QED
      BY <1>3, <2>1, <2>2
  <1>6. QED
    BY <1>4, <1>5

\* A file is met for the first time: where it lies is known.
LEMMA ParseDirectories ==
  ASSUME MergeInv, Parses, NEW parsed, Proceeds(parsed), File \notin DOMAIN import_hash,
         import_hash' = MarkImported,
         module_files' = Append(module_files, <<File, import.module>>), UNCHANGED seen
  PROVE  Directories'
  <1>1. \A p : Bound(p)' <=> Bound(p)
    BY BoundSame
  <1>2. /\ import'.path = import.path /\ import.path # NULL /\ Bound(import.path)
        /\ Pending' \subseteq Range(FilesOf(import.path))
        /\ import.path \in DOMAIN Directory => Parent[File] = import.path
    BY PendingShrinks
  <1>3. /\ DOMAIN import_hash' = DOMAIN import_hash \cup {File}
        /\ \A f \in DOMAIN import_hash : import_hash'[f] = import_hash[f]
        /\ import_hash'[File].directory = IsDirectory
    BY MarkFacts DEF MergeInv
  <1>4. ASSUME NEW f \in DOMAIN import_hash', import_hash'[f].directory
        PROVE  Parent[f] \in DOMAIN Directory /\ Bound(Parent[f])
    <2>1. CASE f = File
      <3>1. IsDirectory
        BY <1>3, <1>4, <2>1
      <3>2. QED
        BY <1>2, <2>1, <3>1 DEF IsDirectory
    <2>2. CASE f # File
      BY <1>3, <1>4, <2>2 DEF MergeInv, Directories
    <2>3. QED
      BY <2>1, <2>2
  <1>5. QED
    BY <1>1, <1>2, <1>4 DEF Directories

\* A file is parsed and followed.
LEMMA ParseFollowed ==
  ASSUME MergeInv, ~has_errors, Parses, File \notin DOMAIN import_hash, import_hash' = MarkImported,
         module_files' = Append(module_files, <<File, import.module>>),
         Proceeds(<<File>>), InjectImports(program[File]), UNCHANGED <<program, seen, variables>>
  PROVE  Followed'
  <1>0. PICK F : F = File
    OBVIOUS
  <1>1. /\ Known' = Known \cup {File} /\ Range(import_queue) \subseteq Range(import_queue')
        /\ \A i \in DOMAIN program[File] :
             [file |-> File, item |-> WithoutSiblings(program[File])[i]] \in Range(import_queue')
    BY FileParsed DEF MergeInv
  <1>2. \A p : Bound(p)' <=> Bound(p)
    BY BoundSame
  <1>3. /\ Pending = Pending' \cup {File}
        /\ import.path \in DOMAIN Directory => Parent[File] = import.path
    BY PendingShrinks
  <1>4. /\ DOMAIN import_hash' = DOMAIN import_hash \cup {File}
        /\ \A f \in DOMAIN import_hash : import_hash'[f] = import_hash[f]
        /\ import_hash'[File].directory = IsDirectory
    BY MarkFacts DEF MergeInv
  <1>5. Known \subseteq DOMAIN import_hash
    BY DEF MergeInv, OrderInv, FilesFit
  <1>6. /\ DOMAIN import_hash \subseteq Known
        /\ \A p : Bound(p) => \A g \in Range(FilesOf(p)) \ {Entry} : g \in Known \cup Pending
        /\ \A f \in Known : Accounted(f)
    BY DEF MergeInv, Followed
  <1>7. ASSUME NEW f \in Known, NEW item \in ItemsOf(f), ~item.stdlib
        PROVE  Waits(f, item)' \/ Bound(item.path)' \/ WasDropped(f, item)'
    <2>1. Waits(f, item) => Waits(f, item)'
      BY <1>1 DEF Waits
    <2>2. WasDropped(f, item) => WasDropped(f, item)'
      BY <1>4, <1>5 DEF WasDropped
    <2>3. Waits(f, item) \/ Bound(item.path) \/ WasDropped(f, item)
      BY <1>6, <1>7 DEF Accounted
    <2>4. QED
      BY <1>2, <2>1, <2>2, <2>3, Zenon
  <1>8. ASSUME NEW item \in ItemsOf(F), ~item.stdlib
        PROVE  Waits(F, item)' \/ Bound(item.path)' \/ WasDropped(F, item)'
    <2>1. PICK i \in DOMAIN program[F] : program[F][i] = item
      BY <1>8 DEF ItemsOf, Range
    <2>2. CASE IsSibling(item)
      <3>1. /\ IsDirectory /\ item.path \in Files \cup DOMAIN Directory /\ Parent[item.path] = import.path
        BY <2>2 DEF IsSibling
      <3>2. Parent[File] = import.path
        BY <1>3, <3>1 DEF IsDirectory
      <3>3. import_hash'[F].directory
        BY <1>0, <1>4, <3>1, Zenon
      <3>4. /\ import_hash'[F].directory /\ item.path \in Files \cup DOMAIN Directory
            /\ Parent[item.path] = Parent[F]
        BY <1>0, <3>1, <3>2, <3>3, Zenon
      <3>5. WasDropped(F, item)'
        BY <3>4, Zenon DEF WasDropped
      <3>6. QED
        BY <3>5, Zenon
    <2>3. CASE ~IsSibling(item)
      <3>1. WithoutSiblings(program[F])[i] = item
        BY <2>1, <2>3 DEF WithoutSiblings
      <3>2. QED
        BY <1>0, <1>1, <2>1, <3>1 DEF Waits
    <2>4. QED
      BY <2>2, <2>3
  <1>9. \A p : Bound(p)' => \A g \in Range(FilesOf(p)) \ {Entry} : g \in Known' \cup Pending'
    BY <1>1, <1>2, <1>3, <1>6
  <1>10. DOMAIN import_hash' \subseteq Known'
    BY <1>1, <1>4, <1>6
  <1>11. \A f \in Known' : Accounted(f)'
    <2>1. \A f : ItemsOf(f)' = ItemsOf(f)
      BY DEF ItemsOf
    <2>2. ASSUME NEW f \in Known PROVE Accounted(f)'
      BY <1>7, <2>1, <2>2 DEF Accounted
    <2>3. Accounted(F)'
      BY <1>8, <2>1 DEF Accounted
    <2>4. QED
      BY <1>0, <1>1, <2>2, <2>3
  <1>12. QED
    BY <1>9, <1>10, <1>11 DEF Followed

\* The merge of an import changes neither what is known nor what is bound.
LEMMA MergeMerge ==
  ASSUME MergeInv, MergePass
  PROVE  Followed' /\ Directories'
  <1>1. /\ UNCHANGED <<program, import_queue, seen, import_hash, has_errors>> /\ import'.path = NULL
    BY DEF MergePass, tables, NoImport
  <1>2. Known' = Known /\ Pending' = {} /\ Pending = {}
    BY MergeKeeps DEF MergeInv
  <1>3. \A p : Bound(p)' <=> Bound(p)
    BY <1>1, BoundSame
  <1>4. \A f : Accounted(f)' <=> Accounted(f)
    BY <1>1, <1>3 DEF Accounted, ItemsOf, Waits, WasDropped
  <1>5. Directories'
    BY <1>1, <1>3 DEF MergeInv, Directories
  <1>6. Followed'
    BY <1>1, <1>2, <1>3, <1>4 DEF MergeInv, Followed
  <1>7. QED
    BY <1>5, <1>6

\* At first only the entry file is known, and all its imports wait.
LEMMA MergeInitially ==
  ASSUME Init
  PROVE  MergeInv
  <1>1. /\ import_queue = Queued(Entry, program[Entry]) /\ seen = <<>> /\ variables = <<Entry>>
        /\ DOMAIN import_hash = {Entry} /\ import_hash[Entry].directory = FALSE
        /\ import.path = NULL /\ import.parsed = <<>>
    BY DEF Init, NoImport
  <1>2. Known = {Entry}
    BY <1>1 DEF Known, Range
  <1>3. \A p : ~Bound(p)
    BY <1>1 DEF Bound
  <1>4. Directories
    BY <1>1 DEF Directories
  <1>5. ASSUME NEW item \in ItemsOf(Entry)
        PROVE  Waits(Entry, item)
    <2>1. PICK i \in DOMAIN program[Entry] : program[Entry][i] = item
      BY <1>5 DEF ItemsOf, Range
    <2>2. i \in DOMAIN import_queue /\ import_queue[i] = [file |-> Entry, item |-> item]
      BY <1>1, <2>1 DEF Queued
    <2>3. QED
      BY <2>2 DEF Waits, Range
  <1>6. Accounted(Entry)
    BY <1>5 DEF Accounted
  <1>7. Followed
    BY <1>1, <1>2, <1>3, <1>6 DEF Followed
  <1>8. QED
    BY <1>4, <1>7, OrderInitially DEF MergeInv

\* Every step follows the imports.
LEMMA MergeStep ==
  ASSUME MergeInv, [Next]_vars
  PROVE  MergeInv'
  <1>0. OrderInv' /\ OrderInv /\ IsSeq(seen)
    BY OrderStep DEF MergeInv, OrderInv, Sequential
  <1> SUFFICES Followed' /\ Directories'
    BY <1>0 DEF MergeInv
  <1>1. CASE UNCHANGED vars
    <2>1. \A p : Bound(p)' <=> Bound(p)
      BY <1>1, BoundSame DEF vars, tables
    <2>2. \A f : Accounted(f)' <=> Accounted(f)
      BY <1>1, <2>1 DEF vars, tables, Accounted, ItemsOf, Waits, WasDropped
    <2>3. Known' = Known /\ Pending' = Pending
      BY <1>1 DEF vars, Known, Pending
    <2>4. UNCHANGED <<import, import_hash, has_errors>>
      BY <1>1 DEF vars, tables
    <2>5. QED
      BY <2>1, <2>2, <2>3, <2>4 DEF MergeInv, Followed, Directories
  <1>2. CASE ImportStdlib
    <2>1. /\ import_queue # <<>> /\ Pops /\ Item.stdlib = TRUE
          /\ UNCHANGED <<program, import_hash, import, variables>>
      BY <1>2 DEF ImportStdlib, Takes
    <2>2. /\ \A p : Bound(p)' <=> Bound(p)
          /\ ~has_errors' => ~has_errors
      <3>1. CASE /\ Binds(Module(Item.name, 1), Item.name, NULL, TRUE) /\ UNCHANGED has_errors
        <4>1. \A p : Bound(p)' <=> (Bound(p) \/ (~TRUE /\ p = NULL))
          BY <1>0, <3>1, BindFacts
        <4>2. QED
          BY <3>1, <4>1
      <3>2. CASE /\ UNCHANGED seen
                 /\ \E a, b : has_errors' = (has_errors \/ a \/ b)
        BY <3>2, BoundSame
      <3>3. QED
        BY <1>2, <3>1, <3>2, Zenon DEF ImportStdlib
    <2>3. QED
      BY <2>1, <2>2, PopMerge
  <1>3. CASE SkipDropped
    <2>1. /\ import_queue # <<>> /\ Pops /\ Item.path = NULL
          /\ UNCHANGED <<program, seen, import_hash, import, variables, has_errors>>
      BY <1>3 DEF SkipDropped, Takes, tables
    <2>2. QED
      BY <2>1, BoundSame, PopMerge
  <1>4. CASE RejectImport
    <2>1. /\ import_queue # <<>> /\ Pops /\ has_errors' = TRUE
          /\ UNCHANGED <<program, seen, import_hash, import, variables>>
      BY <1>4 DEF RejectImport, TakesPath, Takes, tables
    <2>2. QED
      BY <2>1, BoundSame, PopMerge
  <1>5. CASE BindExisting
    <2>1. /\ import_queue # <<>> /\ Pops /\ Existing # {}
          /\ Binds(seen[Min(Existing)].module, Written, Item.path, FALSE)
          /\ UNCHANGED <<program, import_hash, import, variables, has_errors>>
      BY <1>5 DEF BindExisting, TakesPath, Takes
    <2>2. Bound(Item.path)
      BY <2>1 DEF Existing, Bound
    <2>3. \A p : Bound(p)' <=> (Bound(p) \/ (~FALSE /\ p = Item.path))
      BY <1>0, <2>1, BindFacts
    <2>4. \A p : Bound(p)' <=> Bound(p)
      BY <2>2, <2>3
    <2>5. QED
      BY <2>1, <2>2, <2>4, PopMerge
  <1>6. CASE BindNew
    BY <1>6, BindNewMerge
  <1>7. CASE RefuseEntry
    <2>1. /\ Parses /\ Proceeds(<<>>) /\ has_errors' = TRUE
          /\ UNCHANGED <<program, import_queue, seen, import_hash, variables>>
      BY <1>7 DEF RefuseEntry, tables
    <2>2. QED
      BY <2>1, SkipMerge
  <1>8. CASE SkipFile
    <2>1. /\ Parses /\ Proceeds(<<>>) /\ File \in DOMAIN import_hash
          /\ UNCHANGED <<program, import_queue, seen, import_hash, variables>>
      BY <1>8 DEF SkipFile
    <2>2. ~has_errors' => ~has_errors
      BY <1>8, Zenon DEF SkipFile
    <2>3. QED
      BY <2>1, <2>2, SkipMerge
  <1>9. CASE ParseFile
    <2>1. /\ Parses /\ File \notin DOMAIN import_hash /\ import_hash' = MarkImported
          /\ module_files' = Append(module_files, <<File, import.module>>)
          /\ UNCHANGED <<program, seen, variables>>
      BY <1>9 DEF ParseFile
    <2>2. CASE Proceeds(<<>>) /\ has_errors' = TRUE
      <3>1. Directories'
        BY <2>1, <2>2, ParseDirectories
      <3>2. QED
        BY <2>2, <3>1 DEF Followed
    <2>3. CASE ~has_errors /\ Proceeds(<<File>>) /\ InjectImports(program[File])
      <3>1. Directories'
        BY <2>1, <2>3, ParseDirectories
      <3>2. Followed'
        BY <2>1, <2>3, ParseFollowed
      <3>3. QED
        BY <3>1, <3>2
    <2>4. QED
      BY <1>9, <2>2, <2>3 DEF ParseFile
  <1>10. CASE MergePass
    BY <1>10, MergeMerge
  <1>11. QED
    BY <1>1, <1>2, <1>3, <1>4, <1>5, <1>6, <1>7, <1>8, <1>9, <1>10 DEF Next

\* What the invariant says when nothing is left to do.
LEMMA MergeSuffices ==
  ASSUME MergeInv
  PROVE  ImportsMerged
  <1> SUFFICES ASSUME Compiles, NEW f \in Range(variables), NEW item \in ItemsOf(f),
                      ~item.stdlib, ~IsSubdirectory(f, item),
                      NEW g \in Range(FilesOf(item.path)) \ {Entry}
               PROVE  g \in Range(variables)
    BY DEF ImportsMerged, Targets, IsMerged
  <1>1. import = NoImport /\ import_queue = <<>> /\ ~has_errors
    BY DEF Compiles, Done
  <1>2. Range(<<>>) = {}
    BY DEF Range
  <1>3. Known = Range(variables) /\ Pending = {} /\ ~Waits(f, item)
    BY <1>1, <1>2 DEF Known, Pending, NoImport, Waits
  <1>4. /\ \A p : Bound(p) => \A h \in Range(FilesOf(p)) \ {Entry} : h \in Known
        /\ Accounted(f)
    BY <1>1, <1>3 DEF MergeInv, Followed
  <1>5. CASE Bound(item.path)
    BY <1>3, <1>4, <1>5
  <1>6. CASE WasDropped(f, item)
    <2>1. f \in DOMAIN import_hash
      BY <1>3 DEF MergeInv, OrderInv, FilesFit
    <2>2. item.path \notin DOMAIN Directory
      BY <1>6, <2>1 DEF WasDropped, IsSubdirectory
    <2>3. item.path \in Files /\ Parent[item.path] = Parent[f] /\ import_hash[f].directory
      BY <1>6, <2>2 DEF WasDropped
    <2>4. Parent[f] \in DOMAIN Directory /\ Bound(Parent[f])
      BY <2>1, <2>3 DEF MergeInv, Directories
    <2>5. FilesOf(item.path) = <<item.path>> /\ FilesOf(Parent[f]) = Directory[Parent[f]]
      BY <2>3, <2>4, ImportsAssumption DEF FilesOf
    <2>6. g = item.path
      BY <2>5 DEF Range
    <2>7. g \in Range(Directory[Parent[f]])
      BY <2>3, <2>4, <2>6, ImportsAssumption
    <2>8. QED
      BY <1>3, <1>4, <2>4, <2>5, <2>7
  <1>7. QED
    BY <1>3, <1>4, <1>5, <1>6 DEF Accounted

\* In a program that compiles, whatever a file imports has been merged,
\* transitively, except for the subdirectories of a directory that is imported
\* (imports.c 498-548, 689-840), for every program.
THEOREM ImportsFollowed == Spec => []ImportsMerged
  <1>1. Init => MergeInv
    BY MergeInitially
  <1>2. MergeInv /\ [Next]_vars => MergeInv'
    BY MergeStep
  <1>3. MergeInv => ImportsMerged
    BY MergeSuffices
  <1>4. QED
    BY <1>1, <1>2, <1>3, PTL DEF Spec

-----------------------------------------------------------------------------
(* Names mean what they import.                                            *)

\* The module stands for the target of an import that was accepted.
Stands(module, path) ==
  \E i \in DOMAIN seen : ~seen[i].stdlib /\ seen[i].module = module /\ seen[i].path = path

\* The files that modules were told they have.
Claimed == Range(module_files) \cup Range(includes)

\* A name is that of a stdlib module for all files, or for none; and a file
\* gives a name to one target.
NamesDistinct ==
  /\ \A i, j \in DOMAIN seen : seen[i].stdlib /\ seen[i].written = seen[j].written => seen[j].stdlib
  /\ \A i, j \in DOMAIN seen :
       ~seen[i].stdlib /\ seen[i].file = seen[j].file /\ seen[i].written = seen[j].written => i = j

\* The module of a target is called by a name that was written for one, with a
\* number.  It is the module of no other target and of no stdlib name.
ModulesDistinct ==
  /\ \A i \in DOMAIN seen : seen[i].stdlib => seen[i].module = Module(seen[i].written, 1)
  /\ \A i \in DOMAIN seen : ~seen[i].stdlib =>
       \E j \in DOMAIN seen, n \in Nat \ {0} :
         ~seen[j].stdlib /\ seen[i].module = Module(seen[j].written, n)
  /\ \A i, j \in DOMAIN seen :
       ~seen[i].stdlib /\ seen[i].module = seen[j].module => ~seen[j].stdlib /\ seen[i].path = seen[j].path
  /\ \A i, j \in DOMAIN seen :
       ~seen[i].stdlib /\ ~seen[j].stdlib /\ seen[i].path = seen[j].path => seen[i].module = seen[j].module

\* A module has files of its target only, a file that was met is in the module
\* that met it first, and a module has all files of its target, or is
\* being given them.
FilesClaimed ==
  /\ \A e \in Claimed : \E path : Stands(e[2], path) /\ e[1] \in Range(FilesOf(path)) \ {Entry}
  /\ import.path # NULL => Stands(import.module, import.path)
  /\ import_hash[Entry].module = NoModule
  /\ \A f \in DOMAIN import_hash \ {Entry} :
       import_hash[f].module # NoModule /\ <<f, import_hash[f].module>> \in Claimed
  /\ \A module, path : Stands(module, path) =>
       \A g \in Range(FilesOf(path)) \ {Entry} :
         <<g, module>> \in Claimed \/ (path = import.path /\ g \in Pending)

\* What a name that a file writes was entered as.
AsStdlib(name) == \E i \in DOMAIN seen : seen[i].stdlib /\ seen[i].written = name
AsImport(f, item) ==
  \E i \in DOMAIN seen : /\ ~seen[i].stdlib /\ seen[i].path = item.path
                         /\ seen[i].file = f /\ seen[i].written = AliasOf(item)
AsSibling(item) == \E i \in DOMAIN module_aliases : AliasOf(item) \in module_aliases[i].names
Entered(f, item) ==
  \/ item.stdlib /\ AsStdlib(item.name)
  \/ ~item.stdlib /\ (AsImport(f, item) \/ AsSibling(item))

\* While there are no errors every import of a known file waits or was entered.
NamesEntered ==
  ~has_errors => \A f \in Known : \A item \in ItemsOf(f) : Waits(f, item) \/ Entered(f, item)

NameInv ==
  /\ MergeInv /\ IsSeq(includes) /\ IsSeq(module_aliases)
  /\ NamesDistinct /\ ModulesDistinct /\ FilesClaimed /\ NamesEntered

\* A set of natural numbers has a least element.
LEMMA MinFacts ==
  ASSUME NEW T \in SUBSET Nat, T # {}
  PROVE  Min(T) \in T
  <1> DEFINE R == OpToRel(<, Nat)
  <1>1. IsWellFoundedOn(R, Nat)
    BY NatLessThanWellFounded
  <1>2. \A x, y \in Nat : y < x => <<y, x>> \in R
    BY DEF OpToRel
  <1> HIDE DEF R
  <1>3. PICK x \in T : \A y \in T : ~(<<y, x>> \in R)
    BY <1>1, WFMin, Zenon
  <1>4. x \in T /\ \A y \in T : x <= y
    <2> SUFFICES ASSUME NEW y \in T PROVE x <= y
      OBVIOUS
    <2>1. x \in Nat /\ y \in Nat
      OBVIOUS
    <2>2. ~(y < x)
      BY <1>2, <1>3, <2>1, Zenon
    <2>3. QED
      BY <2>1, <2>2
  <1>5. QED
    BY <1>4 DEF Min

\* One entry more, at N.
Adds(N, module, written, path, stdlib) ==
  /\ N \in DOMAIN seen' \ DOMAIN seen
  /\ \A i \in DOMAIN seen : i \in DOMAIN seen' /\ seen'[i] = seen[i]
  /\ \A i \in DOMAIN seen' : i \in DOMAIN seen \/ i = N
  /\ seen'[N].module = module /\ seen'[N].written = written
  /\ seen'[N].path = path /\ seen'[N].file = From
  /\ seen'[N].stdlib = stdlib

\* That is what a bind does.
LEMMA EntryAdded ==
  ASSUME IsSeq(seen), NEW module, NEW written, NEW path, NEW stdlib \in BOOLEAN,
         Binds(module, written, path, stdlib)
  PROVE  \E N : Adds(N, module, written, path, stdlib)
  <1> DEFINE e == [module |-> module, written |-> written, path |-> path, file |-> From, stdlib |-> stdlib]
             N == Len(seen)
  <1>1. /\ e.module = module /\ e.written = written /\ e.path = path /\ e.file = From
        /\ e.stdlib = stdlib
    OBVIOUS
  <1>2. seen' = Append(seen, e)
    BY DEF Binds
  <1> HIDE DEF e
  <1>3. /\ DOMAIN seen' = 1 .. N + 1 /\ N \in Nat /\ DOMAIN seen = 1 .. N
        /\ \A i \in 1 .. N : seen'[i] = seen[i]
        /\ seen'[N + 1] = e
    BY <1>2, Appended, SeqFacts
  <1> HIDE DEF N
  <1>4. /\ \A i \in 1 .. N + 1 : i \in 1 .. N \/ i = N + 1
        /\ \A i \in 1 .. N : i \in 1 .. N + 1
        /\ N + 1 \in 1 .. N + 1 /\ N + 1 \notin 1 .. N
    BY <1>3
  <1>5. Adds(N + 1, module, written, path, stdlib)
    BY <1>1, <1>3, <1>4 DEF Adds
  <1>6. QED
    BY <1>5

\* The modules that stand for targets after a bind.
LEMMA StandsAdded ==
  ASSUME IsSeq(seen), NEW module, NEW written, NEW path, NEW stdlib \in BOOLEAN,
         Binds(module, written, path, stdlib)
  PROVE  \A m, p : Stands(m, p)' <=> (Stands(m, p) \/ (~stdlib /\ m = module /\ p = path))
  <1>1. PICK N : Adds(N, module, written, path, stdlib)
    BY EntryAdded
  <1> SUFFICES ASSUME NEW m, NEW p
               PROVE  Stands(m, p)' <=> (Stands(m, p) \/ (~stdlib /\ m = module /\ p = path))
    OBVIOUS
  <1>2. Stands(m, p) => Stands(m, p)'
    BY <1>1 DEF Stands, Adds
  <1>3. ~stdlib /\ m = module /\ p = path => Stands(m, p)'
    BY <1>1 DEF Stands, Adds
  <1>4. ASSUME Stands(m, p)', ~(~stdlib /\ m = module /\ p = path) PROVE Stands(m, p)
    <2>1. PICK i \in DOMAIN seen' : ~seen'[i].stdlib /\ seen'[i].module = m /\ seen'[i].path = p
      BY <1>4 DEF Stands
    <2>2. i \in DOMAIN seen
      BY <1>1, <1>4, <2>1 DEF Adds
    <2>3. QED
      BY <1>1, <2>1, <2>2 DEF Stands, Adds
  <1>5. QED
    BY <1>2, <1>3, <1>4

\* An entry that agrees with those there are.
Fits(module, written, path, stdlib) ==
  /\ \A i \in DOMAIN seen : seen[i].written = written => (seen[i].stdlib <=> stdlib)
  /\ ~stdlib => \A i \in DOMAIN seen : ~(seen[i].file = From /\ seen[i].written = written)
  /\ stdlib => module = Module(written, 1)
  /\ ~stdlib => \E n \in Nat \ {0} :
       \/ module = Module(written, n)
       \/ \E j \in DOMAIN seen : ~seen[j].stdlib /\ module = Module(seen[j].written, n)
  /\ \A i \in DOMAIN seen :
       seen[i].module = module => (seen[i].stdlib <=> stdlib) /\ (~stdlib => seen[i].path = path)
  /\ \A i \in DOMAIN seen :
       ~stdlib /\ ~seen[i].stdlib /\ seen[i].path = path => seen[i].module = module

\* A bind keeps names and modules apart.
LEMMA BindKeeps ==
  ASSUME NamesDistinct, ModulesDistinct, NEW N, NEW module, NEW written, NEW path, NEW stdlib \in BOOLEAN,
         Adds(N, module, written, path, stdlib),
         Fits(module, written, path, stdlib)
  PROVE  NamesDistinct' /\ ModulesDistinct'
  <1>1. /\ N \in DOMAIN seen' /\ N \notin DOMAIN seen
        /\ \A i \in DOMAIN seen : i \in DOMAIN seen' /\ seen'[i] = seen[i]
        /\ \A i \in DOMAIN seen' : i \in DOMAIN seen \/ i = N
        /\ seen'[N].module = module /\ seen'[N].written = written
        /\ seen'[N].path = path /\ seen'[N].file = From
        /\ seen'[N].stdlib <=> stdlib
    BY DEF Adds
  <1>2. \A i, j \in DOMAIN seen' : seen'[i].stdlib /\ seen'[i].written = seen'[j].written => seen'[j].stdlib
    BY <1>1 DEF NamesDistinct, Fits
  <1>3. \A i, j \in DOMAIN seen' :
          ~seen'[i].stdlib /\ seen'[i].file = seen'[j].file /\ seen'[i].written = seen'[j].written => i = j
    BY <1>1 DEF NamesDistinct, Fits
  <1>4. \A i \in DOMAIN seen' : seen'[i].stdlib => seen'[i].module = Module(seen'[i].written, 1)
    BY <1>1 DEF ModulesDistinct, Fits
  <1>5. ASSUME NEW i \in DOMAIN seen', ~seen'[i].stdlib
        PROVE  \E j \in DOMAIN seen', n \in Nat \ {0} :
                 ~seen'[j].stdlib /\ seen'[i].module = Module(seen'[j].written, n)
    <2>1. CASE i \in DOMAIN seen
      BY <1>1, <1>5, <2>1 DEF ModulesDistinct
    <2>2. CASE i = N
      BY <1>1, <1>5, <2>2 DEF Fits
    <2>3. QED
      BY <1>1, <2>1, <2>2
  <1>6. \A i, j \in DOMAIN seen' :
          ~seen'[i].stdlib /\ seen'[i].module = seen'[j].module => ~seen'[j].stdlib /\ seen'[i].path = seen'[j].path
    BY <1>1 DEF ModulesDistinct, Fits
  <1>7. \A i, j \in DOMAIN seen' :
          ~seen'[i].stdlib /\ ~seen'[j].stdlib /\ seen'[i].path = seen'[j].path => seen'[i].module = seen'[j].module
    BY <1>1 DEF ModulesDistinct, Fits
  <1>8. QED
    BY <1>2, <1>3, <1>4, <1>5, <1>6, <1>7 DEF NamesDistinct, ModulesDistinct

\* Some number is free for the name of a new module: there are more numbers to
\* try than names bound.
LEMMA DistinctFree ==
  ASSUME IsSeq(seen)
  PROVE  \E n \in Nat \ {0} : DistinctModule = Module(Written, n) /\ ~Taken(DistinctModule)
  <1> DEFINE L == Len(seen)
             W == Written
             Free == {n \in 1 .. L + 1 : ~Taken(Module(W, n))}
  <1>1. L \in Nat /\ DOMAIN seen = 1 .. L
    BY SeqFacts
  <1>2. ASSUME Free = {} PROVE FALSE
    <2>1. \A n \in 1 .. L + 1 : \E i \in 1 .. L : seen[i].module = Module(W, n)
      BY <1>1, <1>2 DEF Taken
    <2> DEFINE h == [n \in 1 .. L + 1 |-> CHOOSE i \in 1 .. L : seen[i].module = Module(W, n)]
    <2>2. \A n \in 1 .. L + 1 : h[n] \in 1 .. L /\ seen[h[n]].module = Module(W, n)
      BY <2>1
    <2>3. h \in [1 .. L + 1 -> 1 .. L]
      BY <2>2
    <2> HIDE DEF h, L, W
    <2>4. /\ IsFiniteSet(1 .. L) /\ Cardinality(1 .. L) = L
          /\ IsFiniteSet(1 .. L + 1) /\ Cardinality(1 .. L + 1) = L + 1
      <3>1. /\ L + 1 \in Int /\ L \in Int /\ 1 \in Int
            /\ ~(1 > L + 1) /\ (L + 1) - 1 + 1 = L + 1 /\ (1 > L => L = 0) /\ L - 1 + 1 = L
        BY <1>1
      <3>2. IsFiniteSet(1 .. L) /\ Cardinality(1 .. L) = L
        BY <3>1, FS_Interval
      <3>3. IsFiniteSet(1 .. L + 1) /\ Cardinality(1 .. L + 1) = L + 1
        BY <3>1, FS_Interval
      <3>4. QED
        BY <3>2, <3>3
    <2>5. L < L + 1
      BY <1>1
    <2>6. PICK x, y \in 1 .. L + 1 : x # y /\ h[x] = h[y]
      <3>1. Cardinality(1 .. L) < Cardinality(1 .. L + 1)
        BY <2>4, <2>5
      <3>2. QED
        BY <2>3, <2>4, <3>1, FS_PigeonHole
    <2>7. Module(W, x) = Module(W, y)
      BY <2>2, <2>6
    <2>8. QED
      BY <2>6, <2>7 DEF Module
  <1>3. Free \in SUBSET Nat
    BY <1>1
  <1>4. Min(Free) \in Free
    BY <1>2, <1>3, MinFacts
  <1>5. Min(Free) \in Nat \ {0} /\ ~Taken(Module(W, Min(Free)))
    BY <1>1, <1>4
  <1>6. DistinctModule = Module(W, Min(Free))
    BY DEF DistinctModule
  <1>7. QED
    BY <1>5, <1>6

\* A stdlib module is bound, or has been, or the import is an error.
LEMMA StdlibNames ==
  ASSUME IsSeq(seen), NamesDistinct, ModulesDistinct, ImportStdlib, NEW name, name = Item.name
  PROVE  /\ NamesDistinct' /\ ModulesDistinct'
         /\ \A m, p : Stands(m, p)' <=> Stands(m, p)
         /\ seen' = seen \/ \E N : Adds(N, Module(name, 1), name, NULL, TRUE)
         /\ ~has_errors' => ~has_errors /\ AsStdlib(name)'
  <1> DEFINE same == {i \in DOMAIN seen : seen[i].written = name}
             first == seen[Min(same)]
  <1>1. CASE /\ same = {} /\ Binds(Module(name, 1), name, NULL, TRUE)
             /\ UNCHANGED has_errors
    <2>1. PICK N : Adds(N, Module(name, 1), name, NULL, TRUE)
      BY <1>1, EntryAdded
    <2>2. \A i \in DOMAIN seen : seen[i].written # name
      BY <1>1
    <2>3. ASSUME NEW i \in DOMAIN seen, seen[i].module = Module(name, 1)
          PROVE  FALSE
      <3>1. CASE seen[i].stdlib
        BY <2>2, <2>3, <3>1 DEF ModulesDistinct, Module
      <3>2. CASE ~seen[i].stdlib
        BY <2>2, <2>3, <3>2 DEF ModulesDistinct, Module
      <3>3. QED
        BY <3>1, <3>2
    <2>4. NamesDistinct' /\ ModulesDistinct'
      <3>1. Fits(Module(name, 1), name, NULL, TRUE)
        BY <2>2, <2>3 DEF Fits
      <3>2. QED
        BY <2>1, <3>1, BindKeeps
    <2>5. \A m, p : Stands(m, p)' <=> (Stands(m, p) \/ (~TRUE /\ m = Module(name, 1) /\ p = NULL))
      BY <1>1, StandsAdded
    <2>6. AsStdlib(name)'
      BY <2>1 DEF Adds, AsStdlib
    <2>7. QED
      BY <1>1, <2>1, <2>4, <2>5, <2>6
  <1>2. CASE /\ same # {} /\ UNCHANGED seen
             /\ has_errors' = (has_errors \/ ~first.stdlib \/ first.file = From)
    <2>1. same \in SUBSET Nat
      BY SeqFacts
    <2>2. Min(same) \in same
      BY <1>2, <2>1, MinFacts
    <2>3. Min(same) \in DOMAIN seen /\ first.written = name
      BY <2>2
    <2> HIDE DEF same
    <2>4. ~has_errors' => ~has_errors /\ first.stdlib
      BY <1>2, Zenon
    <2>5. ~has_errors' => AsStdlib(name)
      BY <2>3, <2>4 DEF AsStdlib
    <2>6. NamesDistinct' /\ ModulesDistinct' /\ \A m, p : Stands(m, p)' <=> Stands(m, p)
      BY <1>2 DEF NamesDistinct, ModulesDistinct, Stands
    <2>7. QED
      BY <1>2, <2>4, <2>5, <2>6 DEF AsStdlib
  <1>3. QED
    BY <1>1, <1>2, Zenon DEF ImportStdlib

\* A path whose module is there is bound to it.
LEMMA ExistingNames ==
  ASSUME IsSeq(seen), NamesDistinct, ModulesDistinct, BindExisting,
         NEW w, w = Written, NEW path, path = Item.path
  PROVE  /\ NamesDistinct' /\ ModulesDistinct'
         /\ \A m, p : Stands(m, p)' <=> Stands(m, p)
         /\ \E N, module : Adds(N, module, w, path, FALSE)
  <1>1. PICK k : k = Min(Existing)
    OBVIOUS
  <1>2. k \in DOMAIN seen /\ ~seen[k].stdlib /\ seen[k].path = path
    <2>1. Existing \in SUBSET Nat /\ Existing # {}
      BY SeqFacts DEF Existing, BindExisting
    <2>2. k \in Existing
      BY <1>1, <2>1, MinFacts
    <2>3. QED
      BY <2>2 DEF Existing
  <1>3. PICK module : module = seen[k].module
    OBVIOUS
  <1>4. Binds(module, w, path, FALSE)
    BY <1>1, <1>3 DEF BindExisting
  <1>5. PICK N : Adds(N, module, w, path, FALSE)
    BY <1>4, EntryAdded
  <1>6. \A i \in DOMAIN seen : seen[i].written = w => ~seen[i].stdlib /\ seen[i].file # From
    BY DEF BindExisting, Collides
  <1>7. Fits(module, w, path, FALSE)
    BY <1>2, <1>3, <1>6 DEF Fits, ModulesDistinct
  <1>8. NamesDistinct' /\ ModulesDistinct'
    BY <1>5, <1>7, BindKeeps
  <1>9. \A m, p : Stands(m, p)' <=> (Stands(m, p) \/ (~FALSE /\ m = module /\ p = path))
    BY <1>4, StandsAdded
  <1>10. Stands(module, path)
    BY <1>2, <1>3 DEF Stands
  <1>11. QED
    BY <1>5, <1>8, <1>9, <1>10

\* A new path is bound to a module of its own.
LEMMA NewNames ==
  ASSUME IsSeq(seen), NamesDistinct, ModulesDistinct, BindNew,
         NEW w, w = Written, NEW path, path = Item.path
  PROVE  /\ NamesDistinct' /\ ModulesDistinct'
         /\ \A m, p : Stands(m, p)' <=> (Stands(m, p) \/ (m = import'.module /\ p = path))
         /\ \E N, module : Adds(N, module, w, path, FALSE)
         /\ import'.path = path /\ import'.module = DistinctModule
         /\ \A p : ~Stands(DistinctModule, p)
  <1>1. PICK module : module = DistinctModule
    OBVIOUS
  <1>2. Binds(module, w, path, FALSE)
    BY <1>1 DEF BindNew
  <1>3. import'.module = module /\ import'.path = path
    BY <1>1 DEF BindNew
  <1>4. \A m, p : Stands(m, p)' <=> (Stands(m, p) \/ (~FALSE /\ m = module /\ p = path))
    BY <1>2, StandsAdded
  <1>5. PICK N : Adds(N, module, w, path, FALSE)
    BY <1>2, EntryAdded
  <1>6. \A i \in DOMAIN seen : seen[i].written = w => ~seen[i].stdlib /\ seen[i].file # From
    BY DEF BindNew, Collides
  <1>7. PICK n \in Nat \ {0} : module = Module(w, n)
    BY <1>1, DistinctFree
  <1>8. \A i \in DOMAIN seen : seen[i].module # module
    BY <1>1, DistinctFree DEF Taken
  <1>9. \A i \in DOMAIN seen : ~seen[i].stdlib => seen[i].path # path
    BY DEF BindNew, Existing
  <1>10. Fits(module, w, path, FALSE)
    BY <1>6, <1>7, <1>8, <1>9 DEF Fits
  <1>11. NamesDistinct' /\ ModulesDistinct'
    BY <1>5, <1>10, BindKeeps
  <1>12. \A p : ~Stands(module, p)
    BY <1>8 DEF Stands
  <1>13. QED
    BY <1>1, <1>3, <1>5, <1>4, <1>11, <1>12

\* The names stay as they are.
LEMMA NamesSame ==
  ASSUME NamesDistinct, ModulesDistinct, seen' = seen
  PROVE  /\ NamesDistinct' /\ ModulesDistinct'
         /\ \A m, p : Stands(m, p)' <=> Stands(m, p)
  BY DEF NamesDistinct, ModulesDistinct, Stands

\* What was entered stays entered.
LEMMA EnteredKept ==
  ASSUME \/ seen' = seen
         \/ \E N, module, w, path, stdlib : Adds(N, module, w, path, stdlib),
         \A i \in DOMAIN module_aliases :
           i \in DOMAIN module_aliases' /\ module_aliases'[i] = module_aliases[i]
  PROVE  \A f, item : Entered(f, item) => Entered(f, item)'
  <1>1. \A i \in DOMAIN seen : i \in DOMAIN seen' /\ seen'[i] = seen[i]
    BY DEF Adds
  <1>2. \A name : AsStdlib(name) => AsStdlib(name)'
    BY <1>1 DEF AsStdlib
  <1>3. \A f, item : AsImport(f, item) => AsImport(f, item)'
    BY <1>1 DEF AsImport
  <1>4. \A item : AsSibling(item) => AsSibling(item)'
    BY DEF AsSibling
  <1>5. QED
    BY <1>2, <1>3, <1>4 DEF Entered

\* A step that gives no module a file.
LEMMA ClaimsSame ==
  ASSUME FilesClaimed, UNCHANGED <<import_hash, module_files, includes, import>>,
         \A m, p : Stands(m, p)' <=> Stands(m, p)
  PROVE  FilesClaimed'
  <1>1. Claimed' = Claimed /\ Pending' = Pending
    BY DEF Claimed, Pending
  <1>2. QED
    BY <1>1 DEF FilesClaimed

\* A new module is about to be given the files of its target.
LEMMA NewClaims ==
  ASSUME FilesClaimed, BindNew, NEW module, NEW path, import'.module = module, import'.path = path,
         path = Item.path, \A m, p : Stands(m, p)' <=> (Stands(m, p) \/ (m = module /\ p = path))
  PROVE  FilesClaimed'
  <1>1. /\ UNCHANGED <<import_hash, module_files, includes>> /\ import'.files = FilesOf(path)
        /\ import = NoImport
    BY DEF BindNew, TakesPath, Takes
  <1>2. Claimed' = Claimed /\ Pending' = Range(FilesOf(path)) /\ Pending = {}
    BY <1>1 DEF Claimed, Pending, NoImport, Range
  <1>3. \A e \in Claimed : \E p : Stands(e[2], p)' /\ e[1] \in Range(FilesOf(p)) \ {Entry}
    BY DEF FilesClaimed
  <1>4. ASSUME NEW m, NEW p, Stands(m, p)', NEW g \in Range(FilesOf(p)) \ {Entry}
        PROVE  <<g, m>> \in Claimed \/ (p = path /\ g \in Pending')
    BY <1>2, <1>4 DEF FilesClaimed
  <1>5. Stands(module, path)'
    OBVIOUS
  <1>6. QED
    BY <1>1, <1>2, <1>3, <1>4, <1>5 DEF FilesClaimed

\* A module that stands for a target has a name and a number.
LEMMA StandsNamed ==
  ASSUME ModulesDistinct, NEW m, NEW p, Stands(m, p)
  PROVE  m # NoModule /\ \A n : Stands(n, p) => n = m
  BY DEF ModulesDistinct, Stands, NoModule, Module

\* A file leaves the import and is in its module, unless it is the entry file.
LEMMA FileClaims ==
  ASSUME MergeInv, ModulesDistinct, FilesClaimed, Parses, NEW parsed, Proceeds(parsed), seen' = seen,
         NEW F, F = File, NEW M, M = import.module,
         Claimed \subseteq Claimed', Claimed' \subseteq Claimed \cup {<<F, M>>},
         F = Entry => Claimed' = Claimed, F # Entry => <<F, M>> \in Claimed',
         DOMAIN import_hash \subseteq DOMAIN import_hash',
         DOMAIN import_hash' \subseteq DOMAIN import_hash \cup {F},
         \A f \in DOMAIN import_hash : import_hash'[f] = import_hash[f],
         F \notin DOMAIN import_hash => import_hash'[F].module = M
  PROVE  FilesClaimed'
  <1>1. PICK P : P = import.path
    OBVIOUS
  <1>2. /\ Pending = Pending' \cup {F} /\ import'.path = P /\ P # NULL
        /\ F \in Range(FilesOf(P))
    BY <1>1, PendingShrinks
  <1>3. import'.module = M
    BY DEF Proceeds
  <1>4. Stands(M, P)
    BY <1>1, <1>2 DEF FilesClaimed
  <1>5. M # NoModule /\ \A m : Stands(m, P) => m = M
    BY <1>4, StandsNamed
  <1>6. \A m, p : Stands(m, p)' <=> Stands(m, p)
    BY DEF Stands
  <1>7. Entry \in DOMAIN import_hash
    BY DEF MergeInv, OrderInv, FilesFit, Known
  <1>8. ASSUME NEW e \in Claimed'
        PROVE  \E p : Stands(e[2], p) /\ e[1] \in Range(FilesOf(p)) \ {Entry}
    <2>1. CASE e \in Claimed
      BY <2>1 DEF FilesClaimed
    <2>2. CASE e \notin Claimed
      <3>1. e = <<F, M>> /\ F # Entry
        BY <1>8, <2>2
      <3>2. e[2] = M /\ e[1] = F
        BY <3>1
      <3>3. QED
        BY <1>2, <1>4, <3>1, <3>2
    <2>3. QED
      BY <2>1, <2>2
  <1>9. ASSUME NEW f \in DOMAIN import_hash' \ {Entry}
        PROVE  import_hash'[f].module # NoModule /\ <<f, import_hash'[f].module>> \in Claimed'
    <2>1. CASE f \in DOMAIN import_hash
      BY <2>1 DEF FilesClaimed
    <2>2. CASE f \notin DOMAIN import_hash
      <3>1. f = F /\ F # Entry
        BY <1>7, <2>2
      <3>2. QED
        BY <1>5, <2>2, <3>1
    <2>3. QED
      BY <2>1, <2>2
  <1>10. ASSUME NEW m, NEW p, Stands(m, p), NEW g \in Range(FilesOf(p)) \ {Entry}
         PROVE  <<g, m>> \in Claimed' \/ (p = P /\ g \in Pending')
    <2>1. <<g, m>> \in Claimed \/ (p = P /\ g \in Pending)
      BY <1>1, <1>10 DEF FilesClaimed
    <2>2. QED
      BY <1>2, <1>5, <1>10, <2>1
  <1>11. import_hash'[Entry].module = NoModule
    BY <1>7 DEF FilesClaimed
  <1>12. QED
    BY <1>2, <1>3, <1>4, <1>6, <1>8, <1>9, <1>10, <1>11 DEF FilesClaimed

\* A file that was met becomes part of a second module.
LEMMA SkipClaims ==
  ASSUME MergeInv, ModulesDistinct, FilesClaimed, IsSeq(includes), SkipFile
  PROVE  FilesClaimed' /\ IsSeq(includes')
  <1>1. PICK F, M : F = File /\ M = import.module
    OBVIOUS
  <1>2. /\ Parses /\ Proceeds(<<>>) /\ seen' = seen /\ F \in DOMAIN import_hash
        /\ UNCHANGED <<import_hash, module_files>> /\ includes' = includes \o Included
    BY <1>1 DEF SkipFile
  <1>3. PICK owner : owner = import_hash[F].module
    OBVIOUS
  <1>4. Included = IF owner # NoModule /\ owner # M THEN <<<<F, M>>>> ELSE <<>>
    BY <1>1, <1>3 DEF Included
  <1>5. /\ F = Entry => owner = NoModule
        /\ F # Entry => owner # NoModule /\ <<F, owner>> \in Claimed
    BY <1>2, <1>3 DEF FilesClaimed
  <1>6. CASE F # Entry /\ owner # M
    <2>1. PICK e : e = <<F, M>>
      OBVIOUS
    <2>2. includes' = includes \o <<e>>
      BY <1>2, <1>4, <1>5, <1>6, <2>1
    <2>3. IsSeq(includes') /\ Range(includes') = Range(includes) \cup {e}
      BY <2>2, OneAdded
    <2>4. Claimed' = Claimed \cup {<<F, M>>}
      BY <1>2, <2>1, <2>3 DEF Claimed
    <2>5. QED
      BY <1>1, <1>2, <1>6, <2>3, <2>4, FileClaims
  <1>7. CASE F = Entry \/ owner = M
    <2>1. includes' = includes
      BY <1>2, <1>4, <1>5, <1>7, NothingAdded
    <2>2. Claimed' = Claimed
      BY <1>2, <2>1 DEF Claimed
    <2>3. F # Entry => <<F, M>> \in Claimed'
      BY <1>5, <1>7, <2>2
    <2>4. QED
      BY <1>1, <1>2, <2>1, <2>2, <2>3, FileClaims
  <1>8. QED
    BY <1>6, <1>7

\* A file that is met for the first time is in the module of the import.
LEMMA ParseClaims ==
  ASSUME MergeInv, ModulesDistinct, FilesClaimed, ParseFile
  PROVE  FilesClaimed'
  <1>1. PICK F, M : F = File /\ M = import.module
    OBVIOUS
  <1>2. /\ Parses /\ seen' = seen /\ F \notin DOMAIN import_hash /\ includes' = includes
        /\ import_hash' = MarkImported /\ module_files' = Append(module_files, <<F, M>>)
    BY <1>1 DEF ParseFile
  <1>3. PICK parsed : Proceeds(parsed)
    BY DEF ParseFile
  <1>4. /\ DOMAIN import_hash' = DOMAIN import_hash \cup {F}
        /\ \A f \in DOMAIN import_hash : import_hash'[f] = import_hash[f]
        /\ import_hash'[F].module = M
    BY <1>1, <1>2 DEF MarkImported
  <1>5. Entry \in DOMAIN import_hash
    BY DEF MergeInv, OrderInv, FilesFit, Known
  <1>6. Range(module_files') = Range(module_files) \cup {<<F, M>>}
    <2>1. PICK e : e = <<F, M>>
      OBVIOUS
    <2>2. IsSeq(module_files) /\ module_files' = Append(module_files, e)
      BY <1>2, <2>1 DEF MergeInv, OrderInv, Sequential
    <2>3. /\ DOMAIN module_files' = 1 .. Len(module_files) + 1 /\ Len(module_files) \in Nat
          /\ DOMAIN module_files = 1 .. Len(module_files)
          /\ \A i \in 1 .. Len(module_files) : module_files'[i] = module_files[i]
          /\ module_files'[Len(module_files) + 1] = e
      BY <2>2, Appended, SeqFacts
    <2>4. Range(module_files') = Range(module_files) \cup {e}
      BY <2>3 DEF Range
    <2>5. QED
      BY <2>1, <2>4
  <1>7. Claimed' = Claimed \cup {<<F, M>>}
    BY <1>2, <1>6 DEF Claimed
  <1>8. QED
    BY <1>1, <1>2, <1>3, <1>4, <1>5, <1>7, FileClaims

\* The entry file is in no module.
LEMMA RefuseClaims ==
  ASSUME MergeInv, ModulesDistinct, FilesClaimed, RefuseEntry
  PROVE  FilesClaimed'
  <1>1. PICK F, M : F = File /\ M = import.module
    OBVIOUS
  <1>2. /\ Parses /\ Proceeds(<<>>) /\ F = Entry
        /\ UNCHANGED <<seen, import_hash, module_files, includes>>
    BY <1>1 DEF RefuseEntry, tables
  <1>3. Claimed' = Claimed
    BY <1>2 DEF Claimed
  <1>4. Entry \in DOMAIN import_hash
    BY DEF MergeInv, OrderInv, FilesFit, Known
  <1>5. QED
    BY <1>1, <1>2, <1>3, <1>4, FileClaims

\* At the end of an import its module has all its files.
LEMMA MergeClaims ==
  ASSUME MergeInv, FilesClaimed, MergePass
  PROVE  FilesClaimed'
  <1>1. UNCHANGED <<seen, import_hash, module_files, includes>> /\ import'.path = NULL
    BY DEF MergePass, tables, NoImport
  <1>2. Claimed' = Claimed /\ \A m, p : Stands(m, p)' <=> Stands(m, p)
    BY <1>1 DEF Claimed, Stands
  <1>3. Pending = {}
    BY DEF MergePass, Pending, Range
  <1>4. QED
    BY <1>1, <1>2, <1>3 DEF FilesClaimed

\* An item that leaves the queue was entered, or was dropped when it was put there.
LEMMA PopEntered ==
  ASSUME OrderInv, NamesEntered, import_queue # <<>>, Pops, UNCHANGED program, Known' = Known,
         \A f, item : Entered(f, item) => Entered(f, item)', ~has_errors' => ~has_errors,
         NEW F, F = From, NEW it, it = Item,
         ~has_errors' => Entered(F, it)' \/ (~it.stdlib /\ it.path = NULL)
  PROVE  NamesEntered'
  <1>1. Range(import_queue) = Range(import_queue') \cup {Head(import_queue)}
    BY Tailed DEF OrderInv, Sequential, Pops
  <1> SUFFICES ASSUME ~has_errors', NEW f \in Known, NEW item \in ItemsOf(f)
               PROVE  Waits(f, item)' \/ Entered(f, item)'
    BY DEF NamesEntered, ItemsOf
  <1>2. Waits(f, item) \/ Entered(f, item)
    BY DEF NamesEntered
  <1>3. CASE Entered(f, item)
    BY <1>3
  <1>4. CASE Waits(f, item) /\ [file |-> f, item |-> item] # Head(import_queue)
    BY <1>1, <1>4 DEF Waits
  <1>5. CASE [file |-> f, item |-> item] = Head(import_queue)
    <2>1. F = f /\ it = item
      BY <1>5 DEF Item, From
    <2>2. ~item.stdlib => item.path # NULL
      BY ItemFacts
    <2>3. QED
      BY <2>1, <2>2
  <1>6. QED
    BY <1>2, <1>3, <1>4, <1>5

\* A step that leaves the names, the queue and the known files.
LEMMA EnteredSame ==
  ASSUME NamesEntered, UNCHANGED <<program, import_queue, seen, module_aliases>>, Known' = Known,
         ~has_errors' => ~has_errors
  PROVE  NamesEntered'
  <1>1. \A f, item : Entered(f, item)' <=> Entered(f, item)
    BY DEF Entered, AsStdlib, AsImport, AsSibling
  <1>2. \A f, item : Waits(f, item)' <=> Waits(f, item)
    BY DEF Waits
  <1>3. QED
    BY <1>1, <1>2 DEF NamesEntered, ItemsOf

\* The names that a path is bound to are entered.
LEMMA ImportEntered ==
  ASSUME NEW N, NEW module, NEW w, NEW path, Adds(N, module, w, path, FALSE),
         NEW F, F = From, NEW it, it = Item, ~it.stdlib, w = Written, path = it.path
  PROVE  Entered(F, it)'
  <1>1. w = AliasOf(it)
    BY DEF Written, AliasOf
  <1>2. AsImport(F, it)'
    BY <1>1 DEF AsImport, Adds
  <1>3. QED
    BY <1>2 DEF Entered

\* A file is followed: its siblings are entered, its other imports wait.
LEMMA ParseEntered ==
  ASSUME MergeInv, NamesEntered, IsSeq(module_aliases), ~has_errors, Parses,
         File \notin DOMAIN import_hash, import_hash' = MarkImported,
         module_files' = Append(module_files, <<File, import.module>>),
         Proceeds(<<File>>), InjectImports(program[File]), UNCHANGED <<program, seen, variables>>
  PROVE  NamesEntered' /\ IsSeq(module_aliases')
  <1>0. PICK F, L : F = File /\ L = Len(module_aliases) + 1
    OBVIOUS
  <1>1. /\ Known' = Known \cup {F} /\ Range(import_queue) \subseteq Range(import_queue')
        /\ \A i \in DOMAIN program[F] :
             [file |-> F, item |-> WithoutSiblings(program[F])[i]] \in Range(import_queue')
    BY <1>0, FileParsed DEF MergeInv
  <1> DEFINE items == program[F]
             block == [names |-> {AliasOf(items[i]) : i \in Siblings(items)}, module |-> import.module]
  <1>2. module_aliases' = Append(module_aliases, block)
    BY <1>0 DEF InjectImports
  <1>3. block.names = {AliasOf(items[i]) : i \in Siblings(items)}
    OBVIOUS
  <1> HIDE DEF block
  <1>4. /\ IsSeq(module_aliases') /\ L \in DOMAIN module_aliases' /\ module_aliases'[L] = block
        /\ \A i \in DOMAIN module_aliases :
             i \in DOMAIN module_aliases' /\ module_aliases'[i] = module_aliases[i]
    BY <1>0, <1>2, Appended, SeqFacts
  <1>5. \A f, item : Entered(f, item) => Entered(f, item)'
    BY <1>4, EnteredKept
  <1>6. ASSUME NEW f \in Known, NEW item \in ItemsOf(f)
        PROVE  Waits(f, item)' \/ Entered(f, item)'
    <2>1. Waits(f, item) => Waits(f, item)'
      BY <1>1 DEF Waits
    <2>2. Waits(f, item) \/ Entered(f, item)
      BY <1>6 DEF NamesEntered
    <2>3. QED
      BY <1>5, <2>1, <2>2
  <1>7. ASSUME NEW item \in ItemsOf(F)
        PROVE  Waits(F, item)' \/ Entered(F, item)'
    <2>1. PICK i \in DOMAIN items : items[i] = item
      BY <1>7 DEF ItemsOf, Range
    <2>2. CASE IsSibling(item)
      <3>1. i \in Siblings(items) /\ ~item.stdlib
        BY <2>1, <2>2 DEF Siblings, IsSibling
      <3>2. AliasOf(item) \in block.names
        BY <1>3, <2>1, <3>1
      <3>3. AsSibling(item)'
        BY <1>4, <3>2 DEF AsSibling
      <3>4. QED
        BY <3>1, <3>3 DEF Entered
    <2>3. CASE ~IsSibling(item)
      <3>1. WithoutSiblings(items)[i] = item
        BY <2>1, <2>3 DEF WithoutSiblings
      <3>2. QED
        BY <1>1, <2>1, <3>1 DEF Waits
    <2>4. QED
      BY <2>2, <2>3
  <1>8. \A f : ItemsOf(f)' = ItemsOf(f)
    BY DEF ItemsOf
  <1>9. QED
    BY <1>1, <1>4, <1>6, <1>7, <1>8 DEF NamesEntered

\* At first nothing is bound and all imports of the entry file wait.
LEMMA NameInitially ==
  ASSUME Init
  PROVE  NameInv
  <1>1. /\ import_queue = Queued(Entry, program[Entry]) /\ seen = <<>> /\ variables = <<Entry>>
        /\ DOMAIN import_hash = {Entry} /\ import_hash[Entry].module = NoModule
        /\ module_files = <<>> /\ includes = <<>> /\ module_aliases = <<>>
        /\ import.path = NULL /\ import.parsed = <<>>
    BY DEF Init, NoImport
  <1>2. IsSeq(<<>>) /\ Range(<<>>) = {} /\ Known = {Entry}
    BY <1>1 DEF IsSeq, Range, Known
  <1>3. NamesDistinct /\ ModulesDistinct /\ \A m, p : ~Stands(m, p)
    BY <1>1 DEF NamesDistinct, ModulesDistinct, Stands
  <1>4. Claimed = {}
    BY <1>1, <1>2 DEF Claimed
  <1>5. FilesClaimed
    BY <1>1, <1>3, <1>4 DEF FilesClaimed
  <1>6. ASSUME NEW item \in ItemsOf(Entry)
        PROVE  Waits(Entry, item)
    <2>1. PICK i \in DOMAIN program[Entry] : program[Entry][i] = item
      BY <1>6 DEF ItemsOf, Range
    <2>2. i \in DOMAIN import_queue /\ import_queue[i] = [file |-> Entry, item |-> item]
      BY <1>1, <2>1 DEF Queued
    <2>3. QED
      BY <2>2 DEF Waits, Range
  <1>7. NamesEntered
    BY <1>2, <1>6 DEF NamesEntered
  <1>8. QED
    BY <1>1, <1>2, <1>3, <1>5, <1>7, MergeInitially DEF NameInv

\* Every step keeps names and modules apart, and names entered.
LEMMA NameStep ==
  ASSUME NameInv, [Next]_vars
  PROVE  NameInv'
  <1>0. /\ MergeInv' /\ MergeInv /\ OrderInv /\ IsSeq(seen) /\ IsSeq(includes) /\ IsSeq(module_aliases)
        /\ NamesDistinct /\ ModulesDistinct /\ FilesClaimed /\ NamesEntered
    BY MergeStep DEF NameInv, MergeInv, OrderInv, Sequential
  <1> SUFFICES /\ IsSeq(includes') /\ IsSeq(module_aliases')
               /\ NamesDistinct' /\ ModulesDistinct' /\ FilesClaimed' /\ NamesEntered'
    BY <1>0 DEF NameInv
  <1>a. PICK F, it : F = From /\ it = Item
    OBVIOUS
  <1>b. (seen' = seen \/ \E N, module, w, path, stdlib : Adds(N, module, w, path, stdlib))
          /\ module_aliases' = module_aliases => \A f, item : Entered(f, item) => Entered(f, item)'
    BY EnteredKept
  <1>1. CASE UNCHANGED vars
    <2>1. /\ UNCHANGED <<program, import_queue, seen, import_hash, module_files, includes, module_aliases>>
          /\ UNCHANGED <<import, variables, has_errors>>
      BY <1>1 DEF vars, tables
    <2>2. Known' = Known
      BY <2>1 DEF Known
    <2>3. NamesDistinct' /\ ModulesDistinct' /\ \A m, p : Stands(m, p)' <=> Stands(m, p)
      BY <1>0, <2>1, NamesSame
    <2>4. FilesClaimed'
      BY <1>0, <2>1, <2>3, ClaimsSame
    <2>5. NamesEntered'
      BY <1>0, <2>1, <2>2, EnteredSame
    <2>6. QED
      BY <1>0, <2>1, <2>3, <2>4, <2>5
  <1>2. CASE ImportStdlib
    <2>0. PICK name : name = it.name
      OBVIOUS
    <2>1. /\ import_queue # <<>> /\ Pops /\ it.stdlib
          /\ UNCHANGED <<program, import_hash, module_files, includes, module_aliases, import, variables>>
      BY <1>2, <1>a DEF ImportStdlib, Takes
    <2>2. /\ NamesDistinct' /\ ModulesDistinct'
          /\ \A m, p : Stands(m, p)' <=> Stands(m, p)
          /\ seen' = seen \/ \E N : Adds(N, Module(name, 1), name, NULL, TRUE)
          /\ ~has_errors' => ~has_errors /\ AsStdlib(name)'
      BY <1>0, <1>2, <1>a, <2>0, StdlibNames
    <2>3. FilesClaimed'
      BY <1>0, <2>1, <2>2, ClaimsSame
    <2>4. \A f, item : Entered(f, item) => Entered(f, item)'
      BY <1>b, <2>1, <2>2
    <2>5. ~has_errors' => Entered(F, it)'
      BY <2>0, <2>1, <2>2 DEF Entered
    <2>6. Known' = Known
      BY <2>1 DEF Known
    <2>7. NamesEntered'
      BY <1>0, <1>a, <2>1, <2>2, <2>4, <2>5, <2>6, PopEntered
    <2>8. QED
      BY <1>0, <2>1, <2>2, <2>3, <2>7
  <1>3. CASE SkipDropped \/ RejectImport
    <2>1. /\ import_queue # <<>> /\ Pops
          /\ ~has_errors' => ~has_errors /\ ~it.stdlib /\ it.path = NULL
          /\ UNCHANGED <<program, seen, import_hash, module_files, includes, module_aliases, import, variables>>
      BY <1>3, <1>a DEF SkipDropped, RejectImport, TakesPath, Takes, tables
    <2>2. NamesDistinct' /\ ModulesDistinct' /\ \A m, p : Stands(m, p)' <=> Stands(m, p)
      BY <1>0, <2>1, NamesSame
    <2>3. FilesClaimed'
      BY <1>0, <2>1, <2>2, ClaimsSame
    <2>4. \A f, item : Entered(f, item) => Entered(f, item)'
      BY <1>b, <2>1
    <2>5. Known' = Known
      BY <2>1 DEF Known
    <2>6. NamesEntered'
      BY <1>0, <1>a, <2>1, <2>4, <2>5, PopEntered
    <2>7. QED
      BY <1>0, <2>1, <2>2, <2>3, <2>6
  <1>4. CASE BindExisting
    <2>0. PICK w, path : w = Written /\ path = it.path
      OBVIOUS
    <2>1. /\ import_queue # <<>> /\ Pops /\ ~it.stdlib
          /\ UNCHANGED <<program, import_hash, module_files, includes, module_aliases, import, variables, has_errors>>
      BY <1>4, <1>a DEF BindExisting, TakesPath, Takes
    <2>2. /\ NamesDistinct' /\ ModulesDistinct'
          /\ \A m, p : Stands(m, p)' <=> Stands(m, p)
          /\ \E N, module : Adds(N, module, w, path, FALSE)
      BY <1>0, <1>4, <1>a, <2>0, ExistingNames
    <2>3. FilesClaimed'
      BY <1>0, <2>1, <2>2, ClaimsSame
    <2>4. \A f, item : Entered(f, item) => Entered(f, item)'
      BY <1>b, <2>1, <2>2
    <2>5. Entered(F, it)'
      BY <1>a, <2>0, <2>1, <2>2, ImportEntered
    <2>6. Known' = Known
      BY <2>1 DEF Known
    <2>7. NamesEntered'
      BY <1>0, <1>a, <2>1, <2>4, <2>5, <2>6, PopEntered
    <2>8. QED
      BY <1>0, <2>1, <2>2, <2>3, <2>7
  <1>5. CASE BindNew
    <2>0. PICK w, path : w = Written /\ path = it.path
      OBVIOUS
    <2>1. /\ import_queue # <<>> /\ Pops /\ ~it.stdlib
          /\ UNCHANGED <<program, includes, module_aliases, variables, has_errors>>
      BY <1>5, <1>a DEF BindNew, TakesPath, Takes
    <2>2. /\ NamesDistinct' /\ ModulesDistinct'
          /\ \A m, p : Stands(m, p)' <=> (Stands(m, p) \/ (m = import'.module /\ p = path))
          /\ \E N, module : Adds(N, module, w, path, FALSE)
          /\ import'.path = path
      BY <1>0, <1>5, <1>a, <2>0, NewNames
    <2>3. FilesClaimed'
      <3>1. PICK module : module = import'.module
        OBVIOUS
      <3>2. QED
        BY <1>0, <1>5, <1>a, <2>0, <2>2, <3>1, NewClaims
    <2>4. \A f, item : Entered(f, item) => Entered(f, item)'
      BY <1>b, <2>1, <2>2
    <2>5. Entered(F, it)'
      BY <1>a, <2>0, <2>1, <2>2, ImportEntered
    <2>6. Known' = Known
      BY <1>5, <2>1 DEF Known, BindNew, TakesPath, Takes, NoImport
    <2>7. NamesEntered'
      BY <1>0, <1>a, <2>1, <2>4, <2>5, <2>6, PopEntered
    <2>8. QED
      BY <1>0, <2>1, <2>2, <2>3, <2>7
  <1>6. CASE RefuseEntry \/ SkipFile
    <2>1. /\ Parses /\ Proceeds(<<>>)
          /\ UNCHANGED <<program, import_queue, seen, module_aliases, variables>>
      BY <1>6 DEF RefuseEntry, SkipFile, tables
    <2>2. ~has_errors' => ~has_errors
      BY <1>6, Zenon DEF RefuseEntry, SkipFile
    <2>3. NamesDistinct' /\ ModulesDistinct'
      BY <1>0, <2>1, NamesSame
    <2>4. FilesClaimed' /\ IsSeq(includes')
      <3>1. CASE RefuseEntry
        BY <1>0, <3>1, RefuseClaims DEF RefuseEntry, tables
      <3>2. CASE SkipFile
        BY <1>0, <3>2, SkipClaims
      <3>3. QED
        BY <1>6, <3>1, <3>2
    <2>5. Known' = Known
      <3>1. import'.parsed = import.parsed
        BY <1>0, <2>1, NothingAdded DEF OrderInv, Sequential, Proceeds
      <3>2. QED
        BY <2>1, <3>1 DEF Known
    <2>6. NamesEntered'
      BY <1>0, <2>1, <2>2, <2>5, EnteredSame
    <2>7. QED
      BY <1>0, <2>1, <2>3, <2>4, <2>6
  <1>7. CASE ParseFile
    <2>1. /\ Parses /\ File \notin DOMAIN import_hash /\ import_hash' = MarkImported
          /\ module_files' = Append(module_files, <<File, import.module>>)
          /\ UNCHANGED <<program, seen, includes, variables>>
      BY <1>7 DEF ParseFile
    <2>2. NamesDistinct' /\ ModulesDistinct' /\ FilesClaimed'
      BY <1>0, <1>7, <2>1, NamesSame, ParseClaims
    <2>3. NamesEntered' /\ IsSeq(module_aliases')
      <3>1. CASE has_errors' = TRUE /\ UNCHANGED module_aliases
        BY <1>0, <3>1 DEF NamesEntered
      <3>2. CASE ~has_errors /\ Proceeds(<<File>>) /\ InjectImports(program[File])
        BY <1>0, <2>1, <3>2, ParseEntered
      <3>3. QED
        BY <1>7, <3>1, <3>2 DEF ParseFile
    <2>4. QED
      BY <1>0, <2>1, <2>2, <2>3
  <1>8. CASE MergePass
    <2>1. UNCHANGED <<program, import_queue, seen, includes, module_aliases, has_errors>>
      BY <1>8 DEF MergePass, tables
    <2>2. NamesDistinct' /\ ModulesDistinct'
      BY <1>0, <2>1, NamesSame
    <2>3. FilesClaimed'
      BY <1>0, <1>8, MergeClaims
    <2>4. Known' = Known
      BY <1>0, <1>8, MergeKeeps
    <2>5. NamesEntered'
      BY <1>0, <2>1, <2>4, EnteredSame
    <2>6. QED
      BY <1>0, <2>1, <2>2, <2>3, <2>5
  <1>9. QED
    BY <1>1, <1>2, <1>3, <1>4, <1>5, <1>6, <1>7, <1>8 DEF Next

\* When nothing is left to do, a module has exactly the files of its target.
LEMMA TargetFiles ==
  ASSUME NameInv, Done, NEW m, NEW p, Stands(m, p)
  PROVE  FilesIn(m) = Range(FilesOf(p)) \ {Entry}
  <1>1. ModulesDistinct /\ FilesClaimed
    BY DEF NameInv
  <1>2. Pending = {}
    BY DEF Done, NoImport, Pending, Range
  <1>3. \A q : Stands(m, q) => q = p
    BY <1>1 DEF ModulesDistinct, Stands
  <1>4. ASSUME NEW e \in Claimed, e[2] = m PROVE e[1] \in Range(FilesOf(p)) \ {Entry}
    BY <1>1, <1>3, <1>4 DEF FilesClaimed
  <1>5. ASSUME NEW g \in Range(FilesOf(p)) \ {Entry} PROVE <<g, m>> \in Claimed
    BY <1>1, <1>2 DEF FilesClaimed
  <1>6. \A e : e \in FilesIn(m) <=> \E x \in Claimed : x[2] = m /\ e = x[1]
    BY DEF FilesIn, Claimed
  <1>7. ASSUME NEW g \in Range(FilesOf(p)) \ {Entry} PROVE g \in FilesIn(m)
    <2>1. PICK x \in Claimed : x = <<g, m>>
      BY <1>5
    <2>2. x[1] = g /\ x[2] = m
      BY <2>1
    <2>3. QED
      BY <1>6, <2>2
  <1>8. QED
    BY <1>4, <1>6, <1>7

\* What the invariant says when nothing is left to do.
LEMMA NamesSuffice ==
  ASSUME NameInv
  PROVE  NamesBind
  <1> SUFFICES ASSUME Compiles, NEW f \in Range(variables), NEW item \in ItemsOf(f), NEW name,
                      name = IF item.stdlib THEN item.name ELSE AliasOf(item),
                      \A i \in DOMAIN module_aliases : name \notin module_aliases[i].names,
                      NEW module, module = ResolveAlias(f, name)
               PROVE  IF item.stdlib THEN module = Module(name, 1) /\ FilesIn(module) = {}
                      ELSE FilesIn(module) = Targets(item)
    BY DEF NamesBind
  <1> DEFINE own == {i \in DOMAIN seen : seen[i].file = f /\ seen[i].written = name
                                            /\ seen[i].module # Module(name, 1)}
  <1>1. Done /\ ~has_errors /\ import_queue = <<>> /\ IsSeq(seen) /\ NamesDistinct /\ ModulesDistinct
    BY DEF Compiles, Done, NameInv, MergeInv, OrderInv, Sequential
  <1>2. ~Waits(f, item)
    BY <1>1 DEF Waits, Range
  <1>3. Entered(f, item)
    BY <1>1, <1>2 DEF NameInv, NamesEntered, Known
  <1>4. module = IF own # {} THEN seen[Min(own)].module ELSE Module(name, 1)
    BY DEF ResolveAlias
  <1>5. own # {} => Min(own) \in own
    <2>1. own \in SUBSET Nat
      BY <1>1, SeqFacts
    <2>2. QED
      BY <2>1, MinFacts
  <1>6. CASE item.stdlib
    <2>1. PICK i \in DOMAIN seen : seen[i].stdlib /\ seen[i].written = name
      BY <1>3, <1>6 DEF Entered, AsStdlib
    <2>2. \A k \in DOMAIN seen : seen[k].written = name => seen[k].module = Module(name, 1)
      BY <1>1, <2>1 DEF NamesDistinct, ModulesDistinct
    <2>3. own = {}
      BY <2>2
    <2>4. \A p : ~Stands(Module(name, 1), p)
      BY <1>1, <2>1 DEF ModulesDistinct, Stands
    <2>5. \A e \in Claimed : e[2] # Module(name, 1)
      BY <2>4 DEF NameInv, FilesClaimed
    <2>6. FilesIn(Module(name, 1)) = {}
      BY <2>5 DEF FilesIn, Claimed
    <2>7. QED
      BY <1>4, <1>6, <2>3, <2>6
  <1>7. CASE ~item.stdlib
    <2>1. name = AliasOf(item) /\ AsImport(f, item)
      BY <1>3, <1>7 DEF Entered, AsSibling
    <2>2. PICK i \in DOMAIN seen : /\ ~seen[i].stdlib /\ seen[i].path = item.path
                                   /\ seen[i].file = f /\ seen[i].written = name
      BY <2>1 DEF AsImport
    <2>3. \A k \in DOMAIN seen : seen[k].file = f /\ seen[k].written = name => k = i
      BY <1>1, <2>2 DEF NamesDistinct
    <2>4. own # {} => Min(own) = i
      BY <1>5, <2>3
    <2>5. own = {} => seen[i].module = Module(name, 1)
      BY <2>2
    <2>6. module = seen[i].module
      BY <1>4, <2>4, <2>5
    <2>7. Stands(module, item.path)
      BY <2>2, <2>6 DEF Stands
    <2>8. QED
      BY <1>1, <1>7, <2>7, TargetFiles DEF Targets
  <1>8. QED
    BY <1>6, <1>7

\* In a program that compiles, the name of an import means, in the file that
\* wrote it, a module with the declarations of exactly the files it imports,
\* except for the names of siblings (imports.c 461-545, 591-613; module_table.c
\* 332-361), for every program.
THEOREM NamesResolve == Spec => []NamesBind
  <1>1. Init => NameInv
    BY NameInitially
  <1>2. NameInv /\ [Next]_vars => NameInv'
    BY NameStep
  <1>3. NameInv => NamesBind
    BY NamesSuffice
  <1>4. QED
    BY <1>1, <1>2, <1>3, PTL DEF Spec
=============================================================================
