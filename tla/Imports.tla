------------------------------ MODULE Imports ------------------------------
(***************************************************************************)
(* parser/imports.c: the files a program is made of are found by following *)
(* import statements from the entry file, parsed, and merged into one      *)
(* program; typechecker/module_table.c: which module a name means in which *)
(* file.                                                                   *)
(*                                                                         *)
(* A path that is imported stands for a file, for a directory, or for      *)
(* nothing.  A file is what its import items are; the items of a program   *)
(* wait in one queue, since those of a statement are taken in order.       *)
(***************************************************************************)
EXTENDS Naturals, Sequences, SequencesExt, FiniteSetsExt

CONSTANTS
  Files, Entry,   \* canonical paths, and the one that is compiled
  Directory,      \* Directory[d]: the files of d, in order
  Parent,         \* Parent[p]: the directory that p is in
  Base,           \* Base[p]: the name of p without its extension
  Broken,         \* the files that cannot be read or parsed
  Programs,       \* each a function from Files to the items they import
  NULL

ASSUME ImportsAssumption ==
  /\ Entry \in Files /\ Broken \subseteq Files \ {Entry} /\ NULL \notin Files
  /\ Files \cap DOMAIN Directory = {} /\ NULL \notin DOMAIN Directory
  /\ \A d \in DOMAIN Directory :
       Directory[d] \in Seq(Files) /\ Range(Directory[d]) = {f \in Files : Parent[f] = d}
  /\ \A p \in Programs : \A f \in Files :
       /\ p[f] \in Seq(Range(p[f]))
       /\ \A i \in DOMAIN p[f] : ~p[f][i].stdlib => p[f][i].path # NULL

\* Items: import @name, and import "path" or import alias "path".
Stdlib(name) == [stdlib |-> TRUE, name |-> name]
Local(path) == [stdlib |-> FALSE, path |-> path, alias |-> NULL]
Aliased(alias, path) == [stdlib |-> FALSE, path |-> path, alias |-> alias]

\* What is left of the import of a sibling: an item without a path.
Dropped == Local(NULL)

VARIABLES
  program,        \* the files, from Programs
  import_queue,   \* items, each with the file it is written in
  seen,           \* the names bound so far, with their modules and targets
  import_hash,    \* the files met so far, with the module and file that brought them in
  module_files,   \* <<file, module>>: the module a file belongs to
  includes,       \* <<file, module>>: the other modules it is part of
  module_aliases, \* of each file, the names it gives to siblings, and its module
  import,         \* the import that is being carried out; no path when there is none
  variables,      \* the files in the order of their variables in the program
  has_errors

tables == <<seen, import_hash, module_files, includes, module_aliases>>
vars == <<program, import_queue, tables, import, variables, has_errors>>

\* A module is called by the name it was first imported by, "__n" added if
\* that is taken.
Module(name, n) == <<name, n>>
NoModule == Module(NULL, 0)

Queued(f, items) == [i \in DOMAIN items |-> [file |-> f, item |-> items[i]]]

NoImport == [path |-> NULL, from |-> NULL, module |-> NoModule, files |-> <<>>, parsed |-> <<>>]

Init ==
  /\ program \in Programs
  /\ import_queue = Queued(Entry, program[Entry])
  /\ seen = <<>>
  /\ import_hash = [f \in {Entry} |-> [module |-> NoModule, from |-> NULL, directory |-> FALSE]]
  /\ module_files = <<>> /\ includes = <<>> /\ module_aliases = <<>>
  /\ import = NoImport
  /\ variables = <<Entry>>
  /\ has_errors = FALSE

-----------------------------------------------------------------------------
(* One item of the queue.                                                  *)

\* The files that are imported by a path.
FilesOf(path) ==
  IF path \in Files THEN <<path>>
  ELSE IF path \in DOMAIN Directory THEN Directory[path] ELSE <<>>

Item == Head(import_queue).item
From == Head(import_queue).file
Written == IF Item.alias # NULL THEN Item.alias ELSE Base[Item.path]

Takes(stdlib) == import = NoImport /\ import_queue # <<>> /\ Item.stdlib = stdlib
Pops == import_queue' = Tail(import_queue)
Binds(module, written, path, stdlib) ==
  seen' = Append(seen, [module |-> module, written |-> written, path |-> path,
                        file |-> From, stdlib |-> stdlib])

\* A stdlib module is shared by all files: only a local module of its name, or
\* a second import in the same file, is an error.
ImportStdlib ==
  LET same == {i \in DOMAIN seen : seen[i].written = Item.name} IN
  /\ Takes(TRUE)
  /\ Pops
  /\ IF same = {}
     THEN Binds(Module(Item.name, 1), Item.name, NULL, TRUE) /\ UNCHANGED has_errors
     ELSE /\ LET first == seen[Min(same)] IN
             has_errors' = (has_errors \/ ~first.stdlib \/ first.file = From)
          /\ UNCHANGED seen
  /\ UNCHANGED <<program, import_hash, module_files, includes, module_aliases, import, variables>>

TakesPath == Takes(FALSE) /\ Item.path # NULL

SkipDropped ==
  /\ Takes(FALSE) /\ Item.path = NULL
  /\ Pops
  /\ UNCHANGED <<program, tables, import, variables, has_errors>>

\* Nothing is there, or the directory of the importing file itself.
Unresolvable ==
  \/ FilesOf(Item.path) = <<>>
  \/ From # Entry /\ Item.path \in DOMAIN Directory /\ Parent[From] = Item.path

\* The same target twice in one file, or the same name for two targets in one
\* file, or the name of a stdlib module.
Collides ==
  \E i \in DOMAIN seen :
    \/ ~seen[i].stdlib /\ seen[i].path = Item.path /\ seen[i].file = From
    \/ seen[i].written = Written /\ (seen[i].stdlib \/ seen[i].file = From)

RejectImport ==
  /\ TakesPath
  /\ Unresolvable \/ Collides
  /\ Pops
  /\ has_errors' = TRUE
  /\ UNCHANGED <<program, tables, import, variables>>

\* Bug: a module is recognised by its name.
ExistingByName == {i \in DOMAIN seen : ~seen[i].stdlib /\ seen[i].written = Written}

\* A module is recognised by its target.
Existing == {i \in DOMAIN seen : ~seen[i].stdlib /\ seen[i].path = Item.path}

Taken(module) == \E i \in DOMAIN seen : seen[i].module = module
DistinctModule ==
  Module(Written, Min({n \in 1 .. Len(seen) + 1 : ~Taken(Module(Written, n))}))

BindExisting ==
  /\ TakesPath
  /\ ~Unresolvable /\ ~Collides /\ Existing # {}
  /\ Binds(seen[Min(Existing)].module, Written, Item.path, FALSE)
  /\ Pops
  /\ UNCHANGED <<program, import_hash, module_files, includes, module_aliases,
                 import, variables, has_errors>>

BindNew ==
  /\ TakesPath
  /\ ~Unresolvable /\ ~Collides /\ Existing = {}
  /\ Binds(DistinctModule, Written, Item.path, FALSE)
  /\ import' = [path |-> Item.path, from |-> From, module |-> DistinctModule,
                files |-> FilesOf(Item.path), parsed |-> <<>>]
  /\ Pops
  /\ UNCHANGED <<program, import_hash, module_files, includes, module_aliases, variables, has_errors>>

-----------------------------------------------------------------------------
(* Parse pass: the files of the import one by one.                         *)

File == Head(import.files)
Single == Len(FilesOf(import.path)) = 1
IsDirectory == import.path \in DOMAIN Directory

Parses == import.files # <<>>
Proceeds(parsed) ==
  import' = [path |-> import.path, from |-> import.from, module |-> import.module,
             files |-> Tail(import.files), parsed |-> import.parsed \o parsed]

\* The entry file is no module.
RefuseEntry ==
  /\ Parses
  /\ Single /\ File = Entry
  /\ has_errors' = TRUE
  /\ Proceeds(<<>>)
  /\ UNCHANGED <<program, import_queue, tables, variables>>

\* Bug: a file is part of the module that met it first, and of no other.
IncludedOnce == <<>>

\* The declarations of a file that another module has claimed.
Included ==
  LET owner == import_hash[File].module
  IN  IF owner # NoModule /\ owner # import.module THEN <<<<File, import.module>>>> ELSE <<>>

\* A file that has been met.  A second direct import of it in one file is an
\* error, though not where a directory brought it in, or below the entry file.
SkipFile ==
  /\ Parses
  /\ ~(Single /\ File = Entry)
  /\ File \in DOMAIN import_hash
  /\ includes' = includes \o Included
  /\ has_errors' = (has_errors \/
       (Single /\ import.from = Entry /\ ~import_hash[File].directory
          /\ import_hash[File].from = import.from))
  /\ Proceeds(<<>>)
  /\ UNCHANGED <<program, import_queue, seen, import_hash, module_files, module_aliases, variables>>

MarkImported ==
  [f \in DOMAIN import_hash \cup {File} |->
     IF f = File THEN [module |-> import.module, from |-> import.from, directory |-> IsDirectory]
     ELSE import_hash[f]]

\* Within a directory import, what lies in the same directory as the file.
IsSibling(item) ==
  /\ ~item.stdlib /\ IsDirectory
  /\ item.path \in Files \cup DOMAIN Directory /\ Parent[item.path] = import.path
Siblings(items) == {i \in DOMAIN items : IsSibling(items[i])}
WithoutSiblings(items) == [i \in DOMAIN items |-> IF IsSibling(items[i]) THEN Dropped ELSE items[i]]

AliasOf(item) == IF item.alias # NULL THEN item.alias ELSE Base[item.path]

\* The items of a file that has been parsed: siblings become aliases of the
\* module, twice the same is an error, and lose their path; then all are appended
\* to the queue.
InjectImports(items) ==
  LET siblings == Siblings(items) IN
  /\ import_queue' = import_queue \o Queued(File, WithoutSiblings(items))
  /\ module_aliases' =
       Append(module_aliases, [names |-> {AliasOf(items[i]) : i \in siblings}, module |-> import.module])
  /\ has_errors' = \E i, j \in siblings : i < j /\ items[i].path = items[j].path

\* Once there are errors, files are read but neither followed nor merged.
ParseFile ==
  /\ Parses
  /\ ~(Single /\ File = Entry)
  /\ File \notin DOMAIN import_hash
  /\ import_hash' = MarkImported
  /\ module_files' = Append(module_files, <<File, import.module>>)
  /\ IF has_errors \/ File \in Broken
     THEN Proceeds(<<>>) /\ has_errors' = TRUE /\ UNCHANGED <<import_queue, module_aliases>>
     ELSE Proceeds(<<File>>) /\ InjectImports(program[File])
  /\ UNCHANGED <<program, seen, includes, variables>>

\* Bug: after the variables that are there.
MergeBehind == SelectSeq(variables, LAMBDA f : f # Entry) \o import.parsed \o <<Entry>>

\* The variables of each file go before all others.
Merged == Reverse(import.parsed) \o variables

MergePass ==
  /\ import # NoImport /\ import.files = <<>>
  /\ variables' = Merged
  /\ import' = NoImport
  /\ UNCHANGED <<program, import_queue, tables, has_errors>>

Done == import = NoImport /\ import_queue = <<>>

Next ==
  \/ ImportStdlib \/ SkipDropped \/ RejectImport \/ BindExisting \/ BindNew
  \/ RefuseEntry \/ SkipFile \/ ParseFile \/ MergePass
  \/ Done /\ UNCHANGED vars

Spec == Init /\ [][Next]_vars

-----------------------------------------------------------------------------
(* module_table.c, when the type checker has been told of all this.        *)

\* module_table_resolve_alias: an alias of this file, then one that all files
\* see, then the module of that name.  A name that is that of its module is
\* not entered in the table.
ResolveAlias(f, name) ==
  LET own == {i \in DOMAIN seen : seen[i].file = f /\ seen[i].written = name
                                    /\ seen[i].module # Module(name, 1)}
      shared == {i \in DOMAIN module_aliases : name \in module_aliases[i].names
                                    /\ module_aliases[i].module # Module(name, 1)}
  IN  IF own # {} THEN seen[Min(own)].module
      ELSE IF shared # {} THEN module_aliases[Min(shared)].module
      ELSE Module(name, 1)

\* The files whose declarations are found in a module.
FilesIn(module) == {e[1] : e \in {x \in Range(module_files) \cup Range(includes) : x[2] = module}}

-----------------------------------------------------------------------------
(* Properties.                                                             *)

Compiles == Done /\ ~has_errors

IsMerged(f) == f \in Range(variables)
ItemsOf(f) == Range(program[f])
Targets(item) == Range(FilesOf(item.path)) \ {Entry}

\* A subdirectory, imported by a file that was merged with its directory.
IsSubdirectory(f, item) ==
  /\ item.path \in DOMAIN Directory /\ Parent[item.path] = Parent[f]
  /\ f \in DOMAIN import_hash /\ import_hash[f].directory

\* In a program that compiles, whatever a file imports has been merged,
\* transitively (imports.c 498-548, 689-840).  Except for subdirectories: their
\* imports are dropped without an error (770), though STANDARD.md 3056 calls them
\* "separate modules that must be imported independently".
ImportsMerged ==
  Compiles => \A f \in Range(variables) : \A item \in ItemsOf(f) :
    ~item.stdlib /\ ~IsSubdirectory(f, item) => \A g \in Targets(item) : IsMerged(g)

\* In a program that compiles, the name of an import means, in the file that
\* wrote it, a module with the declarations of exactly the files it imports
\* (imports.c 461-545, 591-613; module_table.c 332-361).  Except for a name that
\* some file of a directory gives to a sibling: every file sees that alias, though
\* STANDARD.md 3105 says a name "is scoped to the file that writes it".
NamesBind ==
  Compiles => \A f \in Range(variables) : \A item \in ItemsOf(f) :
    LET name == IF item.stdlib THEN item.name ELSE AliasOf(item)
        module == ResolveAlias(f, name)
    IN  (\A i \in DOMAIN module_aliases : name \notin module_aliases[i].names) =>
          IF item.stdlib THEN module = Module(name, 1) /\ FilesIn(module) = {}
          ELSE FilesIn(module) = Targets(item)

Position(f) == CHOOSE i \in DOMAIN variables : variables[i] = f

\* However imports cross, in circles, through two paths, or as a file here and
\* with its directory there (imports.c 562-590, 658), a file is merged once and
\* belongs to one module.  And its variables come before those of the file whose
\* import brought it in (861-883): they are initialised in the order of the
\* program, so an initialiser there can use them.
MergedOnceInOrder ==
  /\ IsInjective(variables)
  /\ \A i, j \in DOMAIN module_files : module_files[i][1] = module_files[j][1] => i = j
  /\ \A f \in Range(variables) \ {Entry} : Position(f) < Position(import_hash[f].from)
=============================================================================
