---------------------------- MODULE Materialize ----------------------------
(***************************************************************************)
(* `palan pull --output`: the layers of a pulled artifact written out as   *)
(* files (materialize, internal/cli/pull.go).  The output directory is     *)
(* what a serving container reads, so a refusal takes back what the run    *)
(* wrote.  A process that dies takes back nothing, and the next run finds  *)
(* its files.                                                              *)
(*                                                                         *)
(* A layer's name and the file it leads to are different things: a file    *)
(* system may fold case or normalise, so two names may be one file.        *)
(***************************************************************************)
EXTENDS Download, Sequences, Functions

CONSTANTS
  Images,   \* the artifacts there are
  Layers,   \* the layers of each, in the order of its manifest
  FileOf,   \* the file each layer name leads to on this file system
  DirsOf,   \* the directories above it inside the output, outermost first
  Outputs   \* what the output directory may be like beforehand

Layer == [blob : Blobs, name : DOMAIN FileOf \cup {None},
          weight : BOOLEAN, raw : BOOLEAN, escapes : BOOLEAN]

OutFiles == Range(FileOf)
OutDirs == UNION {Range(DirsOf[n]) : n \in DOMAIN FileOf}

\* An output file holds a blob or what a write left of it, or was there
\* before: a regular file some earlier run left, or anything else.
Contents == [what : Blobs \cup {None, "old", "irregular"}, whole : BOOLEAN]

Copied(blob, whole) == [what |-> blob, whole |-> whole]
Nothing == [what |-> None, whole |-> TRUE]

Output == [exists : BOOLEAN, dirs : SUBSET OutDirs, files : [OutFiles -> Contents]]

\* Nothing is in a directory that is not there.
Empties(o) == o.dirs = {} /\ \A f \in OutFiles : o.files[f] = Nothing

ASSUME MaterializeAssumption ==
  /\ Layers \in [Images -> Seq(Layer)]
  /\ None \notin DOMAIN FileOf
  /\ DirsOf \in [DOMAIN FileOf -> Seq(OutDirs)]
  /\ Outputs \subseteq Output
  /\ \A o \in Outputs : o.exists \/ Empties(o)

VARIABLES
  out,   \* the output directory
  job    \* the materialization in progress

outputVars == <<out, job>>

NoJob == [at |-> "none", image |-> None, next |-> 1, written |-> {},
          madeDirs |-> {}, madeDir |-> FALSE, prior |-> None]

OutputTypeOK ==
  /\ out \in Output
  /\ job.at \in {"none", "write", "undo", "ok", "refused"}
  /\ job.at # "none" => job.image \in Images /\ job.prior \in Output
  /\ job.written \subseteq OutFiles
  /\ job.madeDirs \subseteq OutDirs

OutputInit == out \in Outputs /\ job = NoJob

BlobsOf(image) == {Layers[image][i].blob : i \in DOMAIN Layers[image]}

-----------------------------------------------------------------------------
\* The output directory is made, and whether it was there is remembered.
OpenOutput(image) ==
  /\ out' = [out EXCEPT !.exists = TRUE]
  /\ job' = [NoJob EXCEPT !.at = "write", !.image = image, !.prior = out,
                          !.madeDir = ~out.exists]

LayersLeft == job.at = "write" /\ job.next <= Len(Layers[job.image])

ThisLayer == Layers[job.image][job.next]

\* A layer without a file name has nowhere to go; the weights must have one.
SkipLayer ==
  /\ LayersLeft
  /\ ThisLayer.name = None /\ ~ThisLayer.weight
  /\ job' = [job EXCEPT !.next = @ + 1]
  /\ UNCHANGED out

\* Only raw layers can be written, and only inside the directory.
RefuseLayer ==
  /\ LayersLeft
  /\ IF ThisLayer.name = None THEN ThisLayer.weight
                              ELSE ~ThisLayer.raw \/ ThisLayer.escapes
  /\ job' = [job EXCEPT !.at = "undo"]
  /\ UNCHANGED out

Writable ==
  LayersLeft /\ ThisLayer.name # None /\ ThisLayer.raw /\ ~ThisLayer.escapes

\* Mutant: a name already taken is replaced, whoever took it.
MayReplace(file) == out.files[file].what # "irregular"

\* createOutputFile: a name already taken is replaced when an earlier run
\* left the file, and not when this run did or when it is no regular file.
MayCreate(file) == out.files[file].what # "irregular" /\ file \notin job.written

\* missingDirs: the components above the file that are not there yet.
MissingDirs(name) == Range(DirsOf[name]) \ out.dirs

\* One layer is copied out under its name and held to its digest on the way.
\* The directories are made first, the blob must be there, and the file is
\* recorded once created, whatever becomes of the copy.
WriteLayer ==
  /\ Writable
  /\ LET l == ThisLayer
         file == FileOf[l.name]
         created == disk[l.blob] # "absent" /\ MayCreate(file)
     IN \E whole \in BOOLEAN :
          /\ IF whole THEN UNCHANGED faults
                      ELSE created /\ disk[l.blob] = "whole" /\ Fault
          /\ out' = [out EXCEPT
               !.dirs = @ \cup Range(DirsOf[l.name]),
               !.files[file] =
                 IF created
                 THEN Copied(l.blob, whole /\ disk[l.blob] = "whole")
                 ELSE @]
          /\ job' = [job EXCEPT
               !.madeDirs = @ \cup MissingDirs(l.name),
               !.written = IF created THEN @ \cup {file} ELSE @,
               !.next = @ + 1,
               !.at = IF created /\ whole /\ disk[l.blob] = "whole"
                      THEN "write" ELSE "undo"]

\* Every layer is written, and there was something to write.
FinishOutput ==
  /\ job.at = "write" /\ ~LayersLeft
  /\ job' = [job EXCEPT !.at = IF job.written # {} THEN "ok" ELSE "undo"]
  /\ UNCHANGED out

\* Mutant: only the files are taken back.
TakeBackFiles ==
  /\ job.at = "undo"
  /\ out' = [out EXCEPT !.files = [f \in OutFiles |->
       IF f \in job.written THEN Nothing ELSE out.files[f]]]
  /\ job' = [job EXCEPT !.at = "refused"]

\* The deferred cleanup of a refusal: the files this run created, then the
\* directories it made, then the output directory if it was its own.
TakeBack ==
  /\ job.at = "undo"
  /\ LET files == [f \in OutFiles |->
                     IF f \in job.written THEN Nothing ELSE out.files[f]]
         dirs == out.dirs \ job.madeDirs
     IN out' = [exists |-> ~(/\ job.madeDir
                             /\ dirs = {}
                             /\ \A f \in OutFiles : files[f] = Nothing),
                dirs |-> dirs, files |-> files]
  /\ job' = [job EXCEPT !.at = "refused"]

MaterializeStep ==
  \/ (SkipLayer \/ RefuseLayer \/ FinishOutput \/ TakeBack) /\ UNCHANGED faults
  \/ WriteLayer

-----------------------------------------------------------------------------
(* What must hold of the output directory.                                 *)

\* A run that reports success leaves every named layer in a file of its own,
\* whole: no layer is dropped, cut short, or written over by a later one.
OutputIsTheModel ==
  job.at = "ok" =>
    \A i \in DOMAIN Layers[job.image] :
      LET l == Layers[job.image][i]
      IN IF l.name = None THEN ~l.weight
         ELSE out.files[FileOf[l.name]] = Copied(l.blob, TRUE)

\* A refusal leaves nothing of its own behind.  What was there before is
\* there still, but for an earlier run's file that was already replaced.
RefusalTakesBack ==
  job.at = "refused" =>
    /\ out.exists = job.prior.exists
    /\ out.dirs = job.prior.dirs
    /\ \A f \in OutFiles :
         \/ out.files[f] = job.prior.files[f]
         \/ out.files[f] = Nothing /\ job.prior.files[f].what # "irregular"
=============================================================================
