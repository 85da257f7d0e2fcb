------------------------------ MODULE Download ------------------------------
(***************************************************************************)
(* How the blobs of one artifact reach the store (internal/transfer,       *)
(* download.go).  Every blob has a task of its own, run beside the others  *)
(* (an errgroup), and a partial file that outlives the attempt and the     *)
(* process: the next attempt replays it through the hash and asks for the  *)
(* rest with a Range request.                                              *)
(*                                                                         *)
(* A byte is told apart only by whether it is the right one at its place,  *)
(* so a file is its length in chunks and whether all of them are right:    *)
(* content hashes to the digest exactly when it has the size and is good.  *)
(* The store's exclusive lock lets one command download at a time, so      *)
(* there is one task per blob and not one per process.                     *)
(***************************************************************************)
EXTENDS Naturals

CONSTANTS
  Blobs,       \* the leaf blobs some artifact consists of
  Size,        \* the number of chunks of each
  Attempts,    \* downloadAttempts
  MaxFaults,   \* how often the surroundings may interfere (bounds the model)
  None

ASSUME DownloadAssumption ==
  /\ Size \in [Blobs -> Nat \ {0}]
  /\ Attempts \in Nat \ {0}
  /\ MaxFaults \in Nat

VARIABLES
  disk,        \* the store's file for each blob: "altered" is by another hand
  partial,     \* the partial file of each blob, or None
  task,        \* where the download of each blob stands
  faults       \* how many faults there have been

downloadVars == <<disk, partial, task, faults>>

Empty == [len |-> 0, good |-> TRUE]

TaskPlaces ==
  {"none", "try", "ask", "stream", "install", "sweep", "done", "failed"}

NoTask == [at |-> "none", tries |-> 0]

DownloadTypeOK ==
  /\ disk \in [Blobs -> {"absent", "whole", "altered", "wrong"}]
  /\ \A b \in Blobs :
       /\ partial[b] \in {None} \cup [len : 0 .. Size[b] + 1, good : BOOLEAN]
       /\ task[b].at \in TaskPlaces
       /\ task[b].tries \in 0 .. Attempts
  /\ DOMAIN partial = Blobs
  /\ DOMAIN task = Blobs
  /\ faults \in 0 .. MaxFaults

DownloadInit ==
  /\ disk = [b \in Blobs |-> "absent"]
  /\ partial = [b \in Blobs |-> None]
  /\ task = [b \in Blobs |-> NoTask]
  /\ faults = 0

-----------------------------------------------------------------------------
\* One more fault, while the bound allows it.
Fault == faults < MaxFaults /\ faults' = faults + 1

Length(b) == IF partial[b] = None THEN 0 ELSE partial[b].len

\* The digest of the partial file is the blob's.
Hashes(b) == partial[b] # None /\ partial[b] = [len |-> Size[b], good |-> TRUE]

Goes(b, place) == task' = [task EXCEPT ![b].at = place]

\* The attempt came to nothing: the next one, or the end of the download.
AttemptFails(b) ==
  task' = [task EXCEPT ![b] =
    [tries |-> @.tries + 1,
     at |-> IF @.tries + 1 < Attempts THEN "try" ELSE "failed"]]

PartialBecomes(b, file) == partial' = [partial EXCEPT ![b] = file]

\* RehashPartial: what is there is replayed, and discarded when it is too
\* long to be a beginning of the blob.  A complete file goes to the install.
RehashPartial(b) ==
  /\ task[b].at = "try"
  /\ IF Length(b) > Size[b] THEN PartialBecomes(b, None)
                            ELSE UNCHANGED partial
  /\ Goes(b, IF Length(b) = Size[b] THEN "install" ELSE "ask")
  /\ UNCHANGED <<disk, faults>>

\* 200: the registry starts over, whether or not a range was asked for.
AnsweredWhole(b) ==
  /\ task[b].at = "ask"
  /\ PartialBecomes(b, Empty)
  /\ Goes(b, "stream")
  /\ UNCHANGED <<disk, faults>>

\* 206: the bytes that follow are appended to what is there.
AnsweredRest(b) ==
  /\ task[b].at = "ask"
  /\ PartialBecomes(b, IF partial[b] = None THEN Empty ELSE partial[b])
  /\ Goes(b, "stream")
  /\ UNCHANGED <<disk, faults>>

\* 416: the registry refuses the range, and the partial file is discarded.
AnsweredNoRange(b) ==
  /\ task[b].at = "ask"
  /\ PartialBecomes(b, None)
  /\ AttemptFails(b)
  /\ Fault
  /\ UNCHANGED disk

\* No answer, or another status.
NotAnswered(b) ==
  /\ task[b].at = "ask"
  /\ AttemptFails(b)
  /\ Fault
  /\ UNCHANGED <<disk, partial>>

\* io.Copy of the body: a chunk that belongs there, or one that does not.
Receive(b) ==
  /\ task[b].at = "stream"
  /\ \/ /\ partial[b].len < Size[b]
        /\ PartialBecomes(b, [partial[b] EXCEPT !.len = @ + 1])
        /\ UNCHANGED faults
     \/ /\ partial[b].len <= Size[b]
        /\ PartialBecomes(b, [len |-> partial[b].len + 1, good |-> FALSE])
        /\ Fault
  /\ UNCHANGED <<disk, task>>

\* The body ends.  A file of the right length is checked, a longer one is
\* removed, a shorter one kept for the next attempt.
StreamEnds(b) ==
  /\ task[b].at = "stream"
  /\ \/ /\ partial[b].len = Size[b]
        /\ Goes(b, "install")
        /\ UNCHANGED <<partial, faults>>
     \/ /\ partial[b].len > Size[b]
        /\ PartialBecomes(b, None)
        /\ AttemptFails(b)
        /\ UNCHANGED faults
     \/ /\ partial[b].len < Size[b]
        /\ AttemptFails(b)
        /\ Fault
        /\ UNCHANGED partial
  /\ UNCHANGED disk

\* The partial file becomes the blob, unless the store has one already.
BecomesBlob(b) ==
  disk' = [disk EXCEPT ![b] =
    IF @ # "absent" THEN @ ELSE IF Hashes(b) THEN "whole" ELSE "wrong"]

\* Mutant: the digest is not compared before the file becomes the blob.
InstallUnverified(b) ==
  /\ task[b].at = "install"
  /\ BecomesBlob(b)
  /\ Goes(b, "sweep")
  /\ UNCHANGED <<partial, faults>>

\* Mutant: a partial file with the wrong digest is kept for the next attempt.
InstallKeepsMismatch(b) ==
  /\ task[b].at = "install"
  /\ IF Hashes(b) THEN BecomesBlob(b) /\ Goes(b, "sweep")
                  ELSE AttemptFails(b) /\ UNCHANGED disk
  /\ UNCHANGED <<partial, faults>>

\* installPartial: content that hashes to the digest becomes the blob, and
\* stays for another attempt if the store fails to take it; anything else is
\* discarded.
InstallPartial(b) ==
  /\ task[b].at = "install"
  /\ \/ Hashes(b) /\ BecomesBlob(b) /\ Goes(b, "sweep") /\ UNCHANGED <<partial, faults>>
     \/ Hashes(b) /\ AttemptFails(b) /\ Fault /\ UNCHANGED <<disk, partial>>
     \/ /\ ~Hashes(b)
        /\ PartialBecomes(b, None)
        /\ AttemptFails(b)
        /\ UNCHANGED <<disk, faults>>

\* ... and then the partial file goes.
SweepPartial(b) ==
  /\ task[b].at = "sweep"
  /\ PartialBecomes(b, None)
  /\ Goes(b, "done")
  /\ UNCHANGED <<disk, faults>>

\* downloadBlob gives up when its context is cancelled, as one download that
\* fails cancels the others': they stop where they are, their partials kept.
Cancelled(b) ==
  /\ task[b].at \in {"try", "ask", "stream", "install"}
  /\ \E c \in Blobs : task[c].at = "failed"
  /\ Goes(b, "failed")
  /\ UNCHANGED <<disk, partial, faults>>

DownloadStep(b) ==
  \/ RehashPartial(b)   \/ AnsweredWhole(b) \/ AnsweredRest(b)
  \/ AnsweredNoRange(b) \/ NotAnswered(b)   \/ Receive(b)
  \/ StreamEnds(b)      \/ InstallPartial(b)
  \/ SweepPartial(b)    \/ Cancelled(b)

\* The tasks a pull starts: one per blob of the artifact, and nothing to do
\* for a blob the store already has a file for (Exists looks no further).
TasksFor(wanted) ==
  [b \in Blobs |->
    IF b \notin wanted THEN NoTask
    ELSE [tries |-> 0, at |-> IF disk[b] = "absent" THEN "try" ELSE "done"]]

FetchSucceeds(wanted) == \A b \in wanted : task[b].at = "done"

FetchFails(wanted) ==
  /\ \A b \in wanted : task[b].at \in {"done", "failed"}
  /\ \E b \in wanted : task[b].at = "failed"
=============================================================================
