------------------------------ MODULE FileWrite ------------------------------
(***************************************************************************)
(* WriteFileStream, WriteFileStreamDeferred, CommitFile and DiscardFile    *)
(* (pkg/filechooser/filechooser.go): concurrent calls that write the same  *)
(* output path, other programs that touch that path, failing system calls, *)
(* and a crash of the machine between any two steps.                       *)
(*                                                                         *)
(* On native desktop the files of a call are hidden files beside the       *)
(* target: the one the producer writes, and the staging files of           *)
(* replaceFile's fallback.  Elsewhere a call has one file, in a directory  *)
(* of its own, which Dart saves through a dialog and deletes.              *)
(*                                                                         *)
(* The file system is the one the code's Syncs are written for: what was   *)
(* written to a file may be lost in a crash until the file is synced, and  *)
(* changes of the directory reach the disk in order, at any later time,    *)
(* at the latest when the directory is synced.                             *)
(***************************************************************************)
EXTENDS Naturals, Sequences, FiniteSets

CONSTANTS
    Calls,      \* the calls made
    MaxFiles,   \* bound of the model: files one call creates
    MaxOthers,  \* bound of the model: times another program touches the target
    MaxCrashes  \* bound of the model: crashes

ASSUME BoundsAssumption == MaxFiles \in Nat \ {0} /\ MaxOthers \in Nat /\ MaxCrashes \in Nat

VARIABLES
    native,     \* native desktop, not Flatpak or mobile
    puts,       \* every file that was ever put at the target path, in order
    dir,        \* the directory: which of puts is at the target, which temps exist
    disk,       \* the directory as far as it has reached the disk
    data,       \* the contents of every file a call may create
    made,       \* how many files each call has created
    pc,         \* where each call is
    mode,       \* "stream" for WriteFileStream, "deferred" for the two-step form
    force,      \* the force argument
    outcome,    \* what each call has returned
    settled,    \* the calls whose syncDir succeeded
    othersLeft, \* bound: touches by other programs still to come
    crashesLeft \* bound: crashes still to come

vars == <<native, puts, dir, disk, data, made, pc, mode, force, outcome, settled,
          othersLeft, crashesLeft>>

fsVars == <<puts, dir, disk, data, made>>
boundVars == <<othersLeft, crashesLeft>>

\* The first file of a call is the one its producer writes; each of the others is
\* the staging file of one attempt of replaceFile.
Files == Calls \X (1..MaxFiles)

\* What can be at the target: nothing, a file of another program, a call's file.
Foreign == <<"other program", 0>>
Nothing == <<"nobody", 0>>

\* "whole" is complete but not synced, "safe" is synced; a crash tears the rest.
Contents == {"none", "partial", "whole", "safe", "torn"}

Outcomes == {"none", "written", "exists", "handed over", "failed", "discarded"}

Places == {"idle", "open", "produce", "sync", "cleanup", "pending", "commit", "rename",
           "copy", "syncCopy", "renameCopy", "removeTmp", "syncDir", "commitFailed",
           "returned", "crashed"}

\* Every variable has its shape: the directory on disk is never ahead of the
\* directory, and names only files that were created.
TypeOK ==
    /\ native \in BOOLEAN
    /\ puts \in Seq(Files \cup {Foreign, Nothing}) /\ puts # << >>
    /\ dir \in [at : 1..Len(puts), temps : SUBSET Files]
    /\ disk \in [at : 1..Len(puts), temps : SUBSET Files]
    /\ data \in [Files -> Contents]
    /\ made \in [Calls -> 0..MaxFiles]
    /\ pc \in [Calls -> Places]
    /\ mode \in [Calls -> {"stream", "deferred"}]
    /\ force \in [Calls -> BOOLEAN]
    /\ outcome \in [Calls -> Outcomes]
    /\ settled \subseteq Calls
    /\ othersLeft \in 0..MaxOthers
    /\ crashesLeft \in 0..MaxCrashes
    /\ \A f \in dir.temps : data[f] # "none"

Init ==
    /\ native \in BOOLEAN
    /\ \E first \in {Foreign, Nothing} : puts = <<first>>
    /\ dir = [at |-> 1, temps |-> {}]
    /\ disk = dir
    /\ data = [f \in Files |-> "none"]
    /\ made = [c \in Calls |-> 0]
    /\ pc = [c \in Calls |-> "idle"]
    /\ mode \in [Calls -> {"stream", "deferred"}]
    /\ force \in [Calls -> BOOLEAN]
    /\ outcome = [c \in Calls |-> "none"]
    /\ settled = {}
    /\ othersLeft = MaxOthers
    /\ crashesLeft = MaxCrashes

Tmp(c) == <<c, 1>>
Copy(c) == <<c, made[c]>>

Target == puts[dir.at]
TargetExists == Target # Nothing

\* Another file (or none) takes the target's name; names of temps may go with it.
Put(what, gone) ==
    /\ puts' = Append(puts, what)
    /\ dir' = [at |-> Len(puts) + 1, temps |-> dir.temps \ gone]

Goto(c, place) == pc' = [pc EXCEPT ![c] = place]

Returns(c, what) ==
    /\ outcome' = [outcome EXCEPT ![c] = what]
    /\ Goto(c, "returned")

\* A file with a fresh name, under the hand of a writer.
CreatesNext(c) ==
    /\ made' = [made EXCEPT ![c] = @ + 1]
    /\ dir' = [dir EXCEPT !.temps = @ \cup {<<c, made'[c]>>}]
    /\ data' = [data EXCEPT ![<<c, made'[c]>>] = "partial"]

Removes(f) == dir' = [dir EXCEPT !.temps = @ \ {f}]

Becomes(f, content) == data' = [data EXCEPT ![f] = content]

(***************************************************************************)
(* WriteFileStreamDeferred                                                 *)
(***************************************************************************)

\* writeTarget: without force an existing target ends the call.
WriteTarget(c) ==
    /\ pc[c] = "idle"
    /\ IF native /\ ~force[c] /\ TargetExists
       THEN Returns(c, "exists")
       ELSE Goto(c, "open") /\ UNCHANGED outcome
    /\ UNCHANGED <<native, fsVars, mode, force, settled, boundVars>>

OpenTemp(c) ==
    /\ pc[c] = "open"
    /\ CreatesNext(c)
    /\ Goto(c, "produce")
    /\ UNCHANGED <<native, puts, disk, mode, force, outcome, settled, boundVars>>

OpenTempFails(c) ==
    /\ pc[c] = "open"
    /\ Returns(c, "failed")
    /\ UNCHANGED <<native, fsVars, mode, force, settled, boundVars>>

\* fn returns nil: all it had to write is in the file, unsynced.
Produce(c) ==
    /\ pc[c] = "produce"
    /\ Becomes(Tmp(c), "whole")
    /\ Goto(c, "sync")
    /\ UNCHANGED <<native, puts, dir, disk, made, mode, force, outcome, settled, boundVars>>

\* Mutant: the file is closed without being synced.
CloseWithoutSync(c) ==
    /\ pc[c] = "sync"
    /\ Goto(c, IF mode[c] = "stream" THEN "commit" ELSE "pending")
    /\ UNCHANGED <<native, fsVars, mode, force, outcome, settled, boundVars>>

\* Sync and Close succeed: a PendingWrite exists.  WriteFileStream commits it,
\* the deferred form hands it to the caller.
SyncTemp(c) ==
    /\ pc[c] = "sync"
    /\ Becomes(Tmp(c), "safe")
    /\ Goto(c, IF mode[c] = "stream" THEN "commit" ELSE "pending")
    /\ UNCHANGED <<native, puts, dir, disk, made, mode, force, outcome, settled, boundVars>>

\* fn returns an error or panics, or Sync or Close fails.
ProduceFails(c) ==
    /\ pc[c] \in {"produce", "sync"}
    /\ Goto(c, "cleanup")
    /\ UNCHANGED <<native, fsVars, mode, force, outcome, settled, boundVars>>

\* Mutant: the deferred cleanup closes the file and leaves it.
CleanupClosesOnly(c) ==
    /\ pc[c] \in {"cleanup", "commitFailed"}
    /\ IF pc[c] = "commitFailed" /\ mode[c] = "deferred"
       THEN Goto(c, "pending") /\ UNCHANGED outcome
       ELSE Returns(c, "failed")
    /\ UNCHANGED <<native, fsVars, mode, force, settled, boundVars>>

\* The deferred DiscardFile of a failed write, and WriteFileStream's after a
\* failed commit.  The deferred form leaves that to its caller.
Cleanup(c) ==
    /\ pc[c] \in {"cleanup", "commitFailed"}
    /\ IF pc[c] = "commitFailed" /\ mode[c] = "deferred"
       THEN Goto(c, "pending") /\ UNCHANGED <<outcome, dir>>
       ELSE Returns(c, "failed") /\ Removes(Tmp(c))
    /\ UNCHANGED <<native, puts, disk, data, made, mode, force, settled, boundVars>>

(***************************************************************************)
(* The caller of the deferred form decides, any time later.                *)
(***************************************************************************)
DecideCommit(c) ==
    /\ pc[c] = "pending"
    /\ \E f \in BOOLEAN : force' = [force EXCEPT ![c] = f]
    /\ Goto(c, "commit")
    /\ UNCHANGED <<native, fsVars, mode, outcome, settled, boundVars>>

DecideDiscard(c) ==
    /\ pc[c] = "pending"
    /\ Removes(Tmp(c))
    /\ Returns(c, "discarded")
    /\ UNCHANGED <<native, puts, disk, data, made, mode, force, settled, boundVars>>

(***************************************************************************)
(* CommitFile                                                              *)
(***************************************************************************)

\* Mutant: the existing target is noticed, reported and replaced.
CommitChecksLate(c) ==
    /\ pc[c] = "commit"
    /\ IF ~native
       THEN Returns(c, "handed over") /\ UNCHANGED <<puts, dir>>
       ELSE /\ Put(Tmp(c), {Tmp(c)})
            /\ IF ~force[c] /\ TargetExists THEN Returns(c, "exists")
               ELSE Goto(c, "syncDir") /\ UNCHANGED outcome
    /\ UNCHANGED <<native, disk, data, made, mode, force, settled, boundVars>>

\* Without force, a target that has appeared since: Exists.  The temp file is
\* kept for a retry, which only the caller of the deferred form can make.
CommitChecks(c) ==
    /\ pc[c] = "commit"
    /\ CASE ~native -> Returns(c, "handed over")
         [] native /\ ~force[c] /\ TargetExists ->
                IF mode[c] = "stream" THEN Returns(c, "exists")
                ELSE Goto(c, "pending") /\ UNCHANGED outcome
         [] OTHER -> Goto(c, "rename") /\ UNCHANGED outcome
    /\ UNCHANGED <<native, fsVars, mode, force, settled, boundVars>>

\* replaceFile: the rename, after the check and not together with it.
Rename(c) ==
    /\ pc[c] = "rename"
    /\ Put(Tmp(c), {Tmp(c)})
    /\ Goto(c, "syncDir")
    /\ UNCHANGED <<native, disk, data, made, mode, force, outcome, settled, boundVars>>

\* Mutant: the fallback copies into the target itself.
RenameRefusedInPlace(c) ==
    /\ pc[c] = "rename"
    /\ \/ /\ made[c] < MaxFiles /\ made' = [made EXCEPT ![c] = @ + 1]
          /\ Becomes(<<c, made'[c]>>, "partial") /\ Put(<<c, made'[c]>>, {}) /\ Goto(c, "copy")
       \/ Goto(c, "commitFailed") /\ UNCHANGED <<puts, dir, data, made>>
    /\ UNCHANGED <<native, disk, mode, force, outcome, settled, boundVars>>

\* The rename is refused: a fresh file beside the target, if one can be opened.
RenameRefused(c) ==
    /\ pc[c] = "rename"
    /\ \/ made[c] < MaxFiles /\ CreatesNext(c) /\ Goto(c, "copy")
       \/ Goto(c, "commitFailed") /\ UNCHANGED <<dir, data, made>>
    /\ UNCHANGED <<native, puts, disk, mode, force, outcome, settled, boundVars>>

CopyContent(c) ==
    /\ pc[c] = "copy"
    /\ Becomes(Copy(c), "whole")
    /\ Goto(c, "syncCopy")
    /\ UNCHANGED <<native, puts, dir, disk, made, mode, force, outcome, settled, boundVars>>

SyncCopy(c) ==
    /\ pc[c] = "syncCopy"
    /\ Becomes(Copy(c), "safe")
    /\ Goto(c, "renameCopy")
    /\ UNCHANGED <<native, puts, dir, disk, made, mode, force, outcome, settled, boundVars>>

RenameCopy(c) ==
    /\ pc[c] = "renameCopy"
    /\ Put(Copy(c), {Copy(c)})
    /\ Goto(c, "removeTmp")
    /\ UNCHANGED <<native, disk, data, made, mode, force, outcome, settled, boundVars>>

\* Copy, Sync, Close or the second rename fails: the staging file is removed.
CopyFails(c) ==
    /\ pc[c] \in {"copy", "syncCopy", "renameCopy"}
    /\ Removes(Copy(c))
    /\ Goto(c, "commitFailed")
    /\ UNCHANGED <<native, puts, disk, data, made, mode, force, outcome, settled, boundVars>>

RemoveTmp(c) ==
    /\ pc[c] = "removeTmp"
    /\ Removes(Tmp(c))
    /\ Goto(c, "syncDir")
    /\ UNCHANGED <<native, puts, disk, data, made, mode, force, outcome, settled, boundVars>>

\* The last Remove fails: replaceFile reports an error with the target replaced.
RemoveTmpFails(c) ==
    /\ pc[c] = "removeTmp"
    /\ Goto(c, "commitFailed")
    /\ UNCHANGED <<native, fsVars, mode, force, outcome, settled, boundVars>>

\* Mutant: the directory is reported synced without having been synced.
SyncDirSkipped(c) ==
    /\ pc[c] = "syncDir"
    /\ settled' = settled \cup {c}
    /\ Returns(c, "written")
    /\ UNCHANGED <<native, fsVars, mode, force, boundVars>>

\* syncDir is best-effort: it may be refused.
SyncDir(c) ==
    /\ pc[c] = "syncDir"
    /\ \/ disk' = dir /\ settled' = settled \cup {c}
       \/ UNCHANGED <<disk, settled>>
    /\ Returns(c, "written")
    /\ UNCHANGED <<native, puts, dir, data, made, mode, force, boundVars>>

(***************************************************************************)
(* Dart's side of a call that handed its file over: handleWriteResult has  *)
(* shown the dialog, and cleanupTemp deletes the call's directory.         *)
(***************************************************************************)
CleanupTemp(c) ==
    /\ pc[c] = "returned" /\ outcome[c] = "handed over"
    /\ Tmp(c) \in dir.temps
    /\ Removes(Tmp(c))
    /\ UNCHANGED <<native, puts, disk, data, made, pc, mode, force, outcome, settled,
                   boundVars>>

(***************************************************************************)
(* The environment.                                                        *)
(***************************************************************************)

\* Another program creates, replaces or deletes the file at the target path.
OtherProgram ==
    /\ othersLeft > 0
    /\ \E what \in {Foreign, Nothing} : Put(what, {})
    /\ othersLeft' = othersLeft - 1
    /\ UNCHANGED <<native, disk, data, made, pc, mode, force, outcome, settled, crashesLeft>>

\* The directory reaches the disk in the background.
Writeback ==
    /\ disk # dir
    /\ disk' = dir
    /\ UNCHANGED <<native, puts, dir, data, made, pc, mode, force, outcome, settled, boundVars>>

\* The machine goes down: unsynced contents and directory changes are lost, and
\* the program starts anew: only calls not made yet go on.
Crash ==
    /\ crashesLeft > 0
    /\ crashesLeft' = crashesLeft - 1
    /\ dir' = disk
    /\ data' = [f \in Files |-> IF data[f] \in {"partial", "whole"} THEN "torn" ELSE data[f]]
    /\ pc' = [c \in Calls |-> IF pc[c] = "idle" THEN "idle" ELSE "crashed"]
    /\ UNCHANGED <<native, puts, disk, made, mode, force, outcome, settled, othersLeft>>

-----------------------------------------------------------------------------
Deferred(c) ==
    \/ WriteTarget(c) \/ OpenTemp(c) \/ OpenTempFails(c)
    \/ Produce(c) \/ SyncTemp(c) \/ ProduceFails(c) \/ Cleanup(c)

Commit(c) ==
    \/ CommitChecks(c) \/ Rename(c) \/ RenameRefused(c)
    \/ CopyContent(c) \/ SyncCopy(c) \/ RenameCopy(c) \/ CopyFails(c)
    \/ RemoveTmp(c) \/ RemoveTmpFails(c) \/ SyncDir(c)

Next ==
    \/ \E c \in Calls : Deferred(c) \/ Commit(c) \/ DecideCommit(c) \/ DecideDiscard(c)
                        \/ CleanupTemp(c)
    \/ OtherProgram \/ Writeback \/ Crash

Spec == Init /\ [][Next]_vars

(***************************************************************************)
(* Properties.                                                             *)
(***************************************************************************)
FilesOf(c) == {c} \X (1..MaxFiles)

PutsOf(c) == {i \in 1..Len(puts) : puts[i] \in FilesOf(c)}

\* The code's claim for every platform and any crash (WriteFileStream, replaceFile):
\* what a reader finds at the target path, now or after a restart, is never a part
\* of what a call wrote, however the rename went and whatever failed.
TargetWhole ==
    \A at \in {dir.at, disk.at} :
        puts[at] \in Files => data[puts[at]] \in {"whole", "safe"}

\* What a call reports is what it did: "exists" and a file handed to Dart mean
\* that the target never was the call's, "written" that it was, and nothing but
\* other programs ever changed the target otherwise.
ReportsMatchEffect ==
    /\ \A c \in Calls :
        /\ outcome[c] = "handed over" => PutsOf(c) = {}
        /\ outcome[c] = "exists" => PutsOf(c) = {}
        /\ outcome[c] = "written" => PutsOf(c) # {}
    /\ Cardinality({i \in 2..Len(puts) : puts[i] \notin Files}) = MaxOthers - othersLeft

\* While the machine stays up, a native call that has failed, was discarded or
\* has written leaves no hidden file beside the target, on every error path of
\* WriteFileStreamDeferred, CommitFile and replaceFile.  Not so one that reports `exists`.
NoStrayTemp ==
    \A c \in Calls :
        native /\ crashesLeft = MaxCrashes /\ outcome[c] \in {"written", "failed", "discarded"}
            => FilesOf(c) \cap dir.temps = {}

\* A commit whose syncDir was not refused is on the disk: no crash brings back
\* what the target was before it.
CommitSurvives ==
    \A c \in settled : \E i \in PutsOf(c) : i <= disk.at

\* The target in the words of AtomicFile: whose whole output it is, a part of one, or
\* what another program left.
Part == <<"a part", 0>>
Shown(at) ==
    CASE puts[at] \notin Files -> puts[at]
      [] puts[at] \in Files /\ data[puts[at]] \in {"whole", "safe"} -> puts[at][1]
      [] OTHER -> Part

ReportOf(c) == IF pc[c] = "crashed" /\ outcome[c] = "none" THEN "lost" ELSE outcome[c]

File == INSTANCE AtomicFile WITH
            Outside <- {Foreign, Nothing},
            target <- Shown(dir.at),
            saved <- Shown(disk.at),
            report <- [c \in Calls |-> ReportOf(c)],
            replaced <- {c \in Calls : PutsOf(c) # {}}

\* All calls together keep the promise of one atomic file: each step replaces the target
\* as a whole, reports the truth once, or changes nothing, and no crash brings back more
\* than the disk has missed.
IsAtomicFile == File!Spec

=============================================================================
