--------------------------- MODULE FileWriteProofs ---------------------------
(***************************************************************************)
(* Theorems about FileWrite, for any number of calls, of attempts, of      *)
(* other programs' writes and of crashes.                                  *)
(*                                                                         *)
(* That the target is whole depends on which files the code has synced     *)
(* before it renames them: Progress says what every place of a call        *)
(* implies about its files, and History what was ever put at the target.   *)
(* What calls report and leave behind is in Accounts; from both follows    *)
(* that FileWrite implements AtomicFile.                                   *)
(***************************************************************************)
EXTENDS FileWrite, SequenceTheorems, FiniteSetTheorems, TLAPS

\* Where a call has not committed anything yet.
Unwritten == {"idle", "open", "produce", "sync", "cleanup"}

\* Where its first file is complete and synced.
Ready == {"pending", "commit", "rename", "copy", "syncCopy", "renameCopy", "removeTmp",
          "commitFailed"}

Copying == {"copy", "syncCopy", "renameCopy"}

Progress(c) ==
    /\ pc[c] \in {"idle", "open"} => made[c] = 0
    /\ pc[c] \in {"produce", "sync"} => made[c] = 1
    /\ pc[c] \in Ready => made[c] >= 1 /\ data[Tmp(c)] = "safe"
    /\ pc[c] \in Copying => made[c] >= 2
    /\ pc[c] = "renameCopy" => data[Copy(c)] = "safe"

\* Only synced files were ever put at the target, each under a name its call had
\* created, and not while the call could still write to it.
Past(f) ==
    /\ data[f] = "safe"
    /\ f[2] <= made[f[1]]
    /\ pc[f[1]] \notin Unwritten
    /\ pc[f[1]] \in Copying => f[2] < made[f[1]]

History == \A i \in 1..Len(puts) : puts[i] \in Files => Past(puts[i])

\* The disk is behind the directory, and holds only files that were created.
Order ==
    /\ disk.at <= dir.at
    /\ \A f \in disk.temps : data[f] # "none"

IInv == TypeOK /\ Order /\ History /\ \A c \in Calls : Progress(c)

USE BoundsAssumption

-----------------------------------------------------------------------------
Puttable == Files \cup {Foreign, Nothing}

\* What Put does to the history and to the directory.
LEMMA PutExtends ==
    ASSUME TypeOK, NEW what \in Puttable, NEW gone, Put(what, gone)
    PROVE  /\ puts' \in Seq(Puttable) /\ puts' # << >>
           /\ Len(puts) \in Nat /\ Len(puts') = Len(puts) + 1
           /\ puts'[Len(puts) + 1] = what
           /\ \A i \in 1..Len(puts) : puts'[i] = puts[i]
           /\ dir' \in [at : 1..Len(puts'), temps : SUBSET Files]
           /\ dir'.at = Len(puts) + 1 /\ dir'.temps = dir.temps \ gone
           /\ disk \in [at : 1..Len(puts'), temps : SUBSET Files]
<1>1. puts \in Seq(Puttable) /\ puts' = Append(puts, what)
    BY DEF TypeOK, Puttable, Put
<1>2. /\ puts' \in Seq(Puttable) /\ Len(puts) \in Nat /\ Len(puts') = Len(puts) + 1
      /\ puts'[Len(puts) + 1] = what
      /\ \A i \in 1..Len(puts) : puts'[i] = puts[i]
    BY <1>1, AppendProperties, LenProperties
<1>3. puts' # << >>
    BY <1>2
<1>4. dir' = [at |-> Len(puts) + 1, temps |-> dir.temps \ gone] /\ dir.temps \subseteq Files
    BY DEF Put, TypeOK
<1>5. Len(puts) + 1 \in 1..Len(puts') /\ 1..Len(puts) \subseteq 1..Len(puts')
    BY <1>2
<1>6. disk.at \in 1..Len(puts) /\ disk = [at |-> disk.at, temps |-> disk.temps]
      /\ disk.temps \subseteq Files
    BY DEF TypeOK
<1> HIDE DEF Puttable
<1> QED
    BY <1>2, <1>3, <1>4, <1>5, <1>6

\* What CreatesNext does.
LEMMA CreateExtends ==
    ASSUME TypeOK, NEW c \in Calls, made[c] + 1 <= MaxFiles, CreatesNext(c)
    PROVE  /\ made[c] \in Nat /\ made' = [made EXCEPT ![c] = made[c] + 1]
           /\ made' \in [Calls -> 0..MaxFiles]
           /\ <<c, made[c] + 1>> \in Files
           /\ dir' \in [at : 1..Len(puts), temps : SUBSET Files]
           /\ dir'.at = dir.at /\ dir'.temps = dir.temps \cup {<<c, made[c] + 1>>}
           /\ data' = [data EXCEPT ![<<c, made[c] + 1>>] = "partial"]
           /\ data' \in [Files -> Contents]
<1>1. made[c] \in 0..MaxFiles /\ made' = [made EXCEPT ![c] = made[c] + 1]
    BY DEF TypeOK, CreatesNext
<1>2. made'[c] = made[c] + 1 /\ made' \in [Calls -> 0..MaxFiles]
    BY <1>1 DEF TypeOK
<1>3. <<c, made[c] + 1>> \in Files
    BY <1>1 DEF Files
<1>4. dir' = [dir EXCEPT !.temps = @ \cup {<<c, made[c] + 1>>}]
      /\ data' = [data EXCEPT ![<<c, made[c] + 1>>] = "partial"]
    BY <1>2 DEF CreatesNext
<1>5. dir.at \in 1..Len(puts) /\ dir.temps \subseteq Files
      /\ dir = [at |-> dir.at, temps |-> dir.temps]
    BY DEF TypeOK
<1>6. dir' = [at |-> dir.at, temps |-> dir.temps \cup {<<c, made[c] + 1>>}]
    BY <1>4, <1>5
<1>7. data' \in [Files -> Contents]
    BY <1>3, <1>4 DEF TypeOK, Contents
<1> QED
    BY <1>1, <1>2, <1>3, <1>4, <1>5, <1>6, <1>7

\* The names of a call's files.
LEMMA FileNames ==
    ASSUME TypeOK, NEW c \in Calls
    PROVE  /\ Tmp(c) \in Files
           /\ made[c] >= 1 => Copy(c) \in Files
           /\ made[c] \in 0..MaxFiles
BY DEF TypeOK, Files, Tmp, Copy

\* Every step keeps the shape of the variables.
LEMMA TypeStep ==
    ASSUME IInv, [Next]_vars
    PROVE  TypeOK'
<1> USE DEF Places, Outcomes, Contents, fsVars, boundVars
<1>0. CASE UNCHANGED vars
    BY <1>0 DEF IInv, TypeOK, vars
<1>1. ASSUME NEW c \in Calls, WriteTarget(c) PROVE TypeOK'
    <2>1. pc' \in [Calls -> Places] /\ outcome' \in [Calls -> Outcomes]
        BY <1>1 DEF IInv, TypeOK, WriteTarget, Returns, Goto
    <2> QED
        BY <1>1, <2>1 DEF IInv, TypeOK, WriteTarget
<1>2. ASSUME NEW c \in Calls, OpenTemp(c) PROVE TypeOK'
    <2>1. made[c] = 0 /\ CreatesNext(c) /\ UNCHANGED puts
        BY <1>2 DEF IInv, Progress, OpenTemp
    <2>2. made[c] + 1 <= MaxFiles
        BY <2>1
    <2>3. \A f \in dir'.temps : data'[f] # "none"
        BY <2>1, <2>2, CreateExtends DEF IInv, TypeOK
    <2> QED
        BY <1>2, <2>1, <2>2, <2>3, CreateExtends DEF IInv, TypeOK, OpenTemp, Goto
<1>3. ASSUME NEW c \in Calls, OpenTempFails(c) PROVE TypeOK'
    BY <1>3 DEF IInv, TypeOK, Progress, Ready, Copying, OpenTempFails, Returns, Goto
<1>4. ASSUME NEW c \in Calls, Produce(c) PROVE TypeOK'
    BY <1>4, FileNames DEF IInv, TypeOK, Progress, Ready, Copying, Produce, Becomes, Goto
<1>5. ASSUME NEW c \in Calls, SyncTemp(c) PROVE TypeOK'
    BY <1>5, FileNames DEF IInv, TypeOK, Progress, Ready, Copying, SyncTemp, Becomes, Goto
<1>6. ASSUME NEW c \in Calls, ProduceFails(c) PROVE TypeOK'
    BY <1>6 DEF IInv, TypeOK, Progress, Ready, Copying, ProduceFails, Goto
<1>7. ASSUME NEW c \in Calls, Cleanup(c) PROVE TypeOK'
    <2>1. CASE pc[c] = "commitFailed" /\ mode[c] = "deferred"
        BY <1>7, <2>1 DEF IInv, TypeOK, Cleanup, Goto
    <2>2. CASE ~(pc[c] = "commitFailed" /\ mode[c] = "deferred")
        <3>1. Returns(c, "failed") /\ Removes(Tmp(c))
            BY <1>7, <2>2 DEF Cleanup
        <3>2. dir' \in [at : 1..Len(puts), temps : SUBSET Files] /\ dir'.temps \subseteq dir.temps
            BY <3>1 DEF Removes, IInv, TypeOK
        <3> QED
            BY <1>7, <3>1, <3>2 DEF IInv, TypeOK, Cleanup, Returns, Goto
    <2> QED
        BY <2>1, <2>2
<1>8. ASSUME NEW c \in Calls, CommitChecks(c) PROVE TypeOK'
    <2>1. CASE ~native
        BY <1>8, <2>1 DEF IInv, TypeOK, CommitChecks, Returns, Goto
    <2>2. CASE native /\ ~force[c] /\ TargetExists
        BY <1>8, <2>2 DEF IInv, TypeOK, CommitChecks, Returns, Goto
    <2>3. CASE native /\ ~(~force[c] /\ TargetExists)
        BY <1>8, <2>3 DEF IInv, TypeOK, CommitChecks, Returns, Goto
    <2> QED
        BY <2>1, <2>2, <2>3
<1>9. ASSUME NEW c \in Calls, Rename(c) PROVE TypeOK'
    <2>1. Tmp(c) \in Files
        BY FileNames DEF IInv
    <2>2. TypeOK /\ Tmp(c) \in Puttable /\ Put(Tmp(c), {Tmp(c)})
        BY <1>9, <2>1 DEF IInv, Puttable, Rename
    <2>3. /\ puts' \in Seq(Puttable) /\ puts' # << >>
          /\ dir' \in [at : 1..Len(puts'), temps : SUBSET Files]
          /\ dir'.temps \subseteq dir.temps
          /\ disk \in [at : 1..Len(puts'), temps : SUBSET Files]
        BY <2>2, PutExtends
    <2> QED
        BY <1>9, <2>3 DEF IInv, TypeOK, Puttable, Rename, Goto
<1>10. ASSUME NEW c \in Calls, RenameRefused(c) PROVE TypeOK'
    <2>1. CASE UNCHANGED <<dir, data, made>>
        BY <1>10, <2>1 DEF IInv, TypeOK, RenameRefused, Goto
    <2>2. CASE made[c] < MaxFiles /\ CreatesNext(c) /\ Goto(c, "copy")
        <3>1. made[c] + 1 <= MaxFiles
            BY <2>2, FileNames DEF IInv
        <3>2. \A f \in dir'.temps : data'[f] # "none"
            BY <2>2, <3>1, CreateExtends DEF IInv, TypeOK
        <3> QED
            BY <1>10, <2>2, <3>1, <3>2, CreateExtends DEF IInv, TypeOK, RenameRefused, Goto
    <2> QED
        BY <1>10, <2>1, <2>2 DEF RenameRefused
<1>11. ASSUME NEW c \in Calls, CopyContent(c) PROVE TypeOK'
    BY <1>11, FileNames DEF IInv, TypeOK, Progress, Ready, Copying, CopyContent, Becomes, Goto
<1>12. ASSUME NEW c \in Calls, SyncCopy(c) PROVE TypeOK'
    BY <1>12, FileNames DEF IInv, TypeOK, Progress, Ready, Copying, SyncCopy, Becomes, Goto
<1>13. ASSUME NEW c \in Calls, RenameCopy(c) PROVE TypeOK'
    <2>1. Copy(c) \in Files
        BY <1>13, FileNames DEF IInv, Progress, Ready, Copying, RenameCopy
    <2>2. TypeOK /\ Copy(c) \in Puttable /\ Put(Copy(c), {Copy(c)})
        BY <1>13, <2>1 DEF IInv, Puttable, RenameCopy
    <2>3. /\ puts' \in Seq(Puttable) /\ puts' # << >>
          /\ dir' \in [at : 1..Len(puts'), temps : SUBSET Files]
          /\ dir'.temps \subseteq dir.temps
          /\ disk \in [at : 1..Len(puts'), temps : SUBSET Files]
        BY <2>2, PutExtends
    <2> QED
        BY <1>13, <2>3 DEF IInv, TypeOK, Puttable, RenameCopy, Goto
<1>14. ASSUME NEW c \in Calls, CopyFails(c) PROVE TypeOK'
    BY <1>14 DEF IInv, TypeOK, Progress, Ready, Copying, CopyFails, Removes, Goto
<1>15. ASSUME NEW c \in Calls, RemoveTmp(c) PROVE TypeOK'
    BY <1>15 DEF IInv, TypeOK, Progress, Ready, Copying, RemoveTmp, Removes, Goto
<1>16. ASSUME NEW c \in Calls, RemoveTmpFails(c) PROVE TypeOK'
    BY <1>16 DEF IInv, TypeOK, Progress, Ready, Copying, RemoveTmpFails, Goto
<1>17. ASSUME NEW c \in Calls, SyncDir(c) PROVE TypeOK'
    BY <1>17 DEF IInv, TypeOK, Progress, Ready, Copying, SyncDir, Returns, Goto
<1>18. ASSUME NEW c \in Calls, DecideCommit(c) PROVE TypeOK'
    BY <1>18 DEF IInv, TypeOK, Progress, Ready, Copying, DecideCommit, Goto
<1>19. ASSUME NEW c \in Calls, DecideDiscard(c) PROVE TypeOK'
    BY <1>19 DEF IInv, TypeOK, Progress, Ready, Copying, DecideDiscard, Removes, Returns, Goto
<1>20. ASSUME NEW c \in Calls, CleanupTemp(c) PROVE TypeOK'
    BY <1>20 DEF IInv, TypeOK, Progress, Ready, Copying, CleanupTemp, Removes
<1>21. CASE OtherProgram
    <2>1. PICK what \in {Foreign, Nothing} : Put(what, {})
        BY <1>21 DEF OtherProgram
    <2>2. /\ puts' \in Seq(Puttable) /\ puts' # << >>
          /\ dir' \in [at : 1..Len(puts'), temps : SUBSET Files]
          /\ dir'.temps \subseteq dir.temps
          /\ disk \in [at : 1..Len(puts'), temps : SUBSET Files]
        BY <2>1, PutExtends DEF IInv, Puttable
    <2>3. othersLeft' \in 0..MaxOthers
        <3>1. othersLeft \in 0..MaxOthers /\ othersLeft > 0 /\ othersLeft' = othersLeft - 1
            BY <1>21 DEF IInv, TypeOK, OtherProgram
        <3> QED
            BY <3>1
    <2> QED
        BY <1>21, <2>2, <2>3 DEF IInv, TypeOK, Puttable, OtherProgram
<1>22. CASE Writeback
    BY <1>22 DEF IInv, TypeOK, Writeback
<1>23. CASE Crash
    <2>1. data' \in [Files -> Contents]
        BY <1>23 DEF IInv, TypeOK, Crash
    <2>2. \A f \in dir'.temps : data'[f] # "none"
        BY <1>23 DEF IInv, TypeOK, Order, Crash
    <2>3. pc' \in [Calls -> Places]
        BY <1>23 DEF IInv, TypeOK, Crash
    <2>4. crashesLeft' \in 0..MaxCrashes
        <3>1. crashesLeft \in 0..MaxCrashes /\ crashesLeft > 0 /\ crashesLeft' = crashesLeft - 1
            BY <1>23 DEF IInv, TypeOK, Crash
        <3> QED
            BY <3>1
    <2> QED
        BY <1>23, <2>1, <2>2, <2>3, <2>4 DEF IInv, TypeOK, Crash
<1> QED
    BY <1>0, <1>1, <1>2, <1>3, <1>4, <1>5, <1>6, <1>7, <1>8, <1>9, <1>10, <1>11, <1>12, <1>13,
       <1>14, <1>15, <1>16, <1>17, <1>18, <1>19, <1>20, <1>21, <1>22, <1>23
       DEF Next, Deferred, Commit

\* Every step takes a call to a place where its files are as they should be there.
LEMMA ProgressStep ==
    ASSUME IInv, [Next]_vars
    PROVE  (\A c \in Calls : Progress(c))'
<1> SUFFICES ASSUME NEW d \in Calls PROVE Progress(d)'
    OBVIOUS
<1> USE DEF Tmp, Copy, Places, fsVars, boundVars
<1>0. CASE UNCHANGED vars
    BY <1>0 DEF IInv, TypeOK, Progress, Ready, Copying, vars
<1>1. ASSUME NEW c \in Calls, WriteTarget(c) PROVE Progress(d)'
    BY <1>1, FileNames DEF IInv, TypeOK, Progress, Ready, Copying, WriteTarget, Returns, Goto
<1>2. ASSUME NEW c \in Calls, OpenTemp(c) PROVE Progress(d)'
    BY <1>2, FileNames DEF IInv, TypeOK, Progress, Ready, Copying, OpenTemp, CreatesNext, Goto
<1>3. ASSUME NEW c \in Calls, OpenTempFails(c) PROVE Progress(d)'
    BY <1>3, FileNames DEF IInv, TypeOK, Progress, Ready, Copying, OpenTempFails, Returns, Goto
<1>4. ASSUME NEW c \in Calls, Produce(c) PROVE Progress(d)'
    BY <1>4, FileNames DEF IInv, TypeOK, Progress, Ready, Copying, Produce, Becomes, Goto
<1>5. ASSUME NEW c \in Calls, SyncTemp(c) PROVE Progress(d)'
    BY <1>5, FileNames DEF IInv, TypeOK, Progress, Ready, Copying, SyncTemp, Becomes, Goto
<1>6. ASSUME NEW c \in Calls, ProduceFails(c) PROVE Progress(d)'
    BY <1>6, FileNames DEF IInv, TypeOK, Progress, Ready, Copying, ProduceFails, Goto
<1>7. ASSUME NEW c \in Calls, Cleanup(c) PROVE Progress(d)'
    BY <1>7, FileNames
       DEF IInv, TypeOK, Progress, Ready, Copying, Cleanup, Returns, Goto, Removes
<1>8. ASSUME NEW c \in Calls, CommitChecks(c) PROVE Progress(d)'
    <2>1. UNCHANGED <<data, made>>
        BY <1>8 DEF CommitChecks
    <2>2. pc' = [pc EXCEPT ![c] = pc'[c]] /\ pc[c] = "commit"
          /\ pc'[c] \in {"returned", "pending", "rename"}
        BY <1>8 DEF IInv, TypeOK, CommitChecks, Returns, Goto
    <2> QED
        BY <2>1, <2>2 DEF IInv, TypeOK, Progress, Ready, Copying
<1>9. ASSUME NEW c \in Calls, Rename(c) PROVE Progress(d)'
    BY <1>9, FileNames DEF IInv, TypeOK, Progress, Ready, Copying, Rename, Put, Goto
<1>10. ASSUME NEW c \in Calls, RenameRefused(c) PROVE Progress(d)'
    <2>1. CASE Goto(c, "commitFailed") /\ UNCHANGED <<dir, data, made>>
        BY <1>10, <2>1 DEF IInv, TypeOK, Progress, Ready, Copying, RenameRefused, Goto
    <2>2. CASE made[c] < MaxFiles /\ CreatesNext(c) /\ Goto(c, "copy")
        <3>0. made[c] \in 0..MaxFiles /\ made[c] < MaxFiles /\ made[c] >= 1 /\ pc[c] = "rename"
            BY <1>10, <2>2, FileNames DEF IInv, Progress, Ready, RenameRefused
        <3>1. made[c] + 1 <= MaxFiles /\ made[c] >= 1
            BY <3>0
        <3>2. /\ made' = [made EXCEPT ![c] = made[c] + 1] /\ made[c] \in Nat
              /\ data' = [data EXCEPT ![<<c, made[c] + 1>>] = "partial"]
            BY <2>2, <3>1, CreateExtends DEF IInv
        <3>3. data'[Tmp(d)] = data[Tmp(d)] /\ (d # c => data'[Copy(d)] = data[Copy(d)])
            BY <3>1, <3>2 DEF IInv, TypeOK
        <3>4. pc' = [pc EXCEPT ![c] = "copy"]
            BY <2>2 DEF Goto
        <3>5. CASE d = c
            <4>1. data[Tmp(c)] = "safe"
                BY <3>0 DEF IInv, Progress, Ready
            <4>2. pc'[c] = "copy" /\ made'[c] = made[c] + 1
                BY <3>2, <3>4 DEF IInv, TypeOK
            <4>3. made'[c] >= 2 /\ made'[c] >= 1
                BY <3>0, <4>2
            <4> QED
                BY <3>3, <3>5, <4>1, <4>2, <4>3 DEF Progress, Ready, Copying
        <3>6. CASE d # c
            BY <3>2, <3>3, <3>4, <3>6 DEF IInv, TypeOK, Progress, Ready, Copying
        <3> QED
            BY <3>5, <3>6
    <2> QED
        BY <1>10, <2>1, <2>2 DEF RenameRefused
<1>11. ASSUME NEW c \in Calls, CopyContent(c) PROVE Progress(d)'
    BY <1>11, FileNames DEF IInv, TypeOK, Progress, Ready, Copying, CopyContent, Becomes, Goto
<1>12. ASSUME NEW c \in Calls, SyncCopy(c) PROVE Progress(d)'
    BY <1>12, FileNames DEF IInv, TypeOK, Progress, Ready, Copying, SyncCopy, Becomes, Goto
<1>13. ASSUME NEW c \in Calls, RenameCopy(c) PROVE Progress(d)'
    BY <1>13, FileNames DEF IInv, TypeOK, Progress, Ready, Copying, RenameCopy, Put, Goto
<1>14. ASSUME NEW c \in Calls, CopyFails(c) PROVE Progress(d)'
    BY <1>14, FileNames DEF IInv, TypeOK, Progress, Ready, Copying, CopyFails, Removes, Goto
<1>15. ASSUME NEW c \in Calls, RemoveTmp(c) PROVE Progress(d)'
    BY <1>15, FileNames DEF IInv, TypeOK, Progress, Ready, Copying, RemoveTmp, Removes, Goto
<1>16. ASSUME NEW c \in Calls, RemoveTmpFails(c) PROVE Progress(d)'
    BY <1>16, FileNames DEF IInv, TypeOK, Progress, Ready, Copying, RemoveTmpFails, Goto
<1>17. ASSUME NEW c \in Calls, SyncDir(c) PROVE Progress(d)'
    BY <1>17, FileNames DEF IInv, TypeOK, Progress, Ready, Copying, SyncDir, Returns, Goto
<1>18. ASSUME NEW c \in Calls, DecideCommit(c) PROVE Progress(d)'
    BY <1>18, FileNames DEF IInv, TypeOK, Progress, Ready, Copying, DecideCommit, Goto
<1>19. ASSUME NEW c \in Calls, DecideDiscard(c) PROVE Progress(d)'
    BY <1>19, FileNames
       DEF IInv, TypeOK, Progress, Ready, Copying, DecideDiscard, Removes, Returns, Goto
<1>20. ASSUME NEW c \in Calls, CleanupTemp(c) PROVE Progress(d)'
    BY <1>20, FileNames DEF IInv, TypeOK, Progress, Ready, Copying, CleanupTemp, Removes
<1>21. CASE OtherProgram
    BY <1>21 DEF IInv, TypeOK, Progress, Ready, Copying, OtherProgram, Put
<1>22. CASE Writeback
    BY <1>22 DEF IInv, TypeOK, Progress, Ready, Copying, Writeback
<1>23. CASE Crash
    BY <1>23, FileNames DEF IInv, TypeOK, Progress, Ready, Copying, Crash
<1> QED
    BY <1>0, <1>1, <1>2, <1>3, <1>4, <1>5, <1>6, <1>7, <1>8, <1>9, <1>10, <1>11, <1>12, <1>13,
       <1>14, <1>15, <1>16, <1>17, <1>18, <1>19, <1>20, <1>21, <1>22, <1>23
       DEF Next, Deferred, Commit

\* The disk stays behind the directory.
LEMMA OrderStep ==
    ASSUME IInv, [Next]_vars
    PROVE  Order'
<1> USE DEF fsVars, boundVars
<1>0. CASE UNCHANGED vars
    BY <1>0 DEF IInv, TypeOK, Order, vars
<1>1. ASSUME NEW c \in Calls, WriteTarget(c) PROVE Order'
    BY <1>1, FileNames DEF IInv, TypeOK, Order, WriteTarget, Returns, Goto
<1>2. ASSUME NEW c \in Calls, OpenTemp(c) PROVE Order'
    BY <1>2, FileNames DEF IInv, TypeOK, Order, OpenTemp, CreatesNext, Goto
<1>3. ASSUME NEW c \in Calls, OpenTempFails(c) PROVE Order'
    BY <1>3, FileNames DEF IInv, TypeOK, Order, OpenTempFails, Returns, Goto
<1>4. ASSUME NEW c \in Calls, Produce(c) PROVE Order'
    BY <1>4, FileNames DEF IInv, TypeOK, Order, Produce, Becomes, Goto
<1>5. ASSUME NEW c \in Calls, SyncTemp(c) PROVE Order'
    BY <1>5, FileNames DEF IInv, TypeOK, Order, SyncTemp, Becomes, Goto
<1>6. ASSUME NEW c \in Calls, ProduceFails(c) PROVE Order'
    BY <1>6, FileNames DEF IInv, TypeOK, Order, ProduceFails, Goto
<1>7. ASSUME NEW c \in Calls, Cleanup(c) PROVE Order'
    BY <1>7, FileNames DEF IInv, TypeOK, Order, Cleanup, Returns, Goto, Removes
<1>8. ASSUME NEW c \in Calls, CommitChecks(c) PROVE Order'
    BY <1>8, FileNames DEF IInv, TypeOK, Order, CommitChecks, Returns, Goto
<1>9. ASSUME NEW c \in Calls, Rename(c) PROVE Order'
    BY <1>9, FileNames DEF IInv, TypeOK, Order, Rename, Put, Goto
<1>10. ASSUME NEW c \in Calls, RenameRefused(c) PROVE Order'
    BY <1>10, FileNames DEF IInv, TypeOK, Order, RenameRefused, CreatesNext, Goto
<1>11. ASSUME NEW c \in Calls, CopyContent(c) PROVE Order'
    BY <1>11, FileNames DEF IInv, TypeOK, Order, CopyContent, Becomes, Goto
<1>12. ASSUME NEW c \in Calls, SyncCopy(c) PROVE Order'
    BY <1>12, FileNames DEF IInv, TypeOK, Order, SyncCopy, Becomes, Goto
<1>13. ASSUME NEW c \in Calls, RenameCopy(c) PROVE Order'
    BY <1>13, FileNames DEF IInv, TypeOK, Order, RenameCopy, Put, Goto
<1>14. ASSUME NEW c \in Calls, CopyFails(c) PROVE Order'
    BY <1>14, FileNames DEF IInv, TypeOK, Order, CopyFails, Removes, Goto
<1>15. ASSUME NEW c \in Calls, RemoveTmp(c) PROVE Order'
    BY <1>15, FileNames DEF IInv, TypeOK, Order, RemoveTmp, Removes, Goto
<1>16. ASSUME NEW c \in Calls, RemoveTmpFails(c) PROVE Order'
    BY <1>16, FileNames DEF IInv, TypeOK, Order, RemoveTmpFails, Goto
<1>17. ASSUME NEW c \in Calls, SyncDir(c) PROVE Order'
    BY <1>17, FileNames DEF IInv, TypeOK, Order, SyncDir, Returns, Goto
<1>18. ASSUME NEW c \in Calls, DecideCommit(c) PROVE Order'
    BY <1>18, FileNames DEF IInv, TypeOK, Order, DecideCommit, Goto
<1>19. ASSUME NEW c \in Calls, DecideDiscard(c) PROVE Order'
    BY <1>19, FileNames DEF IInv, TypeOK, Order, DecideDiscard, Removes, Returns, Goto
<1>20. ASSUME NEW c \in Calls, CleanupTemp(c) PROVE Order'
    BY <1>20, FileNames DEF IInv, TypeOK, Order, CleanupTemp, Removes
<1>21. CASE OtherProgram
    BY <1>21 DEF IInv, TypeOK, Order, OtherProgram, Put
<1>22. CASE Writeback
    BY <1>22 DEF IInv, TypeOK, Order, Writeback
<1>23. CASE Crash
    BY <1>23, FileNames DEF IInv, TypeOK, Order, Crash
<1> QED
    BY <1>0, <1>1, <1>2, <1>3, <1>4, <1>5, <1>6, <1>7, <1>8, <1>9, <1>10, <1>11, <1>12, <1>13,
       <1>14, <1>15, <1>16, <1>17, <1>18, <1>19, <1>20, <1>21, <1>22, <1>23
       DEF Next, Deferred, Commit

\* A call that moves on without creating or touching a file leaves f in the past.
LEMMA MovedOnPast ==
    ASSUME TypeOK, NEW f \in Files, Past(f), UNCHANGED <<data, made>>,
           NEW c \in Calls, NEW place, Goto(c, place),
           f[1] = c => place \notin Unwritten \cup Copying
    PROVE  Past(f)'
<1>1. pc'[f[1]] = IF f[1] = c THEN place ELSE pc[f[1]]
    BY DEF Goto, TypeOK, Files
<1> QED
    BY <1>1 DEF Past

\* What was once put at the target stays synced and created.
LEMMA PastStep ==
    ASSUME IInv, [Next]_vars, NEW f \in Files, Past(f)
    PROVE  Past(f)'
<1> USE DEF Tmp, Copy, Places, Files, fsVars, boundVars
<1>0. CASE UNCHANGED vars
    BY <1>0 DEF Past, vars
<1>1. ASSUME NEW c \in Calls, WriteTarget(c) PROVE Past(f)'
    BY <1>1, FileNames
       DEF IInv, TypeOK, History, Past, Progress, Unwritten, Ready, Copying, WriteTarget,
           Returns, Goto
<1>2. ASSUME NEW c \in Calls, OpenTemp(c) PROVE Past(f)'
    BY <1>2, FileNames
       DEF IInv, TypeOK, History, Past, Progress, Unwritten, Ready, Copying, OpenTemp,
           CreatesNext, Goto
<1>3. ASSUME NEW c \in Calls, OpenTempFails(c) PROVE Past(f)'
    <2>1. UNCHANGED <<data, made>> /\ Goto(c, "returned")
        BY <1>3 DEF OpenTempFails, Returns
    <2> QED
        BY <2>1, MovedOnPast DEF IInv, Unwritten, Copying
<1>4. ASSUME NEW c \in Calls, Produce(c) PROVE Past(f)'
    BY <1>4, FileNames
       DEF IInv, TypeOK, History, Past, Progress, Unwritten, Ready, Copying, Produce, Becomes,
           Goto
<1>5. ASSUME NEW c \in Calls, SyncTemp(c) PROVE Past(f)'
    BY <1>5, FileNames
       DEF IInv, TypeOK, History, Past, Progress, Unwritten, Ready, Copying, SyncTemp, Becomes,
           Goto
<1>6. ASSUME NEW c \in Calls, ProduceFails(c) PROVE Past(f)'
    <2>1. UNCHANGED <<data, made>> /\ Goto(c, "cleanup") /\ f[1] # c
        BY <1>6 DEF ProduceFails, Past, Unwritten
    <2> QED
        BY <2>1, MovedOnPast DEF IInv
<1>7. ASSUME NEW c \in Calls, Cleanup(c) PROVE Past(f)'
    <2>1. UNCHANGED <<data, made>> /\ (Goto(c, "pending") \/ Goto(c, "returned"))
        BY <1>7 DEF Cleanup, Returns
    <2> QED
        BY <2>1, MovedOnPast DEF IInv, Unwritten, Copying
<1>8. ASSUME NEW c \in Calls, CommitChecks(c) PROVE Past(f)'
    <2>1. UNCHANGED <<data, made>>
        BY <1>8 DEF CommitChecks
    <2>2. pc' = [pc EXCEPT ![c] = pc'[c]] /\ pc'[c] \in {"returned", "pending", "rename"}
        BY <1>8 DEF IInv, TypeOK, CommitChecks, Returns, Goto
    <2> QED
        BY <2>1, <2>2 DEF IInv, TypeOK, Past, Unwritten, Copying
<1>9. ASSUME NEW c \in Calls, Rename(c) PROVE Past(f)'
    <2>1. UNCHANGED <<data, made>> /\ Goto(c, "syncDir")
        BY <1>9 DEF Rename
    <2> QED
        BY <2>1, MovedOnPast DEF IInv, Unwritten, Copying
<1>10. ASSUME NEW c \in Calls, RenameRefused(c) PROVE Past(f)'
    <2>1. CASE Goto(c, "commitFailed") /\ UNCHANGED <<data, made>>
        BY <2>1, MovedOnPast DEF IInv, Unwritten, Copying
    <2>2. CASE CreatesNext(c) /\ Goto(c, "copy")
        <3>1. made[c] \in Nat /\ f[2] \in Nat /\ f[1] \in Calls /\ f[2] <= made[f[1]]
            BY FileNames DEF IInv, TypeOK, Past
        <3>2. /\ made'[c] = made[c] + 1 /\ (f[1] # c => made'[f[1]] = made[f[1]])
              /\ pc'[c] = "copy" /\ (f[1] # c => pc'[f[1]] = pc[f[1]])
            BY <2>2, <3>1 DEF IInv, TypeOK, CreatesNext, Goto
        <3>3. f # <<c, made'[c]>>
            BY <3>1, <3>2
        <3>4. data'[f] = data[f]
            BY <2>2, <3>3 DEF IInv, TypeOK, CreatesNext
        <3> QED
            BY <3>1, <3>2, <3>4 DEF Past, Unwritten, Copying
    <2> QED
        BY <1>10, <2>1, <2>2 DEF RenameRefused
<1>11. ASSUME NEW c \in Calls, CopyContent(c) PROVE Past(f)'
    BY <1>11, FileNames
       DEF IInv, TypeOK, History, Past, Progress, Unwritten, Ready, Copying, CopyContent,
           Becomes, Goto
<1>12. ASSUME NEW c \in Calls, SyncCopy(c) PROVE Past(f)'
    BY <1>12, FileNames
       DEF IInv, TypeOK, History, Past, Progress, Unwritten, Ready, Copying, SyncCopy, Becomes,
           Goto
<1>13. ASSUME NEW c \in Calls, RenameCopy(c) PROVE Past(f)'
    <2>1. UNCHANGED <<data, made>> /\ Goto(c, "removeTmp")
        BY <1>13 DEF RenameCopy
    <2> QED
        BY <2>1, MovedOnPast DEF IInv, Unwritten, Copying
<1>14. ASSUME NEW c \in Calls, CopyFails(c) PROVE Past(f)'
    <2>1. UNCHANGED <<data, made>> /\ Goto(c, "commitFailed")
        BY <1>14 DEF CopyFails
    <2> QED
        BY <2>1, MovedOnPast DEF IInv, Unwritten, Copying
<1>15. ASSUME NEW c \in Calls, RemoveTmp(c) PROVE Past(f)'
    <2>1. UNCHANGED <<data, made>> /\ Goto(c, "syncDir")
        BY <1>15 DEF RemoveTmp
    <2> QED
        BY <2>1, MovedOnPast DEF IInv, Unwritten, Copying
<1>16. ASSUME NEW c \in Calls, RemoveTmpFails(c) PROVE Past(f)'
    <2>1. UNCHANGED <<data, made>> /\ Goto(c, "commitFailed")
        BY <1>16 DEF RemoveTmpFails
    <2> QED
        BY <2>1, MovedOnPast DEF IInv, Unwritten, Copying
<1>17. ASSUME NEW c \in Calls, SyncDir(c) PROVE Past(f)'
    <2>1. UNCHANGED <<data, made>> /\ Goto(c, "returned")
        BY <1>17 DEF SyncDir, Returns
    <2> QED
        BY <2>1, MovedOnPast DEF IInv, Unwritten, Copying
<1>18. ASSUME NEW c \in Calls, DecideCommit(c) PROVE Past(f)'
    <2>1. UNCHANGED <<data, made>> /\ Goto(c, "commit")
        BY <1>18 DEF DecideCommit
    <2> QED
        BY <2>1, MovedOnPast DEF IInv, Unwritten, Copying
<1>19. ASSUME NEW c \in Calls, DecideDiscard(c) PROVE Past(f)'
    <2>1. UNCHANGED <<data, made>> /\ Goto(c, "returned")
        BY <1>19 DEF DecideDiscard, Returns
    <2> QED
        BY <2>1, MovedOnPast DEF IInv, Unwritten, Copying
<1>20. ASSUME NEW c \in Calls, CleanupTemp(c) PROVE Past(f)'
    BY <1>20 DEF Past, CleanupTemp
<1>21. CASE OtherProgram
    BY <1>21
       DEF IInv, TypeOK, History, Past, Progress, Unwritten, Ready, Copying, OtherProgram, Put
<1>22. CASE Writeback
    BY <1>22 DEF IInv, TypeOK, History, Past, Progress, Unwritten, Ready, Copying, Writeback
<1>23. CASE Crash
    BY <1>23, FileNames
       DEF IInv, TypeOK, History, Past, Progress, Unwritten, Ready, Copying, Crash
<1> QED
    BY <1>0, <1>1, <1>2, <1>3, <1>4, <1>5, <1>6, <1>7, <1>8, <1>9, <1>10, <1>11, <1>12, <1>13,
       <1>14, <1>15, <1>16, <1>17, <1>18, <1>19, <1>20, <1>21, <1>22, <1>23
       DEF Next, Deferred, Commit

\* Other programs' entries are not files of calls.
LEMMA OthersAreNoFiles == Foreign \notin Files /\ Nothing \notin Files
<1>1. \A f \in Files : f[2] # 0
    BY DEF Files
<1>2. Foreign[2] = 0 /\ Nothing[2] = 0
    BY DEF Foreign, Nothing
<1> QED
    BY <1>1, <1>2

\* A step that puts f, which is in the past afterwards, keeps the history.
LEMMA PutKeepsHistory ==
    ASSUME IInv, [Next]_vars, NEW f \in Puttable, NEW gone, Put(f, gone),
           f \in Files => Past(f)'
    PROVE  History'
<1>1. /\ Len(puts) \in Nat /\ Len(puts') = Len(puts) + 1 /\ puts'[Len(puts) + 1] = f
      /\ \A i \in 1..Len(puts) : puts'[i] = puts[i]
    BY PutExtends DEF IInv
<1>2. ASSUME NEW i \in 1..Len(puts'), NEW g \in Files, puts'[i] = g PROVE Past(g)'
    <2>1. CASE i = Len(puts) + 1
        BY <1>1, <1>2, <2>1
    <2>2. CASE i \in 1..Len(puts)
        BY <1>1, <1>2, <2>2, PastStep DEF IInv, History
    <2> QED
        BY <1>1, <2>1, <2>2
<1> QED
    BY <1>2 DEF History, Past

\* Only such files are added to the history of the target.
LEMMA HistoryStep ==
    ASSUME IInv, [Next]_vars
    PROVE  History'
<1>1. CASE UNCHANGED puts
    <2>1. ASSUME NEW i \in 1..Len(puts), puts[i] \in Files PROVE Past(puts[i])'
        <3>1. Past(puts[i])
            BY <2>1 DEF IInv, History
        <3> QED
            BY <2>1, <3>1, <1>1, PastStep DEF Past
    <2> QED
        BY <1>1, <2>1 DEF History, Past
<1>2. ASSUME NEW c \in Calls, Rename(c) PROVE History'
    <2>1. Tmp(c) \in Puttable /\ Put(Tmp(c), {Tmp(c)})
        BY <1>2, FileNames DEF IInv, Puttable, Rename
    <2>2. Past(Tmp(c))'
        BY <1>2, FileNames
           DEF IInv, TypeOK, Progress, Ready, Past, Unwritten, Copying, Rename, Goto, Tmp
    <2> QED
        BY <2>1, <2>2, PutKeepsHistory
<1>3. ASSUME NEW c \in Calls, RenameCopy(c) PROVE History'
    <2>0. PICK f : f = Copy(c)
        OBVIOUS
    <2>1. f \in Puttable /\ Put(f, {f})
        BY <1>3, <2>0, FileNames DEF IInv, Progress, Copying, Ready, Puttable, RenameCopy
    <2>2. Past(f)'
        BY <1>3, <2>0, FileNames
           DEF IInv, TypeOK, Progress, Ready, Past, Unwritten, Copying, RenameCopy, Goto, Copy
    <2> QED
        BY <2>1, <2>2, PutKeepsHistory
<1>4. CASE OtherProgram
    <2>1. PICK what \in {Foreign, Nothing} : Put(what, {})
        BY <1>4 DEF OtherProgram
    <2> QED
        BY <2>1, PutKeepsHistory, OthersAreNoFiles DEF Puttable
<1>5. UNCHANGED puts \/ (\E c \in Calls : Rename(c) \/ RenameCopy(c)) \/ OtherProgram
    BY DEF Next, Deferred, Commit, vars, fsVars, WriteTarget, OpenTemp, OpenTempFails, Produce,
           SyncTemp, ProduceFails, Cleanup, CommitChecks, RenameRefused, CopyContent, SyncCopy,
           CopyFails, RemoveTmp, RemoveTmpFails, SyncDir, DecideCommit, DecideDiscard,
           CleanupTemp, Writeback, Crash
<1> QED
    BY <1>1, <1>2, <1>3, <1>4, <1>5

-----------------------------------------------------------------------------
\* At the start no call has a file.
LEMMA Start == Init => IInv
<1> SUFFICES ASSUME Init PROVE IInv
    OBVIOUS
<1>1. TypeOK
    BY DEF Init, TypeOK, Places, Outcomes, Contents
<1>2. Order
    BY DEF Init, Order
<1>3. History
    BY OthersAreNoFiles DEF Init, History
<1>4. \A c \in Calls : Progress(c)
    BY DEF Init, Progress, Ready, Copying
<1> QED
    BY <1>1, <1>2, <1>3, <1>4 DEF IInv

\* Progress, History and Order hold for any number of calls, other writers and crashes.
THEOREM Invariance == Spec => []IInv
<1>1. IInv /\ [Next]_vars => IInv'
    BY TypeStep, OrderStep, HistoryStep, ProgressStep DEF IInv
<1> QED
    BY Start, <1>1, PTL DEF Spec

\* Every variable of the write path keeps its shape.
THEOREM TypeCorrect == Spec => []TypeOK
<1>1. IInv => TypeOK
    BY DEF IInv
<1> QED
    BY Invariance, <1>1, PTL

\* WriteFileStream and replaceFile never let a reader find a part of a call's output
\* at the target path, whatever fails and whenever the machine crashes.
THEOREM WritesAreAtomic == Spec => []TargetWhole
<1>1. IInv => TargetWhole
    <2> SUFFICES ASSUME IInv, NEW at \in {dir.at, disk.at}, puts[at] \in Files
                 PROVE  data[puts[at]] \in {"whole", "safe"}
        BY DEF TargetWhole
    <2>1. at \in 1..Len(puts)
        BY DEF IInv, TypeOK
    <2> QED
        BY <2>1 DEF IInv, History, Past
<1> QED
    BY Invariance, <1>1, PTL

-----------------------------------------------------------------------------
\* A call's put is at the target, or something put after it.
Reached(c) == \E i \in PutsOf(c) : i <= dir.at

Committed == \A c \in Calls : pc[c] \in {"removeTmp", "syncDir"} => Reached(c)

\* The history only grows, and the directory on disk only moves forward in it.
LEMMA MovesForward ==
    ASSUME IInv, [Next]_vars, NEW c \in Calls
    PROVE  /\ PutsOf(c) \subseteq PutsOf(c)'
           /\ disk'.at >= disk.at
           /\ dir'.at >= dir.at \/ Crash
<1>1. ASSUME NEW what \in Puttable, NEW gone, Put(what, gone), UNCHANGED disk
      PROVE  /\ PutsOf(c) \subseteq PutsOf(c)'
             /\ disk'.at >= disk.at
             /\ dir'.at >= dir.at
    <2>1. /\ Len(puts) \in Nat /\ Len(puts') = Len(puts) + 1
          /\ \A i \in 1..Len(puts) : puts'[i] = puts[i]
          /\ dir'.at = Len(puts) + 1
        BY <1>1, PutExtends DEF IInv
    <2>2. dir.at \in 1..Len(puts) /\ disk.at \in 1..Len(puts)
        BY DEF IInv, TypeOK
    <2>3. \A i \in 1..Len(puts) : i \in 1..Len(puts') /\ puts'[i] = puts[i]
        BY <2>1
    <2>4. FilesOf(c)' = FilesOf(c)
        BY DEF FilesOf
    <2>5. PutsOf(c) \subseteq PutsOf(c)'
        BY <2>3, <2>4 DEF PutsOf
    <2> QED
        BY <1>1, <2>1, <2>2, <2>5
<1>2. CASE UNCHANGED puts /\ (UNCHANGED <<disk, dir>> \/ (UNCHANGED disk /\ dir'.at = dir.at)
                             \/ (disk' = dir /\ UNCHANGED dir) \/ (Crash /\ UNCHANGED disk))
    <2>1. PutsOf(c)' = PutsOf(c)
        BY <1>2 DEF PutsOf, FilesOf
    <2>2. disk.at <= dir.at /\ disk.at \in Nat /\ dir.at \in Nat
        BY DEF IInv, Order, TypeOK
    <2> QED
        BY <1>2, <2>1, <2>2
<1>3. ASSUME NEW d \in Calls, Rename(d) \/ RenameCopy(d)
      PROVE  \E what \in Puttable, gone \in SUBSET Files : Put(what, gone) /\ UNCHANGED disk
    BY <1>3, FileNames DEF IInv, Progress, Copying, Ready, Puttable, Rename, RenameCopy
<1>4. CASE OtherProgram
    <2>1. PICK what \in {Foreign, Nothing} : Put(what, {}) /\ UNCHANGED disk
        BY <1>4 DEF OtherProgram
    <2> QED
        BY <1>1, <2>1 DEF Puttable
<1>5. \A f : Removes(f) => dir'.at = dir.at
    BY DEF Removes, IInv, TypeOK
<1>6. \A d \in Calls : CreatesNext(d) => dir'.at = dir.at
    BY DEF CreatesNext, IInv, TypeOK
<1>7. \/ UNCHANGED puts /\ (UNCHANGED <<disk, dir>> \/ (UNCHANGED disk /\ dir'.at = dir.at)
                             \/ (disk' = dir /\ UNCHANGED dir) \/ (Crash /\ UNCHANGED disk))
      \/ \E d \in Calls : Rename(d) \/ RenameCopy(d)
      \/ OtherProgram
    BY <1>5, <1>6
       DEF Next, Deferred, Commit, vars, fsVars, WriteTarget, OpenTemp, OpenTempFails, Produce,
           SyncTemp, ProduceFails, Cleanup, CommitChecks, RenameRefused, CopyContent, SyncCopy,
           CopyFails, RemoveTmp, RemoveTmpFails, SyncDir, DecideCommit, DecideDiscard,
           CleanupTemp, Writeback, Crash
<1>8. CASE \E d \in Calls : Rename(d) \/ RenameCopy(d)
    BY <1>1, <1>3, <1>8
<1> QED
    BY <1>2, <1>4, <1>7, <1>8

\* A call that is past its rename has reached the target, or was put there before something else was.
LEMMA CommittedStep ==
    ASSUME IInv, Committed, [Next]_vars
    PROVE  Committed'
<1> SUFFICES ASSUME NEW c \in Calls, pc'[c] \in {"removeTmp", "syncDir"} PROVE Reached(c)'
    BY DEF Committed
<1>1. CASE pc[c] \in {"removeTmp", "syncDir"}
    <2>1. ~Crash
        BY <1>1 DEF Crash, IInv, TypeOK
    <2>2. PICK i \in PutsOf(c) : i <= dir.at
        BY <1>1 DEF Committed, Reached
    <2>3. i \in PutsOf(c)' /\ dir'.at >= dir.at
        BY <2>1, <2>2, MovesForward
    <2>4. i \in Nat /\ dir.at \in Nat /\ dir'.at \in Nat
        BY <2>2, TypeStep DEF PutsOf, IInv, TypeOK
    <2> QED
        BY <2>2, <2>3, <2>4 DEF Reached
<1>2. CASE pc[c] \notin {"removeTmp", "syncDir"}
    <2>1. (Rename(c) /\ Put(Tmp(c), {Tmp(c)})) \/ (RenameCopy(c) /\ Put(Copy(c), {Copy(c)}))
        <3>1. ASSUME NEW d \in Calls, Deferred(d) PROVE FALSE
            <4>1. ASSUME NEW p \in Places, Goto(d, p) PROVE p \in {"removeTmp", "syncDir"}
                BY <1>2, <4>1 DEF IInv, TypeOK, Goto
            <4> QED
                BY <3>1, <4>1
                   DEF Deferred, Places, Returns, WriteTarget, OpenTemp, OpenTempFails,
                   Produce, SyncTemp, ProduceFails, Cleanup
        <3>2. ASSUME NEW d \in Calls, Commit(d) PROVE d = c /\ (Rename(c) \/ RenameCopy(c))
            <4>1. ASSUME NEW p \in Places, Goto(d, p)
                    PROVE d = c /\ p \in {"removeTmp", "syncDir"}
                BY <1>2, <4>1 DEF IInv, TypeOK, Goto
            <4> QED
                BY <1>2, <3>2, <4>1
                   DEF Commit, Places, Returns, CommitChecks, Rename, RenameRefused,
                   CopyContent, SyncCopy, RenameCopy, CopyFails, RemoveTmp, RemoveTmpFails,
                   SyncDir
        <3>3. ASSUME NEW d \in Calls, DecideCommit(d) \/ DecideDiscard(d) \/ CleanupTemp(d)
              PROVE FALSE
            BY <1>2, <3>3
               DEF IInv, TypeOK, DecideCommit, DecideDiscard, CleanupTemp, Returns, Goto
        <3>4. CASE OtherProgram \/ Writeback \/ Crash \/ UNCHANGED vars
            BY <1>2, <3>4 DEF IInv, TypeOK, OtherProgram, Writeback, Crash, vars
        <3> QED
            BY <3>1, <3>2, <3>3, <3>4 DEF Next, Rename, RenameCopy
    <2>2. PICK f \in FilesOf(c) \cap Files, g \in SUBSET Files : Put(f, g)
        <3>1. Tmp(c) \in FilesOf(c) \cap Files
            BY FileNames DEF IInv, Tmp, FilesOf
        <3>2. RenameCopy(c) => Copy(c) \in FilesOf(c) \cap Files
            BY FileNames DEF IInv, Progress, Copying, Ready, RenameCopy, Copy, FilesOf
        <3> QED
            BY <2>1, <3>1, <3>2
    <2>3. /\ Len(puts) \in Nat /\ Len(puts') = Len(puts) + 1 /\ puts'[Len(puts) + 1] = f
          /\ dir'.at = Len(puts) + 1
        BY <2>2, PutExtends DEF IInv, Puttable
    <2>4. Len(puts) + 1 \in PutsOf(c)'
        BY <2>2, <2>3 DEF PutsOf, FilesOf
    <2> QED
        BY <2>3, <2>4 DEF Reached
<1> QED
    BY <1>1, <1>2

\* With that, a commit that is on the disk stays there over every step, a crash included.
LEMMA SurvivalStep ==
    ASSUME IInv, Committed, CommitSurvives, [Next]_vars
    PROVE  CommitSurvives'
<1> SUFFICES ASSUME NEW c \in settled' PROVE \E i \in PutsOf(c)' : i <= disk'.at
    BY DEF CommitSurvives
<1>0. c \in Calls
    BY TypeStep DEF TypeOK
<1>1. CASE c \in settled
    <2>1. PICK i \in PutsOf(c) : i <= disk.at
        BY <1>1 DEF CommitSurvives
    <2>2. i \in PutsOf(c)' /\ disk'.at >= disk.at
        BY <1>0, <2>1, MovesForward
    <2>3. i \in Nat /\ disk.at \in Nat /\ disk'.at \in Nat
        BY <2>1, TypeStep DEF PutsOf, IInv, TypeOK
    <2> QED
        BY <2>1, <2>2, <2>3
<1>2. CASE c \notin settled
    <2>1. SyncDir(c) /\ disk' = dir
        BY <1>2
           DEF Next, Deferred, Commit, vars, Rename, RenameCopy, OtherProgram, WriteTarget,
               OpenTemp, OpenTempFails, Produce,
           SyncTemp, ProduceFails, Cleanup, CommitChecks, RenameRefused, CopyContent, SyncCopy,
           CopyFails, RemoveTmp, RemoveTmpFails, SyncDir, DecideCommit, DecideDiscard,
           CleanupTemp, Writeback, Crash
    <2>2. PICK i \in PutsOf(c) : i <= dir.at
        BY <1>0, <2>1 DEF SyncDir, Committed, Reached
    <2> QED
        BY <1>0, <2>1, <2>2, MovesForward
<1> QED
    BY <1>1, <1>2

\* A commit that was synced to the directory is never undone by a crash.
THEOREM CommitsSurvive == Spec => []CommitSurvives
<1>1. Init => Committed /\ CommitSurvives
    BY DEF Init, Committed, CommitSurvives
<1>2. IInv /\ Committed /\ CommitSurvives /\ [Next]_vars => Committed' /\ CommitSurvives'
    BY CommittedStep, SurvivalStep
<1> QED
    BY <1>1, <1>2, Invariance, PTL DEF Spec

-----------------------------------------------------------------------------
(***************************************************************************)
(* What a call reports, and what it leaves beside the target.              *)
(***************************************************************************)

\* Where CommitFile or replaceFile works on the target itself.
Replacing == Copying \cup {"rename", "removeTmp", "syncDir", "commitFailed"}

\* The names of a call's files in the directory.
Here(c) == FilesOf(c) \cap dir.temps

\* What a call put at the target, by place and outcome: only a native call comes to
\* replaceFile at all, and WriteFileStream comes there once.
Reporting(c) ==
    /\ PutsOf(c) # {} => native
    /\ pc[c] \in Replacing => native
    /\ mode[c] = "stream" => pc[c] # "pending"
    /\ mode[c] = "stream" /\ pc[c] \in Copying \cup {"commit", "rename"} => PutsOf(c) = {}
    /\ outcome[c] # "none" => pc[c] \in {"returned", "crashed"}
    /\ outcome[c] = "handed over" => ~native
    /\ outcome[c] = "exists" => PutsOf(c) = {}
    /\ outcome[c] = "written" => PutsOf(c) # {}

\* What a native call may have left so far, as long as the machine is up.
Swept(c) ==
    native /\ crashesLeft = MaxCrashes =>
        /\ pc[c] # "crashed"
        /\ pc[c] \in {"idle", "open", "syncDir"} => Here(c) = {}
        /\ pc[c] \in Copying => Here(c) \subseteq {Tmp(c), Copy(c)}
        /\ pc[c] \notin Copying \cup {"returned"} => Here(c) \subseteq {Tmp(c)}
        /\ pc[c] = "returned" /\ outcome[c] # "exists" => Here(c) = {}

\* Nothing that concerns the call has changed.
LeftAlone(c) ==
    /\ UNCHANGED <<native, pc[c], mode[c], outcome[c], made[c]>>
    /\ PutsOf(c)' = PutsOf(c)
    /\ Here(c)' = Here(c)

Step(c) == Deferred(c) \/ Commit(c) \/ DecideCommit(c) \/ DecideDiscard(c) \/ CleanupTemp(c)

\* No two calls share a hidden file.
LEMMA FilesOfCalls ==
    ASSUME NEW c \in Calls
    PROVE  /\ FilesOf(c) \subseteq Files
           /\ \A d \in Calls : \A n : <<d, n>> \in FilesOf(c) => d = c
           /\ FilesOf(c)' = FilesOf(c)
BY DEF FilesOf, Files

\* Who does not put a file of the call at the target leaves the call's part of the
\* history as it is.
LEMMA PutsKept ==
    ASSUME IInv, NEW c \in Calls,
           UNCHANGED puts \/ \E what \in Puttable \ FilesOf(c) : \E gone : Put(what, gone)
    PROVE  PutsOf(c)' = PutsOf(c)
<1>1. CASE UNCHANGED puts
    BY <1>1 DEF PutsOf, FilesOf
<1>2. ASSUME NEW what \in Puttable \ FilesOf(c), NEW gone, Put(what, gone)
      PROVE  PutsOf(c)' = PutsOf(c)
    <2>1. /\ Len(puts) \in Nat /\ Len(puts') = Len(puts) + 1 /\ puts'[Len(puts) + 1] = what
          /\ \A i \in 1..Len(puts) : puts'[i] = puts[i]
        BY <1>2, PutExtends DEF IInv
    <2>2. \A i \in 1..Len(puts') : i \in 1..Len(puts) \/ i = Len(puts) + 1
        BY <2>1
    <2>3. \A i \in 1..Len(puts) : i \in 1..Len(puts')
        BY <2>1
    <2> QED
        BY <1>2, <2>1, <2>2, <2>3, FilesOfCalls DEF PutsOf
<1> QED
    BY <1>1, <1>2

\* A file a call puts there is in its part of the history.
LEMMA PutsGained ==
    ASSUME IInv, NEW c \in Calls, NEW f \in Puttable \cap FilesOf(c), NEW gone, Put(f, gone)
    PROVE  PutsOf(c)' # {}
<1>1. Len(puts) \in Nat /\ Len(puts') = Len(puts) + 1 /\ puts'[Len(puts) + 1] = f
    BY PutExtends DEF IInv
<1>2. Len(puts) + 1 \in 1..Len(puts')
    BY <1>1
<1> QED
    BY <1>1, <1>2, FilesOfCalls DEF PutsOf

\* A call's steps leave the other calls alone.
LEMMA OthersLeftAlone ==
    ASSUME IInv, NEW c \in Calls, NEW d \in Calls, Step(d), d # c
    PROVE  LeftAlone(c)
<1>1. ASSUME NEW place, Goto(d, place) PROVE pc'[c] = pc[c]
    BY <1>1 DEF Goto, IInv, TypeOK
<1>2. ASSUME NEW what, Returns(d, what) PROVE UNCHANGED <<pc[c], outcome[c]>>
    BY <1>2 DEF Returns, Goto, IInv, TypeOK
<1>3. ASSUME NEW n \in Nat, Removes(<<d, n>>) PROVE Here(c)' = Here(c)
    <2>1. dir'.temps = dir.temps \ {<<d, n>>}
        BY <1>3 DEF Removes, IInv, TypeOK
    <2> QED
        BY <2>1, FilesOfCalls DEF Here
<1>4. ASSUME CreatesNext(d), made[d] + 1 <= MaxFiles
      PROVE  Here(c)' = Here(c) /\ UNCHANGED made[c]
    <2>1. /\ dir'.temps = dir.temps \cup {<<d, made[d] + 1>>}
          /\ made' = [made EXCEPT ![d] = made[d] + 1]
        BY <1>4, CreateExtends DEF IInv
    <2>2. UNCHANGED made[c]
        BY <2>1 DEF IInv, TypeOK
    <2> QED
        BY <2>1, <2>2, FilesOfCalls DEF Here
<1>5. ASSUME NEW n \in Nat, <<d, n>> \in Files, Put(<<d, n>>, {<<d, n>>})
      PROVE  Here(c)' = Here(c) /\ PutsOf(c)' = PutsOf(c)
    <2>1. <<d, n>> \in Puttable \ FilesOf(c)
        BY <1>5, FilesOfCalls DEF Puttable
    <2>2. dir'.temps = dir.temps \ {<<d, n>>}
        BY <1>5 DEF Put
    <2> QED
        BY <1>5, <2>1, <2>2, PutsKept, FilesOfCalls DEF Here
<1>6. UNCHANGED dir => Here(c)' = Here(c)
    BY DEF Here, FilesOf
<1>7. UNCHANGED puts => PutsOf(c)' = PutsOf(c)
    BY PutsKept
<1>8. /\ Tmp(d) = <<d, 1>> /\ Copy(d) = <<d, made[d]>> /\ Tmp(d) \in Files
      /\ made[d] \in Nat
      /\ pc[d] = "renameCopy" => Copy(d) \in Files
      /\ pc[d] = "open" => made[d] + 1 <= MaxFiles
      /\ made[d] < MaxFiles => made[d] + 1 <= MaxFiles
    BY FileNames DEF Tmp, Copy, IInv, Progress, Copying, Ready
<1> USE DEF LeftAlone, fsVars
<1>11. ASSUME WriteTarget(d) \/ OpenTempFails(d) \/ ProduceFails(d) PROVE LeftAlone(c)
    BY <1>11, <1>1, <1>2, <1>6, <1>7 DEF WriteTarget, OpenTempFails, ProduceFails
<1>12. CASE OpenTemp(d)
    BY <1>12, <1>1, <1>4, <1>7, <1>8 DEF OpenTemp
<1>13. CASE Produce(d) \/ SyncTemp(d) \/ CopyContent(d) \/ SyncCopy(d)
    BY <1>13, <1>1, <1>6, <1>7 DEF Produce, SyncTemp, CopyContent, SyncCopy
<1>14. CASE Cleanup(d)
    BY <1>14, <1>1, <1>2, <1>3, <1>6, <1>7, <1>8 DEF Cleanup
<1>15. CASE CommitChecks(d)
    BY <1>15, <1>1, <1>2, <1>6, <1>7 DEF CommitChecks
<1>16. CASE Rename(d)
    BY <1>16, <1>1, <1>5, <1>8 DEF Rename
<1>17. CASE RenameRefused(d)
    BY <1>17, <1>1, <1>4, <1>6, <1>7, <1>8 DEF RenameRefused
<1>18. CASE RenameCopy(d)
    BY <1>18, <1>1, <1>5, <1>8 DEF RenameCopy
<1>19. CASE CopyFails(d) \/ RemoveTmp(d) \/ RemoveTmpFails(d)
    BY <1>19, <1>1, <1>3, <1>6, <1>7, <1>8 DEF CopyFails, RemoveTmp, RemoveTmpFails
<1>20. CASE SyncDir(d)
    BY <1>20, <1>2, <1>6, <1>7 DEF SyncDir
<1>21. CASE DecideCommit(d) \/ DecideDiscard(d) \/ CleanupTemp(d)
    BY <1>21, <1>1, <1>2, <1>3, <1>6, <1>7, <1>8 DEF DecideCommit, DecideDiscard, CleanupTemp
<1> QED
    BY <1>11, <1>12, <1>13, <1>14, <1>15, <1>16, <1>17, <1>18, <1>19, <1>20, <1>21
       DEF Step, Deferred, Commit

\* So do the other programs, and the directory's way to the disk.
LEMMA EnvironmentLeavesAlone ==
    ASSUME IInv, NEW c \in Calls, OtherProgram \/ Writeback \/ UNCHANGED vars
    PROVE  LeftAlone(c)
<1>1. CASE OtherProgram
    <2>1. PICK what \in {Foreign, Nothing} : Put(what, {})
        BY <1>1 DEF OtherProgram
    <2>2. what \in Puttable \ FilesOf(c) /\ dir'.temps = dir.temps
        BY <2>1, OthersAreNoFiles, FilesOfCalls DEF Puttable, Put
    <2>3. PutsOf(c)' = PutsOf(c) /\ Here(c)' = Here(c)
        BY <2>1, <2>2, PutsKept, FilesOfCalls DEF Here
    <2> QED
        BY <1>1, <2>3 DEF LeftAlone, OtherProgram
<1>2. CASE Writeback \/ UNCHANGED vars
    BY <1>2, PutsKept DEF LeftAlone, Here, FilesOf, Writeback, vars
<1> QED
    BY <1>1, <1>2

\* Before its first commit a call has put nothing at the target.
LEMMA NothingPutYet ==
    ASSUME IInv, NEW c \in Calls, pc[c] \in Unwritten
    PROVE  PutsOf(c) = {}
<1> SUFFICES ASSUME NEW i \in PutsOf(c) PROVE FALSE
    OBVIOUS
<1>1. i \in 1..Len(puts) /\ puts[i] \in Files /\ puts[i][1] = c
    BY FilesOfCalls DEF PutsOf, FilesOf
<1>2. Past(puts[i])
    BY <1>1 DEF IInv, History
<1> QED
    BY <1>1, <1>2 DEF Past

\* Whether a call is native does not change.
LEMMA NativeKept == UNCHANGED native => (native' <=> native)
OBVIOUS

\* Every step reports only what the call has done.
LEMMA ReportingStep ==
    ASSUME IInv, Committed, \A c \in Calls : Reporting(c), [Next]_vars, NEW c \in Calls
    PROVE  Reporting(c)'
<1> USE DEF Reporting, Replacing, Copying
<1>0. Reporting(c)
    OBVIOUS
<1>n. UNCHANGED native => (native' <=> native)
    BY NativeKept
<1>1. LeftAlone(c) => Reporting(c)'
    BY <1>0, <1>n DEF LeftAlone
<1>2. CASE Crash
    <2>1. /\ PutsOf(c)' = PutsOf(c) /\ UNCHANGED <<native, mode, outcome>>
          /\ pc'[c] = IF pc[c] = "idle" THEN "idle" ELSE "crashed"
        BY <1>2, PutsKept DEF Crash
    <2> QED
        BY <2>1, <1>0, <1>n, <1>n
<1>3. ASSUME Step(c) PROVE Reporting(c)'
    <2>1. UNCHANGED puts => PutsOf(c)' = PutsOf(c)
        BY PutsKept
    <2>2. \A place : Goto(c, place) => pc'[c] = place
        BY DEF Goto, IInv, TypeOK
    <2>3. \A what : Returns(c, what) => pc'[c] = "returned" /\ outcome'[c] = what
        BY <2>2 DEF Returns, IInv, TypeOK
    <2>4. pc[c] \in Unwritten => PutsOf(c) = {}
        BY NothingPutYet
    <2>5. pc[c] \in {"removeTmp", "syncDir"} => PutsOf(c) # {}
        BY DEF Committed, Reached
    <2>6. mode[c] \in {"stream", "deferred"} /\ pc[c] \in Places
        BY DEF IInv, TypeOK
    <2>7. ASSUME NEW f \in Files \cap FilesOf(c), Put(f, {f}) PROVE PutsOf(c)' # {}
        BY <2>7, PutsGained DEF Puttable
    <2>8. Tmp(c) \in Files \cap FilesOf(c)
          /\ (pc[c] = "renameCopy" => Copy(c) \in Files \cap FilesOf(c))
        BY FileNames DEF IInv, Progress, Copying, Ready, Tmp, Copy, FilesOf, Files
    <2> USE DEF Unwritten, fsVars
    <2>11. CASE WriteTarget(c)
        <3>1. /\ pc[c] = "idle" /\ UNCHANGED <<native, puts, mode>>
              /\ \/ pc'[c] = "returned" /\ outcome'[c] = "exists"
                 \/ pc'[c] = "open" /\ UNCHANGED outcome
            BY <2>11, <2>2, <2>3 DEF WriteTarget
        <3> QED
            BY <3>1, <1>0, <1>n, <2>1, <2>4
    <2>12. CASE OpenTemp(c) \/ OpenTempFails(c)
        <3>1. /\ pc[c] = "open" /\ UNCHANGED <<native, puts, mode>>
              /\ \/ pc'[c] = "returned" /\ outcome'[c] = "failed"
                 \/ pc'[c] = "produce" /\ UNCHANGED outcome
            BY <2>12, <2>2, <2>3 DEF OpenTemp, OpenTempFails
        <3> QED
            BY <3>1, <1>0, <1>n, <2>1, <2>4
    <2>13. CASE Produce(c) \/ ProduceFails(c)
        BY <2>13, <1>0, <1>n, <2>1, <2>2, <2>4 DEF Produce, ProduceFails
    <2>14. CASE SyncTemp(c)
        BY <2>14, <1>0, <1>n, <2>1, <2>2, <2>4, <2>6 DEF SyncTemp
    <2>15. CASE Cleanup(c)
        <3>1. /\ pc[c] \in {"cleanup", "commitFailed"} /\ UNCHANGED <<native, puts, mode>>
              /\ \/ pc'[c] = "returned" /\ outcome'[c] = "failed"
                 \/ mode[c] = "deferred" /\ pc'[c] = "pending" /\ UNCHANGED outcome
            BY <2>15, <2>2, <2>3 DEF Cleanup
        <3> QED
            BY <3>1, <1>0, <1>n, <2>1, <2>4, <2>6
    <2>16. CASE CommitChecks(c)
        <3>1. /\ pc[c] = "commit" /\ UNCHANGED <<native, puts, mode>>
              /\ \/ ~native /\ pc'[c] = "returned" /\ outcome'[c] = "handed over"
                 \/ mode[c] = "stream" /\ pc'[c] = "returned" /\ outcome'[c] = "exists"
                 \/ mode[c] # "stream" /\ pc'[c] = "pending" /\ UNCHANGED outcome
                 \/ native /\ pc'[c] = "rename" /\ UNCHANGED outcome
            BY <2>16, <2>2, <2>3 DEF CommitChecks
        <3> QED
            BY <3>1, <1>0, <1>n, <2>1, <2>6
    <2>17. CASE Rename(c)
        BY <2>17, <1>0, <1>n, <2>2, <2>7, <2>8 DEF Rename
    <2>18. CASE RenameRefused(c)
        BY <2>18, <1>0, <1>n, <2>1, <2>2 DEF RenameRefused
    <2>19. CASE CopyContent(c) \/ SyncCopy(c) \/ CopyFails(c)
        BY <2>19, <1>0, <1>n, <2>1, <2>2 DEF CopyContent, SyncCopy, CopyFails
    <2>20. CASE RenameCopy(c)
        BY <2>20, <1>0, <1>n, <2>2, <2>7, <2>8 DEF RenameCopy
    <2>21. CASE RemoveTmp(c) \/ RemoveTmpFails(c)
        BY <2>21, <1>0, <1>n, <2>1, <2>2 DEF RemoveTmp, RemoveTmpFails
    <2>22. CASE SyncDir(c)
        <3>1. /\ pc[c] = "syncDir" /\ UNCHANGED <<native, puts, mode>>
              /\ pc'[c] = "returned" /\ outcome'[c] = "written"
            BY <2>22, <2>2, <2>3 DEF SyncDir
        <3> QED
            BY <3>1, <1>0, <1>n, <2>1, <2>5
    <2>23. CASE DecideCommit(c) \/ DecideDiscard(c) \/ CleanupTemp(c)
        <3>1. /\ UNCHANGED <<native, puts, mode>>
              /\ \/ pc[c] = "pending" /\ pc'[c] = "commit" /\ UNCHANGED outcome
                 \/ pc[c] = "pending" /\ pc'[c] = "returned" /\ outcome'[c] = "discarded"
                 \/ UNCHANGED <<pc, outcome>>
            BY <2>23, <2>2, <2>3 DEF DecideCommit, DecideDiscard, CleanupTemp
        <3> QED
            BY <3>1, <1>0, <1>n, <2>1, <2>6
    <2> QED
        BY <1>3, <2>11, <2>12, <2>13, <2>14, <2>15, <2>16, <2>17, <2>18, <2>19, <2>20, <2>21,
           <2>22, <2>23 DEF Step, Deferred, Commit
<1>4. (\E d \in Calls : Step(d)) \/ OtherProgram \/ Writeback \/ Crash \/ UNCHANGED vars
    BY DEF Next, Step
<1> QED
    BY <1>1, <1>2, <1>3, <1>4, OthersLeftAlone, EnvironmentLeavesAlone

\* Every step leaves of a call only the files that it still owns.
LEMMA SweptStep ==
    ASSUME IInv, \A c \in Calls : Reporting(c) /\ Swept(c), [Next]_vars, NEW c \in Calls
    PROVE  Swept(c)'
<1> USE DEF Copying
<1>0. Swept(c) /\ Reporting(c)
    OBVIOUS
<1>1. LeftAlone(c) /\ ~Crash /\ (crashesLeft' = crashesLeft) => Swept(c)'
    BY <1>0 DEF LeftAlone, Swept, Tmp, Copy
<1>2. CASE Crash
    <2>1. crashesLeft \in 0..MaxCrashes /\ crashesLeft' = crashesLeft - 1
        BY <1>2 DEF Crash, IInv, TypeOK
    <2>2. crashesLeft' # MaxCrashes
        BY <2>1
    <2> QED
        BY <2>2 DEF Swept
<1>3. ASSUME Step(c), UNCHANGED <<native, crashesLeft>> PROVE Swept(c)'
    <2> SUFFICES ASSUME native, crashesLeft = MaxCrashes
                 PROVE /\ pc'[c] # "crashed"
                       /\ pc'[c] \in {"idle", "open", "syncDir"} => Here(c)' = {}
                       /\ pc'[c] \in Copying => Here(c)' \subseteq {Tmp(c), <<c, made'[c]>>}
                       /\ pc'[c] \notin Copying \cup {"returned"} => Here(c)' \subseteq {Tmp(c)}
                       /\ pc'[c] = "returned" /\ outcome'[c] # "exists" => Here(c)' = {}
        BY <1>3 DEF Swept, Tmp, Copy
    <2>0. /\ pc[c] # "crashed"
          /\ pc[c] \in {"idle", "open", "syncDir"} => Here(c) = {}
          /\ pc[c] \in Copying => Here(c) \subseteq {Tmp(c), Copy(c)}
          /\ pc[c] \notin Copying \cup {"returned"} => Here(c) \subseteq {Tmp(c)}
        BY <1>0 DEF Swept
    <2>1. UNCHANGED dir => Here(c)' = Here(c)
        BY DEF Here, FilesOf
    <2>2. \A place : Goto(c, place) => pc'[c] = place
        BY DEF Goto, IInv, TypeOK
    <2>3. \A what : Returns(c, what) => pc'[c] = "returned" /\ outcome'[c] = what
        BY <2>2 DEF Returns, IInv, TypeOK
    <2>4. ASSUME NEW f, Removes(f) \/ Put(f, {f}) PROVE Here(c)' = Here(c) \ {f}
        <3>1. dir'.temps = dir.temps \ {f}
            BY <2>4 DEF Removes, Put, IInv, TypeOK
        <3> QED
            BY <3>1, FilesOfCalls DEF Here
    <2>5. ASSUME CreatesNext(c), made[c] + 1 <= MaxFiles
          PROVE  Here(c)' \subseteq Here(c) \cup {<<c, made'[c]>>}
        <3>1. /\ dir'.temps = dir.temps \cup {<<c, made[c] + 1>>}
              /\ made' = [made EXCEPT ![c] = made[c] + 1]
            BY <2>5, CreateExtends DEF IInv
        <3>2. made'[c] = made[c] + 1
            BY <3>1 DEF IInv, TypeOK
        <3> QED
            BY <3>1, <3>2, FilesOfCalls DEF Here
    <2>6. /\ pc[c] = "open" => made[c] + 1 <= MaxFiles /\ made[c] + 1 = 1
          /\ made[c] < MaxFiles => made[c] + 1 <= MaxFiles
        BY FileNames DEF IInv, Progress
    <2> USE DEF fsVars
    <2>11. CASE WriteTarget(c) \/ OpenTempFails(c)
        BY <2>11, <2>0, <2>1, <2>2, <2>3 DEF WriteTarget, OpenTempFails
    <2>12. CASE OpenTemp(c)
        <3>0. made' = [made EXCEPT ![c] = made[c] + 1]
            BY <2>12, <2>6, CreateExtends DEF OpenTemp, IInv
        <3>1. made'[c] = 1
            BY <2>12, <2>6, <3>0 DEF OpenTemp, IInv, TypeOK
        <3> QED
            BY <2>12, <3>1, <2>0, <2>2, <2>5, <2>6 DEF OpenTemp, Tmp
    <2>13. CASE Produce(c) \/ ProduceFails(c) \/ SyncTemp(c)
        BY <2>13, <2>0, <2>1, <2>2 DEF Produce, ProduceFails, SyncTemp
    <2>14. CASE Cleanup(c)
        BY <2>14, <2>0, <2>1, <2>2, <2>3, <2>4 DEF Cleanup
    <2>15. CASE CommitChecks(c)
        BY <2>15, <2>0, <2>1, <2>2, <2>3 DEF CommitChecks
    <2>16. CASE Rename(c)
        BY <2>16, <2>0, <2>2, <2>4 DEF Rename
    <2>17. CASE RenameRefused(c)
        BY <2>17, <2>0, <2>1, <2>2, <2>5, <2>6 DEF RenameRefused
    <2>18. CASE CopyContent(c) \/ SyncCopy(c)
        BY <2>18, <2>0, <2>1, <2>2 DEF CopyContent, SyncCopy, Copy
    <2>19. CASE RenameCopy(c) \/ CopyFails(c)
        BY <2>19, <2>0, <2>2, <2>4 DEF RenameCopy, CopyFails
    <2>20. CASE RemoveTmp(c) \/ RemoveTmpFails(c)
        BY <2>20, <2>0, <2>1, <2>2, <2>4 DEF RemoveTmp, RemoveTmpFails
    <2>21. CASE SyncDir(c)
        BY <2>21, <2>0, <2>1, <2>3 DEF SyncDir
    <2>22. CASE DecideCommit(c) \/ DecideDiscard(c)
        BY <2>22, <2>0, <2>1, <2>2, <2>3, <2>4 DEF DecideCommit, DecideDiscard
    <2>23. CASE CleanupTemp(c)
        BY <2>23, <1>0 DEF CleanupTemp, Reporting
    <2> QED
        BY <1>3, <2>11, <2>12, <2>13, <2>14, <2>15, <2>16, <2>17, <2>18, <2>19, <2>20, <2>21,
           <2>22, <2>23 DEF Step, Deferred, Commit
<1>4. ASSUME NEW d \in Calls, Step(d) PROVE ~Crash => UNCHANGED <<native, crashesLeft>>
    BY <1>4
       DEF Step, Deferred, Commit, boundVars, Rename, RenameCopy, WriteTarget, OpenTemp,
           OpenTempFails, Produce, SyncTemp, ProduceFails, Cleanup, CommitChecks,
           RenameRefused, CopyContent, SyncCopy, CopyFails, RemoveTmp, RemoveTmpFails,
           SyncDir, DecideCommit, DecideDiscard, CleanupTemp
<1>5. OtherProgram \/ Writeback \/ UNCHANGED vars => crashesLeft' = crashesLeft
    BY DEF OtherProgram, Writeback, vars, boundVars
<1>6. (\E d \in Calls : Step(d)) \/ OtherProgram \/ Writeback \/ Crash \/ UNCHANGED vars
    BY DEF Next, Step
<1> QED
    BY <1>1, <1>2, <1>3, <1>4, <1>5, <1>6, OthersLeftAlone, EnvironmentLeavesAlone

\* The entries of other programs in the history.
Strays == {i \in 2..Len(puts) : puts[i] \notin Files}

Counted == IsFiniteSet(Strays) /\ Cardinality(Strays) = MaxOthers - othersLeft

\* What is at the target and of no call was put there by another program.
LEMMA CountedStep ==
    ASSUME IInv, Counted, [Next]_vars
    PROVE  Counted'
<1>1. ASSUME UNCHANGED <<puts, othersLeft>> PROVE Counted'
    BY <1>1 DEF Counted, Strays
<1>2. ASSUME NEW f \in Puttable, NEW gone, Put(f, gone)
      PROVE  /\ f \in Files => Strays' = Strays
             /\ f \notin Files => Strays' = Strays \cup {Len(puts) + 1}
             /\ Len(puts) + 1 \notin Strays
    <2>1. /\ Len(puts) \in Nat /\ Len(puts') = Len(puts) + 1 /\ puts'[Len(puts) + 1] = f
          /\ \A i \in 1..Len(puts) : puts'[i] = puts[i]
        BY <1>2, PutExtends DEF IInv
    <2>2. Len(puts) >= 1
        BY DEF IInv, TypeOK
    <2>3. \A i : i \in 2..Len(puts') <=> (i \in 2..Len(puts) \/ i = Len(puts) + 1)
        BY <2>1, <2>2
    <2>4. Len(puts) + 1 \notin 2..Len(puts) /\ \A i \in 2..Len(puts) : i \in 1..Len(puts)
        BY <2>1
    <2>5. Strays' = {i \in 2..Len(puts') : puts'[i] \notin Files}
        BY DEF Strays, Files
    <2> QED
        BY <2>1, <2>3, <2>4, <2>5 DEF Strays
<1>3. ASSUME NEW c \in Calls, Rename(c) \/ RenameCopy(c) PROVE Counted'
    <2>1. PICK f \in Files : Put(f, {f})
        BY <1>3, FileNames DEF IInv, Progress, Copying, Ready, Rename, RenameCopy
    <2>2. Strays' = Strays /\ UNCHANGED othersLeft
        BY <1>2, <1>3, <2>1 DEF Puttable, Rename, RenameCopy, boundVars
    <2> QED
        BY <2>2 DEF Counted
<1>4. CASE OtherProgram
    <2>1. PICK f \in {Foreign, Nothing} : Put(f, {})
        BY <1>4 DEF OtherProgram
    <2>2. Strays' = Strays \cup {Len(puts) + 1} /\ Len(puts) + 1 \notin Strays
        BY <1>2, <2>1, OthersAreNoFiles DEF Puttable
    <2>3. IsFiniteSet(Strays') /\ Cardinality(Strays') = Cardinality(Strays) + 1
        BY <2>2, FS_AddElement DEF Counted
    <2>4. othersLeft' = othersLeft - 1 /\ othersLeft \in 0..MaxOthers
        BY <1>4 DEF OtherProgram, IInv, TypeOK
    <2>5. MaxOthers - othersLeft' = (MaxOthers - othersLeft) + 1
        BY <2>4
    <2> QED
        BY <2>3, <2>5 DEF Counted
<1>5. \/ UNCHANGED <<puts, othersLeft>>
      \/ \E c \in Calls : Rename(c) \/ RenameCopy(c)
      \/ OtherProgram
    BY DEF Next, Deferred, Commit, vars, fsVars, boundVars, WriteTarget, OpenTemp,
           OpenTempFails, Produce, SyncTemp, ProduceFails, Cleanup, CommitChecks,
           RenameRefused, CopyContent, SyncCopy, CopyFails, RemoveTmp, RemoveTmpFails,
           SyncDir, DecideCommit, DecideDiscard, CleanupTemp, Writeback, Crash
<1> QED
    BY <1>1, <1>3, <1>4, <1>5

Accounts == Committed /\ Counted /\ \A c \in Calls : Reporting(c) /\ Swept(c)

\* What the reports and the leftovers rest on holds in every reachable state.
THEOREM CallsAreAccountedFor == Spec => []Accounts
<1>1. ASSUME Init PROVE Accounts
    <2>1. Len(puts) = 1 /\ \A c \in Calls : PutsOf(c) = {}
        <3>1. PICK first \in {Foreign, Nothing} : puts = <<first>>
            BY <1>1 DEF Init
        <3>2. Len(puts) = 1 /\ puts[1] \notin Files
            BY <3>1, OthersAreNoFiles
        <3> QED
            BY <3>2, FilesOfCalls DEF PutsOf
    <2>2. Strays = {}
        BY <2>1 DEF Strays
    <2>3. Counted
        BY <1>1, <2>2, FS_EmptySet DEF Counted, Init
    <2>4. Committed
        BY <1>1 DEF Init, Committed
    <2>5. ASSUME NEW c \in Calls PROVE Reporting(c) /\ Swept(c)
        <3>1. pc[c] = "idle" /\ outcome[c] = "none" /\ PutsOf(c) = {} /\ Here(c) = {}
            BY <1>1, <2>1 DEF Init, Here
        <3> QED
            BY <3>1 DEF Reporting, Swept, Replacing, Copying
    <2> QED
        BY <2>3, <2>4, <2>5 DEF Accounts
<1>2. ASSUME IInv, Accounts, [Next]_vars PROVE Accounts'
    <2>1. Committed' /\ Counted'
        BY <1>2, CommittedStep, CountedStep DEF Accounts
    <2>2. \A c \in Calls : Reporting(c)'
        BY <1>2, ReportingStep DEF Accounts
    <2>3. \A c \in Calls : Swept(c)'
        BY <1>2, SweptStep DEF Accounts
    <2> QED
        BY <2>1, <2>2, <2>3 DEF Accounts
<1> QED
    BY <1>1, <1>2, Invariance, PTL DEF Spec

\* CommitFile, WriteFileStream and the deferred form report what they did: "exists" and
\* a file handed to Dart mean that the target was left alone, "written" that it was
\* replaced, and what is not a call's at the target is another program's.
THEOREM ReportsAreTrue == Spec => []ReportsMatchEffect
<1>1. Accounts => ReportsMatchEffect
    <2> SUFFICES ASSUME Accounts PROVE ReportsMatchEffect
        OBVIOUS
    <2>1. ASSUME NEW c \in Calls
          PROVE  /\ outcome[c] = "handed over" => PutsOf(c) = {}
                 /\ outcome[c] = "exists" => PutsOf(c) = {}
                 /\ outcome[c] = "written" => PutsOf(c) # {}
        BY DEF Accounts, Reporting
    <2> QED
        BY <2>1 DEF ReportsMatchEffect, Accounts, Counted, Strays
<1> QED
    BY <1>1, CallsAreAccountedFor, PTL

\* While the machine stays up, a desktop call that has written, has failed or was discarded has
\* none of its hidden files beside the target, on every error path of WriteFileStreamDeferred,
\* CommitFile and replaceFile.  A call that reports that the target exists is left out: after the
\* second check, in CommitFile, WriteFileStream lets go of its hidden file and leaves it there.
THEOREM NothingIsLeftBehind == Spec => []NoStrayTemp
<1>1. Accounts => NoStrayTemp
    <2> SUFFICES ASSUME Accounts, NEW c \in Calls,
                        native /\ crashesLeft = MaxCrashes
                            /\ outcome[c] \in {"written", "failed", "discarded"}
                 PROVE  Here(c) = {}
        BY Zenon DEF NoStrayTemp, Here
    <2>1. pc[c] \in {"returned", "crashed"} /\ outcome[c] # "exists"
        BY DEF Accounts, Reporting
    <2>2. pc[c] # "crashed" /\ (pc[c] = "returned" => Here(c) = {})
        BY <2>1 DEF Accounts, Swept
    <2> QED
        BY <2>1, <2>2
<1> QED
    BY <1>1, CallsAreAccountedFor, PTL

-----------------------------------------------------------------------------
(***************************************************************************)
(* FileWrite implements AtomicFile: one lemma per kind of step.            *)
(***************************************************************************)

\* What an entry of the history shows never changes.
LEMMA ShownStays ==
    ASSUME IInv, IInv', NEW i \in 1..Len(puts), i \in 1..Len(puts'), puts'[i] = puts[i]
    PROVE  Shown(i)' = Shown(i)
<1>1. puts[i] \in Files => data[puts[i]] = "safe"
    BY DEF IInv, History, Past
<1>2. puts'[i] \in Files => data'[puts'[i]] = "safe"
    <2>1. \A j \in 1..Len(puts') : puts'[j] \in Files => data'[puts'[j]] = "safe"
        BY DEF IInv, History, Past, Files
    <2> QED
        BY <2>1
<1>3. Files' = Files
    BY DEF Files
<1> QED
    BY <1>1, <1>2, <1>3 DEF Shown

\* A step that neither puts a file nor makes a call report does nothing to the file.
LEMMA UnseenStep ==
    ASSUME IInv, IInv', UNCHANGED <<puts, dir.at, disk.at>>,
           \A c \in Calls : ReportOf(c)' = ReportOf(c)
    PROVE  UNCHANGED File!fileVars
<1>1. dir.at \in 1..Len(puts) /\ disk.at \in 1..Len(puts)
    BY DEF IInv, TypeOK
<1>2. \A i \in 1..Len(puts) : Shown(i)' = Shown(i)
    BY ShownStays
<1>3. Shown(dir.at)' = Shown(dir.at) /\ Shown(disk.at)' = Shown(disk.at)
    BY <1>1, <1>2 DEF Shown
<1>4. \A c \in Calls : PutsOf(c)' = PutsOf(c)
    BY PutsKept
<1> QED
    BY <1>3, <1>4 DEF File!fileVars

\* A call that returns reports once, and the disk may have caught up if it has written.
LEMMA ReportStep ==
    ASSUME IInv, IInv', NEW c \in Calls, NEW what \in File!Reports,
           pc[c] # "crashed", outcome[c] = "none", Returns(c, what),
           UNCHANGED <<puts, dir.at>>,
           disk'.at = disk.at \/ (what = "written" /\ disk'.at = dir.at),
           what = "written" => PutsOf(c) # {},
           what \in {"exists", "handed over"} => PutsOf(c) = {}
    PROVE  File!Report(c, what)
<1> DEFINE R == [d \in Calls |-> ReportOf(d)]
           D == {d \in Calls : PutsOf(d) # {}}
<1>1. dir.at \in 1..Len(puts) /\ disk.at \in 1..Len(puts)
    BY DEF IInv, TypeOK
<1>2. \A i \in 1..Len(puts) : Shown(i)' = Shown(i)
    BY ShownStays
<1>3. Shown(dir.at)' = Shown(dir.at)
    BY <1>1, <1>2 DEF Shown
<1>4. Shown(disk.at)' = Shown(disk.at) \/ (what = "written" /\ Shown(disk.at)' = Shown(dir.at))
    BY <1>1, <1>2 DEF Shown
<1>5. D' = D
    BY PutsKept
<1>6. R[c] = "none" /\ R' = [R EXCEPT ![c] = what]
    <2>1. /\ outcome \in [Calls -> Outcomes] /\ pc \in [Calls -> Places]
          /\ outcome' = [outcome EXCEPT ![c] = what] /\ pc' = [pc EXCEPT ![c] = "returned"]
        BY DEF IInv, TypeOK, Returns, Goto
    <2>2. ReportOf(c) = "none" /\ ReportOf(c)' = what
        BY <2>1 DEF ReportOf
    <2>3. \A d \in Calls : d # c => ReportOf(d)' = ReportOf(d)
        BY <2>1 DEF ReportOf
    <2> QED
        BY <2>2, <2>3
<1>7. File!Truthful(c, what)
    BY DEF File!Truthful
<1> QED
    BY <1>3, <1>4, <1>5, <1>6, <1>7 DEF File!Report

\* A rename by a call that has not reported puts the call's whole output there.
LEMMA ReplaceStep ==
    ASSUME IInv, IInv', NEW c \in Calls, NEW f \in Files \cap FilesOf(c), NEW gone, Put(f, gone),
           pc[c] # "crashed", outcome[c] = "none", UNCHANGED <<outcome, disk>>,
           NEW where \in Places \ {"crashed"}, Goto(c, where)
    PROVE  File!Replace(c)
<1> DEFINE R == [d \in Calls |-> ReportOf(d)]
           D == {d \in Calls : PutsOf(d) # {}}
<1>0. f \in Puttable /\ f[1] = c
    BY DEF Puttable, FilesOf
<1>1. /\ Len(puts) \in Nat /\ Len(puts') = Len(puts) + 1 /\ puts'[Len(puts) + 1] = f
      /\ \A i \in 1..Len(puts) : puts'[i] = puts[i]
      /\ dir'.at = Len(puts) + 1
    BY <1>0, PutExtends DEF IInv
<1>2. disk.at \in 1..Len(puts) /\ disk'.at = disk.at
    BY DEF IInv, TypeOK
<1>3. \A i \in 1..Len(puts) : Shown(i)' = Shown(i)
    BY <1>1, ShownStays
<1>4. Shown(disk.at)' = Shown(disk.at)
    BY <1>2, <1>3 DEF Shown
<1>5. Shown(dir.at)' = c
    <2>1. \A i \in 1..Len(puts') : puts'[i] \in Files => data'[puts'[i]] = "safe"
        BY DEF IInv, History, Past, Files
    <2>2. data'[f] = "safe"
        BY <1>1, <2>1
    <2>3. Files' = Files
        BY DEF Files
    <2> QED
        BY <1>0, <1>1, <2>2, <2>3 DEF Shown
<1>6. D' = D \cup {c}
    <2>1. PutsOf(c)' # {}
        BY <1>0, PutsGained
    <2>2. \A d \in Calls : d # c => f \notin FilesOf(d)
        BY <1>0 DEF FilesOf
    <2>3. \A d \in Calls : d # c => PutsOf(d)' = PutsOf(d)
        BY <1>0, <2>2, PutsKept
    <2> QED
        BY <2>1, <2>3
<1>7. R[c] = "none" /\ R' = R
    <2>1. pc \in [Calls -> Places] /\ pc' = [pc EXCEPT ![c] = where]
        BY DEF IInv, TypeOK, Goto
    <2>2. ReportOf(c) = "none" /\ ReportOf(c)' = "none"
        BY <2>1 DEF ReportOf
    <2>3. \A d \in Calls : d # c => ReportOf(d)' = ReportOf(d)
        BY <2>1 DEF ReportOf
    <2> QED
        BY <2>2, <2>3
<1> QED
    BY <1>4, <1>5, <1>6, <1>7 DEF File!Replace

\* Another program's write, the disk that catches up, and a crash.
LEMMA EnvironmentStep ==
    ASSUME IInv, IInv', OtherProgram \/ Writeback \/ Crash
    PROVE  File!OtherProgram \/ File!Flush \/ File!Crash
<1> DEFINE R == [d \in Calls |-> ReportOf(d)]
           D == {d \in Calls : PutsOf(d) # {}}
<1>1. dir.at \in 1..Len(puts) /\ disk.at \in 1..Len(puts)
    BY DEF IInv, TypeOK
<1>2. CASE OtherProgram
    <2>1. PICK what \in {Foreign, Nothing} : Put(what, {})
        BY <1>2 DEF OtherProgram
    <2>2. /\ Len(puts) \in Nat /\ Len(puts') = Len(puts) + 1 /\ puts'[Len(puts) + 1] = what
          /\ \A i \in 1..Len(puts) : puts'[i] = puts[i]
          /\ dir'.at = Len(puts) + 1
        BY <2>1, PutExtends DEF IInv, Puttable
    <2>3. what \notin Files /\ Files' = Files /\ \A d \in Calls : what \in Puttable \ FilesOf(d)
        BY OthersAreNoFiles, FilesOfCalls DEF Files, Puttable
    <2>4. Shown(dir.at)' \in {Foreign, Nothing}
        BY <2>2, <2>3 DEF Shown
    <2>5. \A i \in 1..Len(puts) : Shown(i)' = Shown(i)
        BY <2>2, ShownStays
    <2>6. Shown(disk.at)' = Shown(disk.at)
        BY <1>1, <1>2, <2>5 DEF Shown, OtherProgram
    <2>7. D' = D
        BY <2>1, <2>3, PutsKept
    <2>8. R' = R
        BY <1>2 DEF OtherProgram, ReportOf
    <2> QED
        BY <2>4, <2>6, <2>7, <2>8 DEF File!OtherProgram
<1>3. CASE Writeback
    <2>1. \A i \in 1..Len(puts) : Shown(i)' = Shown(i)
        BY <1>3, ShownStays DEF Writeback
    <2>2. Shown(dir.at)' = Shown(dir.at) /\ Shown(disk.at)' = Shown(dir.at)
        BY <1>1, <1>3, <2>1 DEF Shown, Writeback
    <2>3. D' = D
        BY <1>3, PutsKept DEF Writeback
    <2>4. R' = R
        BY <1>3 DEF Writeback, ReportOf
    <2> QED
        BY <2>2, <2>3, <2>4 DEF File!Flush
<1>4. CASE Crash
    <2>1. \A i \in 1..Len(puts) : Shown(i)' = Shown(i)
        BY <1>4, ShownStays DEF Crash
    <2>2. Shown(dir.at)' = Shown(disk.at) /\ Shown(disk.at)' = Shown(disk.at)
        BY <1>1, <1>4, <2>1 DEF Shown, Crash
    <2>3. D' = D
        BY <1>4, PutsKept DEF Crash
    <2> DEFINE lost == {d \in Calls : ReportOf(d) = "none" /\ pc[d] # "idle"}
    <2>4. ASSUME NEW d \in Calls
          PROVE  ReportOf(d)' = IF d \in lost THEN "lost" ELSE ReportOf(d)
        <3>1. outcome'[d] = outcome[d] /\ pc'[d] = IF pc[d] = "idle" THEN "idle" ELSE "crashed"
            BY <1>4 DEF Crash
        <3>2. outcome[d] # "lost"
            BY DEF IInv, TypeOK, Outcomes
        <3> QED
            BY <3>1, <3>2 DEF ReportOf
    <2>5. R' = [d \in Calls |-> IF d \in lost THEN "lost" ELSE R[d]]
        BY <2>4
    <2>6. lost \in SUBSET {d \in Calls : R[d] = "none"}
        OBVIOUS
    <2> QED
        BY <2>2, <2>3, <2>5, <2>6 DEF File!Crash
<1> QED
    BY <1>2, <1>3, <1>4

\* Every step of a call replaces the file, reports, or does nothing to it.
LEMMA CallStep ==
    ASSUME IInv, IInv', Committed, NEW c \in Calls, Reporting(c), Step(c)
    PROVE  \/ File!Replace(c)
           \/ \E what \in File!Reports : File!Report(c, what)
           \/ UNCHANGED File!fileVars
<1>1. ASSUME pc[c] # "crashed", UNCHANGED outcome,
             NEW where \in Places \ {"crashed"}, Goto(c, where)
      PROVE  \A d \in Calls : ReportOf(d)' = ReportOf(d)
    BY <1>1 DEF ReportOf, Goto, IInv, TypeOK
<1>2. UNCHANGED dir \/ CreatesNext(c) \/ (\E f : Removes(f)) => UNCHANGED dir.at
    BY DEF CreatesNext, Removes, IInv, TypeOK
<1>3. pc[c] \notin {"returned", "crashed"} => outcome[c] = "none"
    BY DEF Reporting
<1>4. ASSUME NEW what \in File!Reports, Returns(c, what), UNCHANGED <<puts, disk>>,
             pc[c] \notin {"returned", "crashed"},
             UNCHANGED dir \/ (\E f : Removes(f)), what # "written",
             what \in {"exists", "handed over"} => PutsOf(c) = {}
      PROVE  File!Report(c, what)
    BY <1>2, <1>3, <1>4, ReportStep
<1> DEFINE Quiet == UNCHANGED File!fileVars
<1>5. ASSUME UNCHANGED <<puts, disk, outcome>>, pc[c] # "crashed",
             UNCHANGED dir \/ CreatesNext(c) \/ (\E f : Removes(f)),
             NEW where \in Places \ {"crashed"}, Goto(c, where)
      PROVE  Quiet
    BY <1>1, <1>2, <1>5, UnseenStep
<1>6. {"exists", "failed", "handed over", "written", "discarded"} \subseteq File!Reports
    BY DEF File!Reports
<1> HIDE DEF Quiet
<1> USE DEF fsVars, Places
<1>11. CASE WriteTarget(c)
    <2>1. CASE Returns(c, "exists")
        <3>1. PutsOf(c) = {}
            BY <1>11, NothingPutYet DEF WriteTarget, Unwritten
        <3> QED
            BY <1>4, <1>6, <1>11, <2>1, <3>1 DEF WriteTarget
    <2>2. CASE Goto(c, "open") /\ UNCHANGED outcome
        BY <1>5, <1>11, <2>2 DEF WriteTarget, Quiet
    <2> QED
        BY <1>11, <2>1, <2>2 DEF WriteTarget
<1>12. CASE OpenTemp(c) \/ Produce(c) \/ SyncTemp(c) \/ ProduceFails(c)
    <2>1. Quiet
        BY <1>5, <1>12 DEF OpenTemp, Produce, SyncTemp, ProduceFails
    <2> QED
        BY <2>1 DEF Quiet
<1>13. CASE OpenTempFails(c)
    BY <1>4, <1>6, <1>13 DEF OpenTempFails
<1>14. CASE Cleanup(c)
    <2>1. CASE Goto(c, "pending") /\ UNCHANGED <<outcome, dir>>
        BY <1>5, <1>14, <2>1 DEF Cleanup, Quiet
    <2>2. CASE Returns(c, "failed") /\ Removes(Tmp(c))
        BY <1>4, <1>6, <1>14, <2>2 DEF Cleanup
    <2> QED
        BY <1>14, <2>1, <2>2 DEF Cleanup
<1>15. CASE CommitChecks(c)
    <2>1. CASE ~native
        <3>1. PutsOf(c) = {} /\ Returns(c, "handed over")
            BY <1>15, <2>1 DEF CommitChecks, Reporting
        <3> QED
            BY <1>4, <1>6, <1>15, <3>1 DEF CommitChecks
    <2>2. CASE native /\ ~force[c] /\ TargetExists /\ mode[c] = "stream"
        <3>1. PutsOf(c) = {} /\ Returns(c, "exists")
            BY <1>15, <2>2 DEF CommitChecks, Reporting
        <3> QED
            BY <1>4, <1>6, <1>15, <3>1 DEF CommitChecks
    <2>3. CASE native /\ ~(~force[c] /\ TargetExists /\ mode[c] = "stream")
        <3>1. \/ Goto(c, "pending") /\ UNCHANGED outcome
              \/ Goto(c, "rename") /\ UNCHANGED outcome
            BY <1>15, <2>3 DEF CommitChecks
        <3>2. Quiet
            BY <1>5, <1>15, <3>1 DEF CommitChecks
        <3> QED
            BY <3>2 DEF Quiet
    <2> QED
        BY <2>1, <2>2, <2>3
<1>16. CASE Rename(c) \/ RenameCopy(c)
    <2>1. PICK f \in Files \cap FilesOf(c) : Put(f, {f})
        BY <1>16, FileNames
           DEF Rename, RenameCopy, IInv, Progress, Ready, Copying, Tmp, Copy, FilesOf, Files
    <2>2. PICK where \in Places \ {"crashed"} : Goto(c, where)
        BY <1>16 DEF Rename, RenameCopy
    <2>3. pc[c] # "crashed" /\ outcome[c] = "none" /\ UNCHANGED <<outcome, disk>>
        BY <1>3, <1>16 DEF Rename, RenameCopy
    <2> QED
        BY <2>1, <2>2, <2>3, ReplaceStep
<1>17. CASE RenameRefused(c) \/ CopyContent(c) \/ SyncCopy(c)
    <2>1. Quiet
        BY <1>5, <1>17 DEF RenameRefused, CopyContent, SyncCopy
    <2> QED
        BY <2>1 DEF Quiet
<1>18. CASE CopyFails(c) \/ RemoveTmp(c) \/ RemoveTmpFails(c)
    <2>1. Quiet
        BY <1>5, <1>18 DEF CopyFails, RemoveTmp, RemoveTmpFails
    <2> QED
        BY <2>1 DEF Quiet
<1>19. CASE SyncDir(c)
    <2>1. PutsOf(c) # {}
        BY <1>19 DEF SyncDir, Committed, Reached
    <2>2. /\ pc[c] # "crashed" /\ outcome[c] = "none" /\ Returns(c, "written")
          /\ UNCHANGED <<puts, dir>> /\ (disk' = disk \/ disk' = dir)
        BY <1>3, <1>19 DEF SyncDir
    <2>3. File!Report(c, "written")
        BY <1>6, <2>1, <2>2, ReportStep
    <2> QED
        BY <1>6, <2>3
<1>20. CASE DecideCommit(c)
    BY <1>5, <1>20 DEF DecideCommit, Quiet
<1>21. CASE DecideDiscard(c)
    BY <1>4, <1>6, <1>21 DEF DecideDiscard
<1>22. CASE CleanupTemp(c)
    <2>1. UNCHANGED dir.at
        BY <1>2, <1>22 DEF CleanupTemp
    <2>2. UNCHANGED <<puts, disk, pc, outcome>>
        BY <1>22 DEF CleanupTemp
    <2>3. \A d \in Calls : ReportOf(d)' = ReportOf(d)
        BY <2>2 DEF ReportOf
    <2> QED
        BY <2>1, <2>2, <2>3, UnseenStep
<1> QED
    BY <1>11, <1>12, <1>13, <1>14, <1>15, <1>16, <1>17, <1>18, <1>19, <1>20, <1>21, <1>22
       DEF Step, Deferred, Commit

\* WriteFileStream, the deferred form, CommitFile and DiscardFile implement the atomic
\* file: whatever calls run at once, fail or are cut off by a crash, each of them replaces
\* the target as a whole or not at all and reports the truth of it.
THEOREM ImplementsAtomicFile == Spec => IsAtomicFile
<1>1. ASSUME Init PROVE File!Init
    <2>1. PICK first \in {Foreign, Nothing} : puts = <<first>>
        BY <1>1 DEF Init
    <2>2. Len(puts) = 1 /\ puts[1] = first /\ first \notin Files
        BY <2>1, OthersAreNoFiles
    <2>3. dir.at = 1 /\ disk.at = 1
        BY <1>1 DEF Init
    <2>4. Shown(dir.at) = first /\ Shown(disk.at) = first
        BY <2>2, <2>3 DEF Shown
    <2>5. \A c \in Calls : PutsOf(c) = {} /\ ReportOf(c) = "none"
        BY <1>1, <2>2, FilesOfCalls DEF Init, PutsOf, ReportOf
    <2> QED
        BY <2>4, <2>5 DEF File!Init
<1>2. ASSUME IInv, IInv', Accounts, [Next]_vars PROVE [File!Next]_(File!fileVars)
    <2>1. ASSUME NEW c \in Calls, Step(c) PROVE [File!Next]_(File!fileVars)
        BY <1>2, <2>1, CallStep DEF Accounts, File!Next
    <2>2. CASE OtherProgram \/ Writeback \/ Crash
        BY <1>2, <2>2, EnvironmentStep DEF File!Next
    <2>3. CASE UNCHANGED vars
        <3>1. \A d \in Calls : ReportOf(d)' = ReportOf(d)
            BY <2>3 DEF vars, ReportOf
        <3>2. UNCHANGED <<puts, dir.at, disk.at>>
            BY <2>3 DEF vars, fsVars
        <3> QED
            BY <1>2, <3>1, <3>2, UnseenStep
    <2> QED
        BY <1>2, <2>1, <2>2, <2>3 DEF Next, Step
<1>3. Spec => [](IInv /\ Accounts)
    BY Invariance, CallsAreAccountedFor, PTL
<1> QED
    BY <1>1, <1>2, <1>3, PTL DEF Spec, IsAtomicFile, File!Spec
=============================================================================
