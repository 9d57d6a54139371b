---------------------------- MODULE ProjectFiles ----------------------------
(***************************************************************************)
(* The files of a flugo project and the command that is working on them.   *)
(*                                                                         *)
(* A command of the flugo CLI is a list of steps.  Nothing is atomic but a *)
(* step: a signal can end the command between two of them, or inside an    *)
(* os.WriteFile, which truncates the file before it writes.  An I/O error  *)
(* ends the command in the same states as a signal.                        *)
(*                                                                         *)
(* A file is what the commands can tell of it: the developer's own text in *)
(* it, the release whose generated text it carries, the app version, the   *)
(* package and the option it states.                                       *)
(***************************************************************************)
EXTENDS Integers, Sequences

CONSTANTS
    Created,      \* the release of the CLI that created the project
    Installed,    \* the release that is installed now
    AppVersions,  \* versions of the app; the scaffolded one is FirstVersion
    MaxCommands,  \* bound: commands run
    MaxUpsets,    \* bound: changes the developer makes and kills, together
    MaxKills      \* bound: commands killed

Releases == {Created, Installed}
FirstVersion == 1

ASSUME ProjectAssumption ==
    /\ Releases \subseteq Nat \ {0}
    /\ AppVersions \subseteq Nat \ {0} /\ FirstVersion \in AppVersions
    /\ MaxCommands \in Nat /\ MaxUpsets \in Nat /\ MaxKills \in Nat

VARIABLES
    files,  \* the project's files
    bak,    \* their .bak files
    cmd,    \* the command that is running
    count,  \* commands run, edits made, commands killed
    torn    \* a kill has cut a write short

fileVars == <<files, bak, cmd, count, torn>>

\* "hook" stands for main.dart and build.dart, "make" for ffigen.yaml and the Makefile; kt1 and kt2
\* are MainActivity.kt in one or the other package.
Names == {"hook", "titlebar", "make", "ignore", "gomod", "pubspec", "yaml",
          "gradle", "kt1", "kt2"}
Packages == 1..2
Activity(id) == IF id = 1 THEN "kt1" ELSE "kt2"

\* opt is the custom title bar (yaml), the replace directive (gomod), a start marker that has
\* lost its end marker (ignore).
Contents == [here : BOOLEAN, mine : BOOLEAN, gen : {0} \cup Releases,
             ver : {0} \cup AppVersions, id : {0} \cup Packages, opt : BOOLEAN]
Empty == [here |-> TRUE, mine |-> FALSE, gen |-> 0, ver |-> 0, id |-> 0, opt |-> FALSE]
Absent == [Empty EXCEPT !.here = FALSE]
Generated(r) == [Empty EXCEPT !.gen = r]

Steps == {"gradle", "relocate", "hook", "titlebar", "make", "pubspec", "gomod", "yaml",
          "activity", "ignore", "pin", "refs", "stamp", "flutterClean",
          "syncHook", "syncTitlebar", "generate", "version", "tidy",
          "check", "golib", "mark", "flutter", "bundle", "unmark", "jni1", "jni2", "apk",
          "bundled", "assemble", "tarball", "launch", "detect", "remove"}

\* A command: its flags, the steps ahead, where it is inside a step, the file it is
\* moving, the platforms still to build, the source revision it started from, flugo.yaml as it
\* loaded it, all files as it found them, and whether it has created or updated one.
NoFiles == [f \in Names |-> Absent]
Idle == [kind |-> "none", plugins |-> FALSE, todo |-> <<>>, phase |-> "look",
         old |-> "", rest |-> <<>>, since |-> 0, cfg |-> Absent, before |-> NoFiles,
         changed |-> FALSE]
cfg == cmd.cfg
Running == cmd.todo # <<>> \/ cmd.rest # <<>>
Now(step) == cmd.todo # <<>> /\ Head(cmd.todo) = step
\* The command once its present step is done; the last step ends it.
Onward == IF Tail(cmd.todo) = <<>> /\ cmd.rest = <<>> THEN Idle
          ELSE [cmd EXCEPT !.todo = Tail(@), !.phase = "look"]

Changing == [Onward EXCEPT !.changed = TRUE]

Counted(k) == [count EXCEPT ![k] = @ + 1]
Upsettable == count.edits + count.kills < MaxUpsets
Killable == Upsettable /\ count.kills < MaxKills

\* os.WriteFile of a file: it is written and the command goes on as next, or a kill leaves it empty.
WriteFile(f, content, next) ==
    \/ /\ files' = [files EXCEPT ![f] = content]
       /\ cmd' = next
       /\ UNCHANGED <<count, torn>>
    \/ /\ Killable
       /\ files' = [files EXCEPT ![f] = Empty]
       /\ cmd' = Idle /\ count' = Counted("kills") /\ torn' = TRUE

\* applyRendered: a file that is as it should be is skipped, a missing one is created, another one
\* is copied to .bak before it is overwritten.
Skip == /\ cmd' = Onward
        /\ UNCHANGED <<files, bak, count, torn>>
Create(f, content) == /\ ~files[f].here
                      /\ WriteFile(f, content, Changing)
                      /\ UNCHANGED bak
BackUp(f) ==
    /\ files[f].here
    /\ \/ /\ bak' = [bak EXCEPT ![f] = files[f]]
          /\ cmd' = [cmd EXCEPT !.phase = "write"]
          /\ UNCHANGED <<count, torn>>
       \/ /\ Killable
          /\ bak' = [bak EXCEPT ![f] = Empty]
          /\ cmd' = Idle /\ count' = Counted("kills") /\ torn' = TRUE
    /\ UNCHANGED files
Overwrite(f, content) == WriteFile(f, content, Changing) /\ UNCHANGED bak
\* Mutant: no copy before the overwrite.
ApplyRenderedUnsaved(f, content) ==
    \/ files[f] = content /\ Skip
    \/ files[f] # content /\ Overwrite(f, content)
ApplyRendered(f, content) ==
    \/ cmd.phase = "look" /\ files[f] = content /\ Skip
    \/ cmd.phase = "look" /\ files[f] # content /\ (Create(f, content) \/ BackUp(f))
    \/ cmd.phase = "write" /\ Overwrite(f, content)

\* A command starts: findProject, config.Load (an empty flugo.yaml is loaded without an error).
Start(command) ==
    /\ ~Running /\ count.commands < MaxCommands
    /\ files["yaml"].here
    /\ cmd' = command
    /\ count' = Counted("commands")
    /\ UNCHANGED <<files, bak, torn>>
=============================================================================
