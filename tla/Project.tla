------------------------------- MODULE Project -------------------------------
(***************************************************************************)
(* A flugo project over a sequence of commands, with the developer who     *)
(* edits it and the signals that end commands half-way.                    *)
(***************************************************************************)
EXTENDS Build

vars == <<fileVars, updateVars, buildVars>>

\* flugo create: every file is rendered by the release that created the project; the developer may
\* have set the custom title bar, added a local replace and a flugo plugin since.
CreatedFiles(id, custom, replaced, plugin) ==
    [f \in Names |->
        CASE f \in {"hook", "titlebar", "make", "ignore"} -> Generated(Created)
          [] f = "gomod" -> [Generated(Created) EXCEPT !.opt = replaced]
          [] f = "pubspec" -> [Empty EXCEPT !.ver = FirstVersion, !.gen = IF plugin THEN Created ELSE 0]
          [] f = "yaml" -> [Generated(Created) EXCEPT !.ver = FirstVersion, !.id = id, !.opt = custom]
          [] f = "gradle" -> [Empty EXCEPT !.id = id]
          [] f = Activity(id) -> [Generated(Created) EXCEPT !.id = id]
          [] f \in {"kt1", "kt2"} \ {Activity(id)} -> Absent]

Init ==
    /\ \E id \in Packages : files = CreatedFiles(id, id = 1, id = 1, id = 2)
    /\ bak = [f \in Names |-> Absent]
    /\ cmd = Idle
    /\ count = [commands |-> 0, edits |-> 0, kills |-> 0] /\ torn = FALSE
    /\ written = {} /\ failed = FALSE /\ waived = {}
    /\ rev = 1 /\ lib = NoLib /\ bundle = NoBundle /\ marker = FALSE
    /\ jni = <<NoLib, NoLib>> /\ apk = NoApk /\ image = NoImage /\ tarball = NoImage
    /\ started = "nothing"

\* The developer edits between commands, the configuration and the source at any time.
Editing == /\ Upsettable
           /\ count' = Counted("edits")
           /\ UNCHANGED <<bak, cmd, torn, failed>>
Put(f, content) == files' = [files EXCEPT ![f] = content]
Texts == {"hook", "make", "ignore", "gomod", "pubspec"}
EditText(f) ==
    /\ Editing /\ ~Running
    /\ files[f].here /\ ~files[f].mine /\ Put(f, [files[f] EXCEPT !.mine = TRUE])
    /\ written' = written \cup {f}
    /\ UNCHANGED <<waived, buildVars>>
DeleteFile(f) ==
    /\ Editing /\ ~Running
    /\ files[f].here /\ Put(f, Absent)
    /\ written' = written \ {f}
    /\ UNCHANGED <<waived, buildVars>>
LoseEndMarker ==
    /\ Editing /\ ~Running
    /\ files["ignore"].gen # 0 /\ ~files["ignore"].opt
    /\ Put("ignore", [files["ignore"] EXCEPT !.gen = 0, !.opt = TRUE])
    /\ waived' = waived \cup {"ignore"}
    /\ UNCHANGED <<written, buildVars>>
Configure ==
    /\ Editing
    /\ files["yaml"].id # 0
    /\ \/ \E v \in AppVersions \ {files["yaml"].ver} : Put("yaml", [files["yaml"] EXCEPT !.ver = v])
       \/ \E id \in Packages \ {files["yaml"].id} : Put("yaml", [files["yaml"] EXCEPT !.id = id])
    /\ UNCHANGED <<written, waived, buildVars>>
EditSource ==
    /\ Editing
    /\ rev' = rev + 1
    /\ UNCHANGED <<files, written, waived, lib, bundle, marker, jni, apk, image, tarball, started>>

\* A signal between two steps: nothing deferred is run.
Kill ==
    /\ Running /\ Killable
    /\ cmd' = Idle /\ count' = Counted("kills")
    /\ UNCHANGED <<files, bak, torn, updateVars, buildVars>>

Next ==
    \/ UpdateNext /\ UNCHANGED buildVars
    \/ BuildNext
    \/ \E f \in Texts : EditText(f)
    \/ \E f \in {"make", "ignore", "kt1", "kt2"} : DeleteFile(f)
    \/ LoseEndMarker \/ Configure \/ EditSource \/ Kill

Spec == Init /\ [][Next]_vars

-----------------------------------------------------------------------------
Versions == {0} \cup AppVersions
Libs == [ver : Versions, rev : Nat]
Images == [here : BOOLEAN, name : Versions, ver : Versions, libs : SUBSET Libs]
Commands == [kind : {"none", "update"} \cup Targets, plugins : BOOLEAN, todo : Seq(Steps),
             phase : {"look", "write"}, old : {"", "kt1", "kt2"}, rest : Seq(Targets), since : Nat,
             cfg : Contents, before : [Names -> Contents], changed : BOOLEAN]

\* Every variable has its shape.
TypeOK ==
    /\ files \in [Names -> Contents] /\ bak \in [Names -> Contents]
    /\ cmd \in Commands
    /\ count \in [commands : Nat, edits : Nat, kills : Nat]
    /\ written \subseteq Texts /\ waived \subseteq Names
    /\ torn \in BOOLEAN /\ failed \in BOOLEAN /\ marker \in BOOLEAN
    /\ rev \in Nat /\ lib \in Libs /\ jni \in [1..2 -> Libs]
    /\ bundle \in [here : BOOLEAN, ver : Versions, lib : Libs]
    /\ apk \in [here : BOOLEAN, name : Versions, ver : Versions, since : Nat, libs : [1..2 -> Libs]]
    /\ image \in Images /\ tarball \in Images
    /\ started \in {"nothing", "compiled", "without"}

\* One update loses no text of the developer's: at every step of it, also one that fails or is
\* killed, what a file held when it started is in the file or in its .bak - even where --all and
\* the dependency sync rewrite the same file one after the other.
UpdateKeepsEdits ==
    [][\A f \in Texts : cmd.before[f].mine => files'[f].mine \/ bak'[f].mine]_vars

\* flugo_version is stamped last: when an update gets there, however many were interrupted before
\* it, all that flugo owns is of this release and MainActivity.kt is in the package of app.id.
Current ==
    /\ \A f \in {"hook", "make"} \cup (IF cfg.opt THEN {} ELSE {"titlebar"}) : files[f] = Generated(Installed)
    /\ files["ignore"].gen = Installed
    /\ files["gomod"].opt \/ files["gomod"].gen \in {0, Installed}
    /\ cmd.plugins => files["pubspec"].gen \in {0, Installed}
    /\ files["gradle"].id \in {0, cfg.id}
    /\ Activities # {} => files[Activity(cfg.id)] = [Generated(Installed) EXCEPT !.id = cfg.id]
StampIsEarned == Now("stamp") => Current

\* An interrupted update can be run again: only a write that a kill cut short can make a later
\* update refuse (an empty flugo.yaml has no app.id, an empty MainActivity.kt no package).
OnlyTornFilesStopUpdate == failed => torn

\* In the files both write, the developer's text stays in place over any number of updates and
\* builds, unless --all rewrote the file, a write was cut short or the end marker was lost, and
\* except for what the go mod tidy of gen or update drops from go.mod.
SharedFilesKept ==
    ~torn => \A f \in ({"ignore", "gomod", "pubspec"} \cap written) \ waived : files[f].mine

\* A build that completes ships one version and no backend older than its start, whatever failed
\* or was left over before: in the desktop bundle, and in every ABI of the APK.  On an arm64 Linux
\* the desktop bundle has no backend to be old.
Agrees(front, version) == version = 0 \/ front \in {0, version}
BuildsAreFresh ==
    /\ Now("unmark") => /\ Agrees(bundle.ver, cfg.ver)
                        /\ Arch = "x64" => bundle.lib.rev >= cmd.since /\ bundle.lib.ver = cfg.ver
    /\ apk.here => /\ Agrees(apk.ver, apk.name)
                   /\ \A a \in DOMAIN apk.libs :
                         apk.libs[a].rev >= apk.since /\ apk.libs[a].ver = apk.name

\* On an arm64 Linux host bundleGoLib never reaches the bundle of Flutter, so that no build has a
\* backend in it, and no tarball carries one.  This is what the code does, not what it promises.
NoBackendOnArm64 == Arch = "arm64" => bundle.lib = NoLib /\ tarball.libs = {}

\* flugo run has the hook compile the backend, unless a kill left the marker of a build behind.
DevRunCompiles == started = "without" => count.kills > 0

\* appversion.go:72-73: "a build cannot ship a number that differs from flugo.yaml".
AppImageIsCurrent ==
    image.here /\ image.name # 0 =>
        Agrees(image.ver, image.name) /\ \A l \in image.libs : l.ver = image.name

=============================================================================
