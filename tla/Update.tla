------------------------------- MODULE Update -------------------------------
(***************************************************************************)
(* `flugo update` (internal/scaffold/update.go, bundleid.go): the files    *)
(* flugo owns are rendered again from this release's templates, the        *)
(* developer's lines in the files both write are kept, and flugo_version   *)
(* is stamped when everything else is done.  Also SyncConfigFiles, which   *)
(* every build and run begins with.                                        *)
(***************************************************************************)
EXTENDS ProjectFiles

VARIABLES
    written,  \* files with text the developer put in, and neither deleted nor had go mod tidy drop
    failed,   \* the last update returned an error of its own
    waived    \* files whose own text --all, or a lost end marker, no longer protects

updateVars == <<written, failed, waived>>

\* The template's text; the pubspec template has no flugo plugin, the flugo.yaml template states
\* the first version and the default title bar, the go.mod template keeps the local replace.
Rendering(f) ==
    CASE f \in {"hook", "titlebar", "make"} -> Generated(Installed)
      [] f = "pubspec" -> [Empty EXCEPT !.ver = cfg.ver]
      [] f = "gomod" -> [Generated(Installed) EXCEPT !.opt = files["gomod"].opt]
      [] f = "yaml" -> [Generated(Installed) EXCEPT !.ver = FirstVersion, !.id = cfg.id]

Frameworks == IF files["yaml"].opt THEN <<"hook", "make">> ELSE <<"hook", "titlebar", "make">>
\* The other user files (app.dart, main.go, service.go, the packaging files) are rendered the same way.
UserFiles == <<"pubspec", "gomod", "yaml">>

\* Mutant: the stamp comes before the dependencies are synced.
UpdateStepsStampFirst(all, plugins) ==
    <<"gradle", "relocate">> \o Frameworks
        \o (IF all THEN UserFiles ELSE <<>>)
        \o <<"activity", "ignore", "stamp", "pin">>
        \o (IF plugins THEN <<"refs">> ELSE <<>>)
        \o <<"flutterClean">>
UpdateSteps(all, plugins) ==
    <<"gradle", "relocate">> \o Frameworks
        \o (IF all THEN UserFiles ELSE <<>>)
        \o <<"activity", "ignore", "pin">>
        \o (IF plugins THEN <<"refs">> ELSE <<>>)
        \o <<"stamp", "flutterClean">>

\* ValidateForGeneration refuses a configuration without a proper app.id before anything is touched.
StartUpdate(all, plugins) ==
    /\ Start(IF files["yaml"].id = 0 THEN Idle
             ELSE [Idle EXCEPT !.kind = "update", !.plugins = plugins,
                               !.cfg = files["yaml"], !.before = files,
                               !.todo = UpdateSteps(all, plugins)])
    /\ failed' = (files["yaml"].id = 0)
    /\ waived' = waived \cup (IF all THEN {"pubspec", "gomod", "yaml"} ELSE {})
    /\ UNCHANGED written

\* The native identifiers are rewritten in place: build.gradle stands for the manifest, the Xcode
\* projects and AppInfo.xcconfig too.  An empty file has nothing to rewrite.
PatchBundleID ==
    /\ Now("gradle")
    /\ WriteFile("gradle", [files["gradle"] EXCEPT !.id = IF @ = 0 THEN 0 ELSE cfg.id], Onward)
    /\ UNCHANGED <<bak, updateVars>>

\* Both walks take the first MainActivity.kt in lexical order.
Activities == {id \in Packages : files[Activity(id)].here}
FirstActivity == Activity(CHOOSE id \in Activities : \A other \in Activities : id <= other)
Repackaged(content) == [content EXCEPT !.id = IF @ = 0 THEN 0 ELSE cfg.id]

\* relocateMainActivity: the package line is rewritten, the file written where it belongs ...
Relocate ==
    /\ Now("relocate") /\ cmd.phase = "look"
    /\ IF Activities = {} THEN Skip
       ELSE LET moved == Activity(cfg.id)
                next == IF FirstActivity = moved THEN Onward
                        ELSE [cmd EXCEPT !.phase = "write", !.old = FirstActivity]
            IN WriteFile(moved, Repackaged(files[FirstActivity]), next) /\ UNCHANGED bak
    /\ UNCHANGED updateVars

\* ... and then the old one is removed.
RemoveOldActivity ==
    /\ Now("relocate") /\ cmd.phase = "write"
    /\ files' = [files EXCEPT ![cmd.old] = Absent]
    /\ cmd' = Onward
    /\ UNCHANGED <<bak, count, torn, updateVars>>

RenderTemplate ==
    \E f \in {"hook", "titlebar", "make", "pubspec", "gomod", "yaml"} :
        /\ Now(f)
        /\ ApplyRendered(f, Rendering(f))
        /\ UNCHANGED updateVars

\* renderMainActivity takes the package from the file it replaces and fails on one without.
RenderActivity ==
    /\ Now("activity")
    /\ \/ Activities = {} /\ Skip /\ UNCHANGED failed
       \/ /\ Activities # {} /\ files[FirstActivity].id # 0
          /\ ApplyRendered(FirstActivity,
                           [Generated(Installed) EXCEPT !.id = files[FirstActivity].id])
          /\ UNCHANGED failed
       \/ /\ Activities # {} /\ files[FirstActivity].id = 0
          /\ cmd' = Idle /\ failed' = TRUE
          /\ UNCHANGED <<files, bak, count, torn>>
    /\ UNCHANGED <<written, waived>>

\* Mutant: .gitignore is overwritten like the other framework files.
MergedOverwrite(content) == Generated(Installed)

\* mergeGitignore: the block is replaced in place or appended.  Behind a start marker without its
\* end it is appended, and the next merge takes all from that marker to the new end for the block.
Merged(content) ==
    CASE ~content.here -> Generated(Installed)
      [] content.here /\ ~content.opt -> [content EXCEPT !.gen = Installed]
      [] content.opt /\ content.gen = 0 -> [content EXCEPT !.gen = Installed]
      [] content.opt /\ content.gen # 0 -> Generated(Installed)

MergeIgnore ==
    /\ Now("ignore")
    /\ ApplyRendered("ignore", Merged(files["ignore"]))
    /\ UNCHANGED updateVars

\* bumpGoModFlugoRequire and bumpPubspecFlugoRefs: a version that is there is set to the tag.
Pinned(content) == IF content.gen = 0 THEN content ELSE [content EXCEPT !.gen = Installed]
\* go mod tidy rewrites go.mod where it lies, and may drop what the developer required and does not
\* import yet.
TidyGoMod(content, next) ==
    /\ WriteFile("gomod", [content EXCEPT !.mine = FALSE], next)
    /\ written' = written \ {"gomod"}
    /\ UNCHANGED <<bak, failed, waived>>
\* A changed pin is followed by go mod tidy, which --no-sync skips; its failure is a warning.
PinGoMod ==
    /\ Now("pin")
    /\ \/ /\ ApplyRendered("gomod", IF files["gomod"].opt THEN files["gomod"] ELSE Pinned(files["gomod"]))
          /\ UNCHANGED updateVars
       \/ cmd.phase = "write" /\ TidyGoMod(Pinned(files["gomod"]), Changing)
PinPlugins ==
    /\ Now("refs")
    /\ ApplyRendered("pubspec", Pinned(files["pubspec"]))
    /\ UNCHANGED updateVars

\* Mutant: only the stamp is saved.
StampAlone ==
    /\ Now("stamp")
    /\ WriteFile("yaml", Generated(Installed), Onward)
    /\ UNCHANGED <<bak, updateVars>>

\* config.Save writes the loaded configuration back, without the comments of the file.
Stamp ==
    /\ Now("stamp")
    /\ WriteFile("yaml", [cfg EXCEPT !.gen = Installed, !.mine = FALSE], Onward)
    /\ UNCHANGED <<bak, updateVars>>

\* SyncConfigFiles overwrites without a backup.
SyncSteps == IF files["yaml"].opt THEN <<"syncHook">> ELSE <<"syncHook", "syncTitlebar">>
SyncConfigFile ==
    /\ \E f \in {"hook", "titlebar"} :
        /\ Now(IF f = "hook" THEN "syncHook" ELSE "syncTitlebar")
        /\ IF files[f] = Generated(Installed) THEN Skip
           ELSE WriteFile(f, Generated(Installed), Onward) /\ UNCHANGED bak
    /\ UNCHANGED updateVars

UpdateNext ==
    \/ \E all, plugins \in BOOLEAN : StartUpdate(all, plugins)
    \/ PatchBundleID \/ Relocate \/ RemoveOldActivity
    \/ RenderTemplate \/ RenderActivity \/ MergeIgnore
    \/ PinGoMod \/ PinPlugins \/ Stamp
    \/ SyncConfigFile
=============================================================================
