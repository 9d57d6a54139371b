-------------------------------- MODULE Build --------------------------------
(***************************************************************************)
(* `flugo gen`, `build`, `run`, `package` and `clean` (cmd/flugo/main.go,  *)
(* internal/builder, internal/packager): the backend is compiled, Flutter  *)
(* builds the frontend, the library is copied into its bundle, and other   *)
(* commands package what lies there.                                       *)
(*                                                                         *)
(* linux stands for the three desktops, android for the mobile platforms.  *)
(* Every external tool may fail; a failed tool leaves its output, or an    *)
(* incomplete one.                                                         *)
(***************************************************************************)
EXTENDS Update

CONSTANT Arch  \* of a Linux host, as Flutter names it in the path of its bundle; other hosts are as x64
ASSUME ArchAssumption == Arch \in {"x64", "arm64"}

VARIABLES
    rev,      \* revision of the backend's source
    lib,      \* build/linux/libbackend.so
    bundle,   \* Flutter's release bundle, build/linux/<Arch>/release/bundle, and the library in it
    marker,   \* .flugo-skip-backend-hook is there
    jni,      \* the library of each Android ABI
    apk,      \* the APK
    image,    \* the AppImage
    tarball,  \* the package of `flugo package linux`
    started   \* what the last `flugo run linux` started

buildVars == <<rev, lib, bundle, marker, jni, apk, image, tarball, started>>

\* A library: the version stamped into it and the source it was compiled from.
Lib(v, r) == [ver |-> v, rev |-> r]
NoLib == Lib(0, 0)
NoBundle == [here |-> FALSE, ver |-> 0, lib |-> NoLib]
NoApk == [here |-> FALSE, name |-> 0, ver |-> 0, since |-> 0, libs |-> <<NoLib, NoLib>>]
NoImage == [here |-> FALSE, name |-> 0, ver |-> 0, libs |-> {}]

\* Mutant: the backend is compiled while Flutter builds, after the copy.
DesktopStepsLate == <<"mark", "flutter", "bundle", "golib", "unmark">>
DesktopSteps == <<"golib", "mark", "flutter", "bundle", "unmark">>
StepsOf(kind) ==
    CASE kind = "linux" -> <<"check">> \o DesktopSteps
      [] kind = "android" -> <<"check", "jni1", "jni2", "apk">>
      [] kind = "image" -> <<"check", "bundled", "assemble">>
      [] kind = "run" -> <<"check", "launch">>
      [] kind = "runAndroid" -> <<"check", "detect">>
      [] kind = "gen" -> <<"generate", "version", "tidy">>
      [] kind = "package" -> <<"tarball">>
      [] kind = "clean" -> <<"remove">>
      [] kind = "all" -> <<>>
Synced == {"linux", "android", "image", "run", "runAndroid", "all"}

\* build and run first sync the files that depend on the configuration; `build all` then goes
\* through the platforms, and packages the AppImage if its assets are there.
StartBuild(kind, scaffolded) ==
    /\ Start([Idle EXCEPT !.kind = kind, !.since = rev, !.cfg = files["yaml"],
                          !.todo = (IF kind \in Synced THEN SyncSteps ELSE <<>>) \o StepsOf(kind),
                          !.rest = IF kind # "all" THEN <<>>
                                   ELSE IF scaffolded THEN <<"linux", "android", "image">>
                                   ELSE <<"linux", "android">>])
    /\ UNCHANGED <<written, failed, waived, buildVars>>

NextTarget ==
    /\ cmd.todo = <<>> /\ cmd.rest # <<>>
    /\ cmd' = [cmd EXCEPT !.todo = StepsOf(Head(cmd.rest)), !.rest = Tail(@)]
    /\ UNCHANGED <<files, bak, count, torn, updateVars, buildVars>>

\* A step that leaves the project's files alone and goes on, or ends the platform with an error.
Proceed == cmd' = Onward /\ UNCHANGED <<files, bak, count, torn, updateVars>>
GiveUp == /\ cmd' = IF cmd.rest = <<>> THEN Idle ELSE [cmd EXCEPT !.todo = <<>>]
          /\ UNCHANGED <<files, bak, count, torn, updateVars>>

\* gen: Generate only writes generated files.
GenerateBridge ==
    /\ Now("generate")
    /\ Proceed \/ GiveUp
    /\ UNCHANGED buildVars
\* Before it, or the download of the modules after it, fails, go mod tidy may have dropped lines.
Tidy ==
    /\ Now("tidy")
    /\ Proceed \/ GiveUp \/ TidyGoMod(files["gomod"], Onward)
    /\ UNCHANGED buildVars

\* SyncAppVersion: the version line of pubspec.yaml is set to that of flugo.yaml.
SyncAppVersion ==
    /\ Now("version")
    /\ \/ (cfg.ver = 0 \/ files["pubspec"].ver = cfg.ver) /\ Proceed
       \/ cfg.ver # 0 /\ files["pubspec"].ver = 0 /\ GiveUp
       \/ /\ cfg.ver # 0 /\ files["pubspec"].ver \notin {0, cfg.ver}
          /\ WriteFile("pubspec", [files["pubspec"] EXCEPT !.ver = cfg.ver], Onward)
          /\ UNCHANGED <<bak, updateVars>>
    /\ UNCHANGED buildVars

\* CheckAppVersion: no version in either file is nothing to compare.
StaleVersion == cfg.ver # 0 /\ files["pubspec"].ver \notin {0, cfg.ver}
CheckAppVersion ==
    /\ Now("check")
    /\ IF StaleVersion THEN GiveUp ELSE Proceed
    /\ UNCHANGED buildVars

\* go build, stamped with the loaded version; a failed one leaves the library of before.
Compiled == Lib(cfg.ver, rev)
BuildGoShared ==
    /\ Now("golib")
    /\ \/ Proceed /\ lib' = Compiled
       \/ GiveUp /\ UNCHANGED lib
    /\ UNCHANGED <<rev, bundle, marker, jni, apk, image, tarball, started>>

\* buildDesktop: the marker keeps the native-assets hook from compiling a second time, and is
\* removed when the function returns, after an error too.
DropMarker ==
    /\ Now("mark")
    /\ Proceed
    /\ marker' = TRUE
    /\ UNCHANGED <<rev, lib, bundle, jni, apk, image, tarball, started>>
\* Mutant: the marker is removed on success only.
RemoveOnSuccess == marker' = (marker /\ ~Now("unmark"))
DeferredRemove == marker' = FALSE
BuildFlutter ==
    /\ Now("flutter")
    /\ \/ /\ Proceed /\ UNCHANGED marker
          /\ bundle' = [here |-> TRUE, ver |-> files["pubspec"].ver, lib |-> NoLib]
       \/ /\ GiveUp /\ DeferredRemove
          /\ bundle' \in {bundle, NoBundle}
    /\ UNCHANGED <<rev, lib, jni, apk, image, tarball, started>>
\* The library goes into the x64 directory, which is made if Flutter did not.
BundleGoLib ==
    /\ Now("bundle")
    /\ \/ /\ Proceed /\ UNCHANGED marker
          /\ bundle' = IF Arch = "x64" THEN [bundle EXCEPT !.lib = lib] ELSE bundle
       \/ GiveUp /\ DeferredRemove /\ UNCHANGED bundle
    /\ UNCHANGED <<rev, lib, jni, apk, image, tarball, started>>
FinishDesktop ==
    /\ Now("unmark")
    /\ Proceed /\ DeferredRemove
    /\ UNCHANGED <<rev, lib, bundle, jni, apk, image, tarball, started>>

\* buildAndroid compiles for one ABI after another and stops at the first error.
BuildABI ==
    /\ \E a \in 1..2 :
          /\ Now(IF a = 1 THEN "jni1" ELSE "jni2")
          /\ \/ Proceed /\ jni' = [jni EXCEPT ![a] = Compiled]
             \/ GiveUp /\ UNCHANGED jni
    /\ UNCHANGED <<rev, lib, bundle, marker, apk, image, tarball, started>>
BuildApk ==
    /\ Now("apk")
    /\ \/ /\ Proceed
          /\ apk' = [here |-> TRUE, name |-> cfg.ver, ver |-> files["pubspec"].ver,
                     since |-> cmd.since, libs |-> jni]
       \/ GiveUp /\ UNCHANGED apk
    /\ UNCHANGED <<rev, lib, bundle, marker, jni, image, tarball, started>>

\* runAndroid compiles for the ABI of the device only.
BuildDeviceABI ==
    /\ Now("detect")
    /\ \/ \E a \in 1..2 : Proceed /\ jni' = [jni EXCEPT ![a] = Compiled]
       \/ GiveUp /\ UNCHANGED jni
    /\ UNCHANGED <<rev, lib, bundle, marker, apk, image, tarball, started>>

\* runFlutter: the hook compiles the backend, unless it finds the marker.
RunFlutter ==
    /\ Now("launch")
    /\ \/ Proceed /\ started' = IF marker THEN "without" ELSE "compiled"
       \/ GiveUp /\ UNCHANGED started
    /\ UNCHANGED <<rev, lib, bundle, marker, jni, apk, image, tarball>>

\* buildAppImage: linux is built only if there is no bundle at all.
NeedBundle ==
    /\ Now("bundled")
    /\ cmd' = IF bundle.here THEN Onward
              ELSE [cmd EXCEPT !.todo = DesktopSteps \o Tail(@)]
    /\ UNCHANGED <<files, bak, count, torn, updateVars, buildVars>>
Assemble ==
    /\ Now("assemble")
    /\ \/ /\ bundle.here /\ lib # NoLib
          /\ Proceed
          /\ image' = [here |-> TRUE, name |-> cfg.ver, ver |-> bundle.ver,
                       libs |-> {bundle.lib, lib} \ {NoLib}]
       \/ GiveUp /\ UNCHANGED image
    /\ UNCHANGED <<rev, lib, bundle, marker, jni, apk, tarball, started>>

\* packageLinux takes the bundle as it is.
PackageLinux ==
    /\ Now("tarball")
    /\ \/ /\ bundle.here /\ Proceed
          /\ tarball' = [here |-> TRUE, name |-> cfg.ver, ver |-> bundle.ver,
                         libs |-> {bundle.lib} \ {NoLib}]
       \/ GiveUp /\ UNCHANGED tarball
    /\ UNCHANGED <<rev, lib, bundle, marker, jni, apk, image, started>>

\* clean removes both build directories; the libraries under jniLibs are not in them.  An update
\* that changed a file ends with flutter clean, which may fail.
RemoveBuild == lib' = NoLib /\ image' = NoImage /\ tarball' = NoImage
RemoveFrontendBuild == bundle' = NoBundle /\ apk' = NoApk
KeepBuild == UNCHANGED <<lib, image, tarball>>
KeepFrontendBuild == UNCHANGED <<bundle, apk>>
Clean ==
    /\ Now("remove")
    /\ \/ Proceed /\ RemoveBuild /\ RemoveFrontendBuild
       \/ GiveUp /\ (RemoveBuild \/ KeepBuild) /\ (RemoveFrontendBuild \/ KeepFrontendBuild)
    /\ UNCHANGED <<rev, marker, jni, started>>
FlutterClean ==
    /\ Now("flutterClean")
    /\ Proceed
    /\ KeepFrontendBuild \/ (cmd.changed /\ RemoveFrontendBuild)
    /\ UNCHANGED <<rev, lib, marker, jni, image, tarball, started>>

Targets == {"linux", "android", "image", "run", "runAndroid", "all", "gen", "package", "clean"}
BuildNext ==
    \/ \E kind \in Targets, scaffolded \in BOOLEAN : StartBuild(kind, scaffolded)
    \/ NextTarget \/ GenerateBridge \/ SyncAppVersion \/ Tidy \/ CheckAppVersion
    \/ BuildGoShared \/ DropMarker \/ BuildFlutter \/ BundleGoLib \/ FinishDesktop
    \/ BuildABI \/ BuildApk \/ BuildDeviceABI \/ RunFlutter
    \/ NeedBundle \/ Assemble \/ PackageLinux \/ Clean \/ FlutterClean
=============================================================================
