--------------------------- MODULE ProjectProofs ---------------------------
(***************************************************************************)
(* Theorems about Project: for any number of commands, edits and kills.    *)
(*                                                                         *)
(* A command is a list of steps still to do, so what holds at a step       *)
(* depends on how the command got there.  Chain says that each step is one *)
(* that may follow the one before, and Sorted that the steps of an update  *)
(* are those of UpdatePlaces and are taken by nothing else.  With the type *)
(* invariant these are inductive, and every other part stands on them:     *)
(*                                                                         *)
(*   Named      a package is named wherever an update reads one            *)
(*   Kept       the developer's text is in the files that are shared       *)
(*   Backed     what a step is about to overwrite has been copied          *)
(*   EditsSafe  what an update found is in the file, or in the copy of a   *)
(*              file that no later step of it changes                      *)
(*   Earned     what is past in an update is settled, and stays so         *)
(*   Fresh      what a build has made so far is of its version and source  *)
(*   Marked     the marker is there while Flutter builds, or after a kill  *)
(*                                                                         *)
(* EditsSafe is stronger than the property it is for: a copy alone may be  *)
(* overwritten by the next rendering of the same file, so it only counts   *)
(* when the file is done.                                                  *)
(***************************************************************************)
EXTENDS Project, SequenceTheorems, TLAPS

\* The step the command is at.
PlaceOf(c) == IF c.todo = <<>> THEN "end" ELSE Head(c.todo)
place == PlaceOf(cmd)

Rewritten == {"pubspec", "gomod", "yaml"}
UpdatePlaces == {"gradle", "relocate", "hook", "titlebar", "make", "pubspec", "gomod", "yaml",
                 "activity", "ignore", "pin", "refs", "stamp", "flutterClean"}

\* Where command c can be after step s; w are the files that are waived.
Follow(c, w, s) ==
    CASE s = "gradle" -> {"relocate"}
      [] s = "relocate" -> {"hook"}
      [] s = "hook" -> IF c.cfg.opt THEN {"make"} ELSE {"titlebar"}
      [] s = "titlebar" -> {"make"}
      [] s = "make" -> IF Rewritten \subseteq w THEN {"pubspec", "activity"} ELSE {"activity"}
      [] s = "pubspec" -> {"gomod"}
      [] s = "gomod" -> {"yaml"}
      [] s = "yaml" -> {"activity"}
      [] s = "activity" -> {"ignore"}
      [] s = "ignore" -> {"pin"}
      [] s = "pin" -> IF c.plugins THEN {"refs"} ELSE {"stamp"}
      [] s = "refs" -> {"stamp"}
      [] s = "stamp" -> {"flutterClean"}
      [] s = "syncHook" -> {"syncTitlebar", "check", "end"}
      [] s = "syncTitlebar" -> {"check", "end"}
      [] s = "check" -> {"golib", "jni1", "bundled", "launch", "detect"}
      [] s = "golib" -> {"mark"}
      [] s = "mark" -> {"flutter"}
      [] s = "flutter" -> {"bundle"}
      [] s = "bundle" -> {"unmark"}
      [] s = "unmark" -> {"assemble", "end"}
      [] s = "bundled" -> {"assemble"}
      [] s = "jni1" -> {"jni2"}
      [] s = "jni2" -> {"apk"}
      [] s = "generate" -> {"version"}
      [] s = "version" -> {"tidy"}
      [] s \in {"flutterClean", "assemble", "apk", "launch", "detect", "tidy", "tarball", "remove"} -> {"end"}

\* The steps q of command c are a chain that leads to last.
Leads(c, w, q, last) ==
    \A i \in 1..Len(q) : (IF i < Len(q) THEN q[i + 1] ELSE last) \in Follow(c, w, q[i])
Chain == Leads(cmd, waived, cmd.todo, "end")

Sorted ==
    /\ cmd.kind = "update" => place \in UpdatePlaces /\ cmd.rest = <<>>
    /\ cmd.kind # "update" => place \notin UpdatePlaces /\ cmd.before = NoFiles
    /\ place \in Rewritten => Rewritten \subseteq waived
    /\ place = "titlebar" => ~cfg.opt
    /\ \A i \in DOMAIN cmd.rest : cmd.rest[i] \in {"linux", "android", "image"}

\* What a command keeps while it goes on.
Same(d) ==
    /\ d.kind = cmd.kind /\ d.plugins = cmd.plugins /\ d.rest = cmd.rest
    /\ d.since = cmd.since /\ d.cfg = cmd.cfg /\ d.before = cmd.before
Ended(d) ==
    /\ d.kind = "none" /\ d.todo = <<>> /\ d.rest = <<>>
    /\ d.since = 0 /\ d.cfg = Absent /\ d.before = NoFiles

\* What a step makes of the command: it stays, goes on, ends, or halts in the middle of an update
\* step; a platform is given up; the next one, or a desktop build, or another command begins.
Backs(old) == cmd' = [cmd EXCEPT !.phase = "write", !.old = old]
Moves ==
    \/ cmd' = cmd /\ waived \subseteq waived' /\ (waived' = waived \/ cmd.todo = <<>>)
    \/ waived' = waived /\ cmd.todo # <<>> /\ cmd' \in {Onward, Changing}
    \/ waived' = waived /\ cmd' = Idle
    \/ /\ waived' = waived /\ cmd.todo # <<>>
       /\ \E old \in {"", "kt1", "kt2"} : Backs(old)
    \/ /\ waived' = waived /\ cmd.todo # <<>> /\ place \notin UpdatePlaces
       /\ cmd' = [cmd EXCEPT !.todo = <<>>]
    \/ NextTarget
    \/ NeedBundle /\ ~bundle.here
    \/ \E all, plugins \in BOOLEAN : StartUpdate(all, plugins)
    \/ \E kind \in Targets, scaffolded \in BOOLEAN : StartBuild(kind, scaffolded)

\* The same for the steps of a build, and for the flutter clean that ends an update.
BuildMove ==
    \/ /\ waived' = waived /\ cmd.todo # <<>> /\ place \notin UpdatePlaces \ {"flutterClean"}
       /\ cmd' = Onward
    \/ waived' = waived /\ cmd' = Idle
    \/ /\ waived' = waived /\ cmd.todo # <<>> /\ place \notin UpdatePlaces
       /\ cmd' = [cmd EXCEPT !.todo = <<>>]
    \/ NextTarget
    \/ NeedBundle /\ ~bundle.here
    \/ \E kind \in Targets, scaffolded \in BOOLEAN : StartBuild(kind, scaffolded)

\* Unless a write was cut short, the configuration and every MainActivity.kt that is there name a
\* package, and the configuration of an update always does.
Named ==
    /\ cmd.kind = "update" => cfg.id # 0
    /\ ~torn => /\ files["yaml"].id # 0
                /\ \A id \in Packages : files[Activity(id)].here => files[Activity(id)].id # 0

\* A file with text of the developer's is there, and the developer's text stays in the shared ones.
MineIsHere == \A f \in Texts : files[f].mine => files[f].here
Kept == (files["ignore"].opt => "ignore" \in waived) /\ SharedFilesKept

Shared == {"ignore", "gomod", "pubspec"}

\* The file that a rendering step is about.
Target(s) == IF s = "pin" THEN "gomod" ELSE IF s = "refs" THEN "pubspec" ELSE s

\* The order in which an update goes through its steps.
Order(s) ==
    CASE s = "gradle" -> 1
      [] s = "relocate" -> 2
      [] s = "hook" -> 3
      [] s = "titlebar" -> 4
      [] s = "make" -> 5
      [] s = "pubspec" -> 6
      [] s = "gomod" -> 7
      [] s = "yaml" -> 8
      [] s = "activity" -> 9
      [] s = "ignore" -> 10
      [] s = "pin" -> 11
      [] s = "refs" -> 12
      [] s = "stamp" -> 13
      [] s = "flutterClean" -> 14
      [] s \notin UpdatePlaces -> 0
Past(s, t) == Order(t) < Order(s)

\* Text f of the developer's is done at step s: no later step of the update can change it any more.
Pinless(content) == content.gen \in {0, Installed}
DoneAt(f, s, content) ==
    CASE f = "hook" -> Past(s, "hook")
      [] f = "make" -> Past(s, "make")
      [] f = "ignore" -> Past(s, "ignore")
      [] f = "gomod" -> Past(s, "gomod") /\ Pinless(content)
      [] f = "pubspec" -> Past(s, "pubspec") /\ Pinless(content)
Done(f) == DoneAt(f, place, files[f])

\* A copy is of the file that is about to be overwritten, and what the developer had written is in
\* the file, or in the copy of a file that is done.
Backed == cmd.phase = "write" /\ Target(place) \in Texts => bak[Target(place)] = files[Target(place)]
EditsSafe == \A f \in Texts : cmd.before[f].mine => files[f].mine \/ (bak[f].mine /\ Done(f))

\* What a step of an update has settled, and still holds when it is past.
HasActivity == files["kt1"].here \/ files["kt2"].here
Moved == HasActivity => /\ files["kt1"].here <=> Activity(cfg.id) = "kt1"
                        /\ files[Activity(cfg.id)].id \in {0, cfg.id}
Settling == {"gradle", "relocate", "hook", "titlebar", "make", "activity", "ignore", "pin", "refs"}
Fact(s) ==
    CASE s = "gradle" -> files["gradle"].id \in {0, cfg.id}
      [] s = "relocate" -> Moved
      [] s \in {"hook", "make"} -> files[s] = Generated(Installed)
      [] s = "titlebar" -> cfg.opt \/ files["titlebar"] = Generated(Installed)
      [] s = "activity" -> HasActivity =>
                               files[Activity(cfg.id)] = [Generated(Installed) EXCEPT !.id = cfg.id]
      [] s = "ignore" -> files["ignore"].gen = Installed
      [] s = "pin" -> files["gomod"].opt \/ Pinless(files["gomod"])
      [] s = "refs" -> cmd.plugins => Pinless(files["pubspec"])
Moving == place = "relocate" /\ cmd.phase = "write" =>
              /\ cmd.old \in {"kt1", "kt2"} \ {Activity(cfg.id)}
              /\ files[Activity(cfg.id)].here /\ files[Activity(cfg.id)].id \in {0, cfg.id}
Earned == Moving /\ \A s \in Settling : Past(place, s) => Fact(s)
FilesOf(s) == CASE s \in {"relocate", "activity"} -> {"kt1", "kt2"}
                [] s = "pin" -> {"gomod"}
                [] s = "refs" -> {"pubspec"}
                [] s \notin {"relocate", "activity", "pin", "refs"} -> {s}

\* What a build has made so far is fresh.  BuildPlaces are the steps that rely on it, Opening those
\* that lead there.
BuildPlaces == {"golib", "mark", "flutter", "bundle", "unmark", "jni1", "jni2", "apk", "bundled"}
Opening == {"check", "golib", "mark", "flutter", "bundle", "jni1", "jni2"}
FreshLib(l) == l.rev >= cmd.since /\ l.ver = cfg.ver
VersionAgrees == cfg.ver = 0 \/ files["pubspec"].ver \in {0, cfg.ver}
Making ==
    /\ place \in BuildPlaces \ {"bundle", "unmark"} => VersionAgrees
    /\ place \in {"mark", "flutter", "bundle"} => FreshLib(lib)
    /\ place \in {"bundle", "unmark"} => Agrees(bundle.ver, cfg.ver)
    /\ place = "unmark" /\ Arch = "x64" => FreshLib(bundle.lib)
    /\ place \in {"jni2", "apk"} => FreshLib(jni[1])
    /\ place = "apk" => FreshLib(jni[2])
ApkFresh ==
    apk.here => /\ Agrees(apk.ver, apk.name)
                /\ \A a \in 1..2 : apk.libs[a].rev >= apk.since /\ apk.libs[a].ver = apk.name
Fresh == rev >= cmd.since /\ Making /\ ApkFresh

\* The marker is there while Flutter builds, and after a kill.
Building == {"flutter", "bundle", "unmark"}
Marked == (marker => count.kills > 0 \/ place \in Building) /\ DevRunCompiles

USE ProjectAssumption

-----------------------------------------------------------------------------
\* The steps of a command: the head is the first one, and the tail is again a sequence of steps.
LEMMA HeadIsFirst ==
    ASSUME NEW q \in Seq(Steps), q # <<>>
    PROVE  Head(q) = q[1] /\ Len(q) # 0 /\ Head(q) \in Steps /\ Tail(q) \in Seq(Steps)
<1>1. Len(q) # 0
  BY EmptySeq
<1>2. Head(q) = q[1]
  OBVIOUS
<1> QED
  BY <1>1, <1>2, HeadTailProperties

\* A chain without its first step is a chain, and the next step is one that may follow.
LEMMA LeadsOn ==
    ASSUME NEW c, NEW w, NEW q \in Seq(Steps), q # <<>>, NEW last, Leads(c, w, q, last)
    PROVE  /\ Leads(c, w, Tail(q), last)
           /\ (IF Tail(q) = <<>> THEN last ELSE Head(Tail(q))) \in Follow(c, w, Head(q))
<1>1. /\ Len(q) \in Nat \ {0} /\ Tail(q) \in Seq(Steps) /\ Len(Tail(q)) = Len(q) - 1
      /\ \A i \in 1..Len(Tail(q)) : Tail(q)[i] = q[i + 1]
  BY HeadTailProperties, LenProperties, EmptySeq
<1>2. Head(q) = q[1] /\ (Tail(q) # <<>> => Head(Tail(q)) = Tail(q)[1] /\ Len(Tail(q)) # 0)
  <2>1. \A r \in Seq(Steps) : r # <<>> => Head(r) = r[1] /\ Len(r) # 0
    BY HeadIsFirst, Zenon
  <2> DEFINE r == Tail(q)
  <2>2. r \in Seq(Steps)
    BY <1>1
  <2> HIDE DEF r
  <2>3. r # <<>> => Head(r) = r[1] /\ Len(r) # 0
    BY <2>1, <2>2, Zenon
  <2>4. Head(q) = q[1]
    BY <2>1, Zenon
  <2> QED
    BY <2>3, <2>4, Zenon DEF r
<1>3. Tail(q) = <<>> => Len(q) = 1
  <2> DEFINE r == Tail(q)
  <2>1. Len(r) = Len(q) - 1 /\ Len(q) \in Nat
    BY <1>1
  <2> HIDE DEF r
  <2>2. r = <<>> => Len(r) = 0
    OBVIOUS
  <2> QED
    BY <2>1, <2>2 DEF r
<1>4. Leads(c, w, Tail(q), last)
  <2> SUFFICES ASSUME NEW i \in 1..Len(Tail(q))
               PROVE (IF i < Len(Tail(q)) THEN Tail(q)[i + 1] ELSE last) \in Follow(c, w, Tail(q)[i])
    BY DEF Leads
  <2>1. i + 1 \in 1..Len(q) /\ Tail(q)[i] = q[i + 1] /\ (i < Len(Tail(q)) <=> i + 1 < Len(q))
    BY <1>1
  <2>2. i < Len(Tail(q)) => Tail(q)[i + 1] = q[(i + 1) + 1]
    BY <1>1
  <2>3. (IF i + 1 < Len(q) THEN q[(i + 1) + 1] ELSE last) \in Follow(c, w, q[i + 1])
    BY <2>1 DEF Leads
  <2> QED
    BY <2>1, <2>2, <2>3
<1>5. (IF 1 < Len(q) THEN q[1 + 1] ELSE last) \in Follow(c, w, q[1])
  BY <1>1 DEF Leads
<1>6. CASE Tail(q) = <<>>
  BY <1>2, <1>3, <1>4, <1>5, <1>6
<1>7. CASE Tail(q) # <<>>
  <2>1. Len(Tail(q)) >= 1 /\ 1 < Len(q) /\ Tail(q)[1] = q[1 + 1]
    BY <1>1, <1>2, <1>7
  <2> QED
    BY <1>2, <1>4, <1>5, <1>7, <2>1
<1> QED
  BY <1>6, <1>7

\* Two chains make one when the first leads to where the second starts.
LEMMA LeadsJoin ==
    ASSUME NEW c, NEW w, NEW p \in Seq(Steps), NEW q \in Seq(Steps), NEW next, NEW last,
           Leads(c, w, p, next), Leads(c, w, q, last),
           next = IF q = <<>> THEN last ELSE Head(q)
    PROVE  Leads(c, w, p \o q, last) /\ p \o q \in Seq(Steps)
<1>1. /\ p \o q \in Seq(Steps) /\ Len(p) \in Nat /\ Len(q) \in Nat /\ Len(p \o q) = Len(p) + Len(q)
      /\ \A i \in 1..(Len(p) + Len(q)) : (p \o q)[i] = IF i <= Len(p) THEN p[i] ELSE q[i - Len(p)]
  BY ConcatProperties, LenProperties
<1>2. (q = <<>> => Len(q) = 0) /\ (q # <<>> => Len(q) > 0 /\ Head(q) = q[1])
  BY EmptySeq, <1>1
<1> SUFFICES ASSUME NEW i \in 1..Len(p \o q)
             PROVE (IF i < Len(p \o q) THEN (p \o q)[i + 1] ELSE last) \in Follow(c, w, (p \o q)[i])
  BY <1>1 DEF Leads
<1>3. CASE i < Len(p)
  <2>1. /\ i \in 1..Len(p) /\ i < Len(p \o q)
        /\ (p \o q)[i] = p[i] /\ (p \o q)[i + 1] = p[i + 1]
    BY <1>1, <1>3
  <2>2. (IF i < Len(p) THEN p[i + 1] ELSE next) \in Follow(c, w, p[i])
    BY <2>1 DEF Leads
  <2> QED
    BY <1>3, <2>1, <2>2
<1>4. CASE i = Len(p)
  <2>1. i \in 1..Len(p) /\ (p \o q)[i] = p[i] /\ ~(i < Len(p))
    BY <1>1, <1>4
  <2>2. (IF i < Len(p) THEN p[i + 1] ELSE next) \in Follow(c, w, p[i])
    BY <2>1 DEF Leads
  <2>3. CASE q = <<>>
    <3>1. ~(i < Len(p \o q))
      BY <1>1, <1>2, <1>4, <2>3
    <3> QED
      BY <2>1, <2>2, <2>3, <3>1
  <2>4. CASE q # <<>>
    <3>1. i < Len(p \o q) /\ (p \o q)[i + 1] = q[1]
      BY <1>1, <1>2, <1>4, <2>4
    <3> QED
      BY <1>2, <2>1, <2>2, <2>4, <3>1
  <2> QED
    BY <2>3, <2>4
<1>5. CASE i > Len(p)
  <2>1. /\ i - Len(p) \in 1..Len(q) /\ (p \o q)[i] = q[i - Len(p)]
        /\ (i < Len(p \o q) <=> i - Len(p) < Len(q))
    BY <1>1, <1>5
  <2>2. i < Len(p \o q) => (p \o q)[i + 1] = q[(i - Len(p)) + 1]
    BY <1>1, <1>5
  <2>3. (IF i - Len(p) < Len(q) THEN q[(i - Len(p)) + 1] ELSE last) \in Follow(c, w, q[i - Len(p)])
    BY <2>1 DEF Leads
  <2> QED
    BY <2>1, <2>2, <2>3
<1> QED
  BY <1>1, <1>3, <1>4, <1>5

\* The steps of an update are a chain, with --all and --plugins or without.
LEMMA UpdateIsChain ==
    ASSUME NEW c \in Commands, NEW w, NEW all \in BOOLEAN, all => Rewritten \subseteq w,
           c.cfg.opt = files["yaml"].opt
    PROVE  /\ UpdateSteps(all, c.plugins) \in Seq(Steps)
           /\ Leads(c, w, UpdateSteps(all, c.plugins), "end")
<1> DEFINE user == IF all THEN UserFiles ELSE <<>>
           refs == IF c.plugins THEN <<"refs">> ELSE <<>>
           mid == IF all THEN "pubspec" ELSE "activity"
           tagged == IF c.plugins THEN "refs" ELSE "stamp"
<1>1. <<"gradle", "relocate">> \in Seq(Steps) /\ Leads(c, w, <<"gradle", "relocate">>, "hook")
  BY DEF Leads, Follow, Steps
<1>2. Frameworks \in Seq(Steps) /\ Frameworks # <<>> /\ Head(Frameworks) = "hook" /\ Leads(c, w, Frameworks, mid)
  <2>1. CASE files["yaml"].opt
    <3>1. Frameworks = <<"hook", "make">>
      BY <2>1 DEF Frameworks
    <3>2. <<"hook", "make">> \in Seq(Steps) /\ Leads(c, w, <<"hook", "make">>, mid)
      BY <2>1 DEF Leads, Follow, Steps
    <3> QED
      BY <3>1, <3>2
  <2>2. CASE ~files["yaml"].opt
    <3>1. Frameworks = <<"hook", "titlebar", "make">>
      BY <2>2 DEF Frameworks
    <3>2. <<"hook", "titlebar", "make">> \in Seq(Steps) /\ Leads(c, w, <<"hook", "titlebar", "make">>, mid)
      BY <2>2 DEF Leads, Follow, Steps
    <3> QED
      BY <3>1, <3>2
  <2> QED
    BY <2>1, <2>2
<1>3. user \in Seq(Steps) /\ Leads(c, w, user, "activity") /\ mid = IF user = <<>> THEN "activity" ELSE Head(user)
  <2>1. <<>> \in Seq(Steps) /\ Leads(c, w, <<>>, "activity")
    BY DEF Leads
  <2>2. UserFiles \in Seq(Steps) /\ UserFiles # <<>> /\ Leads(c, w, UserFiles, "activity") /\ Head(UserFiles) = "pubspec"
    BY DEF Leads, Follow, Steps, UserFiles
  <2> QED
    BY <2>1, <2>2
<1>4. <<"activity", "ignore", "pin">> \in Seq(Steps) /\ Leads(c, w, <<"activity", "ignore", "pin">>, tagged)
  BY DEF Leads, Follow, Steps
<1>5. refs \in Seq(Steps) /\ Leads(c, w, refs, "stamp") /\ tagged = IF refs = <<>> THEN "stamp" ELSE Head(refs)
  <2>1. <<>> \in Seq(Steps) /\ Leads(c, w, <<>>, "stamp")
    BY DEF Leads
  <2>2. <<"refs">> \in Seq(Steps) /\ <<"refs">> # <<>> /\ Leads(c, w, <<"refs">>, "stamp") /\ Head(<<"refs">>) = "refs"
    BY DEF Leads, Follow, Steps
  <2> QED
    BY <2>1, <2>2
<1>6. <<"stamp", "flutterClean">> \in Seq(Steps) /\ Leads(c, w, <<"stamp", "flutterClean">>, "end")
  BY DEF Leads, Follow, Steps
<1>7. UpdateSteps(all, c.plugins) =
        ((((<<"gradle", "relocate">> \o Frameworks) \o user) \o <<"activity", "ignore", "pin">>) \o refs)
            \o <<"stamp", "flutterClean">>
  BY DEF UpdateSteps
<1> DEFINE s1 == <<"gradle", "relocate">> \o Frameworks
           s2 == s1 \o user
           s3 == s2 \o <<"activity", "ignore", "pin">>
           s4 == s3 \o refs
<1> HIDE DEF user, refs, mid, tagged
<1>11. s1 \in Seq(Steps) /\ Leads(c, w, s1, mid)
  BY <1>1, <1>2, LeadsJoin
<1>12. s2 \in Seq(Steps) /\ Leads(c, w, s2, "activity")
  <2> HIDE DEF s1
  <2> QED
    BY <1>3, <1>11, LeadsJoin DEF s2
<1>13. s3 \in Seq(Steps) /\ Leads(c, w, s3, tagged)
  <2> HIDE DEF s2
  <2>1. /\ <<"activity", "ignore", "pin">> # <<>>
        /\ Head(<<"activity", "ignore", "pin">>) = "activity"
    OBVIOUS
  <2> QED
    BY <1>4, <1>12, <2>1, LeadsJoin DEF s3
<1>14. s4 \in Seq(Steps) /\ Leads(c, w, s4, "stamp")
  <2> HIDE DEF s3
  <2> QED
    BY <1>5, <1>13, LeadsJoin DEF s4
<1>15. /\ s4 \o <<"stamp", "flutterClean">> \in Seq(Steps)
       /\ Leads(c, w, s4 \o <<"stamp", "flutterClean">>, "end")
  <2> HIDE DEF s4
  <2>1. <<"stamp", "flutterClean">> # <<>> /\ Head(<<"stamp", "flutterClean">>) = "stamp"
    OBVIOUS
  <2> QED
    BY <1>6, <1>14, <2>1, LeadsJoin
<1> QED
  BY <1>7, <1>15

\* The steps of a build lead to its end, and so do those of a desktop build that the AppImage needs.
LEMMA BuildIsChain ==
    ASSUME NEW c, NEW w, NEW kind \in Targets
    PROVE  /\ StepsOf(kind) \in Seq(Steps) /\ Leads(c, w, StepsOf(kind), "end")
           /\ kind = "all" => StepsOf(kind) = <<>>
           /\ kind # "all" =>
                /\ StepsOf(kind) # <<>>
                /\ Head(StepsOf(kind)) \in IF kind \in Synced THEN {"check"}
                                            ELSE {"generate", "tarball", "remove"}
<1>1. CASE kind = "linux"
  <2>1. StepsOf(kind) = <<"check">> \o DesktopSteps
    BY <1>1 DEF StepsOf
  <2>2. /\ <<"check">> \in Seq(Steps) /\ Leads(c, w, <<"check">>, "golib")
        /\ DesktopSteps \in Seq(Steps) /\ Leads(c, w, DesktopSteps, "end")
        /\ DesktopSteps # <<>> /\ Head(DesktopSteps) = "golib"
    <3>1. <<"check">> \in Seq(Steps) /\ DesktopSteps \in Seq(Steps)
      BY DEF Steps, DesktopSteps
    <3>2. Leads(c, w, <<"check">>, "golib")
      BY DEF Leads, Follow
    <3>3. Leads(c, w, DesktopSteps, "end")
      BY DEF Leads, Follow, DesktopSteps
    <3> QED
      BY <3>1, <3>2, <3>3 DEF DesktopSteps
  <2>3. Leads(c, w, <<"check">> \o DesktopSteps, "end") /\ <<"check">> \o DesktopSteps \in Seq(Steps)
    BY <2>2, LeadsJoin
  <2>4. <<"check">> \o DesktopSteps # <<>> /\ Head(<<"check">> \o DesktopSteps) = "check"
    BY <2>2
  <2> QED
    BY <1>1, <2>1, <2>3, <2>4 DEF Synced
<1>2. CASE kind = "android"
  <2> DEFINE q == <<"check", "jni1", "jni2", "apk">>
  <2>1. StepsOf(kind) = q
    BY <1>2 DEF StepsOf
  <2>2. q \in Seq(Steps) /\ Leads(c, w, q, "end") /\ q # <<>> /\ Head(q) = "check"
    BY DEF Leads, Follow, Steps
  <2> QED
    BY <1>2, <2>1, <2>2 DEF Synced
<1>3. CASE kind = "image"
  <2> DEFINE q == <<"check", "bundled", "assemble">>
  <2>1. StepsOf(kind) = q
    BY <1>3 DEF StepsOf
  <2>2. q \in Seq(Steps) /\ Leads(c, w, q, "end") /\ q # <<>> /\ Head(q) = "check"
    BY DEF Leads, Follow, Steps
  <2> QED
    BY <1>3, <2>1, <2>2 DEF Synced
<1>4. CASE kind = "run"
  <2> DEFINE q == <<"check", "launch">>
  <2>1. StepsOf(kind) = q
    BY <1>4 DEF StepsOf
  <2>2. q \in Seq(Steps) /\ Leads(c, w, q, "end") /\ q # <<>> /\ Head(q) = "check"
    BY DEF Leads, Follow, Steps
  <2> QED
    BY <1>4, <2>1, <2>2 DEF Synced
<1>5. CASE kind = "runAndroid"
  <2> DEFINE q == <<"check", "detect">>
  <2>1. StepsOf(kind) = q
    BY <1>5 DEF StepsOf
  <2>2. q \in Seq(Steps) /\ Leads(c, w, q, "end") /\ q # <<>> /\ Head(q) = "check"
    BY DEF Leads, Follow, Steps
  <2> QED
    BY <1>5, <2>1, <2>2 DEF Synced
<1>6. CASE kind = "gen"
  <2> DEFINE q == <<"generate", "version", "tidy">>
  <2>1. StepsOf(kind) = q
    BY <1>6 DEF StepsOf
  <2>2. q \in Seq(Steps) /\ Leads(c, w, q, "end") /\ q # <<>> /\ Head(q) = "generate"
    BY DEF Leads, Follow, Steps
  <2> QED
    BY <1>6, <2>1, <2>2 DEF Synced
<1>7. CASE kind = "package"
  <2> DEFINE q == <<"tarball">>
  <2>1. StepsOf(kind) = q
    BY <1>7 DEF StepsOf
  <2>2. q \in Seq(Steps) /\ Leads(c, w, q, "end") /\ q # <<>> /\ Head(q) = "tarball"
    BY DEF Leads, Follow, Steps
  <2> QED
    BY <1>7, <2>1, <2>2 DEF Synced
<1>8. CASE kind = "clean"
  <2> DEFINE q == <<"remove">>
  <2>1. StepsOf(kind) = q
    BY <1>8 DEF StepsOf
  <2>2. q \in Seq(Steps) /\ Leads(c, w, q, "end") /\ q # <<>> /\ Head(q) = "remove"
    BY DEF Leads, Follow, Steps
  <2> QED
    BY <1>8, <2>1, <2>2 DEF Synced
<1>9. CASE kind = "all"
  <2>1. StepsOf(kind) = <<>>
    BY <1>9 DEF StepsOf
  <2>2. <<>> \in Seq(Steps) /\ Leads(c, w, <<>>, "end")
    BY DEF Leads
  <2> QED
    BY <1>9, <2>1, <2>2
<1>10. kind \in {"linux", "android", "image", "run", "runAndroid", "all", "gen", "package", "clean"}
  BY DEF Targets
<1> QED
  BY <1>1, <1>2, <1>3, <1>4, <1>5, <1>6, <1>7, <1>8, <1>9, <1>10, Zenon

\* So are those of a build, behind those of the sync that comes first.
LEMMA SyncIsChain ==
    ASSUME NEW c, NEW w, NEW kind \in Targets
    PROVE  LET q == (IF kind \in Synced THEN SyncSteps ELSE <<>>) \o StepsOf(kind) IN
           /\ q \in Seq(Steps) /\ Leads(c, w, q, "end")
           /\ q # <<>> /\ Head(q) \in {"syncHook", "generate", "tarball", "remove"}
<1> DEFINE q == StepsOf(kind)
           next == IF q = <<>> THEN "end" ELSE Head(q)
<1>1. q \in Seq(Steps) /\ Leads(c, w, q, "end")
  BY BuildIsChain
<1>2. CASE kind \in Synced
  <2>1. next \in {"end", "check"}
    BY <1>2, BuildIsChain
  <2> HIDE DEF q, next
  <2>2. CASE files["yaml"].opt
    <3>1. SyncSteps = <<"syncHook">>
      BY <2>2 DEF SyncSteps
    <3>2. <<"syncHook">> \in Seq(Steps) /\ Leads(c, w, <<"syncHook">>, next)
      BY <2>1 DEF Leads, Follow, Steps
    <3>3. Leads(c, w, <<"syncHook">> \o q, "end") /\ <<"syncHook">> \o q \in Seq(Steps)
      BY <1>1, <3>2, LeadsJoin DEF next
    <3>4. <<"syncHook">> \o q # <<>> /\ Head(<<"syncHook">> \o q) = "syncHook"
      BY <1>1
    <3> QED
      BY <1>2, <3>1, <3>3, <3>4 DEF q
  <2>3. CASE ~files["yaml"].opt
    <3>1. SyncSteps = <<"syncHook", "syncTitlebar">>
      BY <2>3 DEF SyncSteps
    <3>2. /\ <<"syncHook", "syncTitlebar">> \in Seq(Steps)
          /\ Leads(c, w, <<"syncHook", "syncTitlebar">>, next)
      BY <2>1 DEF Leads, Follow, Steps
    <3>3. /\ Leads(c, w, <<"syncHook", "syncTitlebar">> \o q, "end")
          /\ <<"syncHook", "syncTitlebar">> \o q \in Seq(Steps)
      BY <1>1, <3>2, LeadsJoin DEF next
    <3>4. /\ <<"syncHook", "syncTitlebar">> \o q # <<>>
          /\ Head(<<"syncHook", "syncTitlebar">> \o q) = "syncHook"
      BY <1>1
    <3> QED
      BY <1>2, <3>1, <3>3, <3>4 DEF q
  <2> QED
    BY <2>2, <2>3
<1>3. CASE kind \notin Synced
  <2>1. <<>> \o q = q
    BY <1>1
  <2>2. q # <<>> /\ Head(q) \in {"syncHook", "generate", "tarball", "remove"}
    <3>1. kind # "all"
      BY <1>3 DEF Synced
    <3> QED
      BY <1>3, <3>1, BuildIsChain
  <2> QED
    BY <1>1, <1>3, <2>1, <2>2
<1> QED
  BY <1>2, <1>3

\* A chain only depends on the title bar and the flag of its command.
LEMMA SameChain ==
    ASSUME NEW c, NEW d, NEW w, NEW q, NEW last, Leads(c, w, q, last),
           c.cfg = d.cfg, c.plugins = d.plugins
    PROVE  Leads(d, w, q, last)
<1>1. \A s : Follow(c, w, s) = Follow(d, w, s)
  BY DEF Follow
<1> QED
  BY <1>1 DEF Leads

-----------------------------------------------------------------------------
\* The constants of the model have the shape of what they are assigned to.
LEMMA Shapes ==
    /\ Empty \in Contents /\ Absent \in Contents /\ NoFiles \in [Names -> Contents]
    /\ \A r \in {0} \cup Releases : Generated(r) \in Contents
    /\ Installed \in Releases /\ FirstVersion \in AppVersions
    /\ Idle \in Commands /\ Ended(Idle) /\ PlaceOf(Idle) = "end" /\ Idle.phase = "look"
<1>1. Empty \in Contents /\ Absent \in Contents
  BY DEF Empty, Absent, Contents
<1>2. NoFiles \in [Names -> Contents]
  BY <1>1 DEF NoFiles
<1>3. \A r \in {0} \cup Releases : Generated(r) \in Contents
  BY DEF Generated, Empty, Contents
<1>4. Installed \in Releases /\ FirstVersion \in AppVersions
  BY DEF Releases
<1>5. <<>> \in Seq(Steps) /\ <<>> \in Seq(Targets)
  OBVIOUS
<1>6. Idle \in Commands
  BY <1>1, <1>2, <1>5 DEF Idle, Commands
<1>7. Ended(Idle) /\ PlaceOf(Idle) = "end" /\ Idle.phase = "look"
  BY DEF Ended, Idle, PlaceOf
<1> QED
  BY <1>1, <1>2, <1>3, <1>4, <1>6, <1>7

\* One step further, the command is where its chain leads, or has ended.
LEMMA OnwardIs ==
    ASSUME cmd \in Commands, Chain, cmd.todo # <<>>, NEW d \in {Onward, Changing}
    PROVE  /\ d \in Commands /\ Leads(d, waived, d.todo, "end") /\ d.phase = "look"
           /\ PlaceOf(d) \in Follow(cmd, waived, place)
           /\ \/ Ended(d) /\ PlaceOf(d) = "end"
              \/ Same(d) /\ (cmd.rest = <<>> => PlaceOf(d) # "end")
<1> DEFINE q == cmd.todo
<1>1. q \in Seq(Steps)
  BY DEF Commands
<1>2. Leads(cmd, waived, q, "end") /\ q # <<>>
  BY DEF Chain
<1> HIDE DEF q
<1>3. Tail(q) \in Seq(Steps)
  BY <1>1, <1>2, HeadIsFirst
<1>4. /\ Leads(cmd, waived, Tail(q), "end")
      /\ (IF Tail(q) = <<>> THEN "end" ELSE Head(Tail(q))) \in Follow(cmd, waived, Head(q))
  BY <1>1, <1>2, LeadsOn
<1>5. place = Head(q)
  BY <1>2 DEF place, PlaceOf, q
<1>6. CASE Tail(q) = <<>> /\ cmd.rest = <<>>
  <2>1. Onward = Idle /\ Changing = [Idle EXCEPT !.changed = TRUE]
    BY <1>6 DEF Onward, Changing, q
  <2>2. [Idle EXCEPT !.changed = TRUE] \in Commands
    BY Shapes DEF Commands
  <2>3. d \in Commands /\ d.todo = <<>> /\ d.phase = "look" /\ Ended(d)
    BY <2>1, <2>2, Shapes DEF Idle, Ended
  <2>4. PlaceOf(d) = "end" /\ Leads(d, waived, d.todo, "end")
    BY <2>3 DEF PlaceOf, Leads
  <2> QED
    BY <1>4, <1>5, <1>6, <2>3, <2>4
<1>7. CASE ~(Tail(q) = <<>> /\ cmd.rest = <<>>)
  <2>1. /\ Onward = [cmd EXCEPT !.todo = Tail(@), !.phase = "look"]
        /\ Changing = [Onward EXCEPT !.changed = TRUE]
    BY <1>7 DEF Onward, Changing, q
  <2>2. d \in Commands /\ d.todo = Tail(q) /\ d.phase = "look" /\ Same(d)
    BY <1>3, <2>1 DEF Commands, Same, q
  <2>3. Leads(d, waived, d.todo, "end")
    BY <1>4, <2>2, SameChain DEF Same
  <2>4. PlaceOf(d) = IF Tail(q) = <<>> THEN "end" ELSE Head(Tail(q))
    BY <2>2 DEF PlaceOf
  <2>5. cmd.rest = <<>> => PlaceOf(d) # "end"
    <3>1. \A r \in Seq(Steps) : r # <<>> => Head(r) \in Steps
      BY HeadIsFirst, Zenon
    <3>2. cmd.rest = <<>> => Head(Tail(q)) \in Steps /\ PlaceOf(d) = Head(Tail(q))
      BY <1>3, <1>7, <2>4, <3>1, Zenon
    <3> QED
      BY <3>2 DEF Steps
  <2> QED
    BY <1>4, <1>5, <2>2, <2>3, <2>4, <2>5
<1> QED
  BY <1>6, <1>7

\* What the first MainActivity.kt is.
LEMMA FirstActivityIs ==
    /\ \A id \in Packages : files[Activity(id)].here => Activities # {}
    /\ Activities # {} =>
        /\ FirstActivity = IF files["kt1"].here THEN "kt1" ELSE "kt2"
        /\ files[FirstActivity].here
<1>1. Activities \subseteq {1, 2} /\ (1 \in Activities <=> files["kt1"].here) /\ (2 \in Activities <=> files["kt2"].here)
  BY DEF Activities, Packages, Activity
<1>2. ASSUME NEW S \in SUBSET {1, 2}, S # {}
      PROVE (CHOOSE id \in S : \A other \in S : id <= other) = IF 1 \in S THEN 1 ELSE 2
  <2>1. CASE S = {1}
    BY <2>1
  <2>2. CASE S = {2}
    BY <2>2
  <2>3. CASE S = {1, 2}
    <3>1. \E id \in S : \A other \in S : id <= other
      BY <2>3
    <3> QED
      BY <2>3, <3>1
  <2> QED
    BY <1>2, <2>1, <2>2, <2>3
<1> QED
  BY <1>1, <1>2 DEF FirstActivity, Activity, Packages
-----------------------------------------------------------------------------
\* What flugo renders or patches has the shape of a file.
LEMMA RenderingIsContent ==
    ASSUME TypeOK
    PROVE  /\ \A f \in {"hook", "titlebar", "make", "pubspec", "gomod", "yaml"} : Rendering(f) \in Contents
           /\ Merged(files["ignore"]) \in Contents
           /\ \A f \in Names : Pinned(files[f]) \in Contents /\ Repackaged(files[f]) \in Contents
<1>1. cfg \in Contents /\ \A f \in Names : files[f] \in Contents
  BY DEF TypeOK, Commands, cfg
<1>2. \A f \in {"hook", "titlebar", "make", "pubspec", "gomod", "yaml"} : Rendering(f) \in Contents
  <2>1. Generated(Installed) \in Contents /\ Empty \in Contents
    BY Shapes
  <2>2. [Empty EXCEPT !.ver = cfg.ver] \in Contents
    BY <1>1, <2>1 DEF Contents
  <2>3. [Generated(Installed) EXCEPT !.opt = files["gomod"].opt] \in Contents
    BY <1>1, <2>1 DEF Contents, Names
  <2>4. [Generated(Installed) EXCEPT !.ver = FirstVersion, !.id = cfg.id] \in Contents
    BY <1>1, <2>1, Shapes DEF Contents
  <2> QED
    BY <2>1, <2>2, <2>3, <2>4 DEF Rendering
<1>3. Merged(files["ignore"]) \in Contents
  BY <1>1, Shapes DEF Merged, Contents, Names
<1>4. \A f \in Names : Pinned(files[f]) \in Contents /\ Repackaged(files[f]) \in Contents
  BY <1>1, Shapes DEF Pinned, Repackaged, Contents
<1> QED
  BY <1>2, <1>3, <1>4

\* A write makes the file what it should be, or a kill leaves it empty.
Wrote(f, content) ==
    /\ files' = [files EXCEPT ![f] = content] /\ bak' = bak
    /\ UNCHANGED <<count, torn>>
Saved(f) ==
    /\ files[f].here /\ cmd.phase = "look"
    /\ bak' = [bak EXCEPT ![f] = files[f]] /\ cmd' = [cmd EXCEPT !.phase = "write"]
    /\ UNCHANGED <<files, count, torn>>
Cut(f) ==
    /\ cmd' = Idle /\ torn' = TRUE /\ Killable /\ count' = Counted("kills")
    /\ \/ files' = files /\ bak' = [bak EXCEPT ![f] = Empty] /\ files[f].here /\ cmd.phase = "look"
       \/ files' = [files EXCEPT ![f] = Empty] /\ bak' = bak

\* A write is done or is cut short by a kill.
LEMMA Writing ==
    ASSUME NEW f, NEW content, NEW next, WriteFile(f, content, next), UNCHANGED bak
    PROVE  (Wrote(f, content) /\ cmd' = next) \/ Cut(f)
BY DEF WriteFile, Wrote, Cut

\* applyRendered writes the file, saves the old one in .bak first, or is cut short.
LEMMA Applying ==
    ASSUME TypeOK, NEW f \in Names, NEW content, ApplyRendered(f, content)
    PROVE  \/ /\ Wrote(f, content) /\ cmd' \in {Onward, Changing}
              /\ files[f] = content \/ ~files[f].here \/ cmd.phase = "write"
           \/ Saved(f) /\ files[f] # content
           \/ Cut(f) /\ (cmd.phase = "look" => files[f] # content /\ (files' # files => ~files[f].here))
<1>1. files \in [Names -> Contents]
  BY DEF TypeOK
<1>2. CASE cmd.phase = "look" /\ files[f] = content /\ Skip
  <2>1. files = [files EXCEPT ![f] = content]
    BY <1>1, <1>2
  <2> QED
    BY <1>2, <2>1 DEF Skip, Wrote
<1>3. CASE cmd.phase = "look" /\ files[f] # content /\ Create(f, content)
  BY <1>3 DEF Create, WriteFile, Wrote, Cut
<1>4. CASE cmd.phase = "look" /\ files[f] # content /\ BackUp(f)
  BY <1>4 DEF BackUp, Saved, Cut
<1>5. CASE cmd.phase = "write" /\ Overwrite(f, content)
  BY <1>5 DEF Overwrite, WriteFile, Wrote, Cut
<1> QED
  BY <1>2, <1>3, <1>4, <1>5 DEF ApplyRendered
\* The steps that render a file, which one it is, and what it becomes.
Rendered == {"hook", "titlebar", "make", "pubspec", "gomod", "yaml", "ignore", "pin", "refs"}
Text(s) ==
    CASE s \in {"hook", "titlebar", "make", "pubspec", "gomod", "yaml"} -> Rendering(s)
      [] s = "ignore" -> Merged(files["ignore"])
      [] s = "pin" -> IF files["gomod"].opt THEN files["gomod"] ELSE Pinned(files["gomod"])
      [] s = "refs" -> Pinned(files["pubspec"])
Render == /\ cmd.todo # <<>> /\ place \in Rendered
          /\ ApplyRendered(Target(place), Text(place))
          /\ UNCHANGED updateVars

\* go mod tidy has made content of go.mod, or was cut short: in an update after the pin, or in gen.
Tidied(content) ==
    /\ ~content.mine
    /\ (Wrote("gomod", content) /\ cmd' \in {Onward, Changing}) \/ Cut("gomod")
    /\ written' = written \ {"gomod"} /\ UNCHANGED <<failed, waived>>
PinTidied(content) ==
    /\ Tidied(content)
    /\ cmd.todo # <<>> /\ place = "pin" /\ cmd.phase = "write"
    /\ content.gen \in {0, Installed}
GenTidied(content) == Tidied(content) /\ cmd.kind # "update" /\ cmd'.kind # "update"

\* What go mod tidy does, in terms of the write it is.
LEMMA TidiedIs ==
    ASSUME TypeOK, NEW content \in Contents, NEW next \in {Onward, Changing}, TidyGoMod(content, next)
    PROVE  [content EXCEPT !.mine = FALSE] \in Contents /\ Tidied([content EXCEPT !.mine = FALSE])
<1>1. PICK rest : rest = [content EXCEPT !.mine = FALSE]
  OBVIOUS
<1>2. rest \in Contents /\ ~rest.mine
  BY <1>1 DEF Contents
<1>3. (Wrote("gomod", rest) /\ cmd' = next) \/ Cut("gomod")
  BY <1>1, Writing DEF TidyGoMod
<1>4. written' = written \ {"gomod"} /\ UNCHANGED <<failed, waived>>
  BY DEF TidyGoMod
<1>5. Tidied(rest)
  BY <1>2, <1>3, <1>4 DEF Tidied
<1> QED
  BY <1>1, <1>2, <1>5

\* The steps of an update that go through applyRendered are renderings in this sense, unless go mod
\* tidy has dropped lines of what the pin wrote.
LEMMA RenderIs ==
    ASSUME TypeOK, RenderTemplate \/ MergeIgnore \/ PinGoMod \/ PinPlugins
    PROVE  Render \/ \E content \in Contents : PinTidied(content)
<1>1. CASE RenderTemplate
  <2>1. PICK f \in {"hook", "titlebar", "make", "pubspec", "gomod", "yaml"} :
            Now(f) /\ ApplyRendered(f, Rendering(f)) /\ UNCHANGED updateVars
    BY <1>1 DEF RenderTemplate
  <2>2. cmd.todo # <<>> /\ place = f
    BY <2>1 DEF Now, place, PlaceOf
  <2>3. f \in Rendered /\ Target(f) = f /\ Text(f) = Rendering(f)
    BY DEF Rendered, Target, Text
  <2> QED
    BY <2>1, <2>2, <2>3 DEF Render
<1>2. CASE MergeIgnore
  <2>1. cmd.todo # <<>> /\ place = "ignore"
    BY <1>2 DEF MergeIgnore, Now, place, PlaceOf
  <2>2. "ignore" \in Rendered /\ Target("ignore") = "ignore" /\ Text("ignore") = Merged(files["ignore"])
    BY DEF Rendered, Target, Text
  <2> QED
    BY <1>2, <2>1, <2>2 DEF MergeIgnore, Render
<1>3. CASE PinGoMod
  <2>1. cmd.todo # <<>> /\ place = "pin"
    BY <1>3 DEF PinGoMod, Now, place, PlaceOf
  <2>2. /\ "pin" \in Rendered /\ Target("pin") = "gomod"
        /\ Text("pin") = IF files["gomod"].opt THEN files["gomod"] ELSE Pinned(files["gomod"])
    BY DEF Rendered, Target, Text
  <2>3. CASE /\ ApplyRendered("gomod", IF files["gomod"].opt THEN files["gomod"] ELSE Pinned(files["gomod"]))
             /\ UNCHANGED updateVars
    BY <2>1, <2>2, <2>3 DEF Render
  <2>4. CASE cmd.phase = "write" /\ TidyGoMod(Pinned(files["gomod"]), Changing)
    <3>1. PICK old \in Contents : old = files["gomod"]
      BY DEF TypeOK, Names
    <3>2. PICK pinned : pinned = Pinned(old)
      OBVIOUS
    <3>3. pinned \in Contents /\ pinned.gen \in {0, Installed}
      BY <3>2, Shapes DEF Pinned, Contents
    <3>4. PICK content : content = [pinned EXCEPT !.mine = FALSE]
      OBVIOUS
    <3>5. content \in Contents /\ Tidied(content)
      BY <2>4, <3>1, <3>2, <3>3, <3>4, TidiedIs
    <3>6. content.gen = pinned.gen
      BY <3>3, <3>4 DEF Contents
    <3>7. PinTidied(content)
      BY <2>1, <2>4, <3>3, <3>5, <3>6 DEF PinTidied
    <3> QED
      BY <3>5, <3>7
  <2> QED
    BY <1>3, <2>3, <2>4 DEF PinGoMod
<1>4. CASE PinPlugins
  <2>1. cmd.todo # <<>> /\ place = "refs"
    BY <1>4 DEF PinPlugins, Now, place, PlaceOf
  <2>2. "refs" \in Rendered /\ Target("refs") = "pubspec" /\ Text("refs") = Pinned(files["pubspec"])
    BY DEF Rendered, Target, Text
  <2> QED
    BY <1>4, <2>1, <2>2 DEF PinPlugins, Render
<1> QED
  BY <1>1, <1>2, <1>3, <1>4

\* What they render has the shape of a file.
LEMMA TextIsContent ==
    ASSUME TypeOK, NEW s \in Rendered
    PROVE  Target(s) \in Names /\ Text(s) \in Contents
<1>1. \A f \in Names : files[f] \in Contents
  BY DEF TypeOK
<1>2. CASE s \in {"hook", "titlebar", "make", "pubspec", "gomod", "yaml"}
  BY <1>2, RenderingIsContent DEF Target, Text, Names
<1>3. CASE s = "ignore"
  BY <1>3, RenderingIsContent DEF Target, Text, Names
<1>4. CASE s = "pin"
  BY <1>1, <1>4, RenderingIsContent DEF Target, Text, Names
<1>5. CASE s = "refs"
  BY <1>5, RenderingIsContent DEF Target, Text, Names
<1> QED
  BY <1>2, <1>3, <1>4, <1>5 DEF Rendered

\* What a step of an update makes of the command.
LEMMA UpdateMoves ==
    ASSUME TypeOK, UpdateNext PROVE Moves
<1>1. cmd = [cmd EXCEPT !.old = cmd.old] /\ cmd.old \in {"", "kt1", "kt2"}
  BY DEF TypeOK, Commands
<1>2. ASSUME cmd' = [cmd EXCEPT !.phase = "write"] PROVE Backs(cmd.old)
  BY <1>1, <1>2 DEF Backs, TypeOK, Commands
<1>3. CASE \E all, plugins \in BOOLEAN : StartUpdate(all, plugins)
  BY <1>3 DEF Moves
<1>4. CASE PatchBundleID
  <2>1. cmd.todo # <<>> /\ waived' = waived
    BY <1>4 DEF PatchBundleID, Now, updateVars
  <2>2. cmd' \in {Onward, Idle}
    BY <1>4 DEF PatchBundleID, WriteFile
  <2> QED
    BY <2>1, <2>2 DEF Moves
<1>5. CASE Relocate
  <2>1. cmd.todo # <<>> /\ waived' = waived
    BY <1>5 DEF Relocate, Now, updateVars
  <2>2. CASE Activities = {}
    <3>1. cmd' = Onward
      BY <1>5, <2>2 DEF Relocate, Skip
    <3> QED
      BY <2>1, <3>1 DEF Moves
  <2>3. CASE Activities # {}
    <3>1. cmd' \in {Onward, Idle} \/ Backs(FirstActivity)
      BY <1>5, <2>3 DEF Relocate, WriteFile, Backs
    <3>2. FirstActivity \in {"", "kt1", "kt2"}
      BY <2>3, FirstActivityIs
    <3> QED
      BY <2>1, <3>1, <3>2 DEF Moves
  <2> QED
    BY <2>2, <2>3
<1>6. CASE RemoveOldActivity
  BY <1>6 DEF RemoveOldActivity, Now, updateVars, Moves
<1>7. CASE Render
  <2>1. cmd.todo # <<>> /\ waived' = waived /\ place \in Rendered
    BY <1>7 DEF Render, updateVars
  <2>2. PICK f, content : f = Target(place) /\ content = Text(place)
    OBVIOUS
  <2>3. f \in Names /\ ApplyRendered(f, content)
    BY <1>7, <2>1, <2>2, TextIsContent DEF Render
  <2>4. cmd' \in {Onward, Changing, Idle} \/ cmd' = [cmd EXCEPT !.phase = "write"]
    BY <2>3, Applying DEF Saved, Cut
  <2> QED
    BY <1>1, <1>2, <2>1, <2>4 DEF Moves
<1>8. CASE RenderActivity
  <2>1. cmd.todo # <<>> /\ waived' = waived
    BY <1>8 DEF RenderActivity, Now
  <2>2. cmd' \in {Onward, Changing, Idle} \/ cmd' = [cmd EXCEPT !.phase = "write"]
    BY <1>8 DEF RenderActivity, Skip, ApplyRendered, Create, BackUp, Overwrite, WriteFile
  <2> QED
    BY <1>1, <1>2, <2>1, <2>2 DEF Moves
<1>9. CASE Stamp
  <2>1. cmd.todo # <<>> /\ waived' = waived
    BY <1>9 DEF Stamp, Now, updateVars
  <2>2. cmd' \in {Onward, Idle}
    BY <1>9 DEF Stamp, WriteFile
  <2> QED
    BY <2>1, <2>2 DEF Moves
<1>10. CASE SyncConfigFile
  <2>1. cmd.todo # <<>> /\ waived' = waived
    BY <1>10 DEF SyncConfigFile, Now, updateVars
  <2>2. cmd' \in {Onward, Idle}
    BY <1>10 DEF SyncConfigFile, WriteFile, Skip
  <2> QED
    BY <2>1, <2>2 DEF Moves
<1>11. ASSUME NEW content, PinTidied(content) PROVE Moves
  <2>1. cmd.todo # <<>> /\ waived' = waived /\ cmd' \in {Onward, Changing, Idle}
    BY <1>11 DEF PinTidied, Tidied, Cut
  <2> QED
    BY <2>1 DEF Moves
<1> QED
  BY <1>3, <1>4, <1>5, <1>6, <1>7, <1>8, <1>9, <1>10, <1>11, RenderIs DEF UpdateNext
\* A build only touches the project's files where it sets the version of pubspec.yaml or tidies go.mod.
Quiet == UNCHANGED <<files, bak, torn, updateVars>> /\ count' \in {count, Counted("commands")}

\* A step of a build that goes on changes no file.
LEMMA Proceeding ==
    ASSUME Proceed, cmd.todo # <<>>, place \notin UpdatePlaces \ {"flutterClean"} PROVE BuildMove /\ Quiet
<1>1. waived' = waived
  BY DEF Proceed, updateVars
<1> QED
  BY <1>1 DEF Proceed, BuildMove, Quiet

\* Nor does one that fails.
LEMMA GivingUp ==
    ASSUME GiveUp, cmd.todo # <<>>, place \notin UpdatePlaces PROVE BuildMove /\ Quiet
<1>1. waived' = waived /\ cmd' \in {Idle, [cmd EXCEPT !.todo = <<>>]}
  BY DEF GiveUp, updateVars
<1> QED
  BY <1>1 DEF GiveUp, BuildMove, Quiet

\* What a step of a build makes of the command; the sync of the version and go mod tidy write files.
LEMMA BuildMoves ==
    ASSUME BuildNext PROVE BuildMove /\ (Quiet \/ SyncAppVersion \/ Tidy)
<1>1. ASSUME NEW s \in Steps \ UpdatePlaces, Now(s) PROVE cmd.todo # <<>> /\ place \notin UpdatePlaces
  BY <1>1 DEF Now, place, PlaceOf
<1>2. CASE \E kind \in Targets, scaffolded \in BOOLEAN : StartBuild(kind, scaffolded)
  <2>1. PICK kind \in Targets, scaffolded \in BOOLEAN : StartBuild(kind, scaffolded)
    BY <1>2
  <2>2. Quiet
    BY <2>1 DEF StartBuild, Start, Quiet, updateVars
  <2> QED
    BY <1>2, <2>2 DEF BuildMove
<1>3. CASE NextTarget
  BY <1>3 DEF NextTarget, BuildMove, Quiet
<1>4. CASE NeedBundle
  <2>1. Quiet /\ cmd.todo # <<>>
    BY <1>4 DEF NeedBundle, Quiet, Now
  <2>2. CASE bundle.here
    <3>1. cmd' = Onward /\ waived' = waived /\ place \notin UpdatePlaces
      BY <1>1, <1>4, <2>2 DEF NeedBundle, updateVars, Steps, UpdatePlaces
    <3> QED
      BY <2>1, <3>1 DEF BuildMove
  <2>3. CASE ~bundle.here
    BY <1>4, <2>1, <2>3 DEF BuildMove
  <2> QED
    BY <2>2, <2>3
<1>5. CASE SyncAppVersion
  <2>1. cmd.todo # <<>> /\ place \notin UpdatePlaces
    BY <1>1, <1>5 DEF SyncAppVersion, Steps, UpdatePlaces
  <2>2. CASE Proceed \/ GiveUp
    BY <1>5, <2>1, <2>2, Proceeding, GivingUp
  <2>3. CASE WriteFile("pubspec", [files["pubspec"] EXCEPT !.ver = cfg.ver], Onward) /\ UNCHANGED updateVars
    <3>1. waived' = waived /\ cmd' \in {Onward, Idle}
      BY <2>3 DEF WriteFile, updateVars
    <3> QED
      BY <1>5, <2>1, <3>1 DEF BuildMove
  <2> QED
    BY <1>5, <2>2, <2>3 DEF SyncAppVersion
<1>6. CASE GenerateBridge
  <2>1. cmd.todo # <<>> /\ place \notin UpdatePlaces
    BY <1>1, <1>6 DEF GenerateBridge, Steps, UpdatePlaces
  <2>2. Proceed \/ GiveUp
    BY <1>6 DEF GenerateBridge
  <2> QED
    BY <2>1, <2>2, Proceeding, GivingUp
<1>21. CASE Tidy
  <2>1. cmd.todo # <<>> /\ place \notin UpdatePlaces
    BY <1>1, <1>21 DEF Tidy, Steps, UpdatePlaces
  <2>2. CASE Proceed \/ GiveUp
    BY <2>1, <2>2, Proceeding, GivingUp
  <2>3. CASE TidyGoMod(files["gomod"], Onward)
    <3>1. waived' = waived /\ cmd' \in {Onward, Idle}
      BY <2>3 DEF TidyGoMod, WriteFile
    <3> QED
      BY <1>21, <2>1, <3>1 DEF BuildMove
  <2> QED
    BY <1>21, <2>2, <2>3 DEF Tidy
<1>7. CASE CheckAppVersion
  <2>1. cmd.todo # <<>> /\ place \notin UpdatePlaces
    BY <1>1, <1>7 DEF CheckAppVersion, Steps, UpdatePlaces
  <2>2. Proceed \/ GiveUp
    BY <1>7 DEF CheckAppVersion
  <2> QED
    BY <2>1, <2>2, Proceeding, GivingUp
<1>8. CASE BuildGoShared
  <2>1. cmd.todo # <<>> /\ place \notin UpdatePlaces
    BY <1>1, <1>8 DEF BuildGoShared, Steps, UpdatePlaces
  <2>2. Proceed \/ GiveUp
    BY <1>8 DEF BuildGoShared
  <2> QED
    BY <2>1, <2>2, Proceeding, GivingUp
<1>9. CASE DropMarker
  <2>1. cmd.todo # <<>> /\ place \notin UpdatePlaces
    BY <1>1, <1>9 DEF DropMarker, Steps, UpdatePlaces
  <2>2. Proceed \/ GiveUp
    BY <1>9 DEF DropMarker
  <2> QED
    BY <2>1, <2>2, Proceeding, GivingUp
<1>10. CASE BuildFlutter
  <2>1. cmd.todo # <<>> /\ place \notin UpdatePlaces
    BY <1>1, <1>10 DEF BuildFlutter, Steps, UpdatePlaces
  <2>2. Proceed \/ GiveUp
    BY <1>10 DEF BuildFlutter
  <2> QED
    BY <2>1, <2>2, Proceeding, GivingUp
<1>11. CASE BundleGoLib
  <2>1. cmd.todo # <<>> /\ place \notin UpdatePlaces
    BY <1>1, <1>11 DEF BundleGoLib, Steps, UpdatePlaces
  <2>2. Proceed \/ GiveUp
    BY <1>11 DEF BundleGoLib
  <2> QED
    BY <2>1, <2>2, Proceeding, GivingUp
<1>12. CASE FinishDesktop
  <2>1. cmd.todo # <<>> /\ place \notin UpdatePlaces
    BY <1>1, <1>12 DEF FinishDesktop, Steps, UpdatePlaces
  <2>2. Proceed \/ GiveUp
    BY <1>12 DEF FinishDesktop
  <2> QED
    BY <2>1, <2>2, Proceeding, GivingUp
<1>13. CASE BuildABI
  <2>1. cmd.todo # <<>> /\ place \notin UpdatePlaces
    BY <1>1, <1>13 DEF BuildABI, Steps, UpdatePlaces
  <2>2. Proceed \/ GiveUp
    BY <1>13 DEF BuildABI
  <2> QED
    BY <2>1, <2>2, Proceeding, GivingUp
<1>14. CASE BuildApk
  <2>1. cmd.todo # <<>> /\ place \notin UpdatePlaces
    BY <1>1, <1>14 DEF BuildApk, Steps, UpdatePlaces
  <2>2. Proceed \/ GiveUp
    BY <1>14 DEF BuildApk
  <2> QED
    BY <2>1, <2>2, Proceeding, GivingUp
<1>15. CASE BuildDeviceABI
  <2>1. cmd.todo # <<>> /\ place \notin UpdatePlaces
    BY <1>1, <1>15 DEF BuildDeviceABI, Steps, UpdatePlaces
  <2>2. Proceed \/ GiveUp
    BY <1>15 DEF BuildDeviceABI
  <2> QED
    BY <2>1, <2>2, Proceeding, GivingUp
<1>16. CASE RunFlutter
  <2>1. cmd.todo # <<>> /\ place \notin UpdatePlaces
    BY <1>1, <1>16 DEF RunFlutter, Steps, UpdatePlaces
  <2>2. Proceed \/ GiveUp
    BY <1>16 DEF RunFlutter
  <2> QED
    BY <2>1, <2>2, Proceeding, GivingUp
<1>17. CASE Assemble
  <2>1. cmd.todo # <<>> /\ place \notin UpdatePlaces
    BY <1>1, <1>17 DEF Assemble, Steps, UpdatePlaces
  <2>2. Proceed \/ GiveUp
    BY <1>17 DEF Assemble
  <2> QED
    BY <2>1, <2>2, Proceeding, GivingUp
<1>18. CASE PackageLinux
  <2>1. cmd.todo # <<>> /\ place \notin UpdatePlaces
    BY <1>1, <1>18 DEF PackageLinux, Steps, UpdatePlaces
  <2>2. Proceed \/ GiveUp
    BY <1>18 DEF PackageLinux
  <2> QED
    BY <2>1, <2>2, Proceeding, GivingUp
<1>19. CASE Clean
  <2>1. cmd.todo # <<>> /\ place \notin UpdatePlaces
    BY <1>1, <1>19 DEF Clean, Steps, UpdatePlaces
  <2>2. Proceed \/ GiveUp
    BY <1>19 DEF Clean
  <2> QED
    BY <2>1, <2>2, Proceeding, GivingUp
<1>20. CASE FlutterClean
  <2>1. cmd.todo # <<>> /\ Proceed /\ place = "flutterClean"
    BY <1>20 DEF FlutterClean, Now, place, PlaceOf
  <2> QED
    BY <2>1, Proceeding
<1> QED
  BY <1>2, <1>3, <1>4, <1>5, <1>6, <1>7, <1>8, <1>9, <1>10, <1>11, <1>12, <1>13, <1>14, <1>15, <1>16, <1>17, <1>18, <1>19, <1>20, <1>21 DEF BuildNext

\* What the developer and a kill make of the command.
LEMMA DevMoves ==
    ASSUME (\E f \in Texts : EditText(f)) \/ (\E f \in {"make", "ignore", "kt1", "kt2"} : DeleteFile(f))
              \/ LoseEndMarker \/ Configure \/ EditSource \/ Kill
    PROVE  Moves
<1>1. CASE \E f \in Texts : EditText(f)
  BY <1>1 DEF EditText, Editing, Moves
<1>2. CASE \E f \in {"make", "ignore", "kt1", "kt2"} : DeleteFile(f)
  BY <1>2 DEF DeleteFile, Editing, Moves
<1>3. CASE LoseEndMarker
  <2>1. cmd' = cmd /\ waived \subseteq waived' /\ cmd.todo = <<>>
    BY <1>3 DEF LoseEndMarker, Editing, Running
  <2> QED
    BY <2>1 DEF Moves
<1>4. CASE Configure
  BY <1>4 DEF Configure, Editing, Moves
<1>5. CASE EditSource
  BY <1>5 DEF EditSource, Editing, Moves
<1>6. CASE Kill
  BY <1>6 DEF Kill, updateVars, Moves
<1> QED
  BY <1>1, <1>2, <1>3, <1>4, <1>5, <1>6

\* Every step moves the command in one of these ways.
LEMMA NextMoves ==
    ASSUME TypeOK, [Next]_vars PROVE Moves
<1>1. CASE UNCHANGED vars
  BY <1>1 DEF vars, fileVars, updateVars, Moves
<1>2. CASE Next
  <2>1. BuildMove => Moves
    BY DEF BuildMove, Moves
  <2> QED
    BY <1>2, <2>1, UpdateMoves, BuildMoves, DevMoves DEF Next
<1> QED
  BY <1>1, <1>2
-----------------------------------------------------------------------------
\* An update stays in its own steps until flutter clean ends it, a build in the others; --all and
\* the custom title bar decide where the two kinds of file are rendered.
LEMMA FollowSorted ==
    ASSUME NEW c, NEW w, NEW s \in Steps, NEW t \in Follow(c, w, s)
    PROVE  /\ s \in UpdatePlaces \ {"flutterClean"} => t \in UpdatePlaces
           /\ s = "flutterClean" => t = "end"
           /\ s \notin UpdatePlaces => t \notin UpdatePlaces
           /\ t \in Rewritten => Rewritten \subseteq w \/ s \in Rewritten
           /\ t = "titlebar" => ~c.cfg.opt
BY DEF Follow, Steps, UpdatePlaces, Rewritten

\* Whatever the step, the command keeps to its chain and to its kind.
LEMMA CommandStep ==
    ASSUME TypeOK, Chain, Sorted, Moves
    PROVE  cmd' \in Commands /\ Chain' /\ Sorted'
<1>1. cmd \in Commands
  BY DEF TypeOK
<1>2. place' = PlaceOf(cmd')
  BY DEF place
<1>3. CASE cmd' = cmd /\ waived \subseteq waived' /\ (waived' = waived \/ cmd.todo = <<>>)
  <2>1. Chain'
    <3>1. CASE cmd.todo = <<>>
      BY <1>3, <3>1 DEF Chain, Leads
    <3>2. CASE waived' = waived
      BY <1>3, <3>2 DEF Chain
    <3> QED
      BY <1>3, <3>1, <3>2
  <2>2. Sorted'
    BY <1>3 DEF Sorted, place, cfg
  <2> QED
    BY <1>1, <1>3, <2>1, <2>2
<1>4. CASE waived' = waived /\ cmd.todo # <<>> /\ cmd' \in {Onward, Changing}
  <2>1. /\ cmd' \in Commands /\ Leads(cmd', waived, cmd'.todo, "end")
        /\ PlaceOf(cmd') \in Follow(cmd, waived, place)
        /\ \/ Ended(cmd') /\ PlaceOf(cmd') = "end"
           \/ Same(cmd') /\ (cmd.rest = <<>> => PlaceOf(cmd') # "end")
    BY <1>1, <1>4, OnwardIs
  <2>2. Chain'
    BY <1>4, <2>1 DEF Chain
  <2>3. place \in Steps
    BY <1>1, <1>4, HeadIsFirst DEF place, PlaceOf, Commands
  <2>4. /\ place \in UpdatePlaces \ {"flutterClean"} => place' \in UpdatePlaces
        /\ place = "flutterClean" => place' = "end"
        /\ place \notin UpdatePlaces => place' \notin UpdatePlaces
        /\ place' \in Rewritten => Rewritten \subseteq waived \/ place \in Rewritten
        /\ place' = "titlebar" => ~cfg.opt
    BY <1>2, <2>1, <2>3, FollowSorted DEF cfg
  <2>5. CASE Ended(cmd') /\ place' = "end"
    <3>1. Absent.opt = FALSE
      BY DEF Absent, Empty
    <3> QED
      BY <2>1, <2>2, <2>5 DEF Sorted, Ended, UpdatePlaces, Rewritten
  <2>6. CASE Same(cmd') /\ (cmd.rest = <<>> => place' # "end")
    BY <1>4, <2>1, <2>2, <2>4, <2>6 DEF Sorted, Same, cfg
  <2> QED
    BY <1>2, <2>1, <2>5, <2>6
<1>5. CASE waived' = waived /\ cmd' = Idle
  <2>1. Chain'
    BY <1>5, Shapes DEF Chain, Leads, Ended
  <2>2. Sorted'
    BY <1>2, <1>5, Shapes DEF Sorted, Ended, UpdatePlaces, Rewritten
  <2> QED
    BY <1>5, <2>1, <2>2, Shapes
<1>6. ASSUME waived' = waived, cmd.todo # <<>>, NEW old \in {"", "kt1", "kt2"}, Backs(old)
      PROVE  cmd' \in Commands /\ Chain' /\ Sorted'
  <2>1. cmd' \in Commands /\ cmd'.todo = cmd.todo /\ Same(cmd')
    BY <1>1, <1>6 DEF Backs, Commands, Same
  <2>2. Leads(cmd', waived, cmd.todo, "end")
    BY <2>1, SameChain DEF Chain, Same
  <2>3. Chain'
    BY <1>6, <2>1, <2>2 DEF Chain
  <2>4. place' = place
    BY <1>2, <2>1 DEF place, PlaceOf
  <2>5. Sorted'
    BY <1>6, <2>1, <2>4 DEF Sorted, Same, cfg
  <2> QED
    BY <2>1, <2>3, <2>5
<1>7. CASE waived' = waived /\ cmd.todo # <<>> /\ place \notin UpdatePlaces /\ cmd' = [cmd EXCEPT !.todo = <<>>]
  <2>1. cmd' \in Commands /\ cmd'.todo = <<>> /\ Same(cmd')
    <3>1. <<>> \in Seq(Steps)
      OBVIOUS
    <3> QED
      BY <1>1, <1>7, <3>1 DEF Commands, Same
  <2>2. Chain'
    BY <2>1 DEF Chain, Leads
  <2>3. place' = "end"
    BY <1>2, <2>1 DEF PlaceOf
  <2>4. Sorted'
    BY <1>7, <2>1, <2>3 DEF Sorted, Same, UpdatePlaces, Rewritten
  <2> QED
    BY <2>1, <2>2, <2>4
<1>8. CASE NextTarget
  <2> DEFINE r == cmd.rest
             k == Head(r)
  <2>1. r \in Seq(Targets) /\ r # <<>> /\ cmd.todo = <<>>
    BY <1>1, <1>8 DEF NextTarget, Commands
  <2>2. k = r[1] /\ 1 \in DOMAIN r
    <3> HIDE DEF r
    <3> QED
      BY <2>1, EmptySeq DEF k
  <2>3. k \in {"linux", "android", "image"} /\ cmd.kind # "update"
    BY <2>1, <2>2 DEF Sorted
  <2>4. k \in Targets /\ k \in Synced /\ k # "all"
    BY <2>3 DEF Targets, Synced
  <2>5. Tail(r) \in Seq(Targets) /\ \A i \in DOMAIN Tail(r) : i + 1 \in DOMAIN r /\ Tail(r)[i] = r[i + 1]
    <3> HIDE DEF r
    <3> QED
      BY <2>1, HeadTailProperties, LenProperties
  <2>6. cmd' = [cmd EXCEPT !.todo = StepsOf(k), !.rest = Tail(r)] /\ waived' = waived
    BY <1>8 DEF NextTarget, updateVars
  <2> HIDE DEF r, k
  <2>7. /\ StepsOf(k) \in Seq(Steps) /\ StepsOf(k) # <<>> /\ Head(StepsOf(k)) = "check"
        /\ Leads(cmd', waived', StepsOf(k), "end")
    BY <2>4, BuildIsChain
  <2>8. /\ cmd' \in Commands /\ cmd'.todo = StepsOf(k) /\ cmd'.rest = Tail(r)
        /\ cmd'.kind = cmd.kind /\ cmd'.before = cmd.before
    BY <1>1, <2>5, <2>6, <2>7 DEF Commands
  <2>9. Chain'
    BY <2>7, <2>8 DEF Chain
  <2>10. place' = "check"
    BY <1>2, <2>7, <2>8 DEF PlaceOf
  <2>11. \A i \in DOMAIN Tail(r) : Tail(r)[i] \in {"linux", "android", "image"}
    BY <2>5 DEF Sorted, r
  <2>12. Sorted'
    BY <2>3, <2>8, <2>10, <2>11 DEF Sorted, UpdatePlaces, Rewritten
  <2> QED
    BY <2>8, <2>9, <2>12
<1>9. CASE NeedBundle
  <2> DEFINE q == cmd.todo
  <2>1. q \in Seq(Steps) /\ q # <<>> /\ Head(q) = "bundled" /\ Leads(cmd, waived, q, "end")
    BY <1>1, <1>9 DEF NeedBundle, Now, Commands, Chain
  <2>2. place = "bundled"
    BY <2>1 DEF place, PlaceOf
  <2>3. waived' = waived /\ (cmd' = Onward \/ cmd' = [cmd EXCEPT !.todo = DesktopSteps \o Tail(q)])
    BY <1>9 DEF NeedBundle, updateVars
  <2>4. CASE cmd' = Onward
    BY <1>4, <2>1, <2>3, <2>4
  <2>5. CASE cmd' = [cmd EXCEPT !.todo = DesktopSteps \o Tail(q)]
    <3> HIDE DEF q
    <3>1. Tail(q) \in Seq(Steps) /\ Leads(cmd, waived, Tail(q), "end")
      BY <2>1, LeadsOn, HeadIsFirst
    <3>2. (IF Tail(q) = <<>> THEN "end" ELSE Head(Tail(q))) = "assemble"
      <4>1. (IF Tail(q) = <<>> THEN "end" ELSE Head(Tail(q))) \in Follow(cmd, waived, "bundled")
        BY <2>1, LeadsOn
      <4> QED
        BY <4>1 DEF Follow
    <3>3. /\ DesktopSteps \in Seq(Steps) /\ Leads(cmd, waived, DesktopSteps, "assemble")
          /\ DesktopSteps # <<>> /\ Head(DesktopSteps) = "golib"
      BY DEF Leads, Follow, Steps, DesktopSteps
    <3>4. Leads(cmd, waived, DesktopSteps \o Tail(q), "end") /\ DesktopSteps \o Tail(q) \in Seq(Steps)
      BY <3>1, <3>2, <3>3, LeadsJoin
    <3>5. DesktopSteps \o Tail(q) # <<>> /\ Head(DesktopSteps \o Tail(q)) = "golib"
      BY <3>1 DEF DesktopSteps
    <3>6. cmd' \in Commands /\ cmd'.todo = DesktopSteps \o Tail(q) /\ Same(cmd')
      BY <1>1, <2>5, <3>4 DEF Commands, Same
    <3>7. Chain'
      <4>1. Leads(cmd', waived, DesktopSteps \o Tail(q), "end")
        BY <3>4, <3>6, SameChain DEF Same
      <4> QED
        BY <2>3, <3>6, <4>1 DEF Chain
    <3>8. place' = "golib"
      BY <1>2, <3>5, <3>6 DEF PlaceOf
    <3>9. Sorted'
      BY <2>2, <3>6, <3>8 DEF Sorted, Same, UpdatePlaces, Rewritten
    <3> QED
      BY <3>6, <3>7, <3>9
  <2> QED
    BY <2>3, <2>4, <2>5
<1>10. ASSUME NEW all \in BOOLEAN, NEW plugins \in BOOLEAN, StartUpdate(all, plugins)
       PROVE  cmd' \in Commands /\ Chain' /\ Sorted'
  <2>1. waived \subseteq waived' /\ (all => Rewritten \subseteq waived')
    BY <1>10 DEF StartUpdate, Rewritten
  <2>2. CASE files["yaml"].id = 0
    <3>1. cmd' = Idle
      BY <1>10, <2>2 DEF StartUpdate, Start
    <3>2. Chain'
      BY <3>1, Shapes DEF Chain, Leads, Ended
    <3>3. Sorted'
      BY <1>2, <3>1, Shapes DEF Sorted, Ended, UpdatePlaces, Rewritten
    <3> QED
      BY <3>1, <3>2, <3>3, Shapes
  <2>3. CASE files["yaml"].id # 0
    <3> DEFINE q == UpdateSteps(all, plugins)
               c == [Idle EXCEPT !.kind = "update", !.plugins = plugins,
                                 !.cfg = files["yaml"], !.before = files, !.todo = q]
               e == [Idle EXCEPT !.kind = "update", !.plugins = plugins,
                                 !.cfg = files["yaml"], !.before = files]
    <3>1. cmd' = c
      BY <1>10, <2>3 DEF StartUpdate, Start
    <3>2. files["yaml"] \in Contents /\ files \in [Names -> Contents]
      BY DEF TypeOK, Names
    <3>3. e \in Commands /\ e.plugins = plugins /\ e.cfg = files["yaml"]
      BY <3>2, Shapes DEF Commands, Idle
    <3>4. q \in Seq(Steps) /\ Leads(e, waived', q, "end")
      <4> HIDE DEF e, q
      <4>1. /\ UpdateSteps(all, e.plugins) \in Seq(Steps)
            /\ Leads(e, waived', UpdateSteps(all, e.plugins), "end")
        BY <2>1, <3>3, UpdateIsChain
      <4> QED
        BY <3>3, <4>1 DEF q
    <3>5. q # <<>> /\ Head(q) = "gradle"
      BY DEF UpdateSteps, Frameworks, UserFiles
    <3> HIDE DEF q
    <3>6. /\ c \in Commands /\ c.todo = q /\ c.kind = "update" /\ c.rest = <<>>
          /\ c.cfg = e.cfg /\ c.plugins = e.plugins
      BY <3>2, <3>4, Shapes DEF Commands, Idle
    <3> HIDE DEF c, e
    <3>7. Chain'
      BY <3>1, <3>4, <3>6, SameChain DEF Chain
    <3>8. place' = "gradle"
      BY <1>2, <3>1, <3>5, <3>6 DEF PlaceOf
    <3>9. Sorted'
      BY <3>1, <3>6, <3>8 DEF Sorted, UpdatePlaces, Rewritten
    <3> QED
      BY <3>1, <3>6, <3>7, <3>9
  <2> QED
    BY <2>2, <2>3
<1>11. ASSUME NEW kind \in Targets, NEW scaffolded \in BOOLEAN, StartBuild(kind, scaffolded)
       PROVE  cmd' \in Commands /\ Chain' /\ Sorted'
  <2> DEFINE q == (IF kind \in Synced THEN SyncSteps ELSE <<>>) \o StepsOf(kind)
             r == IF kind # "all" THEN <<>>
                  ELSE IF scaffolded THEN <<"linux", "android", "image">> ELSE <<"linux", "android">>
             c == [Idle EXCEPT !.kind = kind, !.since = rev, !.cfg = files["yaml"], !.todo = q, !.rest = r]
  <2>1. cmd' = c
    BY <1>11 DEF StartBuild, Start
  <2>2. files["yaml"] \in Contents /\ rev \in Nat
    BY DEF TypeOK, Names
  <2>3. q \in Seq(Steps) /\ q # <<>> /\ Head(q) \in {"syncHook", "generate", "tarball", "remove"}
        /\ Leads(cmd', waived', q, "end")
    BY SyncIsChain
  <2>4. r \in Seq(Targets) /\ \A i \in DOMAIN r : r[i] \in {"linux", "android", "image"}
    <3>1. <<>> \in Seq(Targets) /\ \A i \in DOMAIN <<>> : <<>>[i] \in {"linux", "android", "image"}
      OBVIOUS
    <3>2. /\ <<"linux", "android", "image">> \in Seq(Targets)
          /\ \A i \in DOMAIN <<"linux", "android", "image">> :
                <<"linux", "android", "image">>[i] \in {"linux", "android", "image"}
      BY DEF Targets
    <3>3. /\ <<"linux", "android">> \in Seq(Targets)
          /\ \A i \in DOMAIN <<"linux", "android">> : <<"linux", "android">>[i] \in {"linux", "android", "image"}
      BY DEF Targets
    <3> QED
      BY <3>1, <3>2, <3>3
  <2> HIDE DEF q, r
  <2>5. c \in Commands /\ c.todo = q /\ c.rest = r /\ c.kind = kind /\ c.before = NoFiles
    BY <2>2, <2>3, <2>4, Shapes DEF Commands, Idle
  <2> HIDE DEF c
  <2>6. Chain'
    BY <2>1, <2>3, <2>5 DEF Chain
  <2>7. place' = Head(q)
    BY <1>2, <2>1, <2>3, <2>5 DEF PlaceOf
  <2>8. kind # "update"
    BY DEF Targets
  <2>9. Sorted'
    BY <2>1, <2>3, <2>4, <2>5, <2>7, <2>8 DEF Sorted, UpdatePlaces, Rewritten
  <2> QED
    BY <2>1, <2>5, <2>6, <2>9
<1> QED
  BY <1>3, <1>4, <1>5, <1>6, <1>7, <1>8, <1>9, <1>10, <1>11 DEF Moves
-----------------------------------------------------------------------------
FileTypes ==
    /\ files \in [Names -> Contents] /\ bak \in [Names -> Contents]
    /\ count \in [commands : Nat, edits : Nat, kills : Nat]
    /\ torn \in BOOLEAN /\ failed \in BOOLEAN
    /\ written \subseteq Texts /\ waived \subseteq Names
BuildTypes ==
    /\ rev \in Nat /\ lib \in Libs /\ jni \in [1..2 -> Libs] /\ marker \in BOOLEAN
    /\ bundle \in [here : BOOLEAN, ver : Versions, lib : Libs]
    /\ apk \in [here : BOOLEAN, name : Versions, ver : Versions, since : Nat, libs : [1..2 -> Libs]]
    /\ image \in Images /\ tarball \in Images
    /\ started \in {"nothing", "compiled", "without"}

\* The counters are numbers.
LEMMA Counting ==
    ASSUME TypeOK, NEW k \in {"commands", "edits", "kills"}
    PROVE  Counted(k) \in [commands : Nat, edits : Nat, kills : Nat]
BY DEF TypeOK, Counted

\* A write keeps the shape of the files if what it writes has it.
LEMMA WrittenTypes ==
    ASSUME TypeOK, NEW f, NEW content \in Contents, UNCHANGED updateVars,
           Wrote(f, content) \/ Saved(f) \/ Cut(f), f \in Names
    PROVE  FileTypes'
<1>1. updateVars' = updateVars /\ Empty \in Contents /\ files[f] \in Contents
  BY Shapes DEF TypeOK
<1>2. Counted("kills") \in [commands : Nat, edits : Nat, kills : Nat]
  BY Counting
<1>3. /\ files' \in {files, [files EXCEPT ![f] = content], [files EXCEPT ![f] = Empty]}
      /\ bak' \in {bak, [bak EXCEPT ![f] = files[f]], [bak EXCEPT ![f] = Empty]}
      /\ count' \in {count, Counted("kills")} /\ torn' \in {torn, TRUE}
  BY DEF Wrote, Saved, Cut
<1>4. files' \in [Names -> Contents] /\ bak' \in [Names -> Contents]
  BY <1>1, <1>3 DEF TypeOK
<1>5. count' \in [commands : Nat, edits : Nat, kills : Nat] /\ torn' \in BOOLEAN
  BY <1>2, <1>3 DEF TypeOK
<1> QED
  BY <1>1, <1>4, <1>5 DEF FileTypes, TypeOK, updateVars

\* So does go mod tidy.
LEMMA TidiedTypes ==
    ASSUME TypeOK, NEW content \in Contents, Tidied(content) PROVE FileTypes'
<1>1. Empty \in Contents /\ Counted("kills") \in [commands : Nat, edits : Nat, kills : Nat]
  BY Shapes, Counting
<1>2. /\ files' \in {files, [files EXCEPT !["gomod"] = content], [files EXCEPT !["gomod"] = Empty]}
      /\ bak' \in {bak, [bak EXCEPT !["gomod"] = Empty]}
      /\ count' \in {count, Counted("kills")} /\ torn' \in {torn, TRUE}
  BY DEF Tidied, Wrote, Cut
<1>3. files' \in [Names -> Contents] /\ bak' \in [Names -> Contents]
  BY <1>1, <1>2 DEF TypeOK
<1>4. count' \in [commands : Nat, edits : Nat, kills : Nat] /\ torn' \in BOOLEAN
  BY <1>1, <1>2 DEF TypeOK
<1>5. written' \subseteq Texts /\ waived' \subseteq Names /\ failed' \in BOOLEAN
  BY DEF Tidied, TypeOK
<1> QED
  BY <1>3, <1>4, <1>5 DEF FileTypes

\* An update keeps the shape of the files.
LEMMA UpdateFileTypes ==
    ASSUME TypeOK, UpdateNext PROVE FileTypes'
<1>1. CASE \E all, plugins \in BOOLEAN : StartUpdate(all, plugins)
  <2>1. PICK all \in BOOLEAN, plugins \in BOOLEAN : StartUpdate(all, plugins)
    BY <1>1
  <2>2. files' = files /\ bak' = bak /\ torn' = torn /\ count' = Counted("commands") /\ written' = written
    BY <2>1 DEF StartUpdate, Start
  <2>3. failed' \in BOOLEAN /\ waived' \subseteq Names
    BY <2>1 DEF StartUpdate, TypeOK, Names
  <2> QED
    BY <2>2, <2>3, Counting DEF FileTypes, TypeOK
<1>2. CASE PatchBundleID
  <2> DEFINE content == [files["gradle"] EXCEPT !.id = IF @ = 0 THEN 0 ELSE cfg.id]
  <2>1. content \in Contents /\ "gradle" \in Names
    <3>1. cfg.id \in {0} \cup Packages
      BY DEF TypeOK, Commands, cfg, Contents
    <3>2. files["gradle"] \in Contents /\ "gradle" \in Names
      BY DEF TypeOK, Names
    <3> QED
      BY <3>1, <3>2 DEF Contents
  <2>2. Wrote("gradle", content) \/ Cut("gradle")
    BY <1>2, Writing DEF PatchBundleID
  <2>3. UNCHANGED updateVars
    BY <1>2 DEF PatchBundleID
  <2> HIDE DEF content
  <2> QED
    BY <2>1, <2>2, <2>3, WrittenTypes
<1>3. CASE Relocate
  <2>1. UNCHANGED updateVars
    BY <1>3 DEF Relocate
  <2>2. CASE Activities = {}
    BY <1>3, <2>1, <2>2 DEF Relocate, Skip, FileTypes, TypeOK, updateVars
  <2>3. CASE Activities # {}
    <3>1. PICK f, content, next : /\ f = Activity(cfg.id) /\ content = Repackaged(files[FirstActivity])
                                  /\ WriteFile(f, content, next) /\ UNCHANGED bak
      BY <1>3, <2>3 DEF Relocate
    <3>2. f \in Names /\ content \in Contents
      BY <2>3, <3>1, FirstActivityIs, RenderingIsContent DEF Activity, Names
    <3> QED
      BY <2>1, <3>1, <3>2, Writing, WrittenTypes
  <2> QED
    BY <2>2, <2>3
<1>4. CASE RemoveOldActivity
  <2>1. files' \in [Names -> Contents]
    BY <1>4, Shapes DEF RemoveOldActivity, TypeOK
  <2> QED
    BY <1>4, <2>1 DEF RemoveOldActivity, FileTypes, TypeOK, updateVars
<1>5. CASE Render
  <2>1. PICK f, content : f = Target(place) /\ content = Text(place)
    OBVIOUS
  <2>2. f \in Names /\ content \in Contents /\ ApplyRendered(f, content) /\ UNCHANGED updateVars
    BY <1>5, <2>1, TextIsContent DEF Render
  <2> QED
    BY <2>2, Applying, WrittenTypes
<1>6. CASE RenderActivity
  <2>1. written' = written /\ waived' = waived
    BY <1>6 DEF RenderActivity
  <2>2. CASE Skip /\ UNCHANGED failed
    BY <2>1, <2>2 DEF Skip, FileTypes, TypeOK
  <2>3. CASE failed' = TRUE /\ UNCHANGED <<files, bak, count, torn>>
    BY <2>1, <2>3 DEF FileTypes, TypeOK
  <2>4. CASE Activities # {} /\ UNCHANGED failed
             /\ ApplyRendered(FirstActivity, [Generated(Installed) EXCEPT !.id = files[FirstActivity].id])
    <3>1. PICK f, content : f = FirstActivity /\ content = [Generated(Installed) EXCEPT !.id = files[f].id]
      OBVIOUS
    <3>2. f \in Names
      BY <2>4, <3>1, FirstActivityIs DEF Names
    <3>3. content \in Contents
      <4>1. files[f].id \in {0} \cup Packages
        BY <3>2 DEF TypeOK, Contents
      <4>2. Generated(Installed) \in Contents
        BY Shapes
      <4> QED
        BY <3>1, <4>1, <4>2 DEF Contents
    <3>4. UNCHANGED updateVars
      BY <2>1, <2>4 DEF updateVars
    <3> QED
      BY <2>4, <3>1, <3>2, <3>3, <3>4, Applying, WrittenTypes
  <2> QED
    BY <1>6, <2>2, <2>3, <2>4 DEF RenderActivity
<1>7. CASE Stamp
  <2> DEFINE content == [cfg EXCEPT !.gen = Installed, !.mine = FALSE]
  <2>1. content \in Contents /\ "yaml" \in Names
    BY Shapes DEF TypeOK, Commands, cfg, Contents, Names
  <2>2. Wrote("yaml", content) \/ Cut("yaml")
    BY <1>7, Writing DEF Stamp
  <2>3. UNCHANGED updateVars
    BY <1>7 DEF Stamp
  <2> HIDE DEF content
  <2> QED
    BY <2>1, <2>2, <2>3, WrittenTypes
<1>8. CASE SyncConfigFile
  <2>1. PICK f \in {"hook", "titlebar"} :
            \/ Skip
            \/ WriteFile(f, Generated(Installed), Onward) /\ UNCHANGED bak
    BY <1>8 DEF SyncConfigFile
  <2>2. UNCHANGED updateVars
    BY <1>8 DEF SyncConfigFile
  <2>3. CASE Skip
    BY <2>2, <2>3 DEF Skip, FileTypes, TypeOK, updateVars
  <2>4. CASE WriteFile(f, Generated(Installed), Onward) /\ UNCHANGED bak
    <3>1. f \in Names /\ Generated(Installed) \in Contents
      BY Shapes DEF Names
    <3> QED
      BY <2>2, <2>4, <3>1, Writing, WrittenTypes
  <2> QED
    BY <2>1, <2>3, <2>4
<1>9. ASSUME NEW content \in Contents, PinTidied(content) PROVE FileTypes'
  BY <1>9, TidiedTypes DEF PinTidied
<1> QED
  BY <1>1, <1>2, <1>3, <1>4, <1>5, <1>6, <1>7, <1>8, <1>9, RenderIs DEF UpdateNext
\* A step that changes no file keeps their shape.
LEMMA QuietTypes ==
    ASSUME TypeOK, Quiet PROVE FileTypes'
<1>1. count' \in [commands : Nat, edits : Nat, kills : Nat]
  BY Counting DEF Quiet, TypeOK
<1> QED
  BY <1>1 DEF Quiet, FileTypes, TypeOK, updateVars

\* A build keeps the shape of the files.
LEMMA BuildFileTypes ==
    ASSUME TypeOK, BuildNext PROVE FileTypes'
<1>1. CASE Quiet
  BY <1>1, QuietTypes
<1>2. CASE SyncAppVersion /\ ~Quiet
  <2> DEFINE content == [files["pubspec"] EXCEPT !.ver = cfg.ver]
  <2>1. cmd.todo # <<>>
    BY <1>2 DEF SyncAppVersion, Now
  <2>2. ~Proceed /\ ~GiveUp
    BY <1>2 DEF Proceed, GiveUp, Quiet
  <2>3. WriteFile("pubspec", content, Onward) /\ UNCHANGED <<bak, updateVars>>
    BY <1>2, <2>2 DEF SyncAppVersion
  <2>4. content \in Contents /\ "pubspec" \in Names
    <3>1. cfg.ver \in {0} \cup AppVersions
      BY DEF TypeOK, Commands, cfg, Contents
    <3>2. files["pubspec"] \in Contents /\ "pubspec" \in Names
      BY DEF TypeOK, Names
    <3> QED
      BY <3>1, <3>2 DEF Contents
  <2> HIDE DEF content
  <2> QED
    BY <2>3, <2>4, Writing, WrittenTypes
<1>3. CASE Tidy /\ ~Quiet
  <2>1. ~Proceed /\ ~GiveUp
    BY <1>3 DEF Proceed, GiveUp, Quiet
  <2>2. TidyGoMod(files["gomod"], Onward) /\ files["gomod"] \in Contents
    BY <1>3, <2>1 DEF Tidy, TypeOK, Names
  <2> QED
    BY <2>2, TidiedIs, TidiedTypes
<1> QED
  BY <1>1, <1>2, <1>3, BuildMoves

\* A build keeps the shape of what it makes.
LEMMA BuildBuildTypes ==
    ASSUME TypeOK, BuildNext PROVE BuildTypes'
<1>1. /\ NoLib \in Libs /\ NoImage \in Images
      /\ NoBundle \in [here : BOOLEAN, ver : Versions, lib : Libs]
      /\ NoApk \in [here : BOOLEAN, name : Versions, ver : Versions, since : Nat, libs : [1..2 -> Libs]]
  <2>1. NoLib \in Libs
    BY DEF NoLib, Lib, Libs, Versions
  <2>2. <<NoLib, NoLib>> \in [1..2 -> Libs]
    BY <2>1
  <2> QED
    BY <2>1, <2>2 DEF NoBundle, NoApk, NoImage, Images, Versions
<1>2. /\ cfg.ver \in Versions /\ files["pubspec"].ver \in Versions /\ cmd.since \in Nat
      /\ Compiled \in Libs
  BY DEF TypeOK, Commands, cfg, Contents, Names, Versions, Compiled, Lib, Libs
<1>3. BuildTypes
  BY DEF BuildTypes, TypeOK
<1>4. UNCHANGED buildVars => BuildTypes'
  BY <1>3 DEF BuildTypes, buildVars
<1>5. CASE BuildGoShared
  BY <1>2, <1>3, <1>5 DEF BuildGoShared, BuildTypes
<1>6. CASE DropMarker
  BY <1>3, <1>6 DEF DropMarker, BuildTypes
<1>7. CASE BuildFlutter
  <2>1. marker' \in BOOLEAN /\ UNCHANGED <<rev, lib, jni, apk, image, tarball, started>>
    BY <1>3, <1>7 DEF BuildFlutter, DeferredRemove, BuildTypes
  <2>2. bundle' \in {bundle, NoBundle} \/ bundle' = [here |-> TRUE, ver |-> files["pubspec"].ver, lib |-> NoLib]
    BY <1>7 DEF BuildFlutter
  <2>3. bundle' \in [here : BOOLEAN, ver : Versions, lib : Libs]
    <3>1. [here |-> TRUE, ver |-> files["pubspec"].ver, lib |-> NoLib] \in [here : BOOLEAN, ver : Versions, lib : Libs]
      BY <1>1, <1>2
    <3>2. bundle \in [here : BOOLEAN, ver : Versions, lib : Libs]
      BY <1>3 DEF BuildTypes
    <3> QED
      BY <1>1, <2>2, <3>1, <3>2
  <2> QED
    BY <1>3, <2>1, <2>3 DEF BuildTypes
<1>8. CASE BundleGoLib
  <2>1. marker' \in BOOLEAN /\ UNCHANGED <<rev, lib, jni, apk, image, tarball, started>>
    BY <1>3, <1>8 DEF BundleGoLib, DeferredRemove, BuildTypes
  <2>2. bundle' \in {bundle, [bundle EXCEPT !.lib = lib]}
    BY <1>8 DEF BundleGoLib
  <2> QED
    BY <1>3, <2>1, <2>2 DEF BuildTypes
<1>9. CASE FinishDesktop
  BY <1>3, <1>9 DEF FinishDesktop, DeferredRemove, BuildTypes
<1>10. CASE BuildABI
  <2>1. jni' \in [1..2 -> Libs]
    BY <1>2, <1>3, <1>10 DEF BuildABI, BuildTypes
  <2> QED
    BY <1>3, <1>10, <2>1 DEF BuildABI, BuildTypes
<1>11. CASE BuildApk
  <2>1. apk' \in [here : BOOLEAN, name : Versions, ver : Versions, since : Nat, libs : [1..2 -> Libs]]
    <3> DEFINE new == [here |-> TRUE, name |-> cfg.ver, ver |-> files["pubspec"].ver,
                       since |-> cmd.since, libs |-> jni]
    <3>1. apk' = apk \/ apk' = new
      BY <1>11 DEF BuildApk
    <3>2. /\ jni \in [1..2 -> Libs]
          /\ apk \in [here : BOOLEAN, name : Versions, ver : Versions, since : Nat, libs : [1..2 -> Libs]]
      BY <1>3 DEF BuildTypes
    <3>3. new \in [here : BOOLEAN, name : Versions, ver : Versions, since : Nat, libs : [1..2 -> Libs]]
      BY <1>2, <3>2
    <3> HIDE DEF new
    <3> QED
      BY <3>1, <3>2, <3>3
  <2> QED
    BY <1>3, <1>11, <2>1 DEF BuildApk, BuildTypes
<1>12. CASE BuildDeviceABI
  <2>1. jni' \in [1..2 -> Libs]
    BY <1>2, <1>3, <1>12 DEF BuildDeviceABI, BuildTypes
  <2> QED
    BY <1>3, <1>12, <2>1 DEF BuildDeviceABI, BuildTypes
<1>13. CASE RunFlutter
  BY <1>3, <1>13 DEF RunFlutter, BuildTypes
<1>14. CASE Assemble
  <2>1. image' \in Images
    <3>1. {bundle.lib, lib} \ {NoLib} \in SUBSET Libs /\ bundle.ver \in Versions
      BY <1>3 DEF BuildTypes
    <3> DEFINE new == [here |-> TRUE, name |-> cfg.ver, ver |-> bundle.ver, libs |-> {bundle.lib, lib} \ {NoLib}]
    <3>2. image' = image \/ image' = new
      BY <1>14 DEF Assemble
    <3>3. new \in Images
      BY <1>2, <3>1 DEF Images
    <3> HIDE DEF new
    <3> QED
      BY <1>3, <3>2, <3>3 DEF BuildTypes
  <2> QED
    BY <1>3, <1>14, <2>1 DEF Assemble, BuildTypes
<1>15. CASE PackageLinux
  <2>1. tarball' \in Images
    <3>1. {bundle.lib} \ {NoLib} \in SUBSET Libs /\ bundle.ver \in Versions
      BY <1>3 DEF BuildTypes
    <3> DEFINE new == [here |-> TRUE, name |-> cfg.ver, ver |-> bundle.ver, libs |-> {bundle.lib} \ {NoLib}]
    <3>2. tarball' = tarball \/ tarball' = new
      BY <1>15 DEF PackageLinux
    <3>3. new \in Images
      BY <1>2, <3>1 DEF Images
    <3> HIDE DEF new
    <3> QED
      BY <1>3, <3>2, <3>3 DEF BuildTypes
  <2> QED
    BY <1>3, <1>15, <2>1 DEF PackageLinux, BuildTypes
<1>16. CASE Clean
  <2>1. /\ lib' \in {lib, NoLib} /\ image' \in {image, NoImage} /\ tarball' \in {tarball, NoImage}
        /\ bundle' \in {bundle, NoBundle} /\ apk' \in {apk, NoApk}
        /\ UNCHANGED <<rev, marker, jni, started>>
    BY <1>16 DEF Clean, RemoveBuild, RemoveFrontendBuild, KeepBuild, KeepFrontendBuild
  <2> QED
    BY <1>1, <1>3, <2>1 DEF BuildTypes
<1>17. CASE FlutterClean
  <2>1. /\ bundle' \in {bundle, NoBundle} /\ apk' \in {apk, NoApk}
        /\ UNCHANGED <<rev, lib, image, tarball, marker, jni, started>>
    BY <1>17 DEF FlutterClean, RemoveFrontendBuild, KeepFrontendBuild
  <2> QED
    BY <1>1, <1>3, <2>1 DEF BuildTypes
<1>18. CASE (\E kind \in Targets, scaffolded \in BOOLEAN : StartBuild(kind, scaffolded))
             \/ NextTarget \/ GenerateBridge \/ SyncAppVersion \/ Tidy \/ CheckAppVersion \/ NeedBundle
  <2>1. UNCHANGED buildVars
    BY <1>18 DEF StartBuild, NextTarget, GenerateBridge, SyncAppVersion, Tidy, CheckAppVersion, NeedBundle
  <2> QED
    BY <1>4, <2>1
<1> QED
  BY <1>5, <1>6, <1>7, <1>8, <1>9, <1>10, <1>11, <1>12, <1>13, <1>14, <1>15, <1>16, <1>17, <1>18 DEF BuildNext

\* What a step of the developer changes: one file of the project, or the source.
Editors == (\E f \in Texts : EditText(f)) \/ (\E f \in {"make", "ignore", "kt1", "kt2"} : DeleteFile(f))
              \/ LoseEndMarker \/ Configure

\* The developer and a kill keep the shape of both.
LEMMA DevTypes ==
    ASSUME TypeOK, Editors \/ EditSource \/ Kill PROVE FileTypes' /\ BuildTypes'
<1>1. BuildTypes /\ (UNCHANGED buildVars => BuildTypes')
  BY DEF BuildTypes, TypeOK, buildVars
<1>2. /\ Counted("edits") \in [commands : Nat, edits : Nat, kills : Nat]
      /\ Counted("kills") \in [commands : Nat, edits : Nat, kills : Nat]
  BY Counting
<1>3. CASE \E f \in Texts : EditText(f)
  <2>1. PICK f \in Texts : EditText(f)
    BY <1>3
  <2>2. files' \in [Names -> Contents] /\ written' \subseteq Texts
    <3>1. f \in Names /\ files[f] \in Contents
      BY DEF Texts, Names, TypeOK
    <3>2. [files[f] EXCEPT !.mine = TRUE] \in Contents
      BY <3>1 DEF Contents
    <3> QED
      BY <2>1, <3>1, <3>2 DEF EditText, Put, TypeOK
  <2> QED
    BY <1>1, <1>2, <2>1, <2>2 DEF EditText, Editing, FileTypes, TypeOK
<1>4. CASE \E f \in {"make", "ignore", "kt1", "kt2"} : DeleteFile(f)
  <2>1. PICK f \in {"make", "ignore", "kt1", "kt2"} : DeleteFile(f)
    BY <1>4
  <2>2. files' \in [Names -> Contents] /\ written' \subseteq Texts
    BY <2>1, Shapes DEF DeleteFile, Put, TypeOK
  <2> QED
    BY <1>1, <1>2, <2>1, <2>2 DEF DeleteFile, Editing, FileTypes, TypeOK
<1>5. CASE LoseEndMarker
  <2>1. files' \in [Names -> Contents] /\ waived' \subseteq Names
    <3>1. "ignore" \in Names /\ files["ignore"] \in Contents
      BY DEF Names, TypeOK
    <3>2. [files["ignore"] EXCEPT !.gen = 0, !.opt = TRUE] \in Contents
      BY <3>1 DEF Contents
    <3> QED
      BY <1>5, <3>1, <3>2 DEF LoseEndMarker, Put, TypeOK
  <2> QED
    BY <1>1, <1>2, <1>5, <2>1 DEF LoseEndMarker, Editing, FileTypes, TypeOK
<1>6. CASE Configure
  <2>1. files' \in [Names -> Contents]
    BY <1>6 DEF Configure, Put, Names, Contents, TypeOK
  <2> QED
    BY <1>1, <1>2, <1>6, <2>1 DEF Configure, Editing, FileTypes, TypeOK
<1>7. CASE EditSource
  <2>1. BuildTypes'
    BY <1>1, <1>7 DEF EditSource, BuildTypes
  <2> QED
    BY <1>2, <1>7, <2>1 DEF EditSource, Editing, FileTypes, TypeOK
<1>8. CASE Kill
  <2>1. UNCHANGED <<files, bak, torn, written, failed, waived>> /\ UNCHANGED buildVars
    BY <1>8 DEF Kill, updateVars
  <2>2. count' = Counted("kills")
    BY <1>8 DEF Kill
  <2> QED
    BY <1>1, <1>2, <2>1, <2>2 DEF FileTypes, TypeOK
<1> QED
  BY <1>3, <1>4, <1>5, <1>6, <1>7, <1>8 DEF Editors

\* The type invariant is inductive with the chain of steps and the kind of command.
LEMMA TypeStep ==
    ASSUME TypeOK, Chain, Sorted, [Next]_vars
    PROVE  TypeOK' /\ Chain' /\ Sorted'
<1>1. cmd' \in Commands /\ Chain' /\ Sorted'
  BY NextMoves, CommandStep
<1>2. FileTypes' /\ BuildTypes'
  <2>1. FileTypes /\ BuildTypes
    BY DEF TypeOK, FileTypes, BuildTypes
  <2>2. UNCHANGED buildVars => BuildTypes'
    BY <2>1 DEF BuildTypes, buildVars
  <2>3. CASE UpdateNext /\ UNCHANGED buildVars
    BY <2>2, <2>3, UpdateFileTypes
  <2>4. CASE BuildNext
    BY <2>4, BuildFileTypes, BuildBuildTypes
  <2>5. CASE Editors \/ EditSource \/ Kill
    BY <2>5, DevTypes
  <2>6. CASE UNCHANGED vars
    <3>1. UNCHANGED <<files, bak, count, torn, written, failed, waived>> /\ UNCHANGED buildVars
      BY <2>6 DEF vars, fileVars, updateVars
    <3> QED
      BY <2>1, <2>2, <3>1 DEF FileTypes
  <2> QED
    BY <2>3, <2>4, <2>5, <2>6 DEF Next, Editors
<1> QED
  BY <1>1, <1>2 DEF TypeOK, FileTypes, BuildTypes

\* It holds of the project that flugo create makes.
LEMMA TypeInit ==
    ASSUME Init PROVE TypeOK /\ Chain /\ Sorted
<1>1. PICK id \in Packages : files = CreatedFiles(id, id = 1, id = 1, id = 2)
  BY DEF Init
<1>2. files \in [Names -> Contents]
  <2>1. Created \in Releases /\ Generated(Created) \in Contents
    BY Shapes DEF Releases
  <2>2. \A b \in BOOLEAN : [Generated(Created) EXCEPT !.opt = b] \in Contents
    BY <2>1 DEF Contents
  <2>3. \A b \in BOOLEAN :
            [Empty EXCEPT !.ver = FirstVersion, !.gen = IF b THEN Created ELSE 0] \in Contents
    BY <2>1, Shapes DEF Contents
  <2>4. \A b \in BOOLEAN : [Generated(Created) EXCEPT !.ver = FirstVersion, !.id = id, !.opt = b] \in Contents
    BY <2>1, Shapes DEF Contents
  <2>5. [Empty EXCEPT !.id = id] \in Contents /\ [Generated(Created) EXCEPT !.id = id] \in Contents
    BY <2>1, Shapes DEF Contents
  <2>6. Activity(id) \in {"kt1", "kt2"}
    BY DEF Activity
  <2>7. PICK custom \in BOOLEAN, replaced \in BOOLEAN, plugin \in BOOLEAN :
            files = CreatedFiles(id, custom, replaced, plugin)
    <3>1. (id = 1) \in BOOLEAN /\ (id = 2) \in BOOLEAN
      OBVIOUS
    <3> QED
      BY <1>1, <3>1, Zenon
  <2> DEFINE made(f) ==
                 CASE f \in {"hook", "titlebar", "make", "ignore"} -> Generated(Created)
                   [] f = "gomod" -> [Generated(Created) EXCEPT !.opt = replaced]
                   [] f = "pubspec" -> [Empty EXCEPT !.ver = FirstVersion, !.gen = IF plugin THEN Created ELSE 0]
                   [] f = "yaml" -> [Generated(Created) EXCEPT !.ver = FirstVersion, !.id = id, !.opt = custom]
                   [] f = "gradle" -> [Empty EXCEPT !.id = id]
                   [] f = Activity(id) -> [Generated(Created) EXCEPT !.id = id]
                   [] f \in {"kt1", "kt2"} \ {Activity(id)} -> Absent
  <2>8. files = [f \in Names |-> made(f)]
    BY <2>7, Zenon DEF CreatedFiles
  <2>9. ASSUME NEW f \in Names PROVE made(f) \in Contents
    <3>1. CASE f \in {"hook", "titlebar", "make", "ignore"}
      BY <2>1, <2>6, <3>1
    <3>2. CASE f = "gomod"
      <4>1. PICK content : content = [Generated(Created) EXCEPT !.opt = replaced]
        OBVIOUS
      <4>2. content \in Contents
        BY <2>2, <4>1, Zenon
      <4>3. made(f) = content
        BY <2>6, <3>2, <4>1
      <4> HIDE DEF made
      <4> QED
        BY <4>2, <4>3
    <3>3. CASE f = "pubspec"
      BY <2>3, <2>6, <3>3
    <3>4. CASE f = "yaml"
      BY <2>4, <2>6, <3>4
    <3>5. CASE f = "gradle"
      BY <2>5, <2>6, <3>5
    <3>6. CASE f \in {"kt1", "kt2"}
      BY <2>5, <2>6, <3>6, Shapes
    <3> QED
      BY <3>1, <3>2, <3>3, <3>4, <3>5, <3>6 DEF Names
  <2> HIDE DEF made
  <2> QED
    BY <2>8, <2>9
<1>3. bak \in [Names -> Contents]
  BY Shapes DEF Init
<1>4. FileTypes
  BY <1>2, <1>3 DEF Init, FileTypes
<1>5. BuildTypes
  <2>1. NoLib \in Libs
    BY DEF NoLib, Lib, Libs, Versions
  <2>2. <<NoLib, NoLib>> \in [1..2 -> Libs]
    BY <2>1
  <2>3. NoBundle \in [here : BOOLEAN, ver : Versions, lib : Libs] /\ NoImage \in Images
    BY <2>1 DEF NoBundle, NoImage, Images, Versions
  <2>4. NoApk \in [here : BOOLEAN, name : Versions, ver : Versions, since : Nat, libs : [1..2 -> Libs]]
    BY <2>2 DEF NoApk, Versions
  <2> QED
    BY <2>1, <2>2, <2>3, <2>4 DEF Init, BuildTypes
<1>6. cmd = Idle /\ cmd \in Commands
  BY Shapes DEF Init
<1>7. Chain
  BY <1>6, Shapes DEF Chain, Leads, Ended
<1>8. Sorted
  BY <1>6, Shapes DEF Sorted, Ended, place, UpdatePlaces, Rewritten
<1> QED
  BY <1>4, <1>5, <1>6, <1>7, <1>8 DEF TypeOK, FileTypes, BuildTypes

-----------------------------------------------------------------------------
\* After a step of a build the command is no update.
LEMMA OffUpdate ==
    ASSUME TypeOK, Chain, Sorted, BuildMove PROVE cmd'.kind # "update" /\ place' \notin UpdatePlaces
<1>1. cmd \in Commands
  BY DEF TypeOK
<1>2. Sorted'
  <2>1. BuildMove => Moves
    BY DEF BuildMove, Moves
  <2> QED
    BY <2>1, CommandStep
<1>3. CASE waived' = waived /\ cmd.todo # <<>> /\ place \notin UpdatePlaces \ {"flutterClean"} /\ cmd' = Onward
  <2>1. PlaceOf(cmd') \in Follow(cmd, waived, place)
    BY <1>1, <1>3, OnwardIs
  <2>2. place \in Steps /\ place' = PlaceOf(cmd')
    BY <1>1, <1>3, HeadIsFirst DEF place, PlaceOf, Commands
  <2>3. place' \notin UpdatePlaces
    BY <1>3, <2>1, <2>2, FollowSorted DEF UpdatePlaces
  <2> QED
    BY <1>2, <2>3 DEF Sorted
<1>4. CASE cmd' = Idle
  BY <1>2, <1>4, Shapes DEF Sorted, Ended
<1>5. CASE place \notin UpdatePlaces /\ cmd' = [cmd EXCEPT !.todo = <<>>]
  <2>1. cmd'.kind = cmd.kind
    BY <1>1, <1>5 DEF Commands
  <2> QED
    BY <1>2, <1>5, <2>1 DEF Sorted
<1>6. CASE NextTarget \/ (NeedBundle /\ ~bundle.here)
  <2>1. cmd'.kind = cmd.kind
    BY <1>1, <1>6 DEF NextTarget, NeedBundle, Commands
  <2>2. place \notin UpdatePlaces
    BY <1>6 DEF NextTarget, NeedBundle, Now, place, PlaceOf, UpdatePlaces
  <2> QED
    BY <1>2, <2>1, <2>2 DEF Sorted
<1>7. ASSUME NEW kind \in Targets, NEW scaffolded \in BOOLEAN, StartBuild(kind, scaffolded)
      PROVE  cmd'.kind # "update" /\ place' \notin UpdatePlaces
  <2>1. cmd'.kind = kind
    BY <1>7 DEF StartBuild, Start, Idle
  <2>2. kind # "update"
    BY DEF Targets
  <2> QED
    BY <1>2, <2>1, <2>2 DEF Sorted
<1> QED
  BY <1>3, <1>4, <1>5, <1>6, <1>7 DEF BuildMove

\* Inside an update a step that is done leads to the next one of the same update.
LEMMA Turning ==
    ASSUME TypeOK, Chain, Sorted, cmd.todo # <<>>, place \in UpdatePlaces \ {"flutterClean"},
           cmd' \in {Onward, Changing}
    PROVE  /\ Same(cmd') /\ cmd'.phase = "look" /\ cfg' = cfg
           /\ place' \in Follow(cmd, waived, place) /\ place' \in UpdatePlaces
<1>1. /\ cmd'.phase = "look" /\ PlaceOf(cmd') \in Follow(cmd, waived, place)
      /\ (Ended(cmd') /\ PlaceOf(cmd') = "end") \/ Same(cmd')
  <2>1. cmd \in Commands
    BY DEF TypeOK
  <2> QED
    BY <2>1, OnwardIs
<1>2. place \in Steps
  BY DEF UpdatePlaces, Steps
<1>3. place' = PlaceOf(cmd')
  BY DEF place
<1>4. place' \in UpdatePlaces
  BY <1>1, <1>2, <1>3, FollowSorted
<1>5. Same(cmd')
  BY <1>1, <1>3, <1>4 DEF UpdatePlaces
<1> QED
  BY <1>1, <1>3, <1>4, <1>5 DEF Same, cfg

\* What a step does to the project's files: nothing, a step of an update, a file that a build
\* brings in line with the configuration, a go mod tidy, or an edit.
Still == /\ UNCHANGED <<files, bak, torn, updateVars>>
         /\ cmd' = cmd \/ cmd'.kind # "update"
Brings(f, content) ==
    /\ cmd.kind # "update" /\ cmd'.kind # "update" /\ UNCHANGED updateVars
    /\ Wrote(f, content) \/ Cut(f)
    /\ \/ f \in {"hook", "titlebar"} /\ content = Generated(Installed)
       \/ f = "pubspec" /\ content = [files["pubspec"] EXCEPT !.ver = cfg.ver]
FileStep ==
    \/ Still
    \/ \E all, plugins \in BOOLEAN : StartUpdate(all, plugins)
    \/ PatchBundleID \/ Relocate \/ RemoveOldActivity \/ Render \/ RenderActivity \/ Stamp
    \/ \E f \in Names : \E content \in Contents : Brings(f, content)
    \/ \E content \in Contents : PinTidied(content) \/ GenTidied(content)
    \/ Editors

\* The sync of a configuration file changes that file or nothing.
LEMMA SyncIs ==
    ASSUME TypeOK, Chain, Sorted, SyncConfigFile
    PROVE  Still \/ \E f \in Names : \E content \in Contents : Brings(f, content)
<1>1. PICK f \in {"hook", "titlebar"} :
          /\ Now(IF f = "hook" THEN "syncHook" ELSE "syncTitlebar")
          /\ Skip \/ (WriteFile(f, Generated(Installed), Onward) /\ UNCHANGED bak)
  BY DEF SyncConfigFile
<1>2. cmd.todo # <<>> /\ place \notin UpdatePlaces
  BY <1>1 DEF Now, place, PlaceOf, UpdatePlaces
<1>3. UNCHANGED updateVars /\ waived' = waived
  BY DEF SyncConfigFile, updateVars
<1>4. cmd'.kind # "update"
  <2>1. cmd' = Onward \/ cmd' = Idle
    BY <1>1 DEF Skip, WriteFile
  <2>2. BuildMove
    BY <1>2, <1>3, <2>1 DEF BuildMove
  <2> QED
    BY <2>2, OffUpdate
<1>7. cmd.kind # "update"
  BY <1>2 DEF Sorted
<1>5. CASE Skip
  BY <1>3, <1>4, <1>5 DEF Skip, Still
<1>6. CASE WriteFile(f, Generated(Installed), Onward) /\ UNCHANGED bak
  <2>1. Wrote(f, Generated(Installed)) \/ Cut(f)
    BY <1>6, Writing
  <2>2. Brings(f, Generated(Installed))
    BY <1>3, <1>4, <1>7, <2>1 DEF Brings
  <2>3. f \in Names /\ Generated(Installed) \in Contents
    BY Shapes DEF Names
  <2> QED
    BY <2>2, <2>3
<1> QED
  BY <1>1, <1>5, <1>6

\* A build changes one file at most.
LEMMA BuildIs ==
    ASSUME TypeOK, Chain, Sorted, BuildNext
    PROVE  \/ Still
           \/ \E f \in Names : \E content \in Contents : Brings(f, content)
           \/ \E content \in Contents : GenTidied(content)
<1>1. cmd'.kind # "update" /\ (Quiet \/ SyncAppVersion \/ Tidy)
  BY BuildMoves, OffUpdate
<1>2. CASE Quiet
  BY <1>1, <1>2 DEF Quiet, Still
<1>3. CASE SyncAppVersion /\ ~Quiet
  <2>1. PICK content : content = [files["pubspec"] EXCEPT !.ver = cfg.ver]
    OBVIOUS
  <2>2. ~Proceed /\ ~GiveUp
    BY <1>3 DEF Proceed, GiveUp, Quiet
  <2>3. WriteFile("pubspec", content, Onward) /\ UNCHANGED <<bak, updateVars>>
    BY <1>3, <2>1, <2>2 DEF SyncAppVersion
  <2>4. Wrote("pubspec", content) \/ Cut("pubspec")
    BY <2>3, Writing
  <2>7. cmd.kind # "update"
    BY <1>3 DEF SyncAppVersion, Now, Sorted, place, PlaceOf, UpdatePlaces
  <2>5. Brings("pubspec", content)
    BY <1>1, <2>7, <2>1, <2>3, <2>4 DEF Brings
  <2>6. "pubspec" \in Names /\ content \in Contents
    <3>1. cfg.ver \in {0} \cup AppVersions
      BY DEF TypeOK, Commands, cfg, Contents
    <3>2. files["pubspec"] \in Contents /\ "pubspec" \in Names
      BY DEF TypeOK, Names
    <3> QED
      BY <2>1, <3>1, <3>2 DEF Contents
  <2> QED
    BY <2>5, <2>6
<1>4. CASE Tidy /\ ~Quiet
  <2>1. ~Proceed /\ ~GiveUp
    BY <1>4 DEF Proceed, GiveUp, Quiet
  <2>2. TidyGoMod(files["gomod"], Onward) /\ files["gomod"] \in Contents
    BY <1>4, <2>1 DEF Tidy, TypeOK, Names
  <2>3. \E content \in Contents : Tidied(content)
    BY <2>2, TidiedIs
  <2>4. cmd.kind # "update"
    BY <1>4 DEF Tidy, Now, Sorted, place, PlaceOf, UpdatePlaces
  <2> QED
    BY <1>1, <2>3, <2>4 DEF GenTidied
<1> QED
  BY <1>1, <1>2, <1>3, <1>4

\* What any step does to the files, in the form the proofs about files use.
LEMMA FileSteps ==
    ASSUME TypeOK, Chain, Sorted, [Next]_vars PROVE FileStep
<1>1. CASE UNCHANGED vars
  BY <1>1 DEF vars, fileVars, updateVars, FileStep, Still
<1>2. CASE UpdateNext
  BY <1>2, SyncIs, RenderIs DEF UpdateNext, FileStep
<1>3. CASE BuildNext
  BY <1>3, BuildIs DEF FileStep
<1>4. CASE EditSource
  BY <1>4 DEF EditSource, Editing, updateVars, FileStep, Still
<1>5. CASE Kill
  <2>1. cmd'.kind # "update"
    BY <1>5, Shapes DEF Kill, Ended
  <2> QED
    BY <1>5, <2>1 DEF Kill, FileStep, Still
<1> QED
  BY <1>1, <1>2, <1>3, <1>4, <1>5 DEF Next, Editors, FileStep

-----------------------------------------------------------------------------
\* An update is under way at its own steps only.
LEMMA Updating ==
    ASSUME Sorted, place \in UpdatePlaces PROVE cmd.kind = "update"
BY DEF Sorted

\* A cut ends the command, and a write that is done changes one file.
LEMMA WroteFile ==
    ASSUME TypeOK, NEW f \in Names, NEW content \in Contents, Wrote(f, content)
    PROVE  files'[f] = content /\ (\A g \in Names \ {f} : files'[g] = files[g]) /\ torn' = torn
BY DEF Wrote, TypeOK

\* A write that is cut short ends the command.
LEMMA CutEnds ==
    ASSUME NEW f, Cut(f) PROVE torn' /\ cmd'.kind # "update" /\ place' = "end" /\ cmd'.before = NoFiles
BY Shapes DEF Cut, Ended, place

\* Unless a write was cut short, flugo.yaml and MainActivity.kt keep naming a package, so that an update
\* has no reason to refuse.
LEMMA NamedStep ==
    ASSUME TypeOK, Chain, Sorted, Named, OnlyTornFilesStopUpdate, [Next]_vars
    PROVE  Named' /\ OnlyTornFilesStopUpdate'
<1> DEFINE AllNamed == /\ files["yaml"].id # 0
                       /\ files["kt1"].here => files["kt1"].id # 0
                       /\ files["kt2"].here => files["kt2"].id # 0
<1>1. Named <=> (cmd.kind = "update" => cfg.id # 0) /\ (~torn => AllNamed)
  BY DEF Named, Packages, Activity
<1>2. Named' <=> (cmd'.kind = "update" => cfg'.id # 0) /\ (~torn' => AllNamed')
  BY DEF Named, Packages, Activity
<1>3. {"yaml", "kt1", "kt2", "hook", "titlebar", "pubspec", "gradle"} \subseteq Names
  BY DEF Names
<1>4. CASE Still
  BY <1>1, <1>2, <1>4 DEF Still, updateVars, OnlyTornFilesStopUpdate, cfg
<1>5. ASSUME NEW all \in BOOLEAN, NEW plugins \in BOOLEAN, StartUpdate(all, plugins)
      PROVE  Named' /\ OnlyTornFilesStopUpdate'
  <2>1. files' = files /\ torn' = torn /\ failed' = (files["yaml"].id = 0)
    BY <1>5 DEF StartUpdate, Start
  <2>2. cmd'.kind = "update" => cmd'.cfg.id # 0
    <3>1. CASE files["yaml"].id = 0
      BY <1>5, <3>1, Shapes DEF StartUpdate, Start, Ended
    <3>2. CASE files["yaml"].id # 0
      <4>1. cmd' = [Idle EXCEPT !.kind = "update", !.plugins = plugins, !.cfg = files["yaml"],
                                !.before = files, !.todo = UpdateSteps(all, plugins)]
        BY <1>5, <3>2 DEF StartUpdate, Start
      <4> QED
        BY <3>2, <4>1 DEF Idle
    <3> QED
      BY <3>1, <3>2
  <2>3. Named'
    BY <1>1, <1>2, <2>1, <2>2 DEF cfg
  <2>4. torn \in BOOLEAN
    BY DEF TypeOK
  <2>5. failed' => torn'
    BY <1>1, <2>1, <2>4
  <2> QED
    BY <2>3, <2>5 DEF OnlyTornFilesStopUpdate
<1>6. ASSUME NEW f, Cut(f), failed' = failed PROVE Named' /\ OnlyTornFilesStopUpdate'
  BY <1>2, <1>6, CutEnds DEF OnlyTornFilesStopUpdate
<1>7. ASSUME NEW f \in Names, NEW content \in Contents, Wrote(f, content), failed' = failed,
             cmd'.kind = "update" => cfg'.id # 0,
             ~torn => (f = "yaml" => content.id # 0) /\ (f \in {"kt1", "kt2"} /\ content.here => content.id # 0)
      PROVE  Named' /\ OnlyTornFilesStopUpdate'
  <2>1. files'[f] = content /\ (\A g \in Names \ {f} : files'[g] = files[g]) /\ torn' = torn
    BY <1>7, WroteFile
  <2>2. ~torn => AllNamed'
    BY <1>1, <1>3, <1>7, <2>1
  <2> QED
    BY <1>2, <1>7, <2>1, <2>2 DEF OnlyTornFilesStopUpdate
<1>8. ASSUME place \in UpdatePlaces \ {"flutterClean"}, cmd.todo # <<>>, cmd' \in {Onward, Changing}
      PROVE  cfg' = cfg /\ cfg'.id # 0
  BY <1>1, <1>8, Turning, Updating
<1>9. CASE PatchBundleID
  <2> DEFINE content == [files["gradle"] EXCEPT !.id = IF @ = 0 THEN 0 ELSE cfg.id]
  <2>1. failed' = failed /\ cmd.todo # <<>> /\ place \in UpdatePlaces \ {"flutterClean"}
    BY <1>9 DEF PatchBundleID, updateVars, Now, place, PlaceOf, UpdatePlaces
  <2>2. (Wrote("gradle", content) /\ cmd' = Onward) \/ Cut("gradle")
    BY <1>9, Writing DEF PatchBundleID
  <2>3. content \in Contents
    <3>1. cfg.id \in {0} \cup Packages /\ files["gradle"] \in Contents
      BY <1>3 DEF TypeOK, Commands, cfg, Contents
    <3> QED
      BY <3>1 DEF Contents
  <2> HIDE DEF content
  <2>4. CASE Wrote("gradle", content) /\ cmd' = Onward
    <3>1. cfg'.id # 0
      BY <1>8, <2>1, <2>4
    <3> QED
      BY <1>3, <1>7, <2>1, <2>3, <2>4, <3>1
  <2> QED
    BY <1>6, <2>1, <2>2, <2>4
<1>10. CASE Relocate
  <2>1. failed' = failed /\ cmd.todo # <<>> /\ place \in UpdatePlaces \ {"flutterClean"}
    BY <1>10 DEF Relocate, updateVars, Now, place, PlaceOf, UpdatePlaces
  <2>2. CASE Activities = {}
    <3>1. cmd' = Onward /\ files' = files /\ torn' = torn
      BY <1>10, <2>2 DEF Relocate, Skip
    <3>2. cfg'.id # 0
      BY <1>8, <2>1, <3>1
    <3> QED
      BY <1>1, <1>2, <2>1, <3>1, <3>2 DEF OnlyTornFilesStopUpdate
  <2>3. CASE Activities # {}
    <3>1. PICK first, f, content, next :
              /\ first = FirstActivity /\ f = Activity(cfg.id) /\ content = Repackaged(files[first])
              /\ next = IF first = f THEN Onward ELSE [cmd EXCEPT !.phase = "write", !.old = first]
              /\ WriteFile(f, content, next) /\ UNCHANGED bak
      BY <1>10, <2>3 DEF Relocate
    <3>2. first \in {"kt1", "kt2"} /\ files[first].here
      BY <2>3, <3>1, FirstActivityIs
    <3>3. f \in Names /\ content \in Contents
      BY <3>1, <3>2, RenderingIsContent DEF Activity, Names
    <3>4. (Wrote(f, content) /\ cmd' = next) \/ Cut(f)
      BY <3>1, Writing
    <3>5. cfg.id # 0
      BY <1>1, <2>1, Updating
    <3>6. ~torn => content.id # 0
      <4>1. files[first] \in Contents
        BY <3>2 DEF TypeOK, Names
      <4>2. ~torn => files[first].id # 0
        BY <1>1, <3>2
      <4> QED
        BY <3>1, <3>5, <4>1, <4>2 DEF Repackaged, Contents
    <3>7. f # "yaml"
      BY <3>1 DEF Activity
    <3>8. CASE Wrote(f, content) /\ cmd' = next
      <4>1. cfg'.id # 0
        <5>1. CASE next = Onward
          BY <1>8, <2>1, <3>8, <5>1
        <5>2. CASE next = [cmd EXCEPT !.phase = "write", !.old = first]
          BY <3>5, <3>8, <5>2 DEF cfg, TypeOK, Commands
        <5> QED
          BY <3>1, <5>1, <5>2
      <4> QED
        BY <1>7, <2>1, <3>3, <3>6, <3>7, <3>8, <4>1
    <3> QED
      BY <1>6, <2>1, <3>4, <3>8
  <2> QED
    BY <2>2, <2>3
<1>11. CASE RemoveOldActivity
  <2>1. failed' = failed /\ torn' = torn /\ cmd.todo # <<>> /\ place \in UpdatePlaces \ {"flutterClean"}
    BY <1>11 DEF RemoveOldActivity, updateVars, Now, place, PlaceOf, UpdatePlaces
  <2>2. cfg'.id # 0
    <3>1. cmd' = Onward
      BY <1>11 DEF RemoveOldActivity
    <3> QED
      BY <1>8, <2>1, <3>1
  <2>3. PICK old \in {"", "kt1", "kt2"} : files' = [files EXCEPT ![old] = Absent]
    BY <1>11 DEF RemoveOldActivity, TypeOK, Commands
  <2>4. files'["yaml"] = files["yaml"] /\ \A g \in {"kt1", "kt2"} : files'[g] \in {files[g], Absent}
    <3>1. files \in [Names -> Contents]
      BY DEF TypeOK
    <3>2. \A g \in Names : files'[g] = IF g = old THEN Absent ELSE files[g]
      BY <2>3, <3>1
    <3> QED
      BY <1>3, <2>3, <3>2
  <2>5. ~torn => AllNamed'
    <3>1. ~Absent.here
      BY DEF Absent, Empty
    <3> QED
      BY <1>1, <2>4, <3>1
  <2> QED
    BY <1>2, <2>1, <2>2, <2>5 DEF OnlyTornFilesStopUpdate
<1>12. CASE Render
  <2>1. failed' = failed /\ cmd.todo # <<>> /\ place \in Rendered /\ place \in UpdatePlaces \ {"flutterClean"}
    BY <1>12 DEF Render, updateVars, Rendered, UpdatePlaces
  <2>2. cfg.id # 0
    BY <1>1, <2>1, Updating
  <2>3. PICK f, content : f = Target(place) /\ content = Text(place)
    OBVIOUS
  <2>4. f \in Names /\ content \in Contents /\ ApplyRendered(f, content)
    BY <1>12, <2>1, <2>3, TextIsContent DEF Render
  <2>5. f \notin {"kt1", "kt2"} /\ (f = "yaml" => content.id # 0)
    <3>1. f \notin {"kt1", "kt2"} /\ (f = "yaml" => place = "yaml")
      BY <2>1, <2>3 DEF Rendered, Target
    <3>2. place = "yaml" => Text(place) = [Generated(Installed) EXCEPT !.ver = FirstVersion, !.id = cfg.id]
      BY DEF Text, Rendering
    <3>3. [Generated(Installed) EXCEPT !.ver = FirstVersion, !.id = cfg.id].id = cfg.id
      BY DEF Generated, Empty
    <3> QED
      BY <2>2, <2>3, <3>1, <3>2, <3>3
  <2>6. CASE Wrote(f, content) /\ cmd' \in {Onward, Changing}
    <3>1. cfg'.id # 0
      BY <1>8, <2>1, <2>6
    <3> QED
      BY <1>7, <2>1, <2>4, <2>5, <2>6, <3>1
  <2>7. CASE Saved(f)
    <3>1. files' = files /\ torn' = torn /\ cfg' = cfg
      BY <2>7 DEF Saved, cfg, TypeOK, Commands
    <3> QED
      BY <1>1, <1>2, <2>1, <2>2, <3>1 DEF OnlyTornFilesStopUpdate
  <2> QED
    BY <1>6, <2>1, <2>4, <2>6, <2>7, Applying
<1>13. CASE RenderActivity
  <2>1. cmd.todo # <<>> /\ place \in UpdatePlaces \ {"flutterClean"}
    BY <1>13 DEF RenderActivity, updateVars, Now, place, PlaceOf, UpdatePlaces
  <2>2. CASE Skip /\ UNCHANGED failed
    <3>1. cmd' = Onward /\ files' = files /\ torn' = torn
      BY <2>2 DEF Skip
    <3>2. cfg'.id # 0
      BY <1>8, <2>1, <3>1
    <3> QED
      BY <1>1, <1>2, <2>2, <3>1, <3>2 DEF OnlyTornFilesStopUpdate
  <2>3. CASE /\ Activities # {} /\ files[FirstActivity].id # 0 /\ UNCHANGED failed
             /\ ApplyRendered(FirstActivity, [Generated(Installed) EXCEPT !.id = files[FirstActivity].id])
    <3>1. PICK f, content : f = FirstActivity /\ content = [Generated(Installed) EXCEPT !.id = files[f].id]
      OBVIOUS
    <3>2. f \in {"kt1", "kt2"} /\ f \in Names
      BY <1>3, <2>3, <3>1, FirstActivityIs
    <3>3. content \in Contents /\ content.id # 0
      <4>1. files[f].id \in {0} \cup Packages /\ files[f].id # 0
        BY <2>3, <3>1, <3>2 DEF TypeOK, Contents
      <4>2. Generated(Installed) \in Contents
        BY Shapes
      <4> QED
        BY <3>1, <4>1, <4>2 DEF Contents
    <3>4. ApplyRendered(f, content)
      BY <2>3, <3>1
    <3>5. CASE Wrote(f, content) /\ cmd' \in {Onward, Changing}
      <4>1. cfg'.id # 0
        BY <1>8, <2>1, <3>5
      <4> QED
        BY <1>7, <2>3, <3>2, <3>3, <3>5, <4>1
    <3>6. CASE Saved(f)
      <4>1. files' = files /\ torn' = torn /\ cfg' = cfg
        BY <3>6 DEF Saved, cfg, TypeOK, Commands
      <4>2. cfg.id # 0
        BY <1>1, <2>1, Updating
      <4> QED
        BY <1>1, <1>2, <2>3, <4>1, <4>2 DEF OnlyTornFilesStopUpdate
    <3> QED
      BY <1>6, <2>3, <3>2, <3>4, <3>5, <3>6, Applying
  <2>4. CASE /\ Activities # {} /\ files[FirstActivity].id = 0
             /\ cmd' = Idle /\ UNCHANGED <<files, torn>>
    <3>1. torn
      BY <1>1, <2>4, FirstActivityIs
    <3>2. cmd'.kind # "update" /\ torn'
      BY <2>4, <3>1, Shapes DEF Ended
    <3> QED
      BY <1>2, <3>2 DEF OnlyTornFilesStopUpdate
  <2> QED
    BY <1>13, <2>2, <2>3, <2>4 DEF RenderActivity
<1>14. CASE Stamp
  <2> DEFINE content == [cfg EXCEPT !.gen = Installed, !.mine = FALSE]
  <2>1. failed' = failed /\ cmd.todo # <<>> /\ place \in UpdatePlaces \ {"flutterClean"}
    BY <1>14 DEF Stamp, updateVars, Now, place, PlaceOf, UpdatePlaces
  <2>2. (Wrote("yaml", content) /\ cmd' = Onward) \/ Cut("yaml")
    BY <1>14, Writing DEF Stamp
  <2>3. content \in Contents /\ content.id # 0
    <3>1. cfg \in Contents /\ cfg.id # 0 /\ Installed \in Releases
      BY <1>1, <2>1, Shapes, Updating DEF TypeOK, Commands, cfg
    <3> QED
      BY <3>1 DEF Contents
  <2> HIDE DEF content
  <2>4. CASE Wrote("yaml", content) /\ cmd' = Onward
    <3>1. cfg'.id # 0
      BY <1>8, <2>1, <2>4
    <3> QED
      BY <1>3, <1>7, <2>1, <2>3, <2>4, <3>1
  <2> QED
    BY <1>6, <2>1, <2>2, <2>4
<1>15. ASSUME NEW f \in Names, NEW content \in Contents, Brings(f, content)
       PROVE  Named' /\ OnlyTornFilesStopUpdate'
  <2>1. failed' = failed /\ cmd'.kind # "update" /\ f \notin {"yaml", "kt1", "kt2"}
    BY <1>15 DEF Brings, updateVars
  <2>2. Wrote(f, content) \/ Cut(f)
    BY <1>15 DEF Brings
  <2> QED
    BY <1>6, <1>7, <2>1, <2>2
<1>17. ASSUME NEW content \in Contents, PinTidied(content) \/ GenTidied(content)
       PROVE  Named' /\ OnlyTornFilesStopUpdate'
  <2>1. Tidied(content) /\ failed' = failed /\ "gomod" \in Names
    BY <1>17 DEF PinTidied, GenTidied, Tidied, Names
  <2>2. CASE Cut("gomod")
    BY <1>6, <2>1, <2>2
  <2>3. CASE Wrote("gomod", content) /\ cmd' \in {Onward, Changing}
    <3>1. cmd'.kind = "update" => cfg'.id # 0
      BY <1>8, <1>17, <2>3 DEF PinTidied, GenTidied, UpdatePlaces
    <3> QED
      BY <1>7, <2>1, <2>3, <3>1
  <2> QED
    BY <2>1, <2>2, <2>3 DEF Tidied
<1>16. CASE Editors
  <2>1. cmd' = cmd /\ torn' = torn /\ failed' = failed
    BY <1>16 DEF Editors, Editing, EditText, DeleteFile, LoseEndMarker, Configure
  <2>2. ASSUME NEW f \in Names, NEW content, files' = [files EXCEPT ![f] = content],
               f = "yaml" /\ files["yaml"].id # 0 => content.id # 0,
               f \in {"kt1", "kt2"} => ~content.here
        PROVE  Named' /\ OnlyTornFilesStopUpdate'
    <3>1. files'[f] = content /\ \A g \in Names \ {f} : files'[g] = files[g]
      BY <2>2 DEF TypeOK
    <3>2. ~torn => AllNamed'
      BY <1>1, <1>3, <2>2, <3>1
    <3> QED
      BY <1>1, <1>2, <2>1, <3>2 DEF OnlyTornFilesStopUpdate, cfg
  <2>3. CASE \E f \in Texts : EditText(f)
    <3>1. PICK f \in Texts : EditText(f)
      BY <2>3
    <3>2. f \in Names \ {"yaml", "kt1", "kt2"} /\ files' = [files EXCEPT ![f] = [files[f] EXCEPT !.mine = TRUE]]
      BY <3>1 DEF EditText, Put, Texts, Names
    <3> QED
      BY <2>2, <3>2
  <2>4. CASE \E f \in {"make", "ignore", "kt1", "kt2"} : DeleteFile(f)
    <3>1. PICK f \in {"make", "ignore", "kt1", "kt2"} : DeleteFile(f)
      BY <2>4
    <3>2. f \in Names \ {"yaml"} /\ files' = [files EXCEPT ![f] = Absent] /\ ~Absent.here
      BY <3>1 DEF DeleteFile, Put, Names, Absent, Empty
    <3> QED
      BY <2>2, <3>2
  <2>5. CASE LoseEndMarker
    <3>1. files' = [files EXCEPT !["ignore"] = [files["ignore"] EXCEPT !.gen = 0, !.opt = TRUE]] /\ "ignore" \in Names
      BY <2>5 DEF LoseEndMarker, Put, Names
    <3> QED
      BY <2>2, <3>1
  <2>6. CASE Configure
    <3>1. PICK content : /\ files' = [files EXCEPT !["yaml"] = content]
                         /\ content.id # 0
      <4>1. files["yaml"] \in Contents /\ files["yaml"].id # 0 /\ \A id \in Packages : id # 0
        BY <1>3, <2>6 DEF Configure, TypeOK, Packages
      <4>2. CASE \E v \in AppVersions \ {files["yaml"].ver} : Put("yaml", [files["yaml"] EXCEPT !.ver = v])
        BY <4>1, <4>2 DEF Put, Contents
      <4>3. CASE \E id \in Packages \ {files["yaml"].id} : Put("yaml", [files["yaml"] EXCEPT !.id = id])
        BY <4>1, <4>3 DEF Put, Contents
      <4> QED
        BY <2>6, <4>2, <4>3 DEF Configure
    <3> QED
      BY <1>3, <2>2, <3>1
  <2> QED
    BY <1>16, <2>3, <2>4, <2>5, <2>6 DEF Editors
<1> QED
  BY <1>4, <1>5, <1>9, <1>10, <1>11, <1>12, <1>13, <1>14, <1>15, <1>16, <1>17, FileSteps DEF FileStep

-----------------------------------------------------------------------------
\* The steps of an update that work on other files than those with the developer's text: the command
\* ends, goes on, or stays where it is.
Elsewhere ==
    /\ place \in {"gradle", "relocate", "activity", "stamp"}
    /\ \A g \in Texts : files'[g] = files[g] /\ bak'[g] = bak[g]
    /\ (torn => torn') /\ UNCHANGED <<written, waived>>
    /\ \/ cmd'.kind # "update"
       \/ Same(cmd') /\ cmd'.phase = "look" /\ place' \in Follow(cmd, waived, place) /\ place' \in UpdatePlaces
       \/ Same(cmd') /\ place' = place

\* A write to a file that holds no text of the developer's leaves the texts and their copies alone.
LEMMA WritesElsewhere ==
    ASSUME TypeOK, NEW f, NEW content, f \notin Texts, Wrote(f, content) \/ Cut(f) \/ Saved(f)
    PROVE  (\A g \in Texts : files'[g] = files[g] /\ bak'[g] = bak[g]) /\ (torn => torn')
<1>1. files \in [Names -> Contents] /\ bak \in [Names -> Contents] /\ Texts \subseteq Names
  BY DEF TypeOK, Texts, Names
<1>2. PICK a, b : /\ files' \in {files, [files EXCEPT ![f] = a]} /\ bak' \in {bak, [bak EXCEPT ![f] = b]}
                  /\ torn => torn'
  <2>1. CASE Wrote(f, content)
    BY <2>1 DEF Wrote
  <2>2. CASE Cut(f)
    BY <2>2 DEF Cut
  <2>3. CASE Saved(f)
    BY <2>3 DEF Saved
  <2> QED
    BY <2>1, <2>2, <2>3
<1> QED
  BY <1>1, <1>2

\* These steps of an update write to no text of the developer's.
LEMMA ElsewhereIs ==
    ASSUME TypeOK, Chain, Sorted, PatchBundleID \/ Relocate \/ RemoveOldActivity \/ RenderActivity \/ Stamp
    PROVE  Elsewhere
<1>1. /\ place \in {"gradle", "relocate", "activity", "stamp"} /\ cmd.todo # <<>>
      /\ UNCHANGED <<written, waived>>
  BY DEF PatchBundleID, Relocate, RemoveOldActivity, RenderActivity, Stamp, Now, place, PlaceOf, updateVars
<1> DEFINE Texted == (\A g \in Texts : files'[g] = files[g] /\ bak'[g] = bak[g]) /\ (torn => torn')
<1>2. ASSUME cmd' \in {Onward, Changing}, Texted PROVE Elsewhere
  <2>1. place \in UpdatePlaces \ {"flutterClean"}
    BY <1>1 DEF UpdatePlaces
  <2>2. Same(cmd') /\ cmd'.phase = "look" /\ place' \in Follow(cmd, waived, place) /\ place' \in UpdatePlaces
    BY <1>1, <1>2, <2>1, Turning
  <2> QED
    BY <1>1, <1>2, <2>2 DEF Elsewhere
<1>3. ASSUME cmd' = Idle, Texted PROVE Elsewhere
  BY <1>1, <1>3, Shapes DEF Elsewhere, Ended
<1>4. ASSUME NEW old, Backs(old), Texted PROVE Elsewhere
  <2>1. Same(cmd') /\ cmd'.todo = cmd.todo
    BY <1>4 DEF Backs, Same, TypeOK, Commands
  <2>2. place' = place
    BY <2>1 DEF place, PlaceOf
  <2> QED
    BY <1>1, <1>4, <2>1, <2>2 DEF Elsewhere
<1>5. ASSUME NEW f \in Names \ Texts, NEW content, Wrote(f, content) \/ Cut(f) \/ Saved(f) PROVE Texted
  BY <1>5, WritesElsewhere
<1>6. UNCHANGED <<files, bak, torn>> => Texted
  OBVIOUS
<1> HIDE DEF Texted
<1>7. ASSUME NEW f \in Names \ Texts, Cut(f) PROVE Elsewhere
  BY <1>3, <1>5, <1>7 DEF Cut
<1>8. {"gradle", "kt1", "kt2", "yaml"} \subseteq Names \ Texts
  BY DEF Names, Texts
<1>9. CASE PatchBundleID
  <2>1. PICK content : WriteFile("gradle", content, Onward) /\ UNCHANGED bak
    BY <1>9 DEF PatchBundleID
  <2> QED
    BY <1>2, <1>5, <1>7, <1>8, <2>1, Writing
<1>10. CASE Relocate
  <2>1. CASE Activities = {}
    <3>1. cmd' = Onward /\ UNCHANGED <<files, bak, torn>>
      BY <1>10, <2>1 DEF Relocate, Skip
    <3> QED
      BY <1>2, <1>6, <3>1
  <2>2. CASE Activities # {}
    <3>1. PICK f, content, next :
              /\ f = Activity(cfg.id) /\ WriteFile(f, content, next) /\ UNCHANGED bak
              /\ next = Onward \/ next = [cmd EXCEPT !.phase = "write", !.old = FirstActivity]
      BY <1>10, <2>2 DEF Relocate
    <3>2. f \in Names \ Texts
      BY <1>8, <3>1 DEF Activity
    <3>3. CASE Wrote(f, content) /\ cmd' = next
      <4>1. Texted
        BY <1>5, <3>2, <3>3
      <4>2. CASE next = Onward
        BY <1>2, <3>3, <4>1, <4>2
      <4>3. CASE next = [cmd EXCEPT !.phase = "write", !.old = FirstActivity]
        <5>1. PICK old : Backs(old)
          BY <3>3, <4>3 DEF Backs
        <5> QED
          BY <1>4, <4>1, <5>1
      <4> QED
        BY <3>1, <4>2, <4>3
    <3> QED
      BY <1>7, <3>1, <3>2, <3>3, Writing
  <2> QED
    BY <2>1, <2>2
<1>11. CASE RemoveOldActivity
  <2>1. PICK old \in {"", "kt1", "kt2"} : files' = [files EXCEPT ![old] = Absent]
    BY <1>11 DEF RemoveOldActivity, TypeOK, Commands
  <2>2. cmd' = Onward /\ UNCHANGED <<bak, torn>>
    BY <1>11 DEF RemoveOldActivity
  <2>3. \A g \in Texts : files'[g] = files[g]
    <3>1. files \in [Names -> Contents] /\ \A g \in Texts : g \in Names /\ g \notin {"", "kt1", "kt2"}
      BY DEF TypeOK, Texts, Names
    <3> QED
      BY <2>1, <3>1
  <2>4. Texted
    BY <2>2, <2>3 DEF Texted
  <2> QED
    BY <1>2, <2>2, <2>4
<1>12. CASE RenderActivity
  <2>1. CASE Skip
    <3>1. cmd' = Onward /\ UNCHANGED <<files, bak, torn>>
      BY <2>1 DEF Skip
    <3> QED
      BY <1>2, <1>6, <3>1
  <2>2. CASE cmd' = Idle /\ UNCHANGED <<files, bak, torn>>
    BY <1>3, <1>6, <2>2
  <2>3. ASSUME Activities # {}, NEW content, ApplyRendered(FirstActivity, content) PROVE Elsewhere
    <3>1. PICK f : f = FirstActivity
      OBVIOUS
    <3>2. f \in Names \ Texts /\ f \in Names
      BY <1>8, <2>3, <3>1, FirstActivityIs
    <3>3. ApplyRendered(f, content)
      BY <2>3, <3>1
    <3>4. CASE Wrote(f, content) /\ cmd' \in {Onward, Changing}
      BY <1>2, <1>5, <3>2, <3>4
    <3>5. CASE Saved(f)
      <4>1. Texted
        BY <1>5, <3>2, <3>5
      <4>2. Backs(cmd.old)
        BY <3>5 DEF Saved, Backs, TypeOK, Commands
      <4> QED
        BY <1>4, <4>1, <4>2
    <3> QED
      BY <1>7, <3>2, <3>3, <3>4, <3>5, Applying
  <2> QED
    BY <1>12, <2>1, <2>2, <2>3 DEF RenderActivity
<1>13. CASE Stamp
  <2>1. PICK content : WriteFile("yaml", content, Onward) /\ UNCHANGED bak
    BY <1>13 DEF Stamp
  <2> QED
    BY <1>2, <1>5, <1>7, <1>8, <2>1, Writing
<1> QED
  BY <1>9, <1>10, <1>11, <1>12, <1>13

-----------------------------------------------------------------------------
\* A write keeps the text in the shared files if what it writes has it.
LEMMA KeptWrite ==
    ASSUME TypeOK, MineIsHere, Kept, NEW f \in Names, NEW content \in Contents,
           Wrote(f, content) \/ Cut(f), UNCHANGED updateVars,
           content.mine => content.here,
           f = "ignore" /\ content.opt => "ignore" \in waived,
           f \in Shared => f \in waived \/ (files[f].mine => content.mine)
    PROVE  MineIsHere' /\ Kept'
<1>1. /\ files \in [Names -> Contents] /\ Texts \subseteq Names /\ Shared \subseteq Names
      /\ written' = written /\ waived' = waived
  BY DEF TypeOK, Texts, Shared, Names, updateVars
<1>2. CASE Wrote(f, content)
  <2>1. files'[f] = content /\ (\A g \in Names \ {f} : files'[g] = files[g]) /\ torn' = torn
    BY <1>2, WroteFile
  <2>2. MineIsHere'
    BY <1>1, <2>1 DEF MineIsHere
  <2>3. files'["ignore"].opt => "ignore" \in waived
    BY <1>1, <2>1 DEF Kept, Shared
  <2>4. \A g \in (Shared \cap written) \ waived : ~torn => files'[g].mine
    BY <1>1, <2>1 DEF Kept, SharedFilesKept, Shared
  <2> QED
    BY <1>1, <2>1, <2>2, <2>3, <2>4 DEF Kept, SharedFilesKept, Shared
<1>3. CASE Cut(f)
  <2>1. torn' /\ files' \in {files, [files EXCEPT ![f] = Empty]}
    BY <1>3 DEF Cut
  <2>2. \A g \in Names : files'[g] = files[g] \/ (~files'[g].mine /\ ~files'[g].opt)
    BY <1>1, <2>1 DEF Empty
  <2>3. MineIsHere'
    BY <1>1, <2>2 DEF MineIsHere
  <2>4. files'["ignore"].opt => "ignore" \in waived
    BY <1>1, <2>2 DEF Kept, Shared
  <2> QED
    BY <1>1, <2>1, <2>3, <2>4 DEF Kept, SharedFilesKept
<1> QED
  BY <1>2, <1>3

\* What an update renders into a shared file has the text that was in it.
LEMMA TextKeeps ==
    ASSUME TypeOK, Sorted, MineIsHere, Kept, place \in Rendered, NEW f, NEW content,
           f = Target(place), content = Text(place)
    PROVE  /\ content.mine => content.here
           /\ f = "ignore" /\ content.opt => "ignore" \in waived
           /\ f \in Shared => f \in waived \/ (files[f].mine => content.mine)
<1>1. /\ \A g \in Names : files[g] \in Contents
      /\ \A r : ~Generated(r).mine /\ ~Generated(r).opt /\ Generated(r).here
      /\ {"gomod", "pubspec", "ignore"} \subseteq Names \cap Texts /\ Empty \in Contents
  BY Shapes DEF TypeOK, Generated, Empty, Names, Texts
<1>2. CASE place \in {"hook", "titlebar", "make"}
  BY <1>1, <1>2 DEF Target, Text, Rendering, Shared
<1>3. CASE place \in Rewritten
  <2>1. f \in waived /\ f = place /\ f # "ignore"
    BY <1>3 DEF Sorted, Rewritten, Target
  <2>2. content = Rendering(place) /\ ~content.mine
    <3>1. content = Rendering(place)
      BY <1>3 DEF Rewritten, Text
    <3>2. ~[Empty EXCEPT !.ver = cfg.ver].mine
      BY DEF Empty
    <3>3. ~[Generated(Installed) EXCEPT !.opt = files["gomod"].opt].mine
      BY DEF Generated, Empty
    <3>4. ~[Generated(Installed) EXCEPT !.ver = FirstVersion, !.id = cfg.id].mine
      BY DEF Generated, Empty
    <3> QED
      BY <1>3, <3>1, <3>2, <3>3, <3>4 DEF Rewritten, Rendering
  <2> QED
    BY <2>1, <2>2
<1>4. CASE place = "ignore"
  <2>1. PICK old \in Contents : old = files["ignore"]
    BY <1>1
  <2>2. f = "ignore" /\ content = Merged(old) /\ (old.mine => old.here) /\ (old.opt => "ignore" \in waived)
    BY <1>1, <1>4, <2>1 DEF Target, Text, MineIsHere, Kept
  <2>3. /\ [old EXCEPT !.gen = Installed].mine = old.mine /\ [old EXCEPT !.gen = Installed].opt = old.opt
        /\ [old EXCEPT !.gen = Installed].here = old.here
    BY DEF Contents
  <2>4. CASE ~old.here
    BY <1>1, <2>1, <2>2, <2>4 DEF Merged
  <2>5. CASE old.here /\ ~old.opt
    <3>1. content = [old EXCEPT !.gen = Installed]
      BY <2>2, <2>5 DEF Merged
    <3> QED
      BY <2>1, <2>2, <2>3, <2>5, <3>1
  <2>6. CASE old.here /\ old.opt
    <3>1. content = [old EXCEPT !.gen = Installed] \/ content = Generated(Installed)
      BY <2>2, <2>6 DEF Merged
    <3> QED
      BY <1>1, <2>1, <2>2, <2>3, <2>6, <3>1
  <2> QED
    BY <2>4, <2>5, <2>6
<1>5. CASE place \in {"pin", "refs"}
  <2>1. f \in {"gomod", "pubspec"} /\ content \in {files[f], Pinned(files[f])}
    BY <1>5 DEF Target, Text
  <2>2. PICK old \in Contents : old = files[f]
    BY <1>1, <2>1
  <2>3. Pinned(old) \in {old, [old EXCEPT !.gen = Installed]}
    BY DEF Pinned
  <2>4. content.mine = old.mine /\ content.here = old.here
    BY <2>1, <2>2, <2>3 DEF Contents
  <2>5. old.mine => old.here
    BY <1>1, <2>1, <2>2 DEF MineIsHere
  <2> QED
    BY <2>1, <2>2, <2>4, <2>5
<1> QED
  BY <1>2, <1>3, <1>4, <1>5 DEF Rendered, Rewritten

\* Every step keeps the text in the shared files.
LEMMA KeptStep ==
    ASSUME TypeOK, Chain, Sorted, MineIsHere, Kept, [Next]_vars
    PROVE  MineIsHere' /\ Kept'
<1>1. Texts \subseteq Names /\ Shared \subseteq Names /\ Shared \subseteq Texts /\ files \in [Names -> Contents]
  BY DEF Texts, Names, Shared, TypeOK
<1>2. CASE Still
  BY <1>2 DEF Still, updateVars, MineIsHere, Kept, SharedFilesKept
<1>3. ASSUME NEW all \in BOOLEAN, NEW plugins \in BOOLEAN, StartUpdate(all, plugins)
      PROVE  MineIsHere' /\ Kept'
  <2>1. UNCHANGED <<files, torn, written>> /\ waived \subseteq waived'
    BY <1>3 DEF StartUpdate, Start
  <2> QED
    BY <2>1 DEF MineIsHere, Kept, SharedFilesKept
<1>4. CASE PatchBundleID \/ Relocate \/ RemoveOldActivity \/ RenderActivity \/ Stamp
  <2>1. /\ \A g \in Texts : files'[g] = files[g]
        /\ (torn => torn') /\ UNCHANGED <<written, waived>>
    BY <1>4, ElsewhereIs DEF Elsewhere
  <2>2. MineIsHere'
    BY <2>1 DEF MineIsHere
  <2>3. files'["ignore"] = files["ignore"] /\ \A g \in Shared : files'[g] = files[g]
    BY <1>1, <2>1 DEF Shared
  <2>4. SharedFilesKept'
    BY <2>1, <2>3 DEF Kept, SharedFilesKept, Shared
  <2> QED
    BY <2>1, <2>2, <2>3, <2>4 DEF Kept
<1>5. CASE Render
  <2>1. PICK f, content : f = Target(place) /\ content = Text(place)
    OBVIOUS
  <2>2. f \in Names /\ content \in Contents /\ ApplyRendered(f, content) /\ place \in Rendered /\ UNCHANGED updateVars
    BY <1>5, <2>1, TextIsContent DEF Render
  <2>3. CASE Wrote(f, content) \/ Cut(f)
    BY <2>1, <2>2, <2>3, TextKeeps, KeptWrite
  <2>4. CASE Saved(f)
    BY <2>2, <2>4 DEF Saved, updateVars, MineIsHere, Kept, SharedFilesKept
  <2> QED
    BY <2>2, <2>3, <2>4, Applying
<1>6. ASSUME NEW f \in Names, NEW content \in Contents, Brings(f, content)
      PROVE  MineIsHere' /\ Kept'
  <2>1. /\ content.mine => content.here
        /\ f # "ignore" /\ f \in Shared => (files[f].mine => content.mine)
    <3>1. CASE f \in {"hook", "titlebar"} /\ content = Generated(Installed)
      BY <3>1 DEF Generated, Empty, Shared
    <3>2. CASE f = "pubspec" /\ content = [files["pubspec"] EXCEPT !.ver = cfg.ver]
      <4>1. PICK old \in Contents : old = files["pubspec"] /\ (old.mine => old.here)
        BY <1>1 DEF MineIsHere, Shared
      <4>2. content.mine = old.mine /\ content.here = old.here
        BY <3>2, <4>1 DEF Contents
      <4> QED
        BY <3>2, <4>1, <4>2
    <3> QED
      BY <1>6, <3>1, <3>2 DEF Brings
  <2>2. f # "ignore"
    BY <1>6 DEF Brings
  <2> QED
    BY <1>6, <2>1, <2>2, KeptWrite DEF Brings
<1>11. ASSUME NEW content \in Contents, PinTidied(content) \/ GenTidied(content)
       PROVE  MineIsHere' /\ Kept'
  <2>1. /\ ~content.mine /\ waived' = waived /\ written' = written \ {"gomod"} /\ "gomod" \in Names
        /\ Wrote("gomod", content) \/ Cut("gomod")
    BY <1>11 DEF PinTidied, GenTidied, Tidied, Names
  <2>2. torn => torn'
    BY <2>1 DEF Wrote, Cut
  <2>3. files' \in {files, [files EXCEPT !["gomod"] = content], [files EXCEPT !["gomod"] = Empty]}
    BY <2>1 DEF Wrote, Cut
  <2>4. ~Empty.mine
    BY DEF Empty
  <2>5. \A g \in Names : files'[g] = files[g] \/ (g = "gomod" /\ ~files'[g].mine)
    BY <1>1, <2>1, <2>3, <2>4
  <2>6. MineIsHere'
    BY <1>1, <2>5 DEF MineIsHere
  <2>7. files'["ignore"] = files["ignore"]
    BY <1>1, <2>5 DEF Shared
  <2>8. \A g \in (Shared \cap (written \ {"gomod"})) \ waived : ~torn => files'[g].mine
    BY <1>1, <2>5 DEF Kept, SharedFilesKept, Shared
  <2> QED
    BY <2>1, <2>2, <2>6, <2>7, <2>8 DEF Kept, SharedFilesKept, Shared
<1>7. CASE \E f \in Texts : EditText(f)
  <2>1. PICK f \in Texts : EditText(f)
    BY <1>7
  <2>2. PICK old \in Contents : old = files[f] /\ old.here
    BY <1>1, <2>1 DEF EditText
  <2>3. PICK new : new = [old EXCEPT !.mine = TRUE]
    OBVIOUS
  <2>4. new.here /\ new.mine /\ new.opt = old.opt
    BY <2>2, <2>3 DEF Contents
  <2>5. files' = [files EXCEPT ![f] = new] /\ UNCHANGED <<torn, waived>> /\ written' = written \cup {f}
    BY <2>1, <2>2, <2>3 DEF EditText, Put, Editing
  <2>6. files'[f] = new /\ \A g \in Names \ {f} : files'[g] = files[g]
    BY <1>1, <2>5
  <2>7. MineIsHere'
    BY <1>1, <2>4, <2>6 DEF MineIsHere
  <2>8. files'["ignore"].opt => "ignore" \in waived
    BY <1>1, <2>2, <2>4, <2>6 DEF Kept, Shared
  <2>9. \A g \in (Shared \cap (written \cup {f})) \ waived : ~torn => files'[g].mine
    BY <1>1, <2>4, <2>6 DEF Kept, SharedFilesKept, Shared
  <2> QED
    BY <2>5, <2>7, <2>8, <2>9 DEF Kept, SharedFilesKept, Shared
<1>8. CASE \E f \in {"make", "ignore", "kt1", "kt2"} : DeleteFile(f)
  <2>1. PICK f \in {"make", "ignore", "kt1", "kt2"} : DeleteFile(f)
    BY <1>8
  <2>2. files' = [files EXCEPT ![f] = Absent] /\ UNCHANGED <<torn, waived>> /\ written' = written \ {f}
    BY <2>1 DEF DeleteFile, Put, Editing
  <2>3. f \in Names /\ ~Absent.mine /\ ~Absent.opt
    BY DEF Names, Absent, Empty
  <2>4. files'[f] = Absent /\ \A g \in Names \ {f} : files'[g] = files[g]
    BY <1>1, <2>2, <2>3
  <2>5. MineIsHere'
    BY <1>1, <2>3, <2>4 DEF MineIsHere
  <2>6. files'["ignore"].opt => "ignore" \in waived
    BY <1>1, <2>3, <2>4 DEF Kept, Shared
  <2>7. \A g \in (Shared \cap (written \ {f})) \ waived : ~torn => files'[g].mine
    BY <1>1, <2>4 DEF Kept, SharedFilesKept, Shared
  <2> QED
    BY <2>2, <2>5, <2>6, <2>7 DEF Kept, SharedFilesKept, Shared
<1>9. CASE LoseEndMarker
  <2>1. PICK old \in Contents : old = files["ignore"]
    BY <1>1 DEF Shared
  <2>2. PICK new : new = [old EXCEPT !.gen = 0, !.opt = TRUE]
    OBVIOUS
  <2>3. new.here = old.here /\ new.mine = old.mine /\ "ignore" \in Names /\ "ignore" \in Texts
    BY <1>1, <2>1, <2>2 DEF Contents, Shared
  <2>4. files' = [files EXCEPT !["ignore"] = new] /\ UNCHANGED <<torn, written>> /\ waived' = waived \cup {"ignore"}
    BY <1>9, <2>1, <2>2 DEF LoseEndMarker, Put, Editing
  <2>5. files'["ignore"] = new /\ \A g \in Names \ {"ignore"} : files'[g] = files[g]
    BY <1>1, <2>3, <2>4
  <2>6. MineIsHere'
    BY <1>1, <2>1, <2>3, <2>5 DEF MineIsHere
  <2>7. \A g \in (Shared \cap written) \ (waived \cup {"ignore"}) : ~torn => files'[g].mine
    BY <1>1, <2>5 DEF Kept, SharedFilesKept, Shared
  <2> QED
    BY <2>4, <2>6, <2>7 DEF Kept, SharedFilesKept, Shared
<1>10. CASE Configure
  <2>1. UNCHANGED <<torn, written, waived>> /\ \E new : files' = [files EXCEPT !["yaml"] = new]
    BY <1>10 DEF Configure, Editing, Put
  <2>2. \A g \in Texts : files'[g] = files[g]
    BY <1>1, <2>1 DEF Texts
  <2>3. files'["ignore"] = files["ignore"] /\ \A g \in Shared : files'[g] = files[g]
    BY <1>1, <2>2 DEF Shared
  <2>4. MineIsHere'
    BY <2>2 DEF MineIsHere
  <2>5. SharedFilesKept'
    BY <2>1, <2>3 DEF Kept, SharedFilesKept, Shared
  <2> QED
    BY <2>1, <2>3, <2>4, <2>5 DEF Kept
<1> QED
  BY <1>2, <1>3, <1>4, <1>5, <1>6, <1>7, <1>8, <1>9, <1>10, <1>11, FileSteps DEF FileStep, Editors

-----------------------------------------------------------------------------
\* The steps of an update are in order.
LEMMA Forward ==
    ASSUME NEW c, NEW w, NEW s \in UpdatePlaces \ {"flutterClean"}, NEW t \in Follow(c, w, s)
    PROVE  Order(s) < Order(t) /\ Order(s) \in Nat /\ Order(t) \in Nat
BY DEF Follow, Order, UpdatePlaces

\* The order of a step is a number, of whatever command it is.
LEMMA OrderIsNat == \A s : Order(s) \in Nat
BY DEF Order, UpdatePlaces

\* What is done stays done.
LEMMA StaysDone ==
    ASSUME NEW f \in Texts, NEW s, NEW t, NEW content, DoneAt(f, s, content), Order(s) <= Order(t)
    PROVE  DoneAt(f, t, content)
<1>1. \A u : Past(s, u) => Past(t, u)
  <2>1. Order(s) \in Nat /\ Order(t) \in Nat /\ \A u : Order(u) \in Nat
    BY OrderIsNat
  <2> QED
    BY <2>1 DEF Past
<1>2. CASE f \in {"hook", "make", "ignore"}
  BY <1>1, <1>2 DEF DoneAt
<1>3. CASE f \in {"gomod", "pubspec"}
  BY <1>1, <1>3 DEF DoneAt
<1> QED
  BY <1>2, <1>3 DEF Texts

\* A step leaves a file that is done as it is, and a file it has rendered is done.
LEMMA DoneIsText ==
    ASSUME TypeOK, place \in Rendered, Target(place) \in Texts, Done(Target(place))
    PROVE  Text(place) = files[Target(place)]
<1>1. place \in {"pin", "refs"}
  <2>1. Order(place) \in Nat /\ ~(Order(place) < Order(place))
    BY OrderIsNat
  <2>2. place # "pin" /\ place # "refs" => Target(place) = place
    BY DEF Target
  <2> QED
    BY <2>1, <2>2 DEF Done, DoneAt, Past, Rendered, Texts
<1>2. PICK f \in {"gomod", "pubspec"} : f = Target(place)
  BY <1>1 DEF Target
<1>3. files[f] \in Contents /\ files[f].gen \in {0, Installed}
  BY <1>2 DEF Done, DoneAt, Pinless, TypeOK, Names
<1>4. Pinned(files[f]) = files[f]
  <2>1. ASSUME NEW content \in Contents, content.gen \in {0, Installed} PROVE Pinned(content) = content
    <3>1. content.gen = Installed => [content EXCEPT !.gen = Installed] = content
      BY DEF Contents
    <3> QED
      BY <2>1, <3>1 DEF Pinned
  <2> QED
    BY <1>3, <2>1
<1> QED
  BY <1>1, <1>2, <1>4 DEF Text, Target

\* A file that has just been rendered is done, unless it was like that already.
LEMMA TextIsDone ==
    ASSUME TypeOK, place \in Rendered, Target(place) \in Texts, NEW t, Order(place) < Order(t)
    PROVE  DoneAt(Target(place), t, Text(place)) \/ Text(place) = files[Target(place)]
<1>1. /\ Order(place) \in Nat /\ Order(t) \in Nat
      /\ Order("gomod") = 7 /\ Order("pubspec") = 6 /\ Order("pin") = 11 /\ Order("refs") = 12
  <2>1. Order("gomod") = 7 /\ Order("pubspec") = 6 /\ Order("pin") = 11 /\ Order("refs") = 12
    BY DEF Order, UpdatePlaces
  <2> QED
    BY <2>1, OrderIsNat
<1>2. CASE place \in {"hook", "make", "ignore"}
  BY <1>2 DEF Target, DoneAt, Past
<1>3. CASE place = "pubspec"
  <2>1. Text(place).gen = 0
    BY <1>3 DEF Text, Rendering, Empty
  <2> QED
    BY <1>3, <2>1 DEF Target, DoneAt, Past, Pinless
<1>4. CASE place = "gomod"
  <2>1. Text(place).gen = Installed
    BY <1>4 DEF Text, Rendering, Generated, Empty
  <2> QED
    BY <1>4, <2>1 DEF Target, DoneAt, Past, Pinless
<1>5. CASE place \in {"pin", "refs"}
  <2>1. PICK f \in {"gomod", "pubspec"} : f = Target(place)
    BY <1>5 DEF Target
  <2>2. PICK old \in Contents : old = files[f]
    BY DEF TypeOK, Names
  <2>3. Pinned(old).gen \in {0, Installed}
    BY DEF Pinned, Contents
  <2>4. Text(place) \in {old, Pinned(old)}
    BY <1>5, <2>1, <2>2 DEF Text, Target
  <2>5. Past(t, f)
    BY <1>1, <1>5, <2>1 DEF Past, Target
  <2> QED
    BY <2>1, <2>2, <2>3, <2>4, <2>5 DEF DoneAt, Pinless
<1> QED
  BY <1>2, <1>3, <1>4, <1>5 DEF Rendered, Target, Texts


\* Outside of an update nothing has to be kept, nothing is about to be overwritten.
LEMMA NoUpdate ==
    ASSUME Sorted, cmd.kind # "update" PROVE Backed /\ EditsSafe
<1>1. \A f \in Texts : ~cmd.before[f].mine
  <2>1. cmd.before = NoFiles /\ Texts \subseteq Names
    BY DEF Sorted, Texts, Names
  <2>2. \A f \in Names : ~NoFiles[f].mine
    BY DEF NoFiles, Absent, Empty
  <2> QED
    BY <2>1, <2>2
<1>2. Target(place) \notin Texts
  <2>1. place \notin UpdatePlaces
    BY DEF Sorted
  <2> QED
    BY <2>1 DEF Target, Texts, UpdatePlaces
<1> QED
  BY <1>1, <1>2 DEF Backed, EditsSafe

\* What the developer had written in f when the update started is in f or in its copy; if the update
\* goes on, f is done when it is only in the copy.
KeptNow(f) == cmd.before[f].mine => files'[f].mine \/ (bak'[f].mine /\ (cmd'.kind = "update" => Done(f)'))

\* A file that a step leaves alone.
LEMMA LeftAlone ==
    ASSUME EditsSafe, NEW f \in Texts, files'[f] = files[f], bak'[f] = bak[f],
           cmd'.kind = "update" => Order(place) <= Order(place')
    PROVE  KeptNow(f)
<1>1. PICK s, t, old : s = place /\ t = place' /\ old = files[f]
  OBVIOUS
<1>2. Done(f) <=> DoneAt(f, s, old)
  BY <1>1 DEF Done
<1>3. Done(f)' <=> DoneAt(f, t, old)
  BY <1>1 DEF Done
<1>4. DoneAt(f, s, old) /\ Order(s) <= Order(t) => DoneAt(f, t, old)
  BY StaysDone
<1> QED
  BY <1>1, <1>2, <1>3, <1>4 DEF KeptNow, EditsSafe

\* A rendering keeps what every file held when the update started.
LEMMA RenderKeeps ==
    ASSUME TypeOK, Chain, Sorted, MineIsHere, Backed, EditsSafe, Render, NEW g \in Texts
    PROVE  KeptNow(g)
<1>1. PICK f, content : f = Target(place) /\ content = Text(place)
  OBVIOUS
<1>2. f \in Names /\ content \in Contents /\ ApplyRendered(f, content) /\ place \in Rendered /\ cmd.todo # <<>>
  BY <1>1, TextIsContent DEF Render
<1>3. place \in UpdatePlaces \ {"flutterClean"} /\ Texts \subseteq Names /\ bak \in [Names -> Contents]
      /\ files \in [Names -> Contents]
  BY <1>2 DEF Rendered, UpdatePlaces, Texts, Names, TypeOK
<1>4. ASSUME cmd' \in {Onward, Changing} PROVE Order(place) < Order(place') /\ cmd'.before = cmd.before
  <2>1. place' \in Follow(cmd, waived, place) /\ Same(cmd')
    BY <1>2, <1>3, <1>4, Turning
  <2> QED
    BY <1>3, <2>1, Forward DEF Same
<1>5. ASSUME f \in Texts, Done(f) PROVE content = files[f]
  BY <1>1, <1>2, <1>5, DoneIsText
<1>6. CASE Wrote(f, content) /\ cmd' \in {Onward, Changing}
           /\ (files[f] = content \/ ~files[f].here \/ cmd.phase = "write")
  <2>1. Order(place) < Order(place') /\ files'[f] = content /\ bak' = bak
        /\ \A h \in Names \ {f} : files'[h] = files[h]
    BY <1>2, <1>4, <1>6, WroteFile DEF Wrote
  <2>2. Order(place) <= Order(place')
    <3>1. \A s : Order(s) \in Nat
      BY OrderIsNat
    <3> QED
      BY <2>1, <3>1
  <2>3. CASE g # f \/ content = files[f]
    BY <1>3, <2>1, <2>2, <2>3, LeftAlone
  <2>4. CASE g = f /\ content # files[f] /\ ~files[f].here
    <3>1. ~files[f].mine /\ ~Done(f)
      BY <1>5, <2>4 DEF MineIsHere
    <3> QED
      BY <2>4, <3>1 DEF EditsSafe, KeptNow
  <2>5. CASE g = f /\ content # files[f] /\ cmd.phase = "write"
    <3>1. ~Done(f) /\ bak[f] = files[f]
      BY <1>1, <1>5, <2>5 DEF Backed
    <3>2. Done(f)'
      <4>1. PICK t : t = place'
        OBVIOUS
      <4>2. DoneAt(f, t, content)
        BY <1>1, <1>2, <2>1, <2>5, <4>1, TextIsDone
      <4> QED
        BY <2>1, <4>1, <4>2 DEF Done
    <3> QED
      BY <2>1, <2>5, <3>1, <3>2 DEF EditsSafe, KeptNow
  <2> QED
    BY <1>6, <2>3, <2>4, <2>5
<1>7. CASE Saved(f) /\ files[f] # content
  <2>1. files' = files /\ bak'[f] = files[f] /\ \A h \in Names \ {f} : bak'[h] = bak[h]
    BY <1>2, <1>3, <1>7 DEF Saved
  <2>2. cmd'.todo = cmd.todo
    BY <1>7 DEF Saved, TypeOK, Commands
  <2>3. place' = place
    BY <2>2 DEF place, PlaceOf
  <2>4. Order(place) <= Order(place')
    <3>1. \A s : Order(s) \in Nat
      BY OrderIsNat
    <3> QED
      BY <2>3, <3>1
  <2>5. CASE g # f
    BY <1>3, <2>1, <2>4, <2>5, LeftAlone
  <2>6. CASE g = f
    <3>1. ~Done(f)
      BY <1>5, <1>7, <2>6
    <3> QED
      BY <2>1, <2>6, <3>1 DEF EditsSafe, KeptNow
  <2> QED
    BY <2>5, <2>6
<1>8. CASE Cut(f) /\ (cmd.phase = "look" => files[f] # content /\ (files' # files => ~files[f].here))
  <2>1. cmd'.kind # "update" /\ \A h \in Names \ {f} : files'[h] = files[h] /\ bak'[h] = bak[h]
    <3>1. /\ files' \in {files, [files EXCEPT ![f] = Empty]}
          /\ bak' \in {bak, [bak EXCEPT ![f] = Empty]}
      BY <1>8 DEF Cut
    <3> QED
      BY <1>3, <1>8, <3>1, CutEnds
  <2>2. CASE g # f
    BY <1>3, <2>1, <2>2, LeftAlone
  <2>3. CASE g = f /\ cmd.phase = "look"
    <3>1. ~Done(f)
      BY <1>5, <1>8, <2>3
    <3>2. cmd.before[f].mine => files[f].mine /\ files[f].here
      BY <2>3, <3>1 DEF EditsSafe, MineIsHere
    <3>3. cmd.before[f].mine => files'[f].mine
      BY <1>8, <2>3, <3>2
    <3> QED
      BY <2>3, <3>3 DEF KeptNow
  <2>4. CASE g = f /\ cmd.phase # "look"
    <3>1. bak' = bak /\ cmd.phase = "write"
      BY <1>8, <2>4 DEF Cut, TypeOK, Commands
    <3>2. bak[f] = files[f]
      BY <1>1, <2>4, <3>1 DEF Backed
    <3> QED
      BY <2>1, <2>4, <3>1, <3>2 DEF EditsSafe, KeptNow
  <2> QED
    BY <2>2, <2>3, <2>4
<1> QED
  BY <1>2, <1>6, <1>7, <1>8, Applying

\* So does the go mod tidy after the pin: the copy the pin made has what it drops.
LEMMA PinKeeps ==
    ASSUME TypeOK, Chain, Sorted, Backed, EditsSafe, NEW content \in Contents, PinTidied(content), NEW g \in Texts
    PROVE  KeptNow(g)
<1>1. /\ place = "pin" /\ cmd.phase = "write" /\ cmd.todo # <<>> /\ content.gen \in {0, Installed}
      /\ (Wrote("gomod", content) /\ cmd' \in {Onward, Changing}) \/ Cut("gomod")
  BY DEF PinTidied, Tidied
<1>2. Texts \subseteq Names /\ "gomod" \in Names /\ "gomod" \in Texts /\ files \in [Names -> Contents]
      /\ bak \in [Names -> Contents] /\ place \in UpdatePlaces \ {"flutterClean"}
  BY <1>1 DEF Texts, Names, TypeOK, UpdatePlaces
<1>3. bak["gomod"] = files["gomod"]
  BY <1>1, <1>2 DEF Backed, Target
<1>4. \A s : Order(s) \in Nat
  BY OrderIsNat
<1>5. CASE Wrote("gomod", content) /\ cmd' \in {Onward, Changing}
  <2>1. files'["gomod"] = content /\ bak' = bak /\ \A h \in Names \ {"gomod"} : files'[h] = files[h]
    BY <1>2, <1>5, WroteFile DEF Wrote
  <2>2. PICK t : t = place'
    OBVIOUS
  <2>3. Order(place) < Order(t)
    <3>1. t \in Follow(cmd, waived, place)
      BY <1>1, <1>2, <1>5, <2>2, Turning
    <3> QED
      BY <1>2, <3>1, Forward
  <2>4. CASE g # "gomod"
    <3>1. Order(place) <= Order(place')
      BY <1>4, <2>2, <2>3
    <3> QED
      BY <1>2, <2>1, <2>4, <3>1, LeftAlone
  <2>5. CASE g = "gomod"
    <3>1. DoneAt("gomod", t, content)
      <4>1. Order("gomod") < Order("pin")
        BY DEF Order, UpdatePlaces
      <4>2. Past(t, "gomod")
        BY <1>1, <1>4, <2>3, <4>1 DEF Past
      <4> QED
        BY <1>1, <4>2 DEF DoneAt, Pinless
    <3>2. Done("gomod")'
      BY <2>1, <2>2, <3>1 DEF Done
    <3> QED
      BY <1>3, <2>1, <2>5, <3>2 DEF EditsSafe, KeptNow
  <2> QED
    BY <2>4, <2>5
<1>6. CASE Cut("gomod")
  <2>1. /\ cmd'.kind # "update" /\ bak' = bak
        /\ \A h \in Names \ {"gomod"} : files'[h] = files[h]
    <3>1. cmd'.kind # "update"
      BY <1>6, CutEnds
    <3>2. files' = [files EXCEPT !["gomod"] = Empty] /\ bak' = bak
      BY <1>1, <1>6 DEF Cut
    <3> QED
      BY <1>2, <3>1, <3>2
  <2>2. CASE g # "gomod"
    BY <1>2, <2>1, <2>2, LeftAlone
  <2>3. CASE g = "gomod"
    BY <1>3, <2>1, <2>3 DEF EditsSafe, KeptNow
  <2> QED
    BY <2>2, <2>3
<1> QED
  BY <1>1, <1>5, <1>6

\* Every step keeps what the developer had written when the update started.
LEMMA KeepStep ==
    ASSUME TypeOK, Chain, Sorted, MineIsHere, Backed, EditsSafe, [Next]_vars, NEW g \in Texts
    PROVE  KeptNow(g)
<1>1. Texts \subseteq Names /\ files \in [Names -> Contents] /\ \A s : Order(s) \in Nat
  BY OrderIsNat DEF Texts, Names, TypeOK
<1>2. cmd.kind # "update" => ~cmd.before[g].mine
  <2>1. ~NoFiles[g].mine
    BY <1>1 DEF NoFiles, Absent, Empty
  <2> QED
    BY <2>1 DEF Sorted
<1>3. CASE cmd.kind # "update"
  BY <1>2, <1>3 DEF KeptNow
<1>4. CASE cmd.kind = "update"
  <2>1. place \in UpdatePlaces /\ cmd.todo # <<>>
    BY <1>4 DEF Sorted, place, PlaceOf, UpdatePlaces
  <2>2. CASE Still
    <3>1. cmd' = cmd => place' = place
      BY DEF place
    <3> QED
      BY <1>1, <2>2, <3>1, LeftAlone DEF Still
  <2>3. CASE PatchBundleID \/ Relocate \/ RemoveOldActivity \/ RenderActivity \/ Stamp
    <3>1. Elsewhere
      BY <2>3, ElsewhereIs
    <3>2. cmd'.kind = "update" => Order(place) <= Order(place')
      <4>1. place \in UpdatePlaces \ {"flutterClean"}
        BY <2>1, <3>1 DEF Elsewhere
      <4>2. place' \in Follow(cmd, waived, place) => Order(place) < Order(place')
        BY <4>1, Forward
      <4> QED
        BY <1>1, <3>1, <4>2 DEF Elsewhere
    <3> QED
      BY <3>1, <3>2, LeftAlone DEF Elsewhere
  <2>4. CASE Render
    BY <2>4, RenderKeeps
  <2>5. CASE Editors
    <3>1. Configure
      BY <2>1, <2>5 DEF Editors, EditText, DeleteFile, LoseEndMarker, Running
    <3>2. UNCHANGED <<bak, cmd>> /\ \E new : files' = [files EXCEPT !["yaml"] = new]
      BY <3>1 DEF Configure, Editing, Put
    <3>3. files'[g] = files[g]
      BY <1>1, <3>2 DEF Texts
    <3>4. place' = place
      BY <3>2 DEF place
    <3> QED
      BY <1>1, <3>2, <3>3, <3>4, LeftAlone
  <2>6. ~(\E all, plugins \in BOOLEAN : StartUpdate(all, plugins))
    BY <2>1 DEF StartUpdate, Start, Running
  <2>7. ~(\E f \in Names : \E content \in Contents : Brings(f, content))
    BY <1>4 DEF Brings
  <2>8. CASE \E content \in Contents : PinTidied(content)
    BY <2>8, PinKeeps
  <2>9. ~(\E content \in Contents : GenTidied(content))
    BY <1>4 DEF GenTidied
  <2> QED
    BY <2>2, <2>3, <2>4, <2>5, <2>6, <2>7, <2>8, <2>9, FileSteps DEF FileStep
<1> QED
  BY <1>3, <1>4

\* An update goes on with the files it started with, or starts now.
LEMMA BeforeIs ==
    ASSUME TypeOK, Chain, Sorted, [Next]_vars, cmd'.kind = "update"
    PROVE  cmd'.before = cmd.before \/ (cmd'.before = files' /\ cmd'.phase = "look")
<1>1. Moves /\ Sorted' /\ cmd \in Commands
  BY NextMoves, CommandStep DEF TypeOK
<1>2. CASE cmd' = cmd
  BY <1>2
<1>3. CASE cmd.todo # <<>> /\ cmd' \in {Onward, Changing}
  <2>1. Ended(cmd') \/ Same(cmd')
    BY <1>1, <1>3, OnwardIs
  <2> QED
    BY <2>1 DEF Ended, Same
<1>4. CASE \E old \in {"", "kt1", "kt2"} : Backs(old)
  BY <1>1, <1>4 DEF Backs, Commands
<1>5. CASE cmd' = Idle
  BY <1>5, Shapes DEF Ended
<1>6. CASE cmd' = [cmd EXCEPT !.todo = <<>>]
  BY <1>1, <1>6 DEF Commands
<1>7. CASE NextTarget \/ (NeedBundle /\ ~bundle.here)
  BY <1>1, <1>7 DEF NextTarget, NeedBundle, Commands
<1>8. ASSUME NEW all \in BOOLEAN, NEW plugins \in BOOLEAN, StartUpdate(all, plugins)
      PROVE  cmd'.before = files' /\ cmd'.phase = "look"
  <2>1. files["yaml"].id # 0
    BY <1>8, Shapes DEF StartUpdate, Start, Ended
  <2>2. files' = files
    BY <1>8 DEF StartUpdate, Start
  <2>3. cmd' = [Idle EXCEPT !.kind = "update", !.plugins = plugins, !.cfg = files["yaml"],
                            !.before = files, !.todo = UpdateSteps(all, plugins)]
    BY <1>8, <2>1 DEF StartUpdate, Start
  <2> QED
    BY <2>2, <2>3 DEF Idle
<1>9. ASSUME NEW kind \in Targets, NEW scaffolded \in BOOLEAN, StartBuild(kind, scaffolded) PROVE FALSE
  <2>1. cmd'.kind = kind /\ kind # "update"
    BY <1>9 DEF StartBuild, Start, Idle, Targets
  <2> QED
    BY <2>1
<1> QED
  BY <1>1, <1>2, <1>3, <1>4, <1>5, <1>6, <1>7, <1>8, <1>9 DEF Moves

\* What is about to be overwritten has been copied.
LEMMA BackedStep ==
    ASSUME TypeOK, Chain, Sorted, Backed, [Next]_vars PROVE Backed'
<1>1. Sorted' /\ Moves
  BY NextMoves, CommandStep
<1>2. CASE cmd'.kind # "update"
  <2>1. place' \notin UpdatePlaces
    BY <1>1, <1>2 DEF Sorted
  <2>2. Target(place)' \notin Texts
    BY <2>1 DEF Target, Texts, UpdatePlaces
  <2> QED
    BY <2>2 DEF Backed
<1>3. CASE cmd'.kind = "update"
  <2>1. Texts \subseteq Names /\ files \in [Names -> Contents] /\ bak \in [Names -> Contents]
    BY DEF Texts, Names, TypeOK
  <2>2. ASSUME place' = place, cmd'.phase = cmd.phase,
               \A g \in Texts : files'[g] = files[g] /\ bak'[g] = bak[g]
        PROVE  Backed'
    <3>1. Target(place)' = Target(place)
      BY <2>2 DEF Target
    <3> QED
      BY <2>2, <3>1 DEF Backed
  <2>3. CASE Still
    BY <1>3, <2>2, <2>3 DEF Still, place
  <2>4. CASE \E all, plugins \in BOOLEAN : StartUpdate(all, plugins)
    <3>1. cmd'.phase = "look"
      BY <2>4, Shapes DEF StartUpdate, Start, Idle
    <3> QED
      BY <3>1 DEF Backed
  <2>5. CASE PatchBundleID \/ Relocate \/ RemoveOldActivity \/ RenderActivity \/ Stamp
    <3>1. Elsewhere
      BY <2>5, ElsewhereIs
    <3>2. CASE cmd'.phase = "look"
      BY <3>2 DEF Backed
    <3>3. CASE place' = place
      <4>1. Target(place)' \notin Texts
        BY <3>1, <3>3 DEF Elsewhere, Target, Texts
      <4> QED
        BY <4>1 DEF Backed
    <3> QED
      BY <1>3, <3>1, <3>2, <3>3 DEF Elsewhere
  <2>6. CASE Render
    <3>1. PICK f, content : f = Target(place) /\ content = Text(place)
      OBVIOUS
    <3>2. f \in Names /\ ApplyRendered(f, content) /\ place \in Rendered /\ cmd.todo # <<>>
      BY <2>6, <3>1, TextIsContent DEF Render
    <3>3. CASE cmd' \in {Onward, Changing}
      <4>1. place \in UpdatePlaces \ {"flutterClean"}
        BY <3>2 DEF Rendered, UpdatePlaces
      <4>2. cmd'.phase = "look"
        BY <3>2, <3>3, <4>1, Turning
      <4> QED
        BY <4>2 DEF Backed
    <3>4. CASE Saved(f)
      <4>1. cmd'.todo = cmd.todo /\ files' = files /\ bak'[f] = files[f]
        BY <2>1, <3>2, <3>4 DEF Saved, TypeOK, Commands
      <4>2. place' = place
        BY <4>1 DEF place, PlaceOf
      <4>3. Target(place)' = f
        BY <3>1, <4>2
      <4> QED
        BY <4>1, <4>3 DEF Backed
    <3>5. CASE Cut(f)
      BY <1>3, <3>5, CutEnds
    <3> QED
      BY <3>2, <3>3, <3>4, <3>5, Applying
  <2>7. ASSUME NEW f \in Names, NEW content \in Contents, Brings(f, content) PROVE FALSE
    BY <1>3, <2>7 DEF Brings
  <2>9. ASSUME NEW content \in Contents, PinTidied(content) \/ GenTidied(content) PROVE Backed'
    <3>1. PinTidied(content) /\ ~Cut("gomod")
      BY <1>3, <2>9, CutEnds DEF GenTidied
    <3>2. cmd'.phase = "look"
      BY <3>1, Turning DEF PinTidied, Tidied, UpdatePlaces
    <3> QED
      BY <3>2 DEF Backed
  <2>8. CASE Editors
    <3>1. cmd' = cmd /\ bak' = bak
      BY <2>8 DEF Editors, Editing, EditText, DeleteFile, LoseEndMarker, Configure
    <3>2. place \in UpdatePlaces
      BY <1>3, <3>1 DEF Sorted
    <3>3. Configure
      BY <2>8, <3>2 DEF Editors, EditText, DeleteFile, LoseEndMarker, Running, place, PlaceOf, UpdatePlaces
    <3>4. \E new : files' = [files EXCEPT !["yaml"] = new]
      BY <3>3 DEF Configure, Put
    <3>5. \A g \in Texts : files'[g] = files[g]
      BY <2>1, <3>4 DEF Texts
    <3> QED
      BY <2>2, <3>1, <3>5 DEF place
  <2> QED
    BY <2>3, <2>4, <2>5, <2>6, <2>7, <2>8, <2>9, FileSteps DEF FileStep
<1> QED
  BY <1>2, <1>3

\* Every step keeps the invariant of the edits, and what it says of the files.
LEMMA EditsStep ==
    ASSUME TypeOK, Chain, Sorted, MineIsHere, Backed, EditsSafe, [Next]_vars
    PROVE  EditsSafe' /\ \A f \in Texts : cmd.before[f].mine => files'[f].mine \/ bak'[f].mine
<1>1. \A f \in Texts : KeptNow(f)
  BY KeepStep
<1>2. EditsSafe'
  <2>1. CASE cmd'.kind # "update"
    <3>1. Sorted'
      BY NextMoves, CommandStep
    <3>2. cmd'.before = NoFiles
      BY <2>1, <3>1 DEF Sorted
    <3>3. \A f \in Texts : ~NoFiles[f].mine
      BY DEF NoFiles, Absent, Empty, Texts, Names
    <3> QED
      BY <3>2, <3>3 DEF EditsSafe
  <2>2. CASE cmd'.kind = "update"
    BY <1>1, <2>2, BeforeIs DEF EditsSafe, KeptNow
  <2> QED
    BY <2>1, <2>2
<1> QED
  BY <1>1, <1>2 DEF KeptNow

-----------------------------------------------------------------------------
\* At the stamp all is settled.
LEMMA EarnedIsStamp == ASSUME TypeOK, Earned PROVE StampIsEarned
<1> SUFFICES ASSUME Now("stamp") PROVE Current
  BY DEF StampIsEarned
<1>1. \A s \in Settling : Past("stamp", s)
  BY DEF Settling, Past, Order, UpdatePlaces
<1>2. \A s \in Settling : Fact(s)
  BY <1>1 DEF Earned, Now, place, PlaceOf
<1>3. Fact("hook") /\ Fact("make") /\ Fact("titlebar") /\ Fact("ignore") /\ Fact("pin") /\ Fact("refs")
      /\ Fact("gradle") /\ Fact("activity")
  BY <1>2 DEF Settling
<1>4. files["hook"] = Generated(Installed) /\ files["make"] = Generated(Installed)
  BY <1>3 DEF Fact
<1>5. cfg.opt \/ files["titlebar"] = Generated(Installed)
  BY <1>3 DEF Fact
<1>6. files["ignore"].gen = Installed /\ files["gradle"].id \in {0, cfg.id}
  BY <1>3 DEF Fact
<1>7. files["gomod"].opt \/ files["gomod"].gen \in {0, Installed}
  BY <1>3 DEF Fact, Pinless
<1>8. cmd.plugins => files["pubspec"].gen \in {0, Installed}
  BY <1>3 DEF Fact, Pinless
<1>9. Activities # {} => files[Activity(cfg.id)] = [Generated(Installed) EXCEPT !.id = cfg.id]
  <2>1. Activities # {} => HasActivity
    BY FirstActivityIs DEF HasActivity
  <2> QED
    BY <1>3, <2>1 DEF Fact
<1>10. \A f \in {"hook", "make"} \cup (IF cfg.opt THEN {} ELSE {"titlebar"}) : files[f] = Generated(Installed)
  BY <1>4, <1>5
<1> QED
  BY <1>6, <1>7, <1>8, <1>9, <1>10 DEF Current

\* Where a step leads, it is past, and so is the one it leaves out.
LEMMA JustPast ==
    ASSUME NEW c, NEW w, NEW s \in UpdatePlaces \ {"flutterClean"}, NEW t \in Follow(c, w, s),
           NEW u \in Settling, Past(t, u)
    PROVE  Past(s, u) \/ s = u \/ (u = "titlebar" /\ c.cfg.opt) \/ (u = "refs" /\ ~c.plugins)
BY DEF Follow, UpdatePlaces, Settling, Past, Order

\* A fact stays a fact when other files change.
LEMMA FactKept ==
    ASSUME NEW s \in Settling, Fact(s), cfg' = cfg, cmd'.plugins = cmd.plugins,
           \A g \in FilesOf(s) : files'[g] = files[g]
    PROVE  Fact(s)'
<1>1. Activity(cfg.id) \in {"kt1", "kt2"} /\ Activity(cfg.id)' = Activity(cfg.id)
  BY DEF Activity
<1>2. CASE s = "gradle"
  BY <1>2 DEF Fact, FilesOf
<1>3. CASE s \in {"relocate", "activity"}
  <2>1. files'["kt1"] = files["kt1"] /\ files'["kt2"] = files["kt2"]
    BY <1>3 DEF FilesOf
  <2>2. files'[Activity(cfg.id)'] = files[Activity(cfg.id)]
    BY <1>1, <2>1
  <2>3. HasActivity' <=> HasActivity
    BY <2>1 DEF HasActivity
  <2>4. CASE s = "relocate"
    <3>1. Moved
      BY <2>4 DEF Fact
    <3>2. Moved'
      BY <1>1, <2>1, <2>2, <2>3, <3>1 DEF Moved
    <3> QED
      BY <2>4, <3>2 DEF Fact
  <2>5. CASE s = "activity"
    <3>1. HasActivity => files[Activity(cfg.id)] = [Generated(Installed) EXCEPT !.id = cfg.id]
      BY <2>5 DEF Fact
    <3>2. HasActivity' => files'[Activity(cfg.id)'] = [Generated(Installed) EXCEPT !.id = cfg'.id]
      BY <2>2, <2>3, <3>1
    <3> QED
      BY <2>5, <3>2 DEF Fact
  <2> QED
    BY <1>3, <2>4, <2>5
<1>4. CASE s \in {"hook", "make"}
  BY <1>4 DEF Fact, FilesOf
<1>5. CASE s = "titlebar"
  BY <1>5 DEF Fact, FilesOf
<1>6. CASE s = "ignore"
  BY <1>6 DEF Fact, FilesOf
<1>7. CASE s = "pin"
  BY <1>7 DEF Fact, FilesOf, Pinless
<1>8. CASE s = "refs"
  BY <1>8 DEF Fact, FilesOf, Pinless
<1> QED
  BY <1>2, <1>3, <1>4, <1>5, <1>6, <1>7, <1>8 DEF Settling

\* An update goes on: all that is past is settled if the files of the steps before are left alone and
\* the present one has settled its own.
LEMMA Advance ==
    ASSUME TypeOK, Chain, Sorted, Earned, cmd.todo # <<>>, place \in UpdatePlaces \ {"flutterClean"},
           cmd' \in {Onward, Changing},
           \A s \in Settling : Past(place, s) => (Fact(s)' \/ \A g \in FilesOf(s) : files'[g] = files[g]),
           \A s \in Settling : s = place => Fact(s)'
    PROVE  Earned'
<1>1. Same(cmd') /\ cmd'.phase = "look" /\ cfg' = cfg /\ place' \in Follow(cmd, waived, place)
  BY Turning
<1>2. Moving'
  BY <1>1 DEF Moving
<1>3. ASSUME NEW s \in Settling, Past(place, s)' PROVE Fact(s)'
  <2>1. PICK here, there : here = place /\ there = place'
    OBVIOUS
  <2>2. Past(there, s)
    BY <1>3, <2>1 DEF Past
  <2>3. Past(here, s) \/ here = s \/ (s = "titlebar" /\ cmd.cfg.opt) \/ (s = "refs" /\ ~cmd.plugins)
    BY <1>1, <2>1, <2>2, JustPast
  <2>4. CASE Past(here, s)
    <3>1. Fact(s)
      BY <2>1, <2>4 DEF Earned
    <3>2. cmd'.plugins = cmd.plugins
      BY <1>1 DEF Same
    <3> QED
      BY <1>1, <2>1, <2>4, <3>1, <3>2, FactKept
  <2>5. CASE here = s
    BY <2>1, <2>5
  <2>6. CASE s = "titlebar" /\ cmd.cfg.opt
    BY <1>1, <2>6 DEF Fact, cfg
  <2>7. CASE s = "refs" /\ ~cmd.plugins
    BY <1>1, <2>7 DEF Fact, Same
  <2> QED
    BY <2>3, <2>4, <2>5, <2>6, <2>7
<1> QED
  BY <1>2, <1>3 DEF Earned

\* A step renders a file that no step before it has settled, and settles it.
LEMMA RenderSettles ==
    ASSUME TypeOK, place \in Rendered, NEW f, f = Target(place), NEW s \in Settling, Past(place, s)
    PROVE  f \notin FilesOf(s)
BY DEF Rendered, Target, Settling, Past, Order, FilesOf, UpdatePlaces

\* A step that has rendered its file has settled it.
LEMMA RenderFact ==
    ASSUME TypeOK, place \in Rendered, files'[Target(place)] = Text(place)
    PROVE  \A s \in Settling : s = place => Fact(s)'
<1> SUFFICES ASSUME NEW s \in Settling, s = place PROVE Fact(s)'
  OBVIOUS
<1>1. \A g \in Names : files[g] \in Contents
  BY DEF TypeOK
<1>2. CASE s \in {"hook", "make"}
  BY <1>2 DEF Fact, Target, Text, Rendering
<1>3. CASE s = "titlebar"
  BY <1>3 DEF Fact, Target, Text, Rendering
<1>4. CASE s = "ignore"
  <2>1. PICK old \in Contents : old = files["ignore"]
    BY <1>1 DEF Names
  <2>2. files'["ignore"] = Merged(old)
    BY <1>4, <2>1 DEF Target, Text
  <2>3. Merged(old).gen = Installed
    <3>1. [old EXCEPT !.gen = Installed].gen = Installed /\ Generated(Installed).gen = Installed
      BY DEF Contents, Generated, Empty
    <3>2. CASE ~old.here
      BY <3>1, <3>2 DEF Merged
    <3>3. CASE old.here /\ ~old.opt
      BY <3>1, <3>3 DEF Merged
    <3>4. CASE old.here /\ old.opt
      BY <3>1, <3>4 DEF Merged
    <3> QED
      BY <3>2, <3>3, <3>4
  <2> QED
    BY <1>4, <2>2, <2>3 DEF Fact
<1>5. ASSUME NEW old \in Contents PROVE Pinned(old).gen \in {0, Installed}
  BY DEF Pinned, Contents
<1>6. CASE s = "pin"
  <2>1. PICK old \in Contents : old = files["gomod"]
    BY <1>1 DEF Names
  <2>2. files'["gomod"] = IF old.opt THEN old ELSE Pinned(old)
    BY <1>6, <2>1 DEF Target, Text
  <2>3. files'["gomod"].opt \/ files'["gomod"].gen \in {0, Installed}
    BY <1>5, <2>2
  <2> QED
    BY <1>6, <2>3 DEF Fact, Pinless
<1>7. CASE s = "refs"
  <2>1. PICK old \in Contents : old = files["pubspec"]
    BY <1>1 DEF Names
  <2>2. files'["pubspec"] = Pinned(old)
    BY <1>7, <2>1 DEF Target, Text
  <2>3. files'["pubspec"].gen \in {0, Installed}
    BY <1>5, <2>2
  <2> QED
    BY <1>7, <2>3 DEF Fact, Pinless
<1> QED
  BY <1>2, <1>3, <1>4, <1>6, <1>7 DEF Rendered, Settling

\* An update that stays where it is keeps what it has settled.
LEMMA EarnedStays ==
    ASSUME Earned, place' = place, cmd'.cfg = cmd.cfg, cmd'.plugins = cmd.plugins,
           cmd'.old = cmd.old, cmd'.phase = cmd.phase \/ place # "relocate",
           \A g \in Names \ {"yaml"} : files'[g] = files[g]
    PROVE  Earned'
<1>1. cfg' = cfg /\ Activity(cfg.id)' = Activity(cfg.id) /\ Activity(cfg.id) \in Names \ {"yaml"}
  BY DEF cfg, Activity, Names
<1>2. Moving'
  BY <1>1 DEF Earned, Moving
<1>3. ASSUME NEW s \in Settling, Past(place, s)' PROVE Fact(s)'
  <2>1. Past(place, s)
    BY <1>3 DEF Past
  <2>2. \A g \in FilesOf(s) : files'[g] = files[g]
    <3>1. FilesOf(s) \subseteq Names \ {"yaml"}
      BY DEF FilesOf, Settling, Names
    <3> QED
      BY <3>1
  <2> QED
    BY <1>1, <2>1, <2>2, FactKept DEF Earned
<1> QED
  BY <1>2, <1>3 DEF Earned

\* Outside of an update nothing has to be settled.
LEMMA OffEarned == ASSUME place' \notin UpdatePlaces PROVE Earned'
<1>1. \A s \in Settling : ~Past(place, s)'
  <2>1. \A s : Order(s) \in Nat
    BY OrderIsNat
  <2>2. Order(place') = 0
    BY DEF Order
  <2> QED
    BY <2>1, <2>2 DEF Past
<1>2. Moving'
  BY DEF Moving, UpdatePlaces
<1> QED
  BY <1>1, <1>2 DEF Earned

\* The move of MainActivity.kt: it is written where it belongs, then the other one is removed.
LEMMA RelocateStep ==
    ASSUME TypeOK, Chain, Sorted, Earned, Relocate \/ RemoveOldActivity, cmd'.kind = "update"
    PROVE  Earned'
<1>1. place = "relocate" /\ cmd.todo # <<>> /\ files \in [Names -> Contents]
  BY DEF Relocate, RemoveOldActivity, Now, place, PlaceOf, TypeOK
<1>2. PICK home \in {"kt1", "kt2"} : home = Activity(cfg.id)
  BY DEF Activity
<1>3. PICK id \in {0} \cup Packages : id = cfg.id
  BY DEF TypeOK, Commands, cfg, Contents
<1>4. ASSUME cmd' \in {Onward, Changing}, \A g \in Names \ {"kt1", "kt2"} : files'[g] = files[g],
             files'["kt1"].here \/ files'["kt2"].here =>
                 (files'["kt1"].here <=> home = "kt1") /\ files'[home].id \in {0, id}
      PROVE  Earned'
  <2>1. cfg' = cfg
    BY <1>1, <1>4, Turning DEF UpdatePlaces
  <2>2. Moved'
    BY <1>2, <1>3, <1>4, <2>1 DEF Moved, HasActivity
  <2>3. \A s \in Settling : s = place => Fact(s)'
    BY <1>1, <2>2 DEF Fact
  <2>4. \A s \in Settling : Past("relocate", s) => FilesOf(s) \subseteq Names \ {"kt1", "kt2"}
    BY DEF Settling, Past, Order, FilesOf, Names, UpdatePlaces
  <2>5. place \in UpdatePlaces \ {"flutterClean"}
    BY <1>1 DEF UpdatePlaces
  <2> QED
    BY <1>1, <1>4, <2>3, <2>4, <2>5, Advance
<1>5. CASE Relocate /\ Activities = {}
  <2>1. cmd' = Onward /\ files' = files
    BY <1>5 DEF Relocate, Skip
  <2>2. ~files["kt1"].here /\ ~files["kt2"].here
    BY <1>5, FirstActivityIs DEF Packages, Activity
  <2> QED
    BY <1>4, <2>1, <2>2
<1>6. CASE Relocate /\ Activities # {}
  <2>1. PICK first, content, next :
            /\ first = FirstActivity /\ content = Repackaged(files[first])
            /\ next = IF first = home THEN Onward ELSE [cmd EXCEPT !.phase = "write", !.old = first]
            /\ WriteFile(home, content, next) /\ UNCHANGED bak
    BY <1>2, <1>6 DEF Relocate
  <2>2. first = (IF files["kt1"].here THEN "kt1" ELSE "kt2") /\ files[first].here
    BY <1>6, <2>1, FirstActivityIs
  <2>3. home \in Names /\ content \in Contents
    BY <2>1, <2>2, RenderingIsContent DEF Names
  <2>4. content.here /\ content.id \in {0, id}
    <3>1. PICK old \in Contents : old = files[first] /\ old.here
      BY <1>1, <2>2 DEF Names
    <3>2. content = [old EXCEPT !.id = IF old.id = 0 THEN 0 ELSE id]
      BY <1>3, <2>1, <3>1 DEF Repackaged
    <3> QED
      BY <3>1, <3>2 DEF Contents
  <2>5. Wrote(home, content) /\ cmd' = next
    BY <2>1, Writing, CutEnds
  <2>6. files'[home] = content /\ \A g \in Names \ {home} : files'[g] = files[g]
    BY <2>3, <2>5, WroteFile
  <2>7. CASE first = home
    BY <1>4, <2>1, <2>2, <2>4, <2>5, <2>6, <2>7 DEF Names
  <2>8. CASE first # home
    <3>1. cmd' = [cmd EXCEPT !.phase = "write", !.old = first]
      BY <2>1, <2>5, <2>8
    <3>2. cmd'.cfg = cmd.cfg /\ cmd'.plugins = cmd.plugins /\ cmd'.old = first /\ cmd'.todo = cmd.todo
      BY <3>1 DEF TypeOK, Commands
    <3>3. place' = place /\ cfg' = cfg
      BY <3>2 DEF place, PlaceOf, cfg
    <3>4. Moving'
      BY <1>2, <1>3, <2>2, <2>4, <2>6, <2>8, <3>2, <3>3 DEF Moving
    <3>5. ASSUME NEW s \in Settling, Past(place, s)' PROVE Fact(s)'
      <4>1. Past("relocate", s) /\ Past(place, s)
        BY <1>1, <3>3, <3>5 DEF Past
      <4>2. FilesOf(s) \subseteq Names \ {"kt1", "kt2"}
        BY <4>1 DEF Settling, Past, Order, FilesOf, Names, UpdatePlaces
      <4> QED
        BY <1>2, <2>6, <3>2, <3>3, <4>1, <4>2, FactKept DEF Earned
    <3> QED
      BY <3>4, <3>5 DEF Earned
  <2> QED
    BY <2>7, <2>8
<1>7. CASE RemoveOldActivity
  <2>1. cmd' = Onward /\ cmd.phase = "write" /\ files' = [files EXCEPT ![cmd.old] = Absent]
    BY <1>7 DEF RemoveOldActivity
  <2>2. cmd.old \in {"kt1", "kt2"} \ {home} /\ files[home].here /\ files[home].id \in {0, id}
    BY <1>1, <1>2, <1>3, <2>1 DEF Earned, Moving
  <2>3. PICK old \in {"kt1", "kt2"} : old = cmd.old
    BY <2>2
  <2>4. files'[old] = Absent /\ \A g \in Names \ {old} : files'[g] = files[g]
    BY <1>1, <2>1, <2>3 DEF Names
  <2>5. ~Absent.here
    BY DEF Absent, Empty
  <2> QED
    BY <1>4, <2>1, <2>2, <2>3, <2>4, <2>5 DEF Names
<1> QED
  BY <1>5, <1>6, <1>7

\* The rendering of MainActivity.kt settles it and leaves its place settled.
LEMMA ActivityStep ==
    ASSUME TypeOK, Chain, Sorted, Earned, RenderActivity, cmd'.kind = "update"
    PROVE  Earned'
<1>1. place = "activity" /\ cmd.todo # <<>> /\ files \in [Names -> Contents]
  BY DEF RenderActivity, Now, place, PlaceOf, TypeOK
<1>2. PICK home \in {"kt1", "kt2"} : home = Activity(cfg.id)
  BY DEF Activity
<1>3. Moved
  <2>1. Past("activity", "relocate") /\ "relocate" \in Settling
    BY DEF Past, Order, Settling, UpdatePlaces
  <2>2. Fact("relocate")
    BY <1>1, <2>1 DEF Earned
  <2> QED
    BY <2>2 DEF Fact
<1>4. ASSUME cmd' \in {Onward, Changing}, \A g \in Names \ {home} : files'[g] = files[g],
             files'["kt1"].here <=> files["kt1"].here, files'["kt2"].here <=> files["kt2"].here,
             HasActivity => files'[home] = [Generated(Installed) EXCEPT !.id = cfg.id]
                            /\ files'[home].id \in {0, cfg.id}
      PROVE  Earned'
  <2>1. cfg' = cfg
    BY <1>1, <1>4, Turning DEF UpdatePlaces
  <2>2. HasActivity' <=> HasActivity
    BY <1>4 DEF HasActivity
  <2>3. Activity(cfg.id)' = home
    BY <1>2, <2>1
  <2>4. \A s \in Settling : s = place => Fact(s)'
    BY <1>1, <1>4, <2>1, <2>2, <2>3 DEF Fact
  <2>5. Moved'
    BY <1>2, <1>3, <1>4, <2>1, <2>2, <2>3 DEF Moved
  <2>6. ASSUME NEW s \in Settling, Past(place, s)
        PROVE  Fact(s)' \/ \A g \in FilesOf(s) : files'[g] = files[g]
    <3>1. CASE s = "relocate"
      BY <2>5, <3>1 DEF Fact
    <3>2. CASE s # "relocate"
      <4>1. Past("activity", s)
        BY <1>1, <2>6
      <4>2. FilesOf(s) \subseteq Names \ {"kt1", "kt2"}
        BY <3>2, <4>1 DEF Settling, Past, Order, FilesOf, Names, UpdatePlaces
      <4> QED
        BY <1>4, <4>2
    <3> QED
      BY <3>1, <3>2
  <2>7. place \in UpdatePlaces \ {"flutterClean"}
    BY <1>1 DEF UpdatePlaces
  <2> QED
    BY <1>1, <1>4, <2>4, <2>6, <2>7, Advance
<1>5. CASE Activities = {} /\ Skip
  <2>1. cmd' = Onward /\ files' = files
    BY <1>5 DEF Skip
  <2>2. ~HasActivity
    BY <1>5, FirstActivityIs DEF HasActivity, Packages, Activity
  <2> QED
    BY <1>4, <2>1, <2>2
<1>6. CASE /\ Activities # {} /\ files[FirstActivity].id # 0
           /\ ApplyRendered(FirstActivity, [Generated(Installed) EXCEPT !.id = files[FirstActivity].id])
  <2>1. PICK first, id : first = FirstActivity /\ id = files[first].id
    OBVIOUS
  <2>2. first = (IF files["kt1"].here THEN "kt1" ELSE "kt2") /\ files[first].here
    BY <1>6, <2>1, FirstActivityIs
  <2>3. HasActivity /\ first = home /\ id = cfg.id
    BY <1>2, <1>3, <1>6, <2>1, <2>2 DEF HasActivity, Moved
  <2>4. PICK content : content = [Generated(Installed) EXCEPT !.id = id]
    OBVIOUS
  <2>5. content.here /\ content.id = id
    BY <2>4 DEF Generated, Empty
  <2>6. ApplyRendered(home, content) /\ home \in Names
    BY <1>6, <2>1, <2>3, <2>4 DEF Names
  <2>7. CASE Wrote(home, content) /\ cmd' \in {Onward, Changing}
    <3>1. files'[home] = content /\ \A g \in Names \ {home} : files'[g] = files[g]
      BY <1>1, <2>6, <2>7 DEF Wrote
    <3>2. /\ files'["kt1"].here <=> files["kt1"].here
          /\ files'["kt2"].here <=> files["kt2"].here
      BY <2>2, <2>3, <2>5, <3>1 DEF Names
    <3> QED
      BY <1>4, <2>3, <2>4, <2>5, <2>7, <3>1, <3>2
  <2>8. CASE Saved(home)
    <3>1. cmd' = [cmd EXCEPT !.phase = "write"] /\ files' = files
      BY <2>8 DEF Saved
    <3>2. cmd'.cfg = cmd.cfg /\ cmd'.plugins = cmd.plugins /\ cmd'.old = cmd.old /\ cmd'.todo = cmd.todo
      BY <3>1 DEF TypeOK, Commands
    <3>3. place' = place
      BY <3>2 DEF place, PlaceOf
    <3> QED
      BY <1>1, <3>1, <3>2, <3>3, EarnedStays
  <2>9. ~Cut(home)
    BY CutEnds
  <2> QED
    BY <2>6, <2>7, <2>8, <2>9, Applying
<1>7. ~(cmd' = Idle)
  BY Shapes DEF Ended
<1> QED
  BY <1>5, <1>6, <1>7 DEF RenderActivity

\* An update starts with the Gradle file.
LEMMA UpdateHead ==
    \A all, plugins \in BOOLEAN :
        UpdateSteps(all, plugins) # <<>> /\ Head(UpdateSteps(all, plugins)) = "gradle"
<1> SUFFICES ASSUME NEW all \in BOOLEAN, NEW plugins \in BOOLEAN
             PROVE UpdateSteps(all, plugins) # <<>> /\ Head(UpdateSteps(all, plugins)) = "gradle"
  OBVIOUS
<1> QED
  BY DEF UpdateSteps, Frameworks, UserFiles

\* Every step keeps what the steps of the update before it have settled.
LEMMA EarnedStep ==
    ASSUME TypeOK, Chain, Sorted, Earned, [Next]_vars PROVE Earned'
<1>1. CASE cmd'.kind # "update"
  <2>1. Sorted'
    BY NextMoves, CommandStep
  <2>2. place' \notin UpdatePlaces
    BY <1>1, <2>1 DEF Sorted
  <2> QED
    BY <2>2, OffEarned
<1>2. CASE cmd'.kind = "update"
  <2>1. files \in [Names -> Contents] /\ \A s : Order(s) \in Nat
    BY OrderIsNat DEF TypeOK
  <2>2. CASE Still
    <3>1. cmd' = cmd /\ files' = files
      BY <1>2, <2>2 DEF Still
    <3> QED
      BY <3>1, EarnedStays DEF place
  <2>3. ASSUME NEW all \in BOOLEAN, NEW plugins \in BOOLEAN, StartUpdate(all, plugins)
        PROVE  Earned'
    <3>1. files["yaml"].id # 0
      BY <1>2, <2>3, Shapes DEF StartUpdate, Start, Ended
    <3>2. cmd' = [Idle EXCEPT !.kind = "update", !.plugins = plugins, !.cfg = files["yaml"],
                              !.before = files, !.todo = UpdateSteps(all, plugins)]
      BY <2>3, <3>1 DEF StartUpdate, Start
    <3>3. cmd'.todo = UpdateSteps(all, plugins)
      BY <3>2 DEF Idle
    <3>4. UpdateSteps(all, plugins) # <<>> /\ Head(UpdateSteps(all, plugins)) = "gradle"
      BY UpdateHead
    <3>5. place' = "gradle"
      BY <3>3, <3>4 DEF place, PlaceOf
    <3>6. \A s \in Settling : ~Past("gradle", s)
      BY DEF Settling, Past, Order, UpdatePlaces
    <3> QED
      BY <3>5, <3>6 DEF Earned, Moving, Past
  <2>4. CASE PatchBundleID
    <3>1. PICK old, id : old = files["gradle"] /\ id = cfg.id /\ old \in Contents
      BY <2>1 DEF Names
    <3>2. PICK content : content = [old EXCEPT !.id = IF @ = 0 THEN 0 ELSE id]
      OBVIOUS
    <3>3. content.id \in {0, id}
      BY <3>1, <3>2 DEF Contents
    <3>4. WriteFile("gradle", content, Onward) /\ UNCHANGED bak
      BY <2>4, <3>1, <3>2 DEF PatchBundleID
    <3>5. Wrote("gradle", content) /\ cmd' = Onward
      BY <1>2, <3>4, Writing, CutEnds
    <3>6. files'["gradle"] = content
      BY <2>1, <3>5 DEF Wrote, Names
    <3>7. place = "gradle" /\ cmd.todo # <<>>
      BY <2>4 DEF PatchBundleID, Now, place, PlaceOf
    <3>8. cfg' = cfg
      BY <3>5, <3>7, Turning DEF UpdatePlaces
    <3>9. \A s \in Settling : s = place => Fact(s)'
      BY <3>1, <3>3, <3>6, <3>7, <3>8 DEF Fact
    <3>10. \A s \in Settling : ~Past("gradle", s)
      BY DEF Settling, Past, Order, UpdatePlaces
    <3> QED
      BY <3>5, <3>7, <3>9, <3>10, Advance DEF UpdatePlaces
  <2>5. CASE Relocate \/ RemoveOldActivity
    BY <1>2, <2>5, RelocateStep
  <2>6. CASE Render
    <3>1. PICK f, content : f = Target(place) /\ content = Text(place)
      OBVIOUS
    <3>2. f \in Names /\ content \in Contents /\ ApplyRendered(f, content) /\ place \in Rendered /\ cmd.todo # <<>>
      BY <2>6, <3>1, TextIsContent DEF Render
    <3>3. CASE Wrote(f, content) /\ cmd' \in {Onward, Changing}
      <4>1. files'[f] = content /\ \A g \in Names \ {f} : files'[g] = files[g]
        BY <3>2, <3>3, WroteFile
      <4>2. \A s \in Settling : s = place => Fact(s)'
        BY <3>1, <3>2, <4>1, RenderFact
      <4>3. ASSUME NEW s \in Settling, Past(place, s) PROVE \A g \in FilesOf(s) : files'[g] = files[g]
        <5>1. f \notin FilesOf(s)
          BY <3>1, <3>2, <4>3, RenderSettles
        <5>2. FilesOf(s) \subseteq Names
          BY DEF FilesOf, Settling, Names
        <5> QED
          BY <4>1, <5>1, <5>2
      <4>4. place \in UpdatePlaces \ {"flutterClean"}
        BY <3>2 DEF Rendered, UpdatePlaces
      <4> QED
        BY <3>2, <3>3, <4>2, <4>3, <4>4, Advance
    <3>4. CASE Saved(f)
      <4>1. cmd' = [cmd EXCEPT !.phase = "write"] /\ files' = files
        BY <3>4 DEF Saved
      <4>2. cmd'.cfg = cmd.cfg /\ cmd'.plugins = cmd.plugins /\ cmd'.old = cmd.old /\ cmd'.todo = cmd.todo
        BY <4>1 DEF TypeOK, Commands
      <4>3. place' = place /\ place # "relocate"
        BY <3>2, <4>2 DEF place, PlaceOf, Rendered
      <4> QED
        BY <4>1, <4>2, <4>3, EarnedStays
    <3>5. ~Cut(f)
      BY <1>2, CutEnds
    <3> QED
      BY <3>2, <3>3, <3>4, <3>5, Applying
  <2>7. CASE RenderActivity
    BY <1>2, <2>7, ActivityStep
  <2>8. CASE Stamp
    <3>1. PICK content : WriteFile("yaml", content, Onward) /\ UNCHANGED bak
      BY <2>8 DEF Stamp
    <3>2. Wrote("yaml", content) /\ cmd' = Onward
      BY <1>2, <3>1, Writing, CutEnds
    <3>3. \A g \in Names \ {"yaml"} : files'[g] = files[g]
      BY <2>1, <3>2 DEF Wrote
    <3>4. place = "stamp" /\ cmd.todo # <<>>
      BY <2>8 DEF Stamp, Now, place, PlaceOf
    <3>5. \A s \in Settling : s # place /\ FilesOf(s) \subseteq Names \ {"yaml"}
      BY <3>4 DEF Settling, FilesOf, Names
    <3> QED
      BY <3>2, <3>3, <3>4, <3>5, Advance DEF UpdatePlaces
  <2>9. ~(\E f \in Names : \E content \in Contents : Brings(f, content))
    BY <1>2 DEF Brings
  <2>11. ASSUME NEW content \in Contents, PinTidied(content) \/ GenTidied(content) PROVE Earned'
    <3>1. PinTidied(content) /\ ~Cut("gomod")
      BY <1>2, <2>11, CutEnds DEF GenTidied
    <3>2. /\ Wrote("gomod", content) /\ cmd' \in {Onward, Changing} /\ cmd.todo # <<>> /\ place = "pin"
          /\ content.gen \in {0, Installed} /\ "gomod" \in Names
      BY <3>1 DEF PinTidied, Tidied, Names
    <3>3. files'["gomod"] = content /\ \A g \in Names \ {"gomod"} : files'[g] = files[g]
      BY <3>2, WroteFile
    <3>4. \A s \in Settling : s = place => Fact(s)'
      BY <3>2, <3>3 DEF Fact, Pinless
    <3>5. \A s \in Settling : Past("pin", s) => FilesOf(s) \subseteq Names \ {"gomod"}
      BY DEF Settling, Past, Order, FilesOf, UpdatePlaces, Names
    <3> QED
      BY <3>2, <3>3, <3>4, <3>5, Advance DEF UpdatePlaces
  <2>10. CASE Editors
    <3>1. cmd' = cmd
      BY <2>10 DEF Editors, Editing, EditText, DeleteFile, LoseEndMarker, Configure
    <3>2. place \in UpdatePlaces /\ place' = place
      BY <1>2, <3>1 DEF Sorted, place
    <3>3. Configure
      BY <2>10, <3>2 DEF Editors, EditText, DeleteFile, LoseEndMarker, Running, place, PlaceOf, UpdatePlaces
    <3>4. \E new : files' = [files EXCEPT !["yaml"] = new]
      BY <3>3 DEF Configure, Put
    <3>5. \A g \in Names \ {"yaml"} : files'[g] = files[g]
      BY <2>1, <3>4
    <3> QED
      BY <3>1, <3>2, <3>5, EarnedStays
  <2> QED
    BY <2>2, <2>3, <2>4, <2>5, <2>6, <2>7, <2>8, <2>9, <2>10, <2>11, FileSteps DEF FileStep
<1> QED
  BY <1>1, <1>2

-----------------------------------------------------------------------------
\* What is fresh where a build ends is what the property asks for.
LEMMA FreshIs == ASSUME TypeOK, Fresh PROVE BuildsAreFresh
<1>1. Now("unmark") => place = "unmark"
  BY DEF Now, place, PlaceOf
<1>2. Now("unmark") => /\ Agrees(bundle.ver, cfg.ver)
                       /\ Arch = "x64" => bundle.lib.rev >= cmd.since /\ bundle.lib.ver = cfg.ver
  BY <1>1 DEF Fresh, Making, FreshLib
<1>3. DOMAIN apk.libs = 1..2
  BY DEF TypeOK
<1> QED
  BY <1>2, <1>3 DEF BuildsAreFresh, Fresh, ApkFresh

\* Only some steps lead to those that rely on what is made.
LEMMA OpeningIs ==
    ASSUME NEW c, NEW w, NEW s \in Steps \ Opening, NEW t \in Follow(c, w, s)
    PROVE  t \notin BuildPlaces /\ t \notin Building
BY DEF Follow, Steps, Opening, BuildPlaces, Building

\* The step that is done leads on, or its command ends with it.
LEMMA Goes ==
    ASSUME TypeOK, Chain, cmd.todo # <<>>, cmd' \in {Onward, Changing}
    PROVE  /\ place \in Steps /\ place' \in Follow(cmd, waived, place)
           /\ \/ place' = "end" /\ cmd'.since = 0
              \/ cfg' = cfg /\ cmd'.since = cmd.since
<1>1. cmd \in Commands
  BY DEF TypeOK
<1>2. /\ PlaceOf(cmd') \in Follow(cmd, waived, place)
      /\ (Ended(cmd') /\ PlaceOf(cmd') = "end") \/ Same(cmd')
  BY <1>1, OnwardIs
<1>3. place \in Steps
  BY <1>1, HeadIsFirst DEF place, PlaceOf, Commands
<1> QED
  BY <1>2, <1>3 DEF place, cfg, Same, Ended

\* No command is younger than the source.
LEMMA SinceStep ==
    ASSUME TypeOK, Chain, Sorted, Fresh, [Next]_vars PROVE rev' >= cmd'.since
<1>1. rev \in Nat /\ cmd.since \in Nat /\ rev >= cmd.since /\ cmd \in Commands
  BY DEF TypeOK, Commands, Fresh
<1>2. rev' \in {rev, rev + 1}
  <2>1. CASE UNCHANGED vars
    BY <2>1 DEF vars, buildVars
  <2>2. CASE UpdateNext /\ UNCHANGED buildVars
    BY <2>2 DEF buildVars
  <2>3. CASE BuildNext
    BY <2>3 DEF BuildNext, StartBuild, NextTarget, GenerateBridge, SyncAppVersion, Tidy, CheckAppVersion, BuildGoShared,
                DropMarker, BuildFlutter, BundleGoLib, FinishDesktop, BuildABI, BuildApk, BuildDeviceABI,
                RunFlutter, NeedBundle, Assemble, PackageLinux, Clean, FlutterClean, buildVars
  <2>4. CASE Editors \/ Kill
    BY <2>4 DEF Editors, EditText, DeleteFile, LoseEndMarker, Configure, Kill, buildVars
  <2>5. CASE EditSource
    BY <2>5 DEF EditSource
  <2> QED
    BY <2>1, <2>2, <2>3, <2>4, <2>5 DEF Next, Editors
<1>3. cmd'.since \in {cmd.since, 0, rev}
  <2>1. Moves
    BY NextMoves
  <2>2. CASE cmd.todo # <<>> /\ cmd' \in {Onward, Changing}
    BY <2>2, Goes DEF cfg
  <2>3. CASE cmd' = Idle
    BY <2>3, Shapes DEF Ended
  <2>4. CASE \E old \in {"", "kt1", "kt2"} : Backs(old)
    BY <1>1, <2>4 DEF Backs, Commands
  <2>5. CASE cmd' = [cmd EXCEPT !.todo = <<>>] \/ NextTarget \/ (NeedBundle /\ ~bundle.here)
    BY <1>1, <2>5 DEF NextTarget, NeedBundle, Commands
  <2>6. ASSUME NEW all \in BOOLEAN, NEW plugins \in BOOLEAN, StartUpdate(all, plugins) PROVE cmd'.since = 0
    BY <2>6 DEF StartUpdate, Start, Idle
  <2>7. ASSUME NEW kind \in Targets, NEW scaffolded \in BOOLEAN, StartBuild(kind, scaffolded)
        PROVE  cmd'.since = rev
    BY <2>7 DEF StartBuild, Start, Idle
  <2> QED
    BY <2>1, <2>2, <2>3, <2>4, <2>5, <2>6, <2>7 DEF Moves
<1> QED
  BY <1>1, <1>2, <1>3

\* Where nothing relies on what is made, an APK that stays as it is stays fresh.
LEMMA FreshElsewhere ==
    ASSUME Fresh, place' \notin BuildPlaces, rev' >= cmd'.since, apk' = apk \/ ~apk'.here
    PROVE  Fresh'
<1>1. Making'
  BY DEF Making, BuildPlaces
<1>2. ApkFresh'
  BY DEF ApkFresh, Fresh
<1> QED
  BY <1>1, <1>2 DEF Fresh

\* Where an update, a sync or the start of a command leads.
LEMMA UpdatePlace ==
    ASSUME TypeOK, Chain, Sorted, UpdateNext
    PROVE  place \notin Building /\ place' \notin BuildPlaces /\ place' \notin Building
<1> DEFINE Quietly == UpdatePlaces \cup {"syncTitlebar", "check", "end"}
<1> SUFFICES place \in UpdatePlaces \cup {"syncHook", "syncTitlebar", "end"} /\ place' \in Quietly
  BY DEF Building, BuildPlaces, UpdatePlaces
<1>1. CASE \E all, plugins \in BOOLEAN : StartUpdate(all, plugins)
  <2>1. PICK all \in BOOLEAN, plugins \in BOOLEAN : StartUpdate(all, plugins)
    BY <1>1
  <2>2. place = "end"
    BY <2>1 DEF StartUpdate, Start, Running, place, PlaceOf
  <2>3. CASE files["yaml"].id = 0
    <3>1. place' = "end"
      BY <2>1, <2>3, Shapes DEF StartUpdate, Start, place
    <3> QED
      BY <2>2, <3>1
  <2>4. CASE files["yaml"].id # 0
    <3>1. cmd'.todo = UpdateSteps(all, plugins)
      BY <2>1, <2>4 DEF StartUpdate, Start, Idle
    <3>2. place' = "gradle"
      BY <3>1, UpdateHead DEF place, PlaceOf
    <3> QED
      BY <2>2, <3>2 DEF UpdatePlaces
  <2> QED
    BY <2>3, <2>4
<1>2. CASE SyncConfigFile
  <2>1. place \in {"syncHook", "syncTitlebar"} /\ cmd.todo # <<>>
    BY <1>2 DEF SyncConfigFile, Now, place, PlaceOf
  <2>2. cmd' = Onward \/ cmd' = Idle
    BY <1>2 DEF SyncConfigFile, Skip, WriteFile
  <2>3. cmd' = Onward => place' \in Quietly
    <3>1. cmd' = Onward => place' \in Follow(cmd, waived, place)
      BY <2>1, Goes
    <3>2. Follow(cmd, waived, place) \subseteq Quietly
      BY <2>1 DEF Follow
    <3> QED
      BY <3>1, <3>2
  <2>4. cmd' = Idle => place' = "end"
    BY Shapes DEF place
  <2> QED
    BY <2>1, <2>2, <2>3, <2>4
<1>3. CASE UpdateNext /\ ~SyncConfigFile /\ ~(\E all, plugins \in BOOLEAN : StartUpdate(all, plugins))
  <2>1. place \in UpdatePlaces \ {"flutterClean"} /\ cmd.todo # <<>>
    BY <1>3 DEF UpdateNext, PatchBundleID, Relocate, RemoveOldActivity, RenderTemplate, RenderActivity,
                MergeIgnore, PinGoMod, PinPlugins, Stamp, Now, place, PlaceOf, UpdatePlaces
  <2>2. Moves
    BY <1>3, UpdateMoves
  <2>3. CASE cmd' = cmd
    BY <2>1, <2>3 DEF place
  <2>4. CASE cmd' \in {Onward, Changing}
    BY <2>1, <2>4, Turning
  <2>5. CASE cmd' = Idle
    BY <2>1, <2>5, Shapes DEF place
  <2>6. CASE \E old \in {"", "kt1", "kt2"} : Backs(old)
    <3>1. cmd'.todo = cmd.todo
      BY <2>6 DEF Backs, TypeOK, Commands
    <3> QED
      BY <2>1, <3>1 DEF place, PlaceOf
  <2>7. ~(NextTarget \/ NeedBundle)
    BY <2>1 DEF NextTarget, NeedBundle, Now, place, PlaceOf, UpdatePlaces
  <2>8. ~(\E kind \in Targets, scaffolded \in BOOLEAN : StartBuild(kind, scaffolded))
    BY <2>1 DEF StartBuild, Start, Running
  <2> QED
    BY <1>3, <2>1, <2>2, <2>3, <2>4, <2>5, <2>6, <2>7, <2>8 DEF Moves
<1> QED
  BY <1>1, <1>2, <1>3

\* Where a build starts, and where one platform after another does.
LEMMA BuildStarts ==
    ASSUME TypeOK, Chain, Sorted,
           (\E kind \in Targets, scaffolded \in BOOLEAN : StartBuild(kind, scaffolded)) \/ NextTarget
    PROVE  place = "end" /\ place' \in {"syncHook", "generate", "tarball", "remove", "check"}
<1>1. CASE NextTarget
  <2>1. cmd.todo = <<>> /\ cmd.rest # <<>> /\ cmd.rest \in Seq(Targets)
    BY <1>1 DEF NextTarget, TypeOK, Commands
  <2>2. PICK kind : kind = Head(cmd.rest)
    OBVIOUS
  <2>3. kind \in {"linux", "android", "image"}
    <3>1. Len(cmd.rest) \in Nat \ {0} /\ Head(cmd.rest) = cmd.rest[1] /\ 1 \in DOMAIN cmd.rest
      BY <2>1, EmptySeq, LenProperties, HeadTailProperties
    <3> QED
      BY <2>2, <3>1 DEF Sorted
  <2>4. cmd'.todo = StepsOf(kind)
    BY <1>1, <2>2 DEF NextTarget, TypeOK, Commands
  <2>5. StepsOf(kind) # <<>> /\ Head(StepsOf(kind)) = "check"
    BY <2>3, BuildIsChain DEF Targets, Synced
  <2> QED
    BY <2>1, <2>4, <2>5 DEF place, PlaceOf
<1>2. ASSUME NEW kind \in Targets, NEW scaffolded \in BOOLEAN, StartBuild(kind, scaffolded)
      PROVE  place = "end" /\ place' \in {"syncHook", "generate", "tarball", "remove", "check"}
  <2> DEFINE q == (IF kind \in Synced THEN SyncSteps ELSE <<>>) \o StepsOf(kind)
  <2>1. cmd'.todo = q
    BY <1>2 DEF StartBuild, Start, Idle
  <2>2. q # <<>> /\ Head(q) \in {"syncHook", "generate", "tarball", "remove"}
    BY SyncIsChain
  <2>3. place = "end"
    BY <1>2 DEF StartBuild, Start, Running, place, PlaceOf
  <2> HIDE DEF q
  <2> QED
    BY <2>1, <2>2, <2>3 DEF place, PlaceOf
<1> QED
  BY <1>1, <1>2

\* A platform that is given up is at its end.
LEMMA GivenUp ==
    ASSUME TypeOK, GiveUp PROVE place' = "end"
<1>1. cmd' = Idle => place' = "end"
  BY Shapes DEF place
<1>2. cmd' = [cmd EXCEPT !.todo = <<>>] => cmd'.todo = <<>>
  BY DEF TypeOK, Commands
<1> QED
  BY <1>1, <1>2 DEF GiveUp, place, PlaceOf

\* The other steps of a build lead to none that relies on what is made.
LEMMA BuildElsewhere ==
    ASSUME TypeOK, Chain, Sorted, BuildNext, place \notin Opening, ~(NeedBundle /\ ~bundle.here)
    PROVE  place' \notin BuildPlaces /\ place' \notin Building
<1>1. BuildMove
  BY BuildMoves
<1>2. CASE cmd.todo # <<>> /\ cmd' = Onward
  BY <1>2, Goes, OpeningIs
<1>3. CASE cmd' = Idle \/ cmd' = [cmd EXCEPT !.todo = <<>>]
  <2>1. place' = "end"
    <3>1. cmd' = Idle => place' = "end"
      BY Shapes DEF place
    <3>2. cmd' = [cmd EXCEPT !.todo = <<>>] => cmd'.todo = <<>>
      BY DEF TypeOK, Commands
    <3> QED
      BY <1>3, <3>1, <3>2 DEF place, PlaceOf
  <2> QED
    BY <2>1 DEF BuildPlaces, Building
<1>4. CASE NextTarget \/ \E kind \in Targets, scaffolded \in BOOLEAN : StartBuild(kind, scaffolded)
  BY <1>4, BuildStarts DEF BuildPlaces, Building
<1> QED
  BY <1>1, <1>2, <1>3, <1>4 DEF BuildMove

\* What is made stays fresh when neither the command nor what it relies on changes.
LEMMA FreshStays ==
    ASSUME Fresh, cmd' = cmd, files'["pubspec"] = files["pubspec"], UNCHANGED <<lib, bundle, jni, apk>>,
           rev' >= cmd'.since
    PROVE  Fresh'
<1>1. place' = place /\ cfg' = cfg
  BY DEF place, cfg
<1>2. VersionAgrees' <=> VersionAgrees
  BY <1>1 DEF VersionAgrees
<1>3. Making'
  BY <1>1, <1>2 DEF Fresh, Making, FreshLib
<1> QED
  BY <1>3 DEF Fresh, ApkFresh

\* The edits of the developer: one while a command runs concerns flugo.yaml.
LEMMA EditorsIs ==
    ASSUME TypeOK, Editors
    PROVE  /\ cmd' = cmd /\ count' = Counted("edits") /\ UNCHANGED buildVars
           /\ place = "end" \/ files'["pubspec"] = files["pubspec"]
<1>1. cmd' = cmd /\ count' = Counted("edits") /\ UNCHANGED buildVars
  BY DEF Editors, Editing, EditText, DeleteFile, LoseEndMarker, Configure
<1>2. ~Running => place = "end"
  BY DEF Running, place, PlaceOf
<1>3. CASE Configure
  <2>1. \E new : files' = [files EXCEPT !["yaml"] = new]
    BY <1>3 DEF Configure, Put
  <2> QED
    BY <1>1, <2>1 DEF TypeOK, Names
<1>4. CASE ~Configure
  <2>1. ~Running
    BY <1>4 DEF Editors, EditText, DeleteFile, LoseEndMarker
  <2> QED
    BY <1>1, <1>2, <2>1
<1> QED
  BY <1>3, <1>4

\* The steps that lead to those that rely on what is made.
LEMMA MakingStep ==
    ASSUME TypeOK, Chain, Sorted, Fresh, BuildNext, place \in Opening, rev' >= cmd'.since
    PROVE  Fresh'
<1>1. cmd.todo # <<>>
  BY DEF place, PlaceOf, Opening
<1>2. CheckAppVersion \/ BuildGoShared \/ DropMarker \/ BuildFlutter \/ BundleGoLib \/ BuildABI
  <2>1. \A s : Now(s) => s = place
    BY DEF Now, place, PlaceOf
  <2>2. ~(\E kind \in Targets, scaffolded \in BOOLEAN : StartBuild(kind, scaffolded)) /\ ~NextTarget
    BY <1>1 DEF StartBuild, Start, Running, NextTarget
  <2> QED
    BY <2>1, <2>2 DEF BuildNext, Opening, GenerateBridge, SyncAppVersion, Tidy, FinishDesktop, BuildApk, BuildDeviceABI,
                      RunFlutter, NeedBundle, Assemble, PackageLinux, Clean, FlutterClean
<1>3. CASE GiveUp /\ apk' = apk
  <2>1. place' = "end"
    BY <1>3, GivenUp
  <2> QED
    BY <1>3, <2>1, FreshElsewhere DEF BuildPlaces
<1>4. ASSUME Proceed, apk' = apk,
             \A s : s \in Follow(cmd, waived, place) /\ cmd'.since = cmd.since /\ cfg' = cfg /\ place' = s => Making'
      PROVE  Fresh'
  <2>1. cmd' \in {Onward, Changing}
    BY <1>4 DEF Proceed
  <2>2. /\ place' \in Follow(cmd, waived, place)
        /\ (place' = "end" /\ cmd'.since = 0) \/ (cfg' = cfg /\ cmd'.since = cmd.since)
    BY <1>1, <2>1, Goes
  <2>3. CASE place' = "end"
    BY <1>4, <2>3, FreshElsewhere DEF BuildPlaces
  <2>4. CASE place' # "end"
    <3>1. Making'
      BY <1>4, <2>2, <2>4
    <3> QED
      BY <1>4, <3>1 DEF Fresh, ApkFresh
  <2> QED
    BY <2>3, <2>4
<1>5. Proceed => files' = files
  BY DEF Proceed
<1>6. rev >= cmd.since
  BY DEF Fresh
<1>7. CASE CheckAppVersion
  <2>1. place = "check" /\ UNCHANGED <<lib, bundle, jni, apk>>
    BY <1>7 DEF CheckAppVersion, Now, place, PlaceOf, buildVars
  <2>2. CASE StaleVersion
    BY <1>3, <1>7, <2>1, <2>2 DEF CheckAppVersion
  <2>3. CASE ~StaleVersion
    <3>1. Proceed /\ VersionAgrees
      BY <1>7, <2>3 DEF CheckAppVersion, StaleVersion, VersionAgrees
    <3>2. Follow(cmd, waived, place) = {"golib", "jni1", "bundled", "launch", "detect"}
      BY <2>1 DEF Follow
    <3>3. cfg' = cfg => VersionAgrees'
      BY <1>5, <3>1 DEF VersionAgrees
    <3> QED
      BY <1>4, <2>1, <3>1, <3>2, <3>3 DEF Making
  <2> QED
    BY <2>2, <2>3
<1>8. CASE BuildGoShared
  <2>1. place = "golib" /\ UNCHANGED <<bundle, jni, apk>> /\ VersionAgrees
    BY <1>8 DEF BuildGoShared, Now, place, PlaceOf, Fresh, Making, BuildPlaces
  <2>2. CASE Proceed /\ lib' = Compiled
    <3>1. Follow(cmd, waived, place) = {"mark"}
      BY <2>1 DEF Follow
    <3>2. cfg' = cfg => VersionAgrees'
      BY <1>5, <2>1, <2>2 DEF VersionAgrees
    <3>3. lib'.rev = rev /\ lib'.ver = cfg.ver
      BY <2>2 DEF Compiled, Lib
    <3> QED
      BY <1>4, <1>6, <2>1, <2>2, <3>1, <3>2, <3>3 DEF Making, FreshLib
  <2> QED
    BY <1>3, <1>8, <2>1, <2>2 DEF BuildGoShared
<1>9. CASE DropMarker
  <2>1. place = "mark" /\ UNCHANGED <<lib, bundle, jni, apk>> /\ VersionAgrees /\ FreshLib(lib) /\ Proceed
    BY <1>9 DEF DropMarker, Now, place, PlaceOf, Fresh, Making, BuildPlaces
  <2>2. Follow(cmd, waived, place) = {"flutter"}
    BY <2>1 DEF Follow
  <2>3. cfg' = cfg => VersionAgrees'
    BY <1>5, <2>1 DEF VersionAgrees
  <2> QED
    BY <1>4, <2>1, <2>2, <2>3 DEF Making, FreshLib
<1>10. CASE BuildFlutter
  <2>1. place = "flutter" /\ UNCHANGED <<lib, jni, apk>> /\ VersionAgrees /\ FreshLib(lib)
    BY <1>10 DEF BuildFlutter, Now, place, PlaceOf, Fresh, Making, BuildPlaces
  <2>2. CASE Proceed /\ bundle' = [here |-> TRUE, ver |-> files["pubspec"].ver, lib |-> NoLib]
    <3>1. Follow(cmd, waived, place) = {"bundle"}
      BY <2>1 DEF Follow
    <3>2. bundle'.ver = files["pubspec"].ver
      BY <2>2
    <3>3. cfg' = cfg => Agrees(bundle'.ver, cfg'.ver)
      BY <2>1, <3>2 DEF VersionAgrees, Agrees
    <3> QED
      BY <1>4, <2>1, <2>2, <3>1, <3>3 DEF Making, FreshLib
  <2> QED
    BY <1>3, <1>10, <2>1, <2>2 DEF BuildFlutter
<1>11. CASE BundleGoLib
  <2>1. place = "bundle" /\ UNCHANGED <<lib, jni, apk>> /\ Agrees(bundle.ver, cfg.ver) /\ FreshLib(lib)
    BY <1>11 DEF BundleGoLib, Now, place, PlaceOf, Fresh, Making
  <2>2. CASE Proceed /\ bundle' = IF Arch = "x64" THEN [bundle EXCEPT !.lib = lib] ELSE bundle
    <3>1. Follow(cmd, waived, place) = {"unmark"}
      BY <2>1 DEF Follow
    <3>2. bundle'.ver = bundle.ver /\ (Arch = "x64" => bundle'.lib = lib)
      BY <2>2 DEF TypeOK
    <3> QED
      BY <1>4, <2>1, <2>2, <3>1, <3>2 DEF Making, FreshLib
  <2> QED
    BY <1>3, <1>11, <2>1, <2>2 DEF BundleGoLib
<1>12. CASE BuildABI
  <2>1. PICK a \in 1..2 : /\ Now(IF a = 1 THEN "jni1" ELSE "jni2")
                          /\ (Proceed /\ jni' = [jni EXCEPT ![a] = Compiled]) \/ (GiveUp /\ UNCHANGED jni)
    BY <1>12 DEF BuildABI
  <2>2. place = (IF a = 1 THEN "jni1" ELSE "jni2") /\ UNCHANGED <<lib, bundle, apk>> /\ VersionAgrees
    BY <1>12, <2>1 DEF BuildABI, Now, place, PlaceOf, Fresh, Making, BuildPlaces
  <2>3. CASE Proceed /\ jni' = [jni EXCEPT ![a] = Compiled]
    <3>1. cfg' = cfg => VersionAgrees'
      BY <1>5, <2>2, <2>3 DEF VersionAgrees
    <3>2. jni'[a].rev = rev /\ jni'[a].ver = cfg.ver /\ \A b \in 1..2 \ {a} : jni'[b] = jni[b]
      BY <2>3 DEF Compiled, Lib, TypeOK
    <3>3. CASE a = 1
      <4>1. Follow(cmd, waived, place) = {"jni2"}
        BY <2>2, <3>3 DEF Follow
      <4> QED
        BY <1>4, <1>6, <2>2, <2>3, <3>1, <3>2, <3>3, <4>1 DEF Making, FreshLib
    <3>4. CASE a = 2
      <4>1. Follow(cmd, waived, place) = {"apk"} /\ FreshLib(jni[1])
        BY <2>2, <3>4 DEF Follow, Fresh, Making
      <4>2. jni'[1] = jni[1]
        BY <3>2, <3>4
      <4> QED
        BY <1>4, <1>6, <2>2, <2>3, <3>1, <3>2, <3>4, <4>1, <4>2 DEF Making, FreshLib
    <3> QED
      BY <3>3, <3>4
  <2> QED
    BY <1>3, <2>1, <2>2, <2>3
<1> QED
  BY <1>2, <1>7, <1>8, <1>9, <1>10, <1>11, <1>12

\* Every step keeps what the build has made fresh.
LEMMA FreshStep ==
    ASSUME TypeOK, Chain, Sorted, Fresh, [Next]_vars PROVE Fresh'
<1>1. rev' >= cmd'.since
  BY SinceStep
<1>2. CASE UNCHANGED vars
  BY <1>1, <1>2, FreshStays DEF vars, fileVars, buildVars
<1>3. CASE UpdateNext /\ UNCHANGED buildVars
  BY <1>1, <1>3, UpdatePlace, FreshElsewhere DEF buildVars
<1>4. CASE Editors
  <2>1. /\ cmd' = cmd /\ UNCHANGED <<lib, bundle, jni, apk>>
        /\ place = "end" \/ files'["pubspec"] = files["pubspec"]
    BY <1>4, EditorsIs DEF buildVars
  <2>2. CASE place = "end"
    BY <1>1, <2>1, <2>2, FreshElsewhere DEF place, BuildPlaces
  <2>3. CASE files'["pubspec"] = files["pubspec"]
    BY <1>1, <2>1, <2>3, FreshStays
  <2> QED
    BY <2>1, <2>2, <2>3
<1>5. CASE EditSource
  <2>1. cmd' = cmd /\ files' = files /\ UNCHANGED <<lib, bundle, jni, apk>>
    BY <1>5 DEF EditSource, Editing
  <2> QED
    BY <1>1, <2>1, FreshStays
<1>6. CASE Kill
  <2>1. place' = "end" /\ apk' = apk
    BY <1>6, Shapes DEF Kill, place, buildVars
  <2> QED
    BY <1>1, <2>1, FreshElsewhere DEF BuildPlaces
<1>7. CASE BuildNext /\ place \in Opening
  BY <1>1, <1>7, MakingStep
<1>8. CASE NeedBundle /\ ~bundle.here
  <2>1. place = "bundled" /\ VersionAgrees /\ UNCHANGED <<files, lib, bundle, jni, apk>>
    BY <1>8 DEF NeedBundle, Now, place, PlaceOf, Fresh, Making, BuildPlaces, buildVars
  <2>2. cmd' = [cmd EXCEPT !.todo = DesktopSteps \o Tail(@)] /\ cmd \in Commands
    BY <1>8 DEF NeedBundle, TypeOK
  <2>3. cmd'.todo = DesktopSteps \o Tail(cmd.todo) /\ cfg' = cfg
    BY <2>2 DEF Commands, cfg
  <2>4. place' = "golib"
    <3>1. cmd.todo \in Seq(Steps) /\ cmd.todo # <<>>
      BY <1>8, <2>2 DEF NeedBundle, Now, Commands
    <3>2. PICK q : q = Tail(cmd.todo)
      OBVIOUS
    <3>3. q \in Seq(Steps)
      BY <3>1, <3>2, HeadIsFirst
    <3>4. DesktopSteps \in Seq(Steps) /\ Len(DesktopSteps) = 5 /\ DesktopSteps[1] = "golib"
      BY DEF DesktopSteps, Steps
    <3>5. DesktopSteps \o q # <<>> /\ Head(DesktopSteps \o q) = "golib"
      BY <3>3, <3>4, ConcatProperties, HeadTailProperties, EmptySeq
    <3> QED
      BY <2>3, <3>2, <3>5 DEF place, PlaceOf
  <2>5. VersionAgrees'
    BY <2>1, <2>3 DEF VersionAgrees
  <2>6. Making'
    BY <2>4, <2>5 DEF Making
  <2> QED
    BY <1>1, <2>1, <2>6 DEF Fresh, ApkFresh
<1>9. CASE BuildNext /\ place \notin Opening /\ ~(NeedBundle /\ ~bundle.here)
  <2>1. place' \notin BuildPlaces
    BY <1>9, BuildElsewhere
  <2>2. CASE BuildApk /\ Proceed
    <3>1. apk' = [here |-> TRUE, name |-> cfg.ver, ver |-> files["pubspec"].ver, since |-> cmd.since, libs |-> jni]
          \/ apk' = apk
      BY <2>2 DEF BuildApk
    <3>2. CASE apk' = apk
      BY <1>1, <2>1, <3>2, FreshElsewhere
    <3>3. CASE apk' = [here |-> TRUE, name |-> cfg.ver, ver |-> files["pubspec"].ver, since |-> cmd.since, libs |-> jni]
      <4>1. place = "apk"
        BY <2>2 DEF BuildApk, Now, place, PlaceOf
      <4>2. VersionAgrees /\ FreshLib(jni[1]) /\ FreshLib(jni[2])
        BY <4>1 DEF Fresh, Making, BuildPlaces
      <4>3. /\ apk'.ver = files["pubspec"].ver /\ apk'.name = cfg.ver /\ apk'.since = cmd.since
            /\ apk'.libs = jni
        BY <3>3
      <4>4. ApkFresh'
        BY <4>2, <4>3 DEF ApkFresh, FreshLib, VersionAgrees, Agrees
      <4>5. Making'
        BY <2>1 DEF Making, BuildPlaces
      <4> QED
        BY <1>1, <4>4, <4>5 DEF Fresh
    <3> QED
      BY <3>1, <3>2, <3>3
  <2>3. CASE ~(BuildApk /\ Proceed)
    <3>1. apk' = apk \/ apk' = NoApk
      BY <1>9, <2>3 DEF BuildNext, StartBuild, NextTarget, GenerateBridge, SyncAppVersion, Tidy, CheckAppVersion,
                BuildGoShared, DropMarker, BuildFlutter, BundleGoLib, FinishDesktop, BuildABI, BuildApk,
                BuildDeviceABI, RunFlutter, NeedBundle, Assemble, PackageLinux, Clean, FlutterClean, buildVars,
                RemoveFrontendBuild, KeepFrontendBuild
    <3>2. ~NoApk.here
      BY DEF NoApk
    <3> QED
      BY <1>1, <2>1, <3>1, <3>2, FreshElsewhere
  <2> QED
    BY <2>2, <2>3
<1> QED
  BY <1>2, <1>3, <1>4, <1>5, <1>6, <1>7, <1>8, <1>9 DEF Next, Editors

\* A step counts one thing at most.
LEMMA CountStep ==
    ASSUME TypeOK, [Next]_vars
    PROVE  \/ count' = count
           \/ \E k \in {"commands", "edits", "kills"} : count' = Counted(k)
<1> DEFINE Counts == count' = count \/ \E k \in {"commands", "edits", "kills"} : count' = Counted(k)
<1>1. ASSUME NEW f, NEW content, NEW next, WriteFile(f, content, next) PROVE Counts
  BY <1>1 DEF WriteFile
<1>2. Skip => Counts
  BY DEF Skip
<1>3. ASSUME NEW f, NEW content, ApplyRendered(f, content) PROVE Counts
  BY <1>3 DEF ApplyRendered, Create, BackUp, Overwrite, WriteFile, Skip
<1>4. CASE UNCHANGED vars
  BY <1>4 DEF vars, fileVars
<1>5. CASE UpdateNext
  <2>1. CASE Render
    BY <1>3, <2>1 DEF Render
  <2>2. CASE RenderActivity
    BY <1>2, <1>3, <2>2 DEF RenderActivity
  <2>3. CASE PatchBundleID \/ Stamp
    BY <1>1, <2>3 DEF PatchBundleID, Stamp
  <2>4. CASE Relocate
    BY <1>1, <1>2, <2>4 DEF Relocate
  <2>5. CASE SyncConfigFile
    BY <1>1, <1>2, <2>5 DEF SyncConfigFile
  <2>6. CASE RemoveOldActivity
    BY <2>6 DEF RemoveOldActivity
  <2>7. CASE \E all, plugins \in BOOLEAN : StartUpdate(all, plugins)
    BY <2>7 DEF StartUpdate, Start
  <2>8. ASSUME NEW content, PinTidied(content) PROVE Counts
    BY <2>8 DEF PinTidied, Tidied, Wrote, Cut
  <2> QED
    BY <1>5, <2>1, <2>2, <2>3, <2>4, <2>5, <2>6, <2>7, <2>8, RenderIs DEF UpdateNext
<1>6. CASE BuildNext
  <2>1. CASE Quiet
    BY <2>1 DEF Quiet
  <2>2. CASE SyncAppVersion
    <3>1. Proceed \/ GiveUp \/ \E content : WriteFile("pubspec", content, Onward)
      BY <2>2 DEF SyncAppVersion
    <3> QED
      BY <1>1, <3>1 DEF Proceed, GiveUp
  <2>3. CASE Tidy
    BY <1>1, <2>3 DEF Tidy, TidyGoMod, Proceed, GiveUp
  <2> QED
    BY <1>6, <2>1, <2>2, <2>3, BuildMoves
<1>7. CASE Editors
  BY <1>7, EditorsIs
<1>8. CASE EditSource \/ Kill
  BY <1>8 DEF EditSource, Editing, Kill
<1> QED
  BY <1>4, <1>5, <1>6, <1>7, <1>8 DEF Next, Editors

\* Every step keeps the marker to the time in which Flutter builds, unless it is killed.
LEMMA MarkedStep ==
    ASSUME TypeOK, Chain, Sorted, Marked, [Next]_vars PROVE Marked'
<1>1. count.kills \in Nat /\ count'.kills \in Nat /\ (count.kills > 0 => count'.kills > 0)
      /\ (count' = Counted("kills") => count'.kills > 0)
  <2>1. count \in [commands : Nat, edits : Nat, kills : Nat]
    BY DEF TypeOK
  <2>2. \A k \in {"commands", "edits", "kills"} : /\ Counted(k).kills \in {count.kills, count.kills + 1}
                                                  /\ k = "kills" => Counted(k).kills = count.kills + 1
    BY <2>1 DEF Counted
  <2>3. PICK n \in Nat : n = count.kills
    BY <2>1
  <2>4. count'.kills \in {n, n + 1}
    BY <2>2, <2>3, CountStep
  <2>5. count' = Counted("kills") => count'.kills = n + 1
    BY <2>2, <2>3
  <2> QED
    BY <2>3, <2>4, <2>5
<1>2. ASSUME ~marker' \/ count'.kills > 0 \/ place' \in Building \/ (marker' = marker /\ place \notin Building),
             started' = started \/ started' # "without" \/ (marker /\ place \notin Building)
      PROVE  Marked'
  BY <1>1, <1>2 DEF Marked, DevRunCompiles
<1>3. CASE UNCHANGED vars
  <2>1. place' = place
    BY <1>3 DEF vars, fileVars, place
  <2> QED
    BY <1>2, <1>3, <2>1 DEF vars, buildVars
<1>4. CASE UpdateNext /\ UNCHANGED buildVars
  BY <1>2, <1>4, UpdatePlace DEF buildVars
<1>5. CASE Editors \/ EditSource
  <2>1. cmd' = cmd /\ UNCHANGED <<marker, started>>
    BY <1>5, EditorsIs DEF EditSource, Editing, buildVars
  <2>2. place' = place
    BY <2>1 DEF place
  <2> QED
    BY <1>2, <2>1, <2>2
<1>6. CASE Kill
  BY <1>1, <1>2, <1>6 DEF Kill, buildVars
<1>7. CASE BuildNext
  <2>1. CASE place \notin Opening \cup {"unmark", "launch"}
    <3>1. UNCHANGED <<marker, started>>
      <4>1. \A s : Now(s) => place = s
        BY DEF Now, place, PlaceOf
      <4> QED
        BY <1>7, <2>1, <4>1 DEF BuildNext, StartBuild, NextTarget, GenerateBridge, SyncAppVersion, Tidy, CheckAppVersion,
                BuildGoShared, DropMarker, BuildFlutter, BundleGoLib, FinishDesktop, BuildABI, BuildApk,
                BuildDeviceABI, RunFlutter, NeedBundle, Assemble, PackageLinux, Clean, FlutterClean, buildVars,
                Opening
    <3>2. place \notin Building
      BY <2>1 DEF Building, Opening
    <3> QED
      BY <1>2, <3>1, <3>2
  <2>2. CASE place \in Opening \cup {"unmark", "launch"}
    <3>1. cmd.todo # <<>>
      BY <2>2 DEF place, PlaceOf, Opening
    <3>2. \A s : Now(s) => s = place
      BY DEF Now, place, PlaceOf
    <3>3. CheckAppVersion \/ BuildGoShared \/ DropMarker \/ BuildFlutter \/ BundleGoLib \/ BuildABI
             \/ FinishDesktop \/ RunFlutter
      <4>1. ~(\E kind \in Targets, scaffolded \in BOOLEAN : StartBuild(kind, scaffolded)) /\ ~NextTarget
        BY <3>1 DEF StartBuild, Start, Running, NextTarget
      <4> QED
        BY <1>7, <2>2, <3>2, <4>1 DEF BuildNext, Opening, GenerateBridge, SyncAppVersion, Tidy, BuildApk, BuildDeviceABI,
                          NeedBundle, Assemble, PackageLinux, Clean, FlutterClean
    <3>4. CASE CheckAppVersion \/ BuildGoShared \/ BuildABI
      <4>1. place \notin Building
        BY <3>2, <3>4 DEF CheckAppVersion, BuildGoShared, BuildABI, Building
      <4>2. UNCHANGED <<marker, started>>
        BY <3>4 DEF CheckAppVersion, BuildGoShared, BuildABI, buildVars
      <4> QED
        BY <1>2, <4>1, <4>2
    <3>5. ASSUME Proceed PROVE place' \in Follow(cmd, waived, place)
      <4>1. cmd' \in {Onward, Changing}
        BY <3>5 DEF Proceed
      <4> QED
        BY <3>1, <4>1, Goes
    <3>6. CASE DropMarker
      <4>1. place = "mark" /\ Proceed /\ started' = started
        BY <3>2, <3>6 DEF DropMarker
      <4>2. place' = "flutter"
        BY <3>5, <4>1 DEF Follow
      <4> QED
        BY <1>2, <4>1, <4>2 DEF Building
    <3>7. CASE BuildFlutter \/ BundleGoLib
      <4>1. place \in {"flutter", "bundle"} /\ started' = started
        BY <3>2, <3>7 DEF BuildFlutter, BundleGoLib
      <4>2. CASE Proceed
        <5>1. place' \in {"bundle", "unmark"}
          BY <3>5, <4>1, <4>2 DEF Follow
        <5> QED
          BY <1>2, <4>1, <5>1 DEF Building
      <4>3. CASE marker' = FALSE
        BY <1>2, <4>1, <4>3
      <4> QED
        BY <3>7, <4>2, <4>3 DEF BuildFlutter, BundleGoLib, DeferredRemove
    <3>8. CASE FinishDesktop
      BY <1>2, <3>8 DEF FinishDesktop, DeferredRemove
    <3>9. CASE RunFlutter
      <4>1. place = "launch" /\ marker' = marker
        BY <3>2, <3>9 DEF RunFlutter
      <4>2. started' = started \/ started' # "without" \/ marker
        BY <3>9 DEF RunFlutter
      <4> QED
        BY <1>2, <4>1, <4>2 DEF Building
    <3> QED
      BY <3>3, <3>4, <3>6, <3>7, <3>8, <3>9
  <2> QED
    BY <2>1, <2>2
<1> QED
  BY <1>3, <1>4, <1>5, <1>6, <1>7 DEF Next, Editors

-----------------------------------------------------------------------------
\* The project that flugo create makes has no text of the developer's and names its package.
LEMMA CreatedIs ==
    ASSUME Init
    PROVE  /\ \A f \in Names : ~files[f].mine
           /\ ~files["ignore"].opt /\ files["yaml"].id # 0
           /\ \A id \in Packages : files[Activity(id)].here => files[Activity(id)].id # 0
<1>0. PICK id \in Packages : files = CreatedFiles(id, id = 1, id = 1, id = 2)
  BY DEF Init
<1>1. PICK custom \in BOOLEAN, replaced \in BOOLEAN, plugin \in BOOLEAN :
          files = CreatedFiles(id, custom, replaced, plugin)
  <2>1. (id = 1) \in BOOLEAN /\ (id = 2) \in BOOLEAN
    OBVIOUS
  <2> QED
    BY <1>0, <2>1, Zenon
<1>2. Activity(id) \in {"kt1", "kt2"} /\ id # 0
  BY DEF Activity, Packages
<1>3. ~Generated(Created).mine /\ ~Generated(Created).opt /\ ~Empty.mine /\ ~Absent.mine /\ ~Absent.here
  BY DEF Generated, Empty, Absent
<1>4. ~[Generated(Created) EXCEPT !.opt = replaced].mine
  BY DEF Generated, Empty
<1>5. ~[Empty EXCEPT !.ver = FirstVersion, !.gen = IF plugin THEN Created ELSE 0].mine
  BY DEF Empty
<1>6. PICK yaml : yaml = [Generated(Created) EXCEPT !.ver = FirstVersion, !.id = id, !.opt = custom]
  OBVIOUS
<1>7. ~yaml.mine /\ yaml.id = id
  BY <1>6 DEF Generated, Empty
<1>8. ~[Empty EXCEPT !.id = id].mine
  BY DEF Empty
<1>9. ~[Generated(Created) EXCEPT !.id = id].mine /\ [Generated(Created) EXCEPT !.id = id].id = id
  BY DEF Generated, Empty
<1>10. \A f \in {"hook", "titlebar", "make", "ignore"} : files[f] = Generated(Created)
  BY <1>1, <1>2 DEF CreatedFiles, Names
<1>11. files["gomod"] = [Generated(Created) EXCEPT !.opt = replaced]
  BY <1>1, <1>2 DEF CreatedFiles, Names
<1>12. files["pubspec"] = [Empty EXCEPT !.ver = FirstVersion, !.gen = IF plugin THEN Created ELSE 0]
  BY <1>1, <1>2 DEF CreatedFiles, Names
<1>13. files["yaml"] = yaml
  BY <1>1, <1>2, <1>6 DEF CreatedFiles, Names
<1>14. files["gradle"] = [Empty EXCEPT !.id = id]
  BY <1>1, <1>2 DEF CreatedFiles, Names
<1>15. \A f \in {"kt1", "kt2"} :
           files[f] = IF f = Activity(id) THEN [Generated(Created) EXCEPT !.id = id] ELSE Absent
  BY <1>1, <1>2 DEF CreatedFiles, Names
<1>16. \A f \in {"kt1", "kt2"} : ~files[f].mine /\ (files[f].here => files[f].id # 0)
  BY <1>2, <1>3, <1>9, <1>15
<1>17. \A other : Activity(other) \in {"kt1", "kt2"}
  BY DEF Activity
<1>18. \A f \in Names : ~files[f].mine
  BY <1>3, <1>4, <1>5, <1>7, <1>8, <1>10, <1>11, <1>12, <1>13, <1>14, <1>16 DEF Names
<1> QED
  BY <1>2, <1>3, <1>7, <1>10, <1>13, <1>16, <1>17, <1>18

\* The inductive invariant.
IInv ==
    /\ TypeOK /\ Chain /\ Sorted
    /\ Named /\ OnlyTornFilesStopUpdate
    /\ MineIsHere /\ Kept
    /\ Backed /\ EditsSafe
    /\ Earned
    /\ Fresh
    /\ Marked

\* The invariant holds of the project that flugo create makes.
LEMMA InitIInv == Init => IInv
<1> SUFFICES ASSUME Init PROVE IInv
  OBVIOUS
<1>1. TypeOK /\ Chain /\ Sorted
  BY TypeInit
<1>2. cmd = Idle /\ cmd.kind # "update" /\ place = "end" /\ cmd.since = 0
  BY Shapes DEF Init, Ended, place
<1>3. Named /\ OnlyTornFilesStopUpdate
  BY <1>2, CreatedIs DEF Init, Named, OnlyTornFilesStopUpdate
<1>4. MineIsHere /\ Kept
  <2>1. Texts \subseteq Names
    BY DEF Texts, Names
  <2> QED
    BY <2>1, CreatedIs DEF Init, MineIsHere, Kept, SharedFilesKept
<1>5. Backed /\ EditsSafe
  BY <1>1, <1>2, NoUpdate
<1>6. Earned
  <2>1. \A s \in Settling : ~Past("end", s)
    BY DEF Settling, Past, Order, UpdatePlaces
  <2> QED
    BY <1>2, <2>1 DEF Earned, Moving
<1>7. Fresh
  <2>1. Making
    BY <1>2 DEF Making, BuildPlaces
  <2>2. ApkFresh
    BY DEF Init, ApkFresh, NoApk
  <2> QED
    BY <1>2, <2>1, <2>2 DEF Init, Fresh
<1>8. Marked
  BY DEF Init, Marked, DevRunCompiles
<1> QED
  BY <1>1, <1>3, <1>4, <1>5, <1>6, <1>7, <1>8 DEF IInv

\* Every step keeps it.
LEMMA NextIInv == IInv /\ [Next]_vars => IInv'
<1> SUFFICES ASSUME IInv, [Next]_vars PROVE IInv'
  OBVIOUS
<1>1. TypeOK' /\ Chain' /\ Sorted'
  BY TypeStep DEF IInv
<1>2. Named' /\ OnlyTornFilesStopUpdate'
  BY NamedStep DEF IInv
<1>3. MineIsHere' /\ Kept'
  BY KeptStep DEF IInv
<1>4. Backed' /\ EditsSafe'
  BY BackedStep, EditsStep DEF IInv
<1>5. Earned' /\ Fresh' /\ Marked'
  BY EarnedStep, FreshStep, MarkedStep DEF IInv
<1> QED
  BY <1>1, <1>2, <1>3, <1>4, <1>5 DEF IInv

\* It holds at all times.
LEMMA Invariance == Spec => []IInv
<1> QED
  BY InitIInv, NextIInv, PTL DEF Spec

\* Every variable keeps its shape: whatever is run, interrupted and edited, each file is one that
\* the commands can read, and the command one whose steps lead to its end.
THEOREM TypeCorrect == Spec => []TypeOK
<1>1. IInv => TypeOK
  BY DEF IInv
<1> QED
  BY <1>1, Invariance, PTL

\* An update that returns an error of its own has met a write that a kill cut short: after any number
\* of commands, edits and kills before it, flugo.yaml and MainActivity.kt still name a package.
THEOREM UpdatesCanBeRunAgain == Spec => []OnlyTornFilesStopUpdate
<1>1. IInv => OnlyTornFilesStopUpdate
  BY DEF IInv
<1> QED
  BY <1>1, Invariance, PTL

\* The developer's text stays in the files that flugo writes into too (.gitignore, go.mod, pubspec.yaml),
\* over any number of updates, builds and kills, except for what go mod tidy drops from go.mod.
THEOREM SharedTextKept == Spec => []SharedFilesKept
<1>1. IInv => SharedFilesKept
  BY DEF IInv, Kept
<1> QED
  BY <1>1, Invariance, PTL

\* No step of an update, nor the kill that ends it, loses text that the project held when the update
\* started: it is in the file or in its .bak.
THEOREM UpdatesKeepEdits == Spec => UpdateKeepsEdits
<1> DEFINE Keeps == \A f \in Texts : cmd.before[f].mine => files'[f].mine \/ bak'[f].mine
<1>1. IInv /\ [Next]_vars => Keeps
  BY EditsStep DEF IInv
<1>2. UpdateKeepsEdits <=> [][Keeps]_vars
  BY DEF UpdateKeepsEdits
<1> HIDE DEF Keeps
<1> QED
  BY <1>1, <1>2, Invariance, PTL DEF Spec

\* When an update stamps flugo_version, all that flugo owns is of this release and of this package,
\* whatever the updates before it had left half done.
THEOREM StampsAreEarned == Spec => []StampIsEarned
<1>1. IInv => StampIsEarned
  BY EarnedIsStamp DEF IInv
<1> QED
  BY <1>1, Invariance, PTL

\* What a build that completes ships is compiled after the build started and of the one version that
\* flugo.yaml had then, whatever failed or lies in the build directories from before.  On an arm64
\* Linux host this says nothing of the desktop bundle's library: there is none in it.
THEOREM ShippedBuildsAreFresh == Spec => []BuildsAreFresh
<1>1. IInv => BuildsAreFresh
  BY FreshIs DEF IInv
<1> QED
  BY <1>1, Invariance, PTL

\* On an arm64 Linux host no desktop build, however often it is run and whatever else is done to the
\* project, gets the backend into the bundle that Flutter makes, nor any package into its tarball.
THEOREM Arm64BundlesStayEmpty == Spec => []NoBackendOnArm64
<1>1. Init => NoBackendOnArm64
  BY DEF Init, NoBackendOnArm64, NoBundle, NoImage
<1>2. NoBackendOnArm64 /\ [Next]_vars => NoBackendOnArm64'
  <2> SUFFICES ASSUME NoBackendOnArm64, [Next]_vars PROVE NoBackendOnArm64'
    OBVIOUS
  <2>1. ASSUME UNCHANGED <<bundle, tarball>> PROVE NoBackendOnArm64'
    BY <2>1 DEF NoBackendOnArm64
  <2>2. CASE UNCHANGED vars \/ (UpdateNext /\ UNCHANGED buildVars)
    BY <2>1, <2>2 DEF vars, buildVars
  <2>3. CASE Editors \/ EditSource \/ Kill
    BY <2>1, <2>3 DEF Editors, EditText, DeleteFile, LoseEndMarker, Configure, EditSource, Kill, buildVars
  <2>4. CASE BuildFlutter
    BY <2>4 DEF BuildFlutter, NoBackendOnArm64, NoBundle
  <2>5. CASE BundleGoLib
    BY <2>5 DEF BundleGoLib, NoBackendOnArm64
  <2>6. CASE PackageLinux
    BY <2>6 DEF PackageLinux, NoBackendOnArm64
  <2>7. CASE Clean
    BY <2>7 DEF Clean, RemoveBuild, RemoveFrontendBuild, KeepBuild, KeepFrontendBuild, NoBackendOnArm64,
                NoBundle, NoImage
  <2>8. CASE FlutterClean
    BY <2>8 DEF FlutterClean, RemoveFrontendBuild, KeepFrontendBuild, NoBackendOnArm64, NoBundle
  <2>9. CASE BuildNext /\ ~(BuildFlutter \/ BundleGoLib \/ PackageLinux \/ Clean \/ FlutterClean)
    BY <2>1, <2>9 DEF BuildNext, StartBuild, NextTarget, GenerateBridge, SyncAppVersion, Tidy,
                CheckAppVersion, BuildGoShared, DropMarker, FinishDesktop, BuildABI, BuildApk,
                BuildDeviceABI, RunFlutter, NeedBundle, Assemble, buildVars
  <2> QED
    BY <2>2, <2>3, <2>4, <2>5, <2>6, <2>7, <2>8, <2>9 DEF Next, Editors
<1> QED
  BY <1>1, <1>2, PTL DEF Spec

\* flugo run starts an app with the backend compiled by the hook, unless a build was killed before.
THEOREM DevRunsCompile == Spec => []DevRunCompiles
<1>1. IInv => DevRunCompiles
  BY DEF IInv, Marked
<1> QED
  BY <1>1, Invariance, PTL
=============================================================================
