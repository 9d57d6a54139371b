------------------------------- MODULE Keyring -------------------------------
(***************************************************************************)
(* The Android keyring (pkg/keyring/keyring_android.go): values encrypted  *)
(* with one key of the Android KeyStore, one file per name.                *)
(*                                                                         *)
(* Every call arrives on a thread of its own and nothing serialises them.  *)
(* A call is split where another one can get in between: the check for the *)
(* key and its generation, encryption and the two halves of os.WriteFile   *)
(* (truncate, write), reading and decryption.  Every JNI call and every    *)
(* system call may fail.  The system may kill the process at any time.     *)
(***************************************************************************)
EXTENDS Integers

CONSTANTS
    Threads,   \* threads that call the keyring
    Names,     \* the names values are stored under
    Values,    \* the values stored
    MaxKeys,   \* bound: how often a key is generated
    MaxKills,  \* bound: how often the process is killed
    Nothing    \* no value, no name

ASSUME KeyringAssumption ==
    MaxKeys \in Nat /\ MaxKills \in Nat /\ Nothing \notin Values \cup Names

VARIABLES
    jvm,    \* JNI_OnLoad has run
    vm,     \* what jniVMOnce remembers
    cache,  \* what jniCacheOnce remembers
    key,    \* the key in the KeyStore: the number of its generation, 0 for none
    file,   \* the file of each name
    call,   \* what each thread is doing
    good,   \* the value of the last undisturbed Set of each name, until the next change
    kills   \* how often the process was killed

vars == <<jvm, vm, cache, key, file, call, good, kills>>

\* What a file holds, as far as Get can tell.
Blob(v, k) == [is |-> "blob", val |-> v, key |-> k]
NoFile == [is |-> "absent", val |-> Nothing, key |-> 0]
Empty == [is |-> "empty", val |-> Nothing, key |-> 0]
Torn == [is |-> "torn", val |-> Nothing, key |-> 0]
FileStates == {NoFile, Empty, Torn} \cup {Blob(v, k) : v \in Values, k \in 1..MaxKeys}

\* A call: where it is, its name, the blob it has made or read; alone is lost when
\* another Set or a Delete changes the file under it, linked when a Delete removes it.
Call(pc, n, blob) == [pc |-> pc, name |-> n, blob |-> blob, alone |-> TRUE, linked |-> TRUE]
Idle == Call("idle", Nothing, NoFile)
Places == {"idle", "check", "generate", "encrypt", "truncate", "write", "read", "decrypt"}

\* Every variable has its shape; no file is encrypted with a key never generated.
TypeOK ==
    /\ jvm \in BOOLEAN
    /\ vm \in {"unasked", "none", "found"}
    /\ cache \in {"unasked", "failed", "resolved"}
    /\ key \in 0..MaxKeys
    /\ file \in [Names -> FileStates] /\ \A n \in Names : file[n].key <= key
    /\ call \in [Threads -> [pc : Places, name : Names \cup {Nothing}, blob : FileStates
                                \cup {Blob(v, 0) : v \in Values},
                             alone : BOOLEAN, linked : BOOLEAN]]
    /\ good \in [Names -> Values \cup {Nothing}]
    /\ kills \in 0..MaxKills

Init ==
    /\ jvm \in BOOLEAN
    /\ vm = "unasked" /\ cache = "unasked"
    /\ key = 0
    /\ file = [n \in Names |-> NoFile]
    /\ call = [t \in Threads |-> Idle]
    /\ good = [n \in Names |-> Nothing]
    /\ kills = 0

Goto(t, pc) == call' = [call EXCEPT ![t].pc = pc]
Return(t) == call' = [call EXCEPT ![t] = Idle]
Storage == <<key, file, good>>
Process == <<jvm, vm, cache, kills>>

(***************************************************************************)
(* What every call starts with: the virtual machine and the method cache,  *)
(* each asked for once in the life of the process.                         *)
(***************************************************************************)
AskVM == vm' = IF vm = "unasked" THEN (IF jvm THEN "found" ELSE "none") ELSE vm

AskCache ==
    /\ vm' = "found" /\ cache = "unasked" => cache' \in {"failed", "resolved"}
    /\ ~(vm' = "found" /\ cache = "unasked") => UNCHANGED cache

\* A call that cannot get at the KeyStore returns an error, or false.
Enter(t, c) ==
    /\ call[t] = Idle
    /\ AskVM /\ AskCache
    /\ call' = [call EXCEPT ![t] = IF vm' = "found" /\ cache' = "resolved" THEN c ELSE Idle]
    /\ UNCHANGED <<jvm, kills, Storage>>

Available(t) == Enter(t, Call("check", Nothing, NoFile))
SetValue(t, n, v) == Enter(t, Call("encrypt", n, Blob(v, 0)))
Get(t, n) == Enter(t, Call("read", n, NoFile))

\* Mutant: a Set that fails removes the file of its name, as replaceFile does with its temp file.
FailsRemoving(t) ==
    LET n == call[t].name IN
    /\ call[t].pc \in {"check", "generate", "encrypt", "truncate", "read", "decrypt"}
    /\ file' = IF call[t].pc \in {"encrypt", "truncate"} THEN [file EXCEPT ![n] = NoFile] ELSE file
    /\ Return(t)
    /\ UNCHANGED <<Process, key, good>>

\* A JNI call or a system call before anything has been changed fails.
Fails(t) ==
    /\ call[t].pc \in {"check", "generate", "encrypt", "truncate", "read", "decrypt"}
    /\ Return(t)
    /\ UNCHANGED <<Process, Storage>>

(***************************************************************************)
(* Available: loadKeyStore and generateKey.                                *)
(***************************************************************************)

\* Mutant: the alias is not looked up, the key is always generated.
AlwaysGenerate(t) ==
    /\ call[t].pc = "check"
    /\ Goto(t, "generate")
    /\ UNCHANGED <<Process, Storage>>

ContainsAlias(t) ==
    /\ call[t].pc = "check"
    /\ IF key = 0 THEN Goto(t, "generate") ELSE Return(t)
    /\ UNCHANGED <<Process, Storage>>

\* A new key takes the place of whatever the alias stands for by then.
GenerateKey(t) ==
    /\ call[t].pc = "generate"
    /\ key < MaxKeys
    /\ key' = key + 1
    /\ Return(t)
    /\ UNCHANGED <<Process, file, good>>

(***************************************************************************)
(* Set.                                                                    *)
(***************************************************************************)
Writers(n) == {t \in Threads : call[t].pc = "write" /\ call[t].name = n}

\* Mutant: encryption under the key that is to come, without waiting for it.
EncryptUnkeyed(t) ==
    /\ call[t].pc = "encrypt"
    /\ call' = [call EXCEPT ![t].pc = "truncate", ![t].blob.key = 1]
    /\ UNCHANGED <<Process, Storage>>

\* encrypt: there is no key before an Available has generated one.
Encrypt(t) ==
    /\ call[t].pc = "encrypt"
    /\ key # 0
    /\ call' = [call EXCEPT ![t].pc = "truncate", ![t].blob.key = key]
    /\ UNCHANGED <<Process, Storage>>

\* os.WriteFile opens the file and truncates it.
Truncate(t) ==
    LET n == call[t].name IN
    /\ call[t].pc = "truncate"
    /\ file' = [file EXCEPT ![n] = Empty]
    /\ good' = [good EXCEPT ![n] = Nothing]
    /\ call' = [u \in Threads |->
                  IF u = t THEN [call[t] EXCEPT !.pc = "write", !.alone = Writers(n) = {}]
                  ELSE IF u \in Writers(n) THEN [call[u] EXCEPT !.alone = FALSE]
                  ELSE call[u]]
    /\ UNCHANGED <<Process, key>>

\* What the file holds after a write from its start: over the blob of an
\* overlapping Set the end of the longer one stays.
Written(n, blob) == IF file[n] = Empty THEN {blob} ELSE {blob, Torn}

\* A file that was deleted since it was opened takes the data with it.
WriteBlob(t) ==
    LET n == call[t].name IN
    /\ call[t].pc = "write"
    /\ IF call[t].linked
       THEN \E f \in Written(n, call[t].blob) : file' = [file EXCEPT ![n] = f]
       ELSE UNCHANGED file
    /\ good' = IF call[t].alone THEN [good EXCEPT ![n] = call[t].blob.val] ELSE good
    /\ Return(t)
    /\ UNCHANGED <<Process, key>>

\* The file stays as it is, or a part of the data reaches it.
WriteFails(t) ==
    LET n == call[t].name IN
    /\ call[t].pc = "write"
    /\ \/ UNCHANGED file
       \/ call[t].linked /\ file' = [file EXCEPT ![n] = Torn]
    /\ Return(t)
    /\ UNCHANGED <<Process, key, good>>

(***************************************************************************)
(* Get, Delete.  List only reads.                                          *)
(***************************************************************************)

\* An absent file is ErrNotFound, one that is no JSON an error.
ReadFile(t) ==
    /\ call[t].pc = "read"
    /\ IF file[call[t].name].is = "blob"
       THEN call' = [call EXCEPT ![t].pc = "decrypt", ![t].blob = file[call[t].name]]
       ELSE Return(t)
    /\ UNCHANGED <<Process, Storage>>

\* Under another key than the blob's this is an error.
Decrypt(t) ==
    /\ call[t].pc = "decrypt"
    /\ Return(t)
    /\ UNCHANGED <<Process, Storage>>

Delete(n) ==
    /\ file[n] # NoFile
    /\ file' = [file EXCEPT ![n] = NoFile]
    /\ good' = [good EXCEPT ![n] = Nothing]
    /\ call' = [t \in Threads |->
                  IF t \in Writers(n) THEN [call[t] EXCEPT !.alone = FALSE, !.linked = FALSE]
                  ELSE call[t]]
    /\ UNCHANGED <<Process, key>>

(***************************************************************************)
(* The life of the process.                                                *)
(***************************************************************************)

\* The activity loads the library.
LoadLibrary ==
    /\ ~jvm
    /\ jvm' = TRUE
    /\ UNCHANGED <<vm, cache, kills, call, Storage>>

\* Keys and files survive.
Kill ==
    /\ kills < MaxKills
    /\ kills' = kills + 1
    /\ jvm' \in BOOLEAN
    /\ vm' = "unasked" /\ cache' = "unasked"
    /\ call' = [t \in Threads |-> Idle]
    /\ UNCHANGED Storage

-----------------------------------------------------------------------------
Next ==
    \/ \E t \in Threads :
        \/ Available(t) \/ ContainsAlias(t) \/ GenerateKey(t)
        \/ \E n \in Names : Get(t, n) \/ \E v \in Values : SetValue(t, n, v)
        \/ Encrypt(t) \/ Truncate(t) \/ WriteBlob(t) \/ WriteFails(t)
        \/ ReadFile(t) \/ Decrypt(t) \/ Fails(t)
    \/ \E n \in Names : Delete(n)
    \/ LoadLibrary \/ Kill

Spec == Init /\ [][Next]_vars

(***************************************************************************)
(* Properties.                                                             *)
(***************************************************************************)

\* What an undisturbed Set has stored is in its file, whole and under the key of
\* its time, until the name is set again or deleted: through failures of other
\* calls, through overlapping calls for other names, and when the process dies.
\* It can be read unless the key has been generated again.
StoredStays ==
    \A n \in Names : good[n] # Nothing =>
        /\ file[n].is = "blob" /\ file[n].val = good[n]
        /\ file[n].key = key \/ key > 1

\* Only a call that looked for the key before there was one can replace it: once
\* all those are through, Available never changes the key, in any process.
SettledKeyStays ==
    [][key # 0 /\ (\A t \in Threads : call[t].pc # "generate")
         => key' = key /\ \A t \in Threads : call'[t].pc # "generate"]_vars

=============================================================================
