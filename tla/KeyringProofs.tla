---------------------------- MODULE KeyringProofs ----------------------------
(***************************************************************************)
(* Theorems about Keyring, for any threads, names and values, and for any  *)
(* number of keys and kills.                                               *)
(*                                                                         *)
(* StoredStays is inductive once the calls under way are known: a Set that *)
(* nothing has disturbed is the only one at its file, which is empty, and  *)
(* nobody is at the file of a value that was stored undisturbed.           *)
(***************************************************************************)
EXTENDS Keyring, TLAPS

CallStates == [pc : Places, name : Names \cup {Nothing},
               blob : FileStates \cup {Blob(v, 0) : v \in Values},
               alone : BOOLEAN, linked : BOOLEAN]

\* What a call carries at its place.
Stage(c) ==
    /\ c.pc \in {"encrypt", "truncate", "write", "read", "decrypt"} => c.name \in Names
    /\ c.pc = "encrypt" => \E v \in Values : c.blob = Blob(v, 0)
    /\ c.pc \in {"truncate", "write"} => \E v \in Values, k \in 1..key : c.blob = Blob(v, k)
    /\ c.pc # "write" => c.linked

\* An undisturbed Set has its file for itself.
HasFile(t) ==
    call[t].pc = "write" /\ call[t].alone =>
        /\ call[t].linked
        /\ file[call[t].name] = Empty
        /\ Writers(call[t].name) = {t}

NobodyAt(n) == good[n] # Nothing => Writers(n) = {}

IInv ==
    /\ TypeOK
    /\ \A t \in Threads : Stage(call[t])
    /\ \A t \in Threads : HasFile(t)
    /\ \A n \in Names : NobodyAt(n)
    /\ StoredStays

USE KeyringAssumption

-----------------------------------------------------------------------------
\* The call of a thread that runs nothing has the shape of a call.
LEMMA IdleCall == Idle \in CallStates /\ Idle.pc = "idle" /\ Idle.name = Nothing /\ Idle.linked
BY DEF Idle, Call, CallStates, Places, FileStates, NoFile

\* At the start there is neither a key nor a file.
LEMMA InitInv == Init => IInv
<1> SUFFICES ASSUME Init PROVE IInv
    OBVIOUS
<1>1. \A t \in Threads : call[t] = Idle
    BY DEF Init
<1>2. TypeOK
    BY IdleCall DEF Init, TypeOK, CallStates, FileStates, NoFile
<1>3. \A n \in Names : good[n] = Nothing
    BY DEF Init
<1> QED
    BY <1>1, <1>2, <1>3, IdleCall DEF IInv, Stage, HasFile, NobodyAt, StoredStays

\* A step that changes at most the process and one call that is not at its write, and does not
\* take it there, keeps everything.
LEMMA CallMoves ==
    ASSUME IInv, UNCHANGED Storage,
           NEW t \in Threads, call[t].pc # "write",
           NEW c \in CallStates, c.pc # "write", Stage(c),
           call' = [call EXCEPT ![t] = c],
           jvm' \in BOOLEAN, vm' \in {"unasked", "none", "found"},
           cache' \in {"unasked", "failed", "resolved"}, kills' \in 0..MaxKills
    PROVE  IInv'
<1>1. call \in [Threads -> CallStates]
    BY DEF IInv, TypeOK, CallStates
<1>2. \A u \in Threads : call'[u] = IF u = t THEN c ELSE call[u]
    BY <1>1
<1>3. TypeOK'
    BY <1>1 DEF IInv, TypeOK, CallStates, Storage
<1>4. \A u \in Threads : Stage(call[u])'
    BY <1>2 DEF IInv, Stage, Storage
<1>5. \A n : Writers(n)' = Writers(n)
    BY <1>2 DEF Writers
<1>6. \A u \in Threads : HasFile(u)'
    BY <1>2, <1>5 DEF IInv, HasFile, Storage
<1> QED
    BY <1>3, <1>4, <1>5, <1>6 DEF IInv, NobodyAt, StoredStays, Storage

\* The same for a call that returns.
LEMMA CallReturns ==
    ASSUME IInv, UNCHANGED <<Process, Storage>>,
           NEW t \in Threads, call[t].pc # "write", Return(t)
    PROVE  IInv'
<1>1. Stage(Idle)
    BY IdleCall DEF Stage
<1>2. UNCHANGED Storage
    OBVIOUS
<1> QED
    BY <1>1, <1>2, IdleCall, CallMoves DEF Return, IInv, TypeOK, Process

\* A thread that starts a call disturbs no Set of another.
LEMMA EnterInv ==
    ASSUME IInv, NEW t \in Threads, NEW c \in CallStates, c.pc # "write", Stage(c), Enter(t, c)
    PROVE  IInv'
<1>1. call[t].pc # "write"
    BY IdleCall DEF Enter
<1>2. PICK d \in {c, Idle} : call' = [call EXCEPT ![t] = d]
    BY DEF Enter
<1>3. d \in CallStates /\ d.pc # "write" /\ Stage(d)
    BY IdleCall DEF Stage
<1>4. vm' \in {"unasked", "none", "found"} /\ cache' \in {"unasked", "failed", "resolved"}
    BY DEF Enter, AskVM, AskCache, IInv, TypeOK
<1>5. jvm' \in BOOLEAN /\ kills' \in 0..MaxKills /\ UNCHANGED Storage
    BY DEF Enter, IInv, TypeOK
<1> QED
    BY <1>1, <1>2, <1>3, <1>4, <1>5, CallMoves

\* Available, Get and Set start such calls.
LEMMA EntersInv ==
    ASSUME IInv, NEW t \in Threads,
           \/ Available(t)
           \/ \E n \in Names : Get(t, n) \/ \E v \in Values : SetValue(t, n, v)
    PROVE  IInv'
<1>1. CASE Available(t)
    <2> DEFINE c == Call("check", Nothing, NoFile)
    <2>1. c \in CallStates /\ c.pc # "write" /\ Stage(c)
        BY DEF Call, CallStates, Places, FileStates, NoFile, Stage
    <2> QED
        BY <1>1, <2>1, EnterInv DEF Available
<1>2. ASSUME NEW n \in Names, Get(t, n) PROVE IInv'
    <2> DEFINE c == Call("read", n, NoFile)
    <2>1. c \in CallStates /\ c.pc # "write" /\ Stage(c)
        BY DEF Call, CallStates, Places, FileStates, NoFile, Stage
    <2> QED
        BY <1>2, <2>1, EnterInv DEF Get
<1>3. ASSUME NEW n \in Names, NEW v \in Values, SetValue(t, n, v) PROVE IInv'
    <2> DEFINE c == Call("encrypt", n, Blob(v, 0))
    <2>1. c \in CallStates /\ c.pc # "write" /\ Stage(c)
        BY DEF Call, CallStates, Places, Stage
    <2> QED
        BY <1>3, <2>1, EnterInv DEF SetValue
<1> QED
    BY <1>1, <1>2, <1>3

\* A call that goes to another place with what it has.
LEMMA Going ==
    ASSUME IInv, NEW t \in Threads, NEW pc \in Places
    PROVE  /\ [call[t] EXCEPT !.pc = pc] \in CallStates
           /\ [call EXCEPT ![t].pc = pc] = [call EXCEPT ![t] = [call[t] EXCEPT !.pc = pc]]
BY DEF IInv, TypeOK, CallStates

\* The look for the key sends the call to generate one only if there is none.
LEMMA ContainsAliasInv ==
    ASSUME IInv, NEW t \in Threads, ContainsAlias(t)
    PROVE  IInv'
<1>1. call[t].pc # "write" /\ UNCHANGED <<Process, Storage>>
    BY DEF ContainsAlias
<1>2. CASE key = 0
    <2> DEFINE c == [call[t] EXCEPT !.pc = "generate"]
    <2>1. c \in CallStates /\ call' = [call EXCEPT ![t] = c]
        BY <1>2, Going DEF ContainsAlias, Goto, Places
    <2>2. c.pc = "generate" /\ c.linked = call[t].linked
        BY DEF IInv, TypeOK
    <2>3. Stage(c)
        BY <1>1, <2>2 DEF IInv, Stage
    <2> HIDE DEF c
    <2> QED
        BY <1>1, <2>1, <2>2, <2>3, CallMoves DEF IInv, TypeOK, Process, Storage
<1>3. CASE key # 0
    BY <1>1, <1>3, CallReturns DEF ContainsAlias
<1> QED
    BY <1>2, <1>3

\* A value is encrypted with the key of its time.
LEMMA EncryptInv ==
    ASSUME IInv, NEW t \in Threads, Encrypt(t)
    PROVE  IInv'
<1>1. call[t].pc = "encrypt" /\ UNCHANGED <<Process, Storage>> /\ key \in 1..MaxKeys
    BY DEF Encrypt, IInv, TypeOK
<1>2. PICK v \in Values : call[t].blob = Blob(v, 0)
    BY <1>1 DEF IInv, Stage
<1> DEFINE c == [call[t] EXCEPT !.pc = "truncate", !.blob = Blob(v, key)]
<1>3. call' = [call EXCEPT ![t] = c]
    BY <1>2 DEF Encrypt, IInv, TypeOK, Blob
<1>4. Blob(v, key) \in FileStates
    BY <1>1 DEF FileStates
<1>5. c \in CallStates /\ c.pc = "truncate" /\ c.blob = Blob(v, key) /\ c.name = call[t].name
         /\ c.linked = call[t].linked
    BY <1>4 DEF IInv, TypeOK, CallStates, Places
<1>6. Stage(c)
    BY <1>1, <1>5 DEF IInv, Stage
<1> HIDE DEF c
<1> QED
    BY <1>1, <1>3, <1>5, <1>6, CallMoves DEF IInv, TypeOK, Process, Storage

\* Reading changes no file.
LEMMA ReadFileInv ==
    ASSUME IInv, NEW t \in Threads, ReadFile(t)
    PROVE  IInv'
<1>1. call[t].pc = "read" /\ UNCHANGED <<Process, Storage>> /\ call[t].name \in Names
    BY DEF ReadFile, IInv, Stage
<1>2. CASE file[call[t].name].is = "blob"
    <2> DEFINE c == [call[t] EXCEPT !.pc = "decrypt", !.blob = file[call[t].name]]
    <2>1. call' = [call EXCEPT ![t] = c]
        BY <1>2 DEF ReadFile, IInv, TypeOK
    <2>2. c \in CallStates /\ c.pc = "decrypt" /\ c.name = call[t].name
             /\ c.linked = call[t].linked
        BY <1>1 DEF IInv, TypeOK, CallStates, Places
    <2>3. Stage(c)
        BY <1>1, <2>2 DEF IInv, Stage
    <2> HIDE DEF c
    <2> QED
        BY <1>1, <2>1, <2>2, <2>3, CallMoves DEF IInv, TypeOK, Process, Storage
<1>3. CASE file[call[t].name].is # "blob"
    BY <1>1, <1>3, CallReturns DEF ReadFile
<1> QED
    BY <1>2, <1>3

\* A key more leaves the blobs of the keys before it, which now may be unreadable.
LEMMA GenerateKeyInv ==
    ASSUME IInv, NEW t \in Threads, GenerateKey(t)
    PROVE  IInv'
<1>1. key \in 0..MaxKeys /\ key' = key + 1 /\ key' \in 0..MaxKeys
    BY DEF GenerateKey, IInv, TypeOK
<1>2. call \in [Threads -> CallStates] /\ call[t].pc = "generate"
    BY DEF GenerateKey, IInv, TypeOK, CallStates
<1>3. \A u \in Threads : call'[u] = IF u = t THEN Idle ELSE call[u]
    BY <1>2 DEF GenerateKey, Return
<1>4. TypeOK'
    <2>1. \A n \in Names : file[n].key <= key'
        BY <1>1 DEF IInv, TypeOK, FileStates, NoFile, Empty, Torn, Blob
    <2>2. call' \in [Threads -> CallStates]
        BY <1>2, IdleCall DEF GenerateKey, Return
    <2> QED
        BY <1>1, <2>1, <2>2 DEF GenerateKey, IInv, TypeOK, Process, CallStates
<1>5. \A u \in Threads : Stage(call[u])'
    BY <1>1, <1>3, IdleCall DEF IInv, Stage
<1>6. \A n : Writers(n)' = Writers(n)
    BY <1>2, <1>3, IdleCall DEF Writers
<1>7. \A u \in Threads : HasFile(u)'
    BY <1>3, <1>6, IdleCall DEF IInv, HasFile, GenerateKey
<1>8. \A n \in Names : good[n] # Nothing => file[n].key \in 1..key
    BY DEF IInv, StoredStays, TypeOK, FileStates, NoFile, Empty, Torn, Blob
<1>9. StoredStays'
    BY <1>1, <1>8 DEF IInv, StoredStays, GenerateKey
<1> QED
    BY <1>4, <1>5, <1>6, <1>7, <1>9 DEF IInv, NobodyAt, GenerateKey

-----------------------------------------------------------------------------
\* Of the calls that are not at their write nothing changes when a file does.
LEMMA TruncateInv ==
    ASSUME IInv, NEW t \in Threads, Truncate(t)
    PROVE  IInv'
<1>n. PICK n : n = call[t].name
    OBVIOUS
<1>1. call[t].pc = "truncate" /\ n \in Names /\ call[t].linked
    BY <1>n DEF Truncate, IInv, Stage
<1>2. call \in [Threads -> CallStates] /\ file \in [Names -> FileStates]
      /\ good \in [Names -> Values \cup {Nothing}] /\ UNCHANGED <<Process, key>>
    BY DEF Truncate, IInv, TypeOK, CallStates
<1>3. file' = [file EXCEPT ![n] = Empty] /\ good' = [good EXCEPT ![n] = Nothing]
    BY <1>n DEF Truncate
<1>4. /\ DOMAIN call' = Threads
      /\ \A u \in Threads :
            call'[u] = IF u = t THEN [call[t] EXCEPT !.pc = "write", !.alone = Writers(n) = {}]
                       ELSE IF u \in Writers(n) THEN [call[u] EXCEPT !.alone = FALSE]
                       ELSE call[u]
      /\ call' = [u \in Threads |-> call'[u]]
    BY <1>n DEF Truncate
<1>5. t \notin Writers(n) /\ \A m : Writers(m) \subseteq Threads
    BY <1>1 DEF Writers
<1>6. \A u \in Threads :
        /\ call'[u] \in CallStates
        /\ call'[u].name = call[u].name /\ call'[u].blob = call[u].blob
        /\ call'[u].linked = call[u].linked
        /\ call'[u].pc = IF u = t THEN "write" ELSE call[u].pc
        /\ u = t => (call'[u].alone <=> Writers(n) = {})
        /\ u # t /\ u \in Writers(n) => ~call'[u].alone
        /\ u # t /\ u \notin Writers(n) => call'[u] = call[u]
    <2> SUFFICES ASSUME NEW u \in Threads
                 PROVE  /\ call'[u] \in CallStates
                        /\ call'[u].name = call[u].name /\ call'[u].blob = call[u].blob
                        /\ call'[u].linked = call[u].linked
                        /\ call'[u].pc = IF u = t THEN "write" ELSE call[u].pc
                        /\ u = t => (call'[u].alone <=> Writers(n) = {})
                        /\ u # t /\ u \in Writers(n) => ~call'[u].alone
                        /\ u # t /\ u \notin Writers(n) => call'[u] = call[u]
        OBVIOUS
    <2>1. call[u] \in CallStates /\ call[t] \in CallStates
        BY <1>2
    <2>2. CASE u = t
        <3>1. PICK w \in BOOLEAN : w <=> Writers(n) = {}
            OBVIOUS
        <3>2. call'[u] = [call[u] EXCEPT !.pc = "write", !.alone = w]
            <4>1. call'[u] = [call[u] EXCEPT !.pc = "write", !.alone = Writers(n) = {}]
                BY <1>4, <2>2
            <4>2. CASE Writers(n) = {}
                BY <3>1, <4>1, <4>2
            <4>3. CASE Writers(n) # {}
                BY <3>1, <4>1, <4>3
            <4> QED
                BY <4>2, <4>3
        <3> QED
            BY <2>1, <2>2, <3>1, <3>2 DEF CallStates, Places
    <2>3. CASE u # t /\ u \in Writers(n)
        <3>1. call'[u] = [call[u] EXCEPT !.alone = FALSE]
            BY <1>4, <2>3
        <3> QED
            BY <2>1, <2>3, <3>1 DEF CallStates
    <2>4. CASE u # t /\ u \notin Writers(n)
        BY <1>4, <2>1, <2>4
    <2> QED
        BY <2>2, <2>3, <2>4
<1>7. TypeOK'
    <2>1. call' \in [Threads -> CallStates]
        BY <1>4, <1>6
    <2>2. file' \in [Names -> FileStates] /\ good' \in [Names -> Values \cup {Nothing}]
        BY <1>1, <1>2, <1>3 DEF FileStates
    <2>3. \A m \in Names : file'[m].key <= key
        BY <1>2, <1>3 DEF IInv, TypeOK, Empty
    <2> QED
        BY <1>2, <2>1, <2>2, <2>3 DEF IInv, TypeOK, CallStates, Process
<1>8. ASSUME NEW u \in Threads PROVE Stage(call[u])'
    <2>1. Stage(call[u]) /\ key' = key
        BY <1>2 DEF IInv
    <2>2. CASE u = t
        BY <1>1, <1>6, <2>1, <2>2 DEF Stage
    <2>3. CASE u # t
        BY <1>6, <2>1, <2>3 DEF Stage
    <2> QED
        BY <2>2, <2>3
<1>9. \A m : Writers(m)' = IF m = n THEN Writers(m) \cup {t} ELSE Writers(m)
    <2>1. \A m : \A u \in Threads : u \in Writers(m)' <=> u \in Writers(m) \/ (u = t /\ m = n)
        BY <1>n, <1>6 DEF Writers
    <2>2. \A m : Writers(m)' \subseteq Threads
        BY DEF Writers
    <2> QED
        BY <1>5, <2>1, <2>2
<1>10. \A u \in Threads : HasFile(u)'
    <2> SUFFICES ASSUME NEW u \in Threads, call'[u].pc = "write", call'[u].alone,
                        NEW m, m = call[u].name
                 PROVE  call'[u].linked /\ file'[m] = Empty /\ Writers(m)' = {u}
        BY <1>6 DEF HasFile
    <2>1. CASE u = t
        <3>1. Writers(n) = {} /\ m = n /\ call'[u].linked
            BY <1>n, <1>1, <1>6, <2>1
        <3>2. file'[n] = Empty
            BY <1>1, <1>2, <1>3
        <3> QED
            BY <1>9, <2>1, <3>1, <3>2
    <2>2. CASE u # t
        <3>1. u \notin Writers(n) /\ call[u].pc = "write" /\ call[u].alone /\ call[u].name \in Names
            BY <1>6, <2>2 DEF IInv, Stage
        <3>2. m # n
            BY <3>1 DEF Writers
        <3>3. call[u].linked /\ file[m] = Empty /\ Writers(m) = {u}
            BY <3>1 DEF IInv, HasFile
        <3> QED
            BY <1>1, <1>2, <1>3, <1>6, <1>9, <3>1, <3>2, <3>3
    <2> QED
        BY <2>1, <2>2
<1>11. \A m \in Names : NobodyAt(m)'
    BY <1>1, <1>2, <1>3, <1>9 DEF IInv, NobodyAt
<1>12. StoredStays'
    BY <1>1, <1>2, <1>3 DEF IInv, StoredStays
<1> QED
    BY <1>7, <1>8, <1>10, <1>11, <1>12 DEF IInv

\* A Set that ends, having written or not: what it may leave in the file.
LEMMA WriterEnds ==
    ASSUME IInv, NEW t \in Threads, call[t].pc = "write", Return(t), UNCHANGED <<Process, key>>,
           NEW f \in FileStates, f.key <= key,
           \/ UNCHANGED file
           \/ file' = [file EXCEPT ![call[t].name] = f],
           \/ UNCHANGED good
           \/ /\ call[t].alone /\ f = call[t].blob /\ file' = [file EXCEPT ![call[t].name] = f]
              /\ good' = [good EXCEPT ![call[t].name] = f.val]
    PROVE  IInv'
<1>n. PICK n : n = call[t].name
    OBVIOUS
<1>1. n \in Names /\ (\E v \in Values, k \in 1..key : call[t].blob = Blob(v, k)) /\ key \in Nat
    BY <1>n DEF IInv, Stage, TypeOK
<1>2. call \in [Threads -> CallStates] /\ file \in [Names -> FileStates]
      /\ good \in [Names -> Values \cup {Nothing}]
    BY DEF IInv, TypeOK, CallStates
<1>3. \A u \in Threads : call'[u] = IF u = t THEN Idle ELSE call[u]
    BY <1>2 DEF Return
<1>4. \A m \in Names : m # n => file'[m] = file[m] /\ good'[m] = good[m]
    BY <1>n, <1>1, <1>2
<1>5. t \in Writers(n) /\ good[n] = Nothing
    BY <1>n, <1>1 DEF IInv, NobodyAt, Writers
<1>6. TypeOK'
    <2>1. call' \in [Threads -> CallStates]
        BY <1>2, IdleCall DEF Return
    <2>2. file' \in [Names -> FileStates] /\ good' \in [Names -> Values \cup {Nothing}]
        BY <1>n, <1>1, <1>2 DEF Blob
    <2>3. \A m \in Names : file'[m].key <= key
        BY <1>1, <1>2 DEF IInv, TypeOK
    <2> QED
        BY <2>1, <2>2, <2>3 DEF IInv, TypeOK, CallStates, Process
<1>7. \A u \in Threads : Stage(call[u])'
    BY <1>3, IdleCall DEF IInv, Stage
<1>8. \A m : Writers(m)' = Writers(m) \ {t}
    BY <1>3, IdleCall DEF Writers
<1>9. \A u \in Threads : HasFile(u)'
    <2> SUFFICES ASSUME NEW u \in Threads, u # t, call[u].pc = "write", call[u].alone,
                        NEW m, m = call[u].name
                 PROVE  call[u].linked /\ file'[m] = Empty /\ Writers(m)' = {u}
        BY <1>3, IdleCall DEF HasFile
    <2>1. call[u].linked /\ m \in Names /\ file[m] = Empty /\ Writers(m) = {u}
        BY DEF IInv, HasFile, Stage
    <2>2. m # n
        BY <1>5, <2>1
    <2> QED
        BY <1>4, <1>8, <2>1, <2>2
<1>10. \A m \in Names : NobodyAt(m)'
    <2>1. \A m \in Names : m # n => NobodyAt(m)'
        BY <1>4, <1>8 DEF IInv, NobodyAt
    <2>2. NobodyAt(n)'
        <3>1. CASE UNCHANGED good
            BY <1>5, <3>1 DEF NobodyAt
        <3>2. CASE call[t].alone
            <4>1. Writers(n) = {t}
                BY <1>n, <3>2 DEF IInv, HasFile
            <4> QED
                BY <1>8, <4>1 DEF NobodyAt
        <3> QED
            BY <3>1, <3>2
    <2> QED
        BY <2>1, <2>2
<1>11. StoredStays'
    <2>1. ASSUME NEW m \in Names, m # n, good'[m] # Nothing
          PROVE  /\ file'[m].is = "blob" /\ file'[m].val = good'[m]
                 /\ file'[m].key = key' \/ key' > 1
        BY <1>4, <2>1 DEF IInv, StoredStays
    <2>2. ASSUME good'[n] # Nothing
          PROVE  /\ file'[n].is = "blob" /\ file'[n].val = good'[n]
                 /\ file'[n].key = key' \/ key' > 1
        <3>1. f = call[t].blob /\ file'[n] = f /\ good'[n] = f.val
            BY <1>n, <1>1, <1>2, <1>5, <2>2
        <3>2. PICK v \in Values, k \in 1..key : f = Blob(v, k)
            BY <1>1, <3>1
        <3> QED
            BY <1>1, <3>1, <3>2 DEF Blob
    <2> QED
        BY <2>1, <2>2 DEF StoredStays
<1> QED
    BY <1>6, <1>7, <1>9, <1>10, <1>11 DEF IInv

\* A write that is done leaves the file whole; one that fails is not counted as stored.
LEMMA WriteInv ==
    ASSUME IInv, NEW t \in Threads, WriteBlob(t) \/ WriteFails(t)
    PROVE  IInv'
<1>1. call[t].pc = "write" /\ Return(t) /\ UNCHANGED <<Process, key>> /\ key \in 0..MaxKeys
    BY DEF WriteBlob, WriteFails, IInv, TypeOK
<1>2. PICK v \in Values, k \in 1..key : call[t].blob = Blob(v, k)
    BY <1>1 DEF IInv, Stage
<1>3. call[t].blob \in FileStates /\ call[t].blob.key <= key
    BY <1>1, <1>2 DEF FileStates, Blob
<1>4. Torn \in FileStates /\ Torn.key <= key
    BY <1>1 DEF FileStates, Torn
<1>5. CASE WriteFails(t)
    BY <1>1, <1>4, <1>5, WriterEnds DEF WriteFails
<1>6. CASE WriteBlob(t) /\ ~call[t].alone
    <2>1. UNCHANGED good
        BY <1>6 DEF WriteBlob
    <2>2. \/ UNCHANGED file
          \/ file' = [file EXCEPT ![call[t].name] = call[t].blob]
          \/ file' = [file EXCEPT ![call[t].name] = Torn]
        BY <1>6 DEF WriteBlob, Written
    <2> QED
        BY <1>1, <1>3, <1>4, <2>1, <2>2, WriterEnds
<1>7. CASE WriteBlob(t) /\ call[t].alone
    <2>1. call[t].linked /\ file[call[t].name] = Empty
        BY <1>1, <1>7 DEF IInv, HasFile
    <2>2. file' = [file EXCEPT ![call[t].name] = call[t].blob]
        BY <1>7, <2>1 DEF WriteBlob, Written
    <2>3. good' = [good EXCEPT ![call[t].name] = call[t].blob.val]
        BY <1>7 DEF WriteBlob
    <2> QED
        BY <1>1, <1>3, <1>7, <2>2, <2>3, WriterEnds
<1> QED
    BY <1>5, <1>6, <1>7

\* Those that were writing to the deleted file know that they no longer have it.
LEMMA DeleteInv ==
    ASSUME IInv, NEW n \in Names, Delete(n)
    PROVE  IInv'
<1>1. call \in [Threads -> CallStates] /\ file \in [Names -> FileStates]
      /\ good \in [Names -> Values \cup {Nothing}] /\ UNCHANGED <<Process, key>>
    BY DEF Delete, IInv, TypeOK, CallStates
<1>2. file' = [file EXCEPT ![n] = NoFile] /\ good' = [good EXCEPT ![n] = Nothing]
    BY DEF Delete
<1>3. call' = [u \in Threads |->
                 IF u \in Writers(n) THEN [call[u] EXCEPT !.alone = FALSE, !.linked = FALSE]
                 ELSE call[u]]
    BY DEF Delete
<1>4. ASSUME NEW u \in Threads
      PROVE  /\ call'[u] \in CallStates
             /\ call'[u].name = call[u].name /\ call'[u].blob = call[u].blob
             /\ call'[u].pc = call[u].pc
             /\ u \in Writers(n) => ~call'[u].alone
             /\ u \notin Writers(n) => call'[u] = call[u]
    <2>1. call[u] \in CallStates
        BY <1>1
    <2>2. CASE u \in Writers(n)
        <3>1. call'[u] = [call[u] EXCEPT !.alone = FALSE, !.linked = FALSE]
            BY <1>3, <2>2
        <3> QED
            BY <2>1, <2>2, <3>1 DEF CallStates
    <2>3. CASE u \notin Writers(n)
        BY <1>3, <2>1, <2>3
    <2> QED
        BY <2>2, <2>3
<1>5. TypeOK'
    <2>1. call' \in [Threads -> CallStates]
        BY <1>3, <1>4
    <2>2. file' \in [Names -> FileStates] /\ good' \in [Names -> Values \cup {Nothing}]
        BY <1>1, <1>2 DEF FileStates
    <2>3. \A m \in Names : file'[m].key <= key
        BY <1>1, <1>2 DEF IInv, TypeOK, NoFile
    <2> QED
        BY <1>1, <2>1, <2>2, <2>3 DEF IInv, TypeOK, CallStates, Process
<1>6. ASSUME NEW u \in Threads PROVE Stage(call[u])'
    <2>1. Stage(call[u]) /\ key' = key
        BY <1>1 DEF IInv
    <2>2. u \in Writers(n) => call[u].pc = "write"
        BY DEF Writers
    <2> QED
        BY <1>4, <2>1, <2>2 DEF Stage
<1>7. \A m : Writers(m)' = Writers(m)
    BY <1>4 DEF Writers
<1>8. ASSUME NEW u \in Threads PROVE HasFile(u)'
    <2> SUFFICES ASSUME call'[u].pc = "write", call'[u].alone, NEW m, m = call[u].name
                 PROVE  call'[u].linked /\ file'[m] = Empty /\ Writers(m)' = {u}
        BY <1>4 DEF HasFile
    <2>1. u \notin Writers(n) /\ call'[u] = call[u] /\ m # n
        BY <1>4 DEF Writers
    <2>2. call[u].linked /\ m \in Names /\ file[m] = Empty /\ Writers(m) = {u}
        BY <2>1 DEF IInv, HasFile, Stage
    <2> QED
        BY <1>1, <1>2, <1>7, <2>1, <2>2
<1>9. \A m \in Names : NobodyAt(m)'
    BY <1>1, <1>2, <1>7 DEF IInv, NobodyAt
<1>10. StoredStays'
    BY <1>1, <1>2 DEF IInv, StoredStays
<1> QED
    BY <1>5, <1>6, <1>8, <1>9, <1>10 DEF IInv

\* Loading the library touches neither keys nor files.
LEMMA LoadLibraryInv ==
    ASSUME IInv, LoadLibrary
    PROVE  IInv'
<1>1. UNCHANGED <<vm, cache, kills, call, key, file, good>> /\ jvm' = TRUE
    BY DEF LoadLibrary, Storage
<1>2. \A m : Writers(m)' = Writers(m)
    BY <1>1 DEF Writers
<1>3. TypeOK'
    BY <1>1 DEF IInv, TypeOK
<1>4. (\A u \in Threads : Stage(call[u])') /\ StoredStays'
    BY <1>1 DEF IInv, Stage, StoredStays
<1>5. \A u \in Threads : HasFile(u)'
    BY <1>1, <1>2 DEF IInv, HasFile
<1> QED
    BY <1>1, <1>2, <1>3, <1>4, <1>5 DEF IInv, NobodyAt

\* What a killed process was doing is gone, what it had stored is not.
LEMMA KillInv ==
    ASSUME IInv, Kill
    PROVE  IInv'
<1>1. UNCHANGED <<key, file, good>> /\ \A u \in Threads : call'[u] = Idle
    BY DEF Kill, Storage
<1>2. \A m : Writers(m)' = {}
    BY <1>1, IdleCall DEF Writers
<1>3. kills' \in 0..MaxKills
    BY DEF Kill, IInv, TypeOK
<1>4. call' \in [Threads -> CallStates]
    BY IdleCall DEF Kill
<1>5. TypeOK'
    BY <1>1, <1>3, <1>4 DEF Kill, IInv, TypeOK, CallStates
<1>6. \A u \in Threads : Stage(call[u])' /\ HasFile(u)'
    BY <1>1, IdleCall DEF Stage, HasFile
<1> QED
    BY <1>1, <1>2, <1>5, <1>6 DEF IInv, NobodyAt, StoredStays

\* A step that changes nothing keeps the invariant.
LEMMA StutterInv ==
    ASSUME IInv, UNCHANGED vars
    PROVE  IInv'
<1>1. \A m : Writers(m)' = Writers(m)
    BY DEF vars, Writers
<1>2. TypeOK' /\ StoredStays'
    BY DEF vars, IInv, TypeOK, StoredStays
<1>3. \A u \in Threads : Stage(call[u])' /\ HasFile(u)'
    BY <1>1 DEF vars, IInv, Stage, HasFile
<1> QED
    BY <1>1, <1>2, <1>3 DEF vars, IInv, NobodyAt

\* The invariant is inductive: one lemma per step.
LEMMA NextInv == IInv /\ [Next]_vars => IInv'
<1> SUFFICES ASSUME IInv, [Next]_vars PROVE IInv'
    OBVIOUS
<1>1. ASSUME NEW t \in Threads,
             \/ Available(t)
             \/ \E n \in Names : Get(t, n) \/ \E v \in Values : SetValue(t, n, v)
      PROVE  IInv'
    BY <1>1, EntersInv
<1>2. ASSUME NEW t \in Threads, ContainsAlias(t) \/ GenerateKey(t) PROVE IInv'
    BY <1>2, ContainsAliasInv, GenerateKeyInv
<1>3. ASSUME NEW t \in Threads,
             Encrypt(t) \/ Truncate(t) \/ WriteBlob(t) \/ WriteFails(t) \/ ReadFile(t)
      PROVE  IInv'
    BY <1>3, EncryptInv, TruncateInv, WriteInv, ReadFileInv
<1>4. ASSUME NEW t \in Threads, Decrypt(t) \/ Fails(t) PROVE IInv'
    <2>1. call[t].pc # "write" /\ Return(t) /\ UNCHANGED <<Process, Storage>>
        BY <1>4 DEF Decrypt, Fails
    <2> QED
        BY <2>1, CallReturns
<1>5. CASE (\E n \in Names : Delete(n)) \/ LoadLibrary \/ Kill
    BY <1>5, DeleteInv, LoadLibraryInv, KillInv
<1>6. CASE UNCHANGED vars
    BY <1>6, StutterInv
<1> QED
    BY <1>1, <1>2, <1>3, <1>4, <1>5, <1>6 DEF Next

\* It holds for any threads, names, values and kills.
THEOREM Invariance == Spec => []IInv
BY InitInv, NextInv, PTL DEF Spec

-----------------------------------------------------------------------------
\* TypeOK holds in every run of the keyring: every variable keeps its shape and no file
\* is encrypted with a key that was never generated.
THEOREM TypeCorrect == Spec => []TypeOK
<1>1. IInv => TypeOK
    BY DEF IInv
<1> QED
    BY <1>1, Invariance, PTL

\* What an undisturbed Set has stored stays in its file through everything that other
\* calls do, through their failures and through kills, however many there are.
THEOREM StoredValuesStay == Spec => []StoredStays
<1>1. IInv => StoredStays
    BY DEF IInv
<1> QED
    BY <1>1, Invariance, PTL

\* One step of the property below.
LEMMA SettledKeyStep ==
    ASSUME TypeOK, Next, key # 0, \A t \in Threads : call[t].pc # "generate"
    PROVE  key' = key /\ \A t \in Threads : call'[t].pc # "generate"
<1>1. call \in [Threads -> CallStates]
    BY DEF TypeOK, CallStates
<1>2. ASSUME NEW t \in Threads, NEW c, c.pc # "generate", call' = [call EXCEPT ![t] = c], key' = key
      PROVE  key' = key /\ \A u \in Threads : call'[u].pc # "generate"
    BY <1>1, <1>2
<1>3. ASSUME NEW t \in Threads, NEW c, c.pc # "generate", Enter(t, c)
      PROVE  key' = key /\ \A u \in Threads : call'[u].pc # "generate"
    <2>1. PICK d \in {c, Idle} : call' = [call EXCEPT ![t] = d]
        BY <1>3 DEF Enter
    <2>2. key' = key /\ d.pc # "generate"
        BY <1>3, IdleCall DEF Enter, Storage
    <2> QED
        BY <1>2, <2>1, <2>2
<1>4. ASSUME NEW t \in Threads, Return(t), key' = key
      PROVE  key' = key /\ \A u \in Threads : call'[u].pc # "generate"
    BY <1>2, <1>4, IdleCall DEF Return
<1>5. ASSUME NEW t \in Threads,
             \/ Available(t)
             \/ \E n \in Names : Get(t, n) \/ \E v \in Values : SetValue(t, n, v)
      PROVE  key' = key /\ \A u \in Threads : call'[u].pc # "generate"
    BY <1>3, <1>5 DEF Available, Get, SetValue, Call
<1>6. ASSUME NEW t \in Threads,
             \/ ContainsAlias(t) \/ WriteBlob(t) \/ WriteFails(t) \/ Decrypt(t) \/ Fails(t)
      PROVE  key' = key /\ \A u \in Threads : call'[u].pc # "generate"
    BY <1>4, <1>6 DEF ContainsAlias, WriteBlob, WriteFails, Decrypt, Fails, Storage
<1>7. ASSUME NEW t \in Threads, GenerateKey(t) PROVE FALSE
    BY <1>7 DEF GenerateKey
<1>8. ASSUME NEW t \in Threads, Encrypt(t)
      PROVE  key' = key /\ \A u \in Threads : call'[u].pc # "generate"
    BY <1>1, <1>8 DEF Encrypt, Storage, CallStates
<1>9. ASSUME NEW t \in Threads, Truncate(t)
      PROVE  key' = key /\ \A u \in Threads : call'[u].pc # "generate"
    BY <1>1, <1>9 DEF Truncate, CallStates
<1>10. ASSUME NEW t \in Threads, ReadFile(t)
       PROVE  key' = key /\ \A u \in Threads : call'[u].pc # "generate"
    <2>1. CASE Return(t)
        BY <1>4, <1>10, <2>1 DEF ReadFile, Storage
    <2>2. CASE call' = [call EXCEPT ![t].pc = "decrypt", ![t].blob = file[call[t].name]]
        BY <1>1, <1>10, <2>2 DEF ReadFile, Storage, CallStates
    <2> QED
        BY <1>10, <2>1, <2>2 DEF ReadFile
<1>11. ASSUME NEW n \in Names, Delete(n)
       PROVE  key' = key /\ \A u \in Threads : call'[u].pc # "generate"
    BY <1>1, <1>11 DEF Delete, CallStates
<1>12. CASE LoadLibrary
    BY <1>12 DEF LoadLibrary, Storage
<1>13. CASE Kill
    BY <1>13, IdleCall DEF Kill, Storage
<1> QED
    BY <1>5, <1>6, <1>7, <1>8, <1>9, <1>10, <1>11, <1>12, <1>13 DEF Next

\* A key that nobody is about to generate again stays, for every later call and in
\* every later process.
THEOREM SettledKeys == Spec => SettledKeyStays
<1>1. TypeOK /\ [Next]_vars
        => [key # 0 /\ (\A t \in Threads : call[t].pc # "generate")
              => key' = key /\ \A t \in Threads : call'[t].pc # "generate"]_vars
    BY SettledKeyStep
<1> QED
    BY <1>1, TypeCorrect, PTL DEF Spec, SettledKeyStays

=============================================================================
