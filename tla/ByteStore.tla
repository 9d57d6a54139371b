----------------------------- MODULE ByteStore -----------------------------
(***************************************************************************)
(* The byte-result channel of the FFI bridge (pkg/bridge/bridge.go).       *)
(*                                                                         *)
(* FlugoCallBytes leaves a method's result in a bounded map and returns an *)
(* id; FlugoGetBytes takes the buffer out by that id.  Both are called     *)
(* from Dart-owned threads (Isolate.run), any number at a time.  The model *)
(* splits each call where another thread can get in between:               *)
(*                                                                         *)
(*   AllocID    byteStoreID.Add(1), before the lock is taken               *)
(*   StoreBytes the critical section of storeBytes: insert, then evict     *)
(*   TakeBytes  the critical section of FlugoGetBytes: lookup and delete   *)
(*   CopyBytes  C.CBytes, after the unlock                                 *)
(*   WipeBytes  zeroBytes on the Go copy, and the return to the caller     *)
(*                                                                         *)
(* A buffer is known by the id it was stored under.  What is in it comes   *)
(* down to whether zeroBytes has run over it.                              *)
(***************************************************************************)
EXTENDS Integers, FiniteSets, FiniteSetsExt

CONSTANTS
    Threads,              \* the Dart threads that call into the bridge
    maxByteStoreEntries,  \* the cap of the map (256 in the code)
    MaxResults            \* bound of the model: FlugoCallBytes calls made

ASSUME CapAssumption == maxByteStoreEntries \in Nat \ {0}
ASSUME CallsAssumption == MaxResults \in Nat

VARIABLES
    byteStoreID,  \* the last id handed out
    byteStore,    \* the ids that have an entry in the map
    zeroed,       \* the ids whose Go buffer zeroBytes has wiped
    returned,     \* the ids FlugoCallBytes has returned to Dart
    handedOff,    \* the ids whose bytes were copied out to Dart
    evicted,      \* the ids whose entry the cap pushed out
    at,           \* where each thread is
    held          \* the id each thread is working on

storeVars == <<byteStoreID, byteStore, zeroed, returned, handedOff, evicted, at, held>>

StorePlaces == {"idle", "storing", "copying", "wiping"}

\* Every variable has its shape, and every id in use was issued.  It is false as
\* soon as storeBytes files a result under an id the counter did not hand out.
StoreTypeOK ==
    /\ byteStoreID \in 0..MaxResults
    /\ byteStore \subseteq 1..byteStoreID
    /\ zeroed \subseteq 1..byteStoreID
    /\ returned \subseteq 1..byteStoreID
    /\ handedOff \subseteq 1..byteStoreID
    /\ evicted \subseteq 1..byteStoreID
    /\ at \in [Threads -> StorePlaces]
    /\ held \in [Threads -> 0..byteStoreID]
    /\ \A t \in Threads : at[t] # "idle" => held[t] # 0

StoreInit ==
    /\ byteStoreID = 0
    /\ byteStore = {} /\ zeroed = {}
    /\ returned = {} /\ handedOff = {} /\ evicted = {}
    /\ at = [t \in Threads |-> "idle"]
    /\ held = [t \in Threads |-> 0]

(***************************************************************************)
(* FlugoCallBytes.                                                         *)
(***************************************************************************)

NewID == byteStoreID + 1

\* The method has been dispatched; storeBytes draws an id without the lock.
AllocID(t) ==
    /\ at[t] = "idle"
    /\ byteStoreID < MaxResults
    /\ byteStoreID' = byteStoreID + 1
    /\ held' = [held EXCEPT ![t] = NewID]
    /\ at' = [at EXCEPT ![t] = "storing"]
    /\ UNCHANGED <<byteStore, zeroed, returned, handedOff, evicted>>

\* Mutant: the comparison in the eviction loop is the wrong way round.
NewestEntry(entries) == {Max(entries)}

\* Mutant: the cap is compared with >= after an entry too many.
OverCapByTwo(entries) == Cardinality(entries) > maxByteStoreEntries + 1

OldestEntry(entries) == {Min(entries)}

OverCap(entries) == Cardinality(entries) > maxByteStoreEntries

\* The entries an insertion pushes out: at most one, the smallest id.
Victims(entries) == IF OverCap(entries) THEN OldestEntry(entries) ELSE {}

\* Mutant: the evicted buffer is wiped but stays in the map.
StoreKeepsVictim(t) ==
    LET entries == byteStore \cup {held[t]}
        out == Victims(entries)
    IN  /\ at[t] = "storing"
        /\ byteStore' = entries
        /\ zeroed' = zeroed \cup out
        /\ evicted' = evicted \cup out
        /\ returned' = returned \cup {held[t]}
        /\ at' = [at EXCEPT ![t] = "idle"]
        /\ UNCHANGED <<byteStoreID, handedOff, held>>

\* Insert under the lock; over the cap, wipe and delete the smallest id, which
\* may be the id being inserted.  The id then goes back to Dart.
StoreBytes(t) ==
    LET entries == byteStore \cup {held[t]}
        out == Victims(entries)
    IN  /\ at[t] = "storing"
        /\ byteStore' = entries \ out
        /\ zeroed' = zeroed \cup out
        /\ evicted' = evicted \cup out
        /\ returned' = returned \cup {held[t]}
        /\ at' = [at EXCEPT ![t] = "idle"]
        /\ UNCHANGED <<byteStoreID, handedOff, held>>

(***************************************************************************)
(* FlugoGetBytes, for an id FlugoCallBytes returned.  A miss changes       *)
(* nothing and returns nil, so only hits are steps.                        *)
(***************************************************************************)

\* Mutant: the entry is read under the lock and not deleted.
TakeWithoutDelete(t, id) ==
    /\ at[t] = "idle"
    /\ id \in byteStore
    /\ at' = [at EXCEPT ![t] = "copying"]
    /\ held' = [held EXCEPT ![t] = id]
    /\ UNCHANGED <<byteStoreID, byteStore, zeroed, returned, handedOff, evicted>>

TakeBytes(t, id) ==
    /\ at[t] = "idle"
    /\ id \in byteStore
    /\ byteStore' = byteStore \ {id}
    /\ at' = [at EXCEPT ![t] = "copying"]
    /\ held' = [held EXCEPT ![t] = id]
    /\ UNCHANGED <<byteStoreID, zeroed, returned, handedOff, evicted>>

\* C.CBytes copies the buffer, whatever is in it by now.
CopyBytes(t) ==
    /\ at[t] = "copying"
    /\ handedOff' = handedOff \cup {held[t]}
    /\ at' = [at EXCEPT ![t] = "wiping"]
    /\ UNCHANGED <<byteStoreID, byteStore, zeroed, returned, evicted, held>>

WipeBytes(t) ==
    /\ at[t] = "wiping"
    /\ zeroed' = zeroed \cup {held[t]}
    /\ at' = [at EXCEPT ![t] = "idle"]
    /\ UNCHANGED <<byteStoreID, byteStore, returned, handedOff, evicted, held>>

StoreNext ==
    \E t \in Threads :
        \/ AllocID(t)
        \/ StoreBytes(t)
        \/ \E id \in returned : TakeBytes(t, id)
        \/ CopyBytes(t)
        \/ WipeBytes(t)

StoreSpec == StoreInit /\ [][StoreNext]_storeVars

(***************************************************************************)
(* Properties.                                                             *)
(***************************************************************************)

Working(t, place) == at[t] = place

\* Some thread is at this place with this id.
HeldAt(id, place) == \E t \in Threads : Working(t, place) /\ held[t] = id

\* Two threads are never at work on the same id: no id is issued twice, and of
\* two FlugoGetBytes calls for one id at most one finds the entry.
OneWorker ==
    \A t, u \in Threads :
        t # u /\ at[t] # "idle" /\ at[u] # "idle" => held[t] # held[u]

\* A result that a thread still carries (on its way into the map, or out of it)
\* is in none of the three places a stored result can end in.
CarriedIsNowhereElse ==
    \A t \in Threads :
        at[t] \in {"storing", "copying"} =>
            held[t] \notin byteStore \cup handedOff \cup evicted

\* The three places exclude each other.
PlacesDisjoint ==
    /\ byteStore \cap handedOff = {}
    /\ byteStore \cap evicted = {}
    /\ handedOff \cap evicted = {}

\* No issued id is lost: it is on its way in, stored, on its way out, copied to
\* the caller, or evicted.
NoneLost ==
    \A id \in 1..byteStoreID :
        \/ id \in byteStore \cup handedOff \cup evicted
        \/ HeldAt(id, "storing") \/ HeldAt(id, "copying")

WiperHasCopied ==
    \A t \in Threads : at[t] = "wiping" => held[t] \in handedOff

\* Each result of FlugoCallBytes is in exactly one place at any time, whatever
\* the threads do: so it reaches Dart at most once (FlugoGetBytes deletes what
\* it finds before it copies), and an evicted one never does.
OnePlace ==
    /\ OneWorker
    /\ CarriedIsNowhereElse
    /\ PlacesDisjoint
    /\ NoneLost
    /\ WiperHasCopied

\* The map never outgrows its cap once a call has left the critical section of
\* storeBytes, however many results Dart abandons.
Bounded == Cardinality(byteStore) <= maxByteStoreEntries

\* Once a result has left the map, by eviction or by hand-off, its Go buffer is
\* wiped as soon as no thread is still between the copy and the wipe.
NothingLingers ==
    \A id \in handedOff \cup evicted : id \in zeroed \/ HeldAt(id, "wiping")

WipedOnlyAfterUse == zeroed \subseteq handedOff \cup evicted

\* Response data does not stay in Go memory after its result has left the map,
\* and no buffer that can still be handed out has been wiped.
WipeDiscipline == NothingLingers /\ WipedOnlyAfterUse

\* What FlugoGetBytes copies to Dart, outside the lock, is never a buffer that
\* the eviction of a concurrent FlugoCallBytes has already zeroed.
DeliveredIntact == [][\A id \in handedOff' \ handedOff : id \notin zeroed]_storeVars

\* The cap only costs a caller that fell far behind: when an id is evicted at
\* least maxByteStoreEntries younger ids have been issued.  It holds although
\* ids are drawn before the lock and can be inserted out of order.
EvictionIsLate ==
    [][\A id \in evicted' \ evicted :
            byteStoreID >= id + maxByteStoreEntries]_storeVars

=============================================================================
