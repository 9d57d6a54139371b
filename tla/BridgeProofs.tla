---------------------------- MODULE BridgeProofs ----------------------------
(***************************************************************************)
(* Theorems about the two halves of the FFI bridge: what becomes of the    *)
(* bytes of a result (ByteStore), for any set of threads, any cap and any  *)
(* number of results, and what a call through the bridge returns           *)
(* (Dispatch), for any set of signatures and any number of calls.          *)
(*                                                                         *)
(* OnePlace needs the type invariant to know that a freshly drawn id is    *)
(* new.  It is inductive together with WipeDiscipline, and DeliveredIntact *)
(* follows from the two: a buffer being copied is nowhere else, and only   *)
(* buffers that have been handed off or evicted are wiped.                 *)
(*                                                                         *)
(* Of a call, what fails is read the same way for every type; what arrives *)
(* is proved from the tables of BindContract, type by type, and from the   *)
(* signatures the generator accepts.                                       *)
(***************************************************************************)
EXTENDS ByteStore, Dispatch, FiniteSetTheorems, SequenceTheorems, TLAPS

-----------------------------------------------------------------------------
\* A finite non-empty set of positive ids has a smallest one: what the loop of
\* storeBytes finds.
LEMMA OldestExists ==
    ASSUME NEW S \in SUBSET Nat, S # {}
    PROVE  Min(S) \in S /\ \A id \in S : Min(S) <= id
<1>1. PICK least \in S : \A id \in S : ~(<<id, least>> \in OpToRel(<, Nat))
  BY NatLessThanWellFounded, WFMin
<1>2. \A id \in S : ~(id < least)
  BY <1>1, Zenon DEF OpToRel
<1>3. \A id \in S : least <= id
  BY <1>2
<1> QED
  BY <1>3 DEF Min

\* An eviction takes exactly one entry out, the smallest, and only when the
\* insertion made the map too large.
LEMMA VictimsAreOldest ==
    ASSUME NEW S \in SUBSET Nat, S # {}, NEW id \in Victims(S)
    PROVE  id \in S /\ (\A other \in S : id <= other) /\ OverCap(S)
BY OldestExists DEF Victims, OldestEntry

\* A thread in the middle of a call works on an id that has been issued.
LEMMA WorkerHasIssuedID ==
    ASSUME StoreTypeOK, NEW t \in Threads, at[t] # "idle"
    PROVE  held[t] \in 1..byteStoreID
<1>1. held[t] \in 0..byteStoreID /\ held[t] # 0
  BY DEF StoreTypeOK
<1>2. byteStoreID \in Nat
  BY DEF StoreTypeOK
<1> QED
  BY <1>1, <1>2

\* Where an insertion takes place, its victims are issued ids.
LEMMA VictimsAreIssued ==
    ASSUME StoreTypeOK, NEW t \in Threads, at[t] # "idle"
    PROVE  Victims(byteStore \cup {held[t]}) \subseteq byteStore \cup {held[t]}
<1> DEFINE entries == byteStore \cup {held[t]}
<1>1. entries \in SUBSET Nat /\ entries # {}
  <2>1. held[t] \in Nat
    BY WorkerHasIssuedID
  <2>2. byteStore \subseteq Nat
    BY DEF StoreTypeOK
  <2> QED
    BY <2>1, <2>2
<1>2. SUFFICES ASSUME NEW id \in Victims(entries) PROVE id \in entries
  OBVIOUS
<1> HIDE DEF entries
<1> QED
  BY <1>1, <1>2, VictimsAreOldest

-----------------------------------------------------------------------------
\* Every variable keeps its shape, whatever the interleaving.
THEOREM StoreTypeCorrect == StoreSpec => []StoreTypeOK
<1>1. StoreInit => StoreTypeOK
  BY CallsAssumption DEF StoreInit, StoreTypeOK, StorePlaces
<1>2. StoreTypeOK /\ [StoreNext]_storeVars => StoreTypeOK'
  <2> SUFFICES ASSUME StoreTypeOK, [StoreNext]_storeVars PROVE StoreTypeOK'
    OBVIOUS
  <2>1. ASSUME NEW t \in Threads, AllocID(t) PROVE StoreTypeOK'
    <3>1. byteStoreID' \in 0..MaxResults /\ byteStoreID' = byteStoreID + 1
      BY <2>1, CallsAssumption DEF AllocID, StoreTypeOK
    <3>2. 1..byteStoreID \subseteq 1..byteStoreID' /\ byteStoreID \in Nat
      BY <3>1 DEF StoreTypeOK
    <3>3. held' \in [Threads -> 0..byteStoreID']
      BY <2>1, <3>1, <3>2 DEF AllocID, NewID, StoreTypeOK
    <3>4. at' \in [Threads -> StorePlaces]
      BY <2>1 DEF AllocID, StoreTypeOK, StorePlaces
    <3>5. \A u \in Threads : at'[u] # "idle" => held'[u] # 0
      BY <2>1, <3>2 DEF AllocID, NewID, StoreTypeOK
    <3> QED
      BY <2>1, <3>1, <3>2, <3>3, <3>4, <3>5 DEF AllocID, StoreTypeOK
  <2>2. ASSUME NEW t \in Threads, StoreBytes(t) PROVE StoreTypeOK'
    <3>1. held[t] \in 1..byteStoreID
      BY <2>2, WorkerHasIssuedID DEF StoreBytes
    <3>2. Victims(byteStore \cup {held[t]}) \subseteq 1..byteStoreID
      BY <2>2, <3>1, VictimsAreIssued DEF StoreBytes, StoreTypeOK
    <3>3. at' \in [Threads -> StorePlaces]
      BY <2>2 DEF StoreBytes, StoreTypeOK, StorePlaces
    <3> QED
      BY <2>2, <3>1, <3>2, <3>3 DEF StoreBytes, StoreTypeOK
  <2>3. ASSUME NEW t \in Threads, NEW id \in returned, TakeBytes(t, id) PROVE StoreTypeOK'
    <3>1. id \in 1..byteStoreID
      BY DEF StoreTypeOK
    <3>2. at' \in [Threads -> StorePlaces]
      BY <2>3 DEF TakeBytes, StoreTypeOK, StorePlaces
    <3>3. held' \in [Threads -> 0..byteStoreID]
      BY <2>3, <3>1 DEF TakeBytes, StoreTypeOK
    <3>4. \A u \in Threads : at'[u] # "idle" => held'[u] # 0
      BY <2>3, <3>1 DEF TakeBytes, StoreTypeOK
    <3> QED
      BY <2>3, <3>2, <3>3, <3>4 DEF TakeBytes, StoreTypeOK
  <2>4. ASSUME NEW t \in Threads, CopyBytes(t) PROVE StoreTypeOK'
    <3>1. held[t] \in 1..byteStoreID
      BY <2>4, WorkerHasIssuedID DEF CopyBytes
    <3>2. at' \in [Threads -> StorePlaces]
      BY <2>4 DEF CopyBytes, StoreTypeOK, StorePlaces
    <3> QED
      BY <2>4, <3>1, <3>2 DEF CopyBytes, StoreTypeOK
  <2>5. ASSUME NEW t \in Threads, WipeBytes(t) PROVE StoreTypeOK'
    <3>1. held[t] \in 1..byteStoreID
      BY <2>5, WorkerHasIssuedID DEF WipeBytes
    <3>2. at' \in [Threads -> StorePlaces]
      BY <2>5 DEF WipeBytes, StoreTypeOK, StorePlaces
    <3> QED
      BY <2>5, <3>1, <3>2 DEF WipeBytes, StoreTypeOK
  <2>6. CASE UNCHANGED storeVars
    BY <2>6 DEF storeVars, StoreTypeOK
  <2> QED
    BY <2>1, <2>2, <2>3, <2>4, <2>5, <2>6 DEF StoreNext
<1> QED
  BY <1>1, <1>2, PTL DEF StoreSpec

-----------------------------------------------------------------------------
\* Each result is in one place at a time (so it reaches Dart at most once), and
\* buffers are wiped when, and only when, they are done with.
THEOREM ResultsAccountedFor == StoreSpec => [](OnePlace /\ WipeDiscipline)
<1> DEFINE Inv == OnePlace /\ WipeDiscipline
<1>1. StoreInit => Inv
  BY DEF StoreInit, OnePlace, OneWorker, CarriedIsNowhereElse, PlacesDisjoint, NoneLost,
         WiperHasCopied, WipeDiscipline, NothingLingers, WipedOnlyAfterUse
<1>2. StoreTypeOK /\ Inv /\ [StoreNext]_storeVars => Inv'
  <2> SUFFICES ASSUME StoreTypeOK, OnePlace, WipeDiscipline, [StoreNext]_storeVars PROVE Inv'
    OBVIOUS
  <2> USE DEF OnePlace, OneWorker, CarriedIsNowhereElse, PlacesDisjoint, NoneLost,
              WiperHasCopied, WipeDiscipline, NothingLingers, WipedOnlyAfterUse,
              HeldAt, Working
  <2>1. ASSUME NEW t \in Threads, AllocID(t) PROVE Inv'
    <3>1. /\ byteStoreID' = byteStoreID + 1 /\ byteStoreID \in Nat
          /\ held' = [held EXCEPT ![t] = byteStoreID + 1]
          /\ at' = [at EXCEPT ![t] = "storing"] /\ at[t] = "idle"
          /\ UNCHANGED <<byteStore, zeroed, returned, handedOff, evicted>>
      BY <2>1 DEF AllocID, NewID, StoreTypeOK
    <3>2. byteStoreID + 1 \notin byteStore \cup handedOff \cup evicted
      BY <3>1 DEF StoreTypeOK
    <3>3. \A u \in Threads : held[u] # byteStoreID + 1
      BY <3>1 DEF StoreTypeOK
    <3>4. held \in [Threads -> 0..byteStoreID] /\ at \in [Threads -> StorePlaces]
      BY DEF StoreTypeOK
    <3>5. OneWorker' /\ CarriedIsNowhereElse' /\ PlacesDisjoint' /\ WiperHasCopied'
      BY <3>1, <3>2, <3>3, <3>4
    <3>6. NoneLost'
      BY <3>1, <3>4
    <3>7. WipeDiscipline'
      BY <3>1, <3>4
    <3> QED
      BY <3>5, <3>6, <3>7
  <2>2. ASSUME NEW t \in Threads, StoreBytes(t) PROVE Inv'
    <3> DEFINE entries == byteStore \cup {held[t]}
               out == Victims(entries)
    <3>1. /\ at[t] = "storing" /\ at' = [at EXCEPT ![t] = "idle"]
          /\ byteStore' = entries \ out
          /\ zeroed' = zeroed \cup out /\ evicted' = evicted \cup out
          /\ UNCHANGED <<byteStoreID, handedOff, held>>
      BY <2>2 DEF StoreBytes
    <3>2. out \subseteq entries
      BY <3>1, VictimsAreIssued
    <3>3. held \in [Threads -> 0..byteStoreID] /\ at \in [Threads -> StorePlaces]
      BY DEF StoreTypeOK
    <3> HIDE DEF out
    <3>4. OneWorker' /\ CarriedIsNowhereElse' /\ PlacesDisjoint' /\ WiperHasCopied'
      BY <3>1, <3>2, <3>3
    <3>5. NoneLost'
      BY <3>1, <3>2, <3>3
    <3>6. WipeDiscipline'
      BY <3>1, <3>2, <3>3
    <3> QED
      BY <3>4, <3>5, <3>6
  <2>3. ASSUME NEW t \in Threads, NEW id \in returned, TakeBytes(t, id) PROVE Inv'
    <3>1. held \in [Threads -> 0..byteStoreID] /\ at \in [Threads -> StorePlaces]
      BY DEF StoreTypeOK
    <3>2. \A u \in Threads : at[u] # "idle" => held[u] # id
      BY <2>3, <3>1 DEF TakeBytes, StorePlaces
    <3>3. OneWorker' /\ CarriedIsNowhereElse' /\ PlacesDisjoint' /\ WiperHasCopied'
      BY <2>3, <3>1, <3>2 DEF TakeBytes
    <3>4. NoneLost'
      BY <2>3, <3>1, <3>2 DEF TakeBytes
    <3>5. WipeDiscipline'
      BY <2>3, <3>1, <3>2 DEF TakeBytes
    <3> QED
      BY <3>3, <3>4, <3>5
  <2>4. ASSUME NEW t \in Threads, CopyBytes(t) PROVE Inv'
    <3>1. held \in [Threads -> 0..byteStoreID] /\ at \in [Threads -> StorePlaces]
      BY DEF StoreTypeOK
    <3>2. OneWorker' /\ CarriedIsNowhereElse' /\ PlacesDisjoint' /\ WiperHasCopied'
      BY <2>4, <3>1 DEF CopyBytes
    <3>3. NoneLost'
      BY <2>4, <3>1 DEF CopyBytes
    <3>4. WipeDiscipline'
      BY <2>4, <3>1 DEF CopyBytes
    <3> QED
      BY <3>2, <3>3, <3>4
  <2>5. ASSUME NEW t \in Threads, WipeBytes(t) PROVE Inv'
    <3>1. held \in [Threads -> 0..byteStoreID] /\ at \in [Threads -> StorePlaces]
      BY DEF StoreTypeOK
    <3>2. OneWorker' /\ CarriedIsNowhereElse' /\ PlacesDisjoint' /\ WiperHasCopied'
      BY <2>5, <3>1 DEF WipeBytes
    <3>3. NoneLost'
      BY <2>5, <3>1 DEF WipeBytes
    <3>4. WipeDiscipline'
      BY <2>5, <3>1 DEF WipeBytes
    <3> QED
      BY <3>2, <3>3, <3>4
  <2>6. CASE UNCHANGED storeVars
    BY <2>6 DEF storeVars
  <2> QED
    BY <2>1, <2>2, <2>3, <2>4, <2>5, <2>6 DEF StoreNext
<1> QED
  BY <1>1, <1>2, StoreTypeCorrect, PTL DEF StoreSpec

-----------------------------------------------------------------------------
\* The bytes of a result are read for Dart before anything wipes them.
THEOREM DeliveryIsIntact == StoreSpec => DeliveredIntact
<1> DEFINE Delivers == \A id \in handedOff' \ handedOff : id \notin zeroed
<1>1. OnePlace /\ WipeDiscipline /\ [StoreNext]_storeVars => [Delivers]_storeVars
  <2> SUFFICES ASSUME OnePlace, WipeDiscipline, StoreNext PROVE Delivers
    OBVIOUS
  <2>1. ASSUME NEW t \in Threads, CopyBytes(t) PROVE Delivers
    <3>1. held[t] \notin handedOff \cup evicted
      BY <2>1 DEF CopyBytes, OnePlace, CarriedIsNowhereElse
    <3>2. held[t] \notin zeroed
      BY <3>1 DEF WipeDiscipline, WipedOnlyAfterUse
    <3> QED
      BY <2>1, <3>2 DEF CopyBytes
  <2>2. ASSUME NEW t \in Threads,
               AllocID(t) \/ StoreBytes(t) \/ WipeBytes(t)
                  \/ \E id \in returned : TakeBytes(t, id)
        PROVE  Delivers
    BY <2>2 DEF AllocID, StoreBytes, WipeBytes, TakeBytes
  <2> QED
    BY <2>1, <2>2 DEF StoreNext
<1> QED
  BY <1>1, ResultsAccountedFor, PTL DEF StoreSpec, DeliveredIntact

-----------------------------------------------------------------------------
\* The map of issued ids is finite: what Cardinality needs to mean anything.
LEMMA EntriesAreFinite ==
    ASSUME StoreTypeOK
    PROVE  /\ IsFiniteSet(byteStore)
           /\ Cardinality(byteStore) \in Nat
<1>1. byteStoreID \in Int /\ byteStore \in SUBSET (1..byteStoreID)
  BY DEF StoreTypeOK
<1>2. IsFiniteSet(1..byteStoreID)
  BY <1>1, FS_Interval
<1> QED
  BY <1>1, <1>2, FS_Subset, FS_CardinalityType

\* The map keeps within its cap, for any cap.
THEOREM CapHolds == StoreSpec => []Bounded
<1>1. StoreInit => Bounded
  BY FS_EmptySet, CapAssumption DEF StoreInit, Bounded
<1>2. StoreTypeOK /\ Bounded /\ [StoreNext]_storeVars => Bounded'
  <2> SUFFICES ASSUME StoreTypeOK, Bounded, [StoreNext]_storeVars PROVE Bounded'
    OBVIOUS
  <2>1. ASSUME NEW t \in Threads, StoreBytes(t) PROVE Bounded'
    <3> DEFINE entries == byteStore \cup {held[t]}
    <3>1. byteStore' = entries \ Victims(entries)
      BY <2>1 DEF StoreBytes
    <3>2. /\ IsFiniteSet(entries) /\ Cardinality(entries) \in Nat
          /\ Cardinality(entries) <= maxByteStoreEntries + 1
      <4>1. IsFiniteSet(byteStore) /\ Cardinality(byteStore) \in Nat
        BY EntriesAreFinite
      <4>2. /\ IsFiniteSet(entries)
            /\ \/ Cardinality(entries) = Cardinality(byteStore)
               \/ Cardinality(entries) = Cardinality(byteStore) + 1
        BY <4>1, FS_AddElement
      <4> HIDE DEF entries
      <4>3. Cardinality(byteStore) <= maxByteStoreEntries /\ maxByteStoreEntries \in Nat
        BY CapAssumption DEF Bounded
      <4> QED
        BY <4>1, <4>2, <4>3
    <3>3. entries \in SUBSET Nat /\ entries # {}
      <4>1. held[t] \in 1..byteStoreID
        BY <2>1, WorkerHasIssuedID DEF StoreBytes
      <4>2. held[t] \in Nat
        BY <4>1
      <4>3. byteStore \subseteq Nat
        BY DEF StoreTypeOK
      <4> QED
        BY <4>2, <4>3
    <3> HIDE DEF entries
    <3>4. CASE OverCap(entries)
      <4>1. Victims(entries) = {Min(entries)} /\ Min(entries) \in entries
        BY <3>3, <3>4, OldestExists DEF Victims, OldestEntry
      <4>2. Cardinality(entries \ {Min(entries)}) = Cardinality(entries) - 1
        BY <3>2, <4>1, FS_RemoveElement
      <4> QED
        BY <3>1, <3>2, <4>1, <4>2, CapAssumption DEF Bounded
    <3>5. CASE ~OverCap(entries)
      <4>1. byteStore' = entries
        BY <3>1, <3>5 DEF Victims
      <4> QED
        BY <3>2, <3>5, <4>1, CapAssumption DEF OverCap, Bounded
    <3> QED
      BY <3>4, <3>5
  <2>2. ASSUME NEW t \in Threads, NEW id \in returned, TakeBytes(t, id) PROVE Bounded'
    <3>1. Cardinality(byteStore \ {id}) <= Cardinality(byteStore)
      <4>1. IsFiniteSet(byteStore) /\ Cardinality(byteStore) \in Nat
        BY EntriesAreFinite
      <4>2. Cardinality(byteStore \ {id}) =
              IF id \in byteStore THEN Cardinality(byteStore) - 1 ELSE Cardinality(byteStore)
        BY <4>1, FS_RemoveElement
      <4> QED
        BY <4>1, <4>2
    <3>2. Cardinality(byteStore \ {id}) \in Nat
      BY EntriesAreFinite, FS_RemoveElement, FS_CardinalityType
    <3> QED
      BY <2>2, <3>1, <3>2, EntriesAreFinite, CapAssumption DEF TakeBytes, Bounded
  <2>3. ASSUME UNCHANGED byteStore PROVE Bounded'
    BY <2>3 DEF Bounded
  <2> QED
    BY <2>1, <2>2, <2>3 DEF StoreNext, storeVars, AllocID, CopyBytes, WipeBytes
<1> QED
  BY <1>1, <1>2, StoreTypeCorrect, PTL DEF StoreSpec

-----------------------------------------------------------------------------
\* A caller that fetches before maxByteStoreEntries younger results were issued
\* finds its entry, however calls overtake each other between the counter and
\* the lock.  The entries an evicting insertion sees all lie between the
\* smallest one and the last id issued, and there are more of them than the cap.
THEOREM EvictionSparesRecentIDs == StoreSpec => EvictionIsLate
<1> DEFINE Late == \A id \in evicted' \ evicted :
                       byteStoreID >= id + maxByteStoreEntries
<1>1. StoreTypeOK /\ [StoreNext]_storeVars => [Late]_storeVars
  <2> SUFFICES ASSUME StoreTypeOK, StoreNext PROVE Late
    OBVIOUS
  <2>1. ASSUME NEW t \in Threads, StoreBytes(t) PROVE Late
    <3> SUFFICES ASSUME NEW id \in evicted' \ evicted
                 PROVE  byteStoreID >= id + maxByteStoreEntries
      OBVIOUS
    <3> DEFINE entries == byteStore \cup {held[t]}
    <3>1. entries \in SUBSET (1..byteStoreID) /\ entries # {} /\ byteStoreID \in Nat
      <4>1. held[t] \in 1..byteStoreID
        BY <2>1, WorkerHasIssuedID DEF StoreBytes
      <4>2. byteStore \subseteq 1..byteStoreID /\ byteStoreID \in Nat
        BY DEF StoreTypeOK
      <4> QED
        BY <4>1, <4>2
    <3>2. id \in Victims(entries)
      BY <2>1 DEF StoreBytes
    <3> HIDE DEF entries
    <3>3. entries \in SUBSET Nat
      BY <3>1
    <3>4. id \in entries /\ (\A other \in entries : id <= other) /\ OverCap(entries)
      BY <3>1, <3>2, <3>3, VictimsAreOldest
    <3>5. id \in Nat /\ id <= byteStoreID /\ entries \in SUBSET (id..byteStoreID)
      BY <3>1, <3>4
    <3>6. /\ IsFiniteSet(id..byteStoreID)
          /\ Cardinality(id..byteStoreID) = byteStoreID - id + 1
      BY <3>1, <3>5, FS_Interval
    <3>7. Cardinality(entries) <= byteStoreID - id + 1 /\ Cardinality(entries) \in Nat
      BY <3>5, <3>6, FS_Subset, FS_CardinalityType
    <3> QED
      BY <3>1, <3>4, <3>5, <3>7, CapAssumption DEF OverCap
  <2>2. ASSUME UNCHANGED evicted PROVE Late
    BY <2>2
  <2> QED
    BY <2>1, <2>2 DEF StoreNext, AllocID, TakeBytes, CopyBytes, WipeBytes
<1> QED
  BY <1>1, StoreTypeCorrect, PTL DEF StoreSpec, EvictionIsLate

-----------------------------------------------------------------------------
\* The method panicked or did not get to run although it has results.
Failure == did = Panicked \/ (did = NoResults /\ method.results # <<>>)

\* What is known of a secret at each place: only a secure method has one, and it runs
\* only with its bytes sealed and the Go copy wiped.
Sealing ==
    /\ ~IsSecure(method) => copies = {}
    /\ pc = "decode" => ~IsSecure(method)
    /\ IsSecure(method) /\ (pc \in {"invoke", "encode"} \/ did # NoResults) => secret # "none"

\* What the method has done at each place.
Doing ==
    /\ pc \in {"lookup", "decode", "seal", "invoke"} => did = NoResults
    /\ pc = "encode" => did \in ResultsOf(method)
    /\ pc = "return" /\ Failure => response = Failed("some")

HasRun == did # NoResults /\ did # Panicked

\* A method that has run is answered with what encodeResults makes of its results, unless
\* that panics: then the call never returns.
Responding ==
    HasRun /\ pc # "encode" =>
        /\ did \in ResultsOf(method)
        /\ pc = "return" =>
             response = EncodeResults(method, did) /\ (aborted <=> response = Abort)
        /\ pc = "idle" /\ saw # "nothing" =>
             /\ EncodeResults(method, did) # Abort
             /\ saw = DecodeResponse(method, EncodeResults(method, did))

IInv == TypeOK /\ Sealing /\ Doing /\ Responding /\ NothingReadableLeft /\ FailuresAreThrown

USE DispatchAssumption

-----------------------------------------------------------------------------
\* Results are no failure.
LEMMA ResultsAreNoFailure ==
    ASSUME NEW m \in Methods, NEW vals \in ResultsOf(m)
    PROVE  vals # Panicked /\ (vals = NoResults => m.results = <<>>)
<1>1. vals \in [DOMAIN m.results -> Values] /\ m.results \in Seq(Types)
    BY DEF ResultsOf
<1>2. ASSUME vals = Panicked PROVE FALSE
    <2>1. 1 \in DOMAIN vals /\ vals[1] = "panic"
        BY <1>2 DEF Panicked
    <2> QED
        BY <1>1, <2>1 DEF Values
<1>3. ASSUME vals = NoResults PROVE m.results = <<>>
    <2>1. 1 \notin DOMAIN vals
        BY <1>3 DEF NoResults
    <2>2. 1 \notin DOMAIN m.results
        BY <1>1, <2>1
    <2> QED
        BY <1>1, <2>2
<1> QED
    BY <1>2, <1>3

\* A failed response is an exception for every result type.
LEMMA FailedThrows == \A m : DecodeResponse(m, Failed("some")) = "exception"
BY DEF DecodeResponse, Failed

\* How a value of a plain type is read back.
Arrives(v) ==
    CASE v = "nil" -> "zero"
      [] v = "nan" -> "exception"
      [] v = "huge" -> "clamped"
      [] OTHER -> v

\* A value of a plain type comes out of encoding and decoding as what Arrives says.
LEMMA PlainArrives ==
    ASSUME NEW m, NEW t \in Plain, ResultKind(m) = Kind(t), NEW v \in ValuesOf(t)
    PROVE  DecodeResponse(m, SuccessResponse(Marshal(t, v))) = Arrives(v)
<1> DEFINE json == Marshal(t, v)
<1>1. /\ Kind(t) \in {"string", "number", "bool", "bytes", "slice", "map", "struct"}
      /\ Form(t) = Wanted(Kind(t)) /\ Form(t) \notin {"fails", "panics", "null"}
      /\ t \notin {"chan", "untagged"} /\ v \in {"nil", "zero", "some", "huge", "nan"}
      /\ v = "nil" => Kind(t) # "struct"
    <2>1. CASE t \in {"string", "int"}
        BY <2>1 DEF Kind, Form, Wanted, ValuesOf, Structs
    <2>2. CASE t \in {"uint64", "float"}
        BY <2>2 DEF Kind, Form, Wanted, ValuesOf, Structs
    <2>3. CASE t \in {"bool", "bytes"}
        BY <2>3 DEF Kind, Form, Wanted, ValuesOf, Structs
    <2>4. CASE t \in {"slice", "strmap"}
        BY <2>4 DEF Kind, Form, Wanted, ValuesOf, Structs
    <2>5. CASE t \in {"intmap", "struct"}
        BY <2>5 DEF Kind, Form, Wanted, ValuesOf, Structs
    <2> QED
        BY <2>1, <2>2, <2>3, <2>4, <2>5 DEF Plain
<1>2. CASE v = "nil"
    <2>1. SuccessResponse(json) = Ok(JSON("null", "nil"))
        BY <1>2 DEF Marshal, SuccessResponse, JSON
    <2> QED
        BY <1>1, <1>2, <2>1 DEF DecodeResponse, Ok, FromJSON, JSON, Arrives
<1>3. CASE v = "nan"
    <2>1. SuccessResponse(json) = Failed("some")
        BY <1>3 DEF Marshal, SuccessResponse, JSON
    <2> QED
        BY <1>3, <2>1, FailedThrows DEF Arrives
<1>4. CASE v \in {"zero", "some", "huge"}
    <2>1. SuccessResponse(json) = Ok(JSON(Form(t), v))
        BY <1>1, <1>4 DEF Marshal, SuccessResponse, JSON
    <2> QED
        BY <1>1, <1>4, <2>1 DEF DecodeResponse, Ok, FromJSON, JSON, Arrives
<1> QED
    BY <1>1, <1>2, <1>3, <1>4

\* The only result that is no error gives the wrapper its type.
LEMMA TypedByTheFirst ==
    ASSUME NEW m, NonErrors(m) = {1}
    PROVE  ResultKind(m) = Kind(m.results[1])
<1>1. Max({1}) = 1
    BY DEF Max
<1> QED
    BY <1>1 DEF ResultKind

\* A signature with two results has two positions.
LEMMA TwoPositions == Cardinality({1, 2}) = 2
<1>1. Cardinality({1}) = 1 /\ IsFiniteSet({1})
    BY FS_Singleton
<1>2. 2 \notin {1} /\ {1} \cup {2} = {1, 2}
    OBVIOUS
<1>3. Cardinality({1} \cup {2}) = Cardinality({1}) + 1
    BY <1>1, <1>2, FS_AddElement
<1>4. Cardinality({1, 2}) = 1 + 1
    BY <1>1, <1>2, <1>3, Zenon
<1> QED
    BY <1>4

\* An accepted signature with errors only in the last place has at most two results, and
\* of two results the second is the error.
LEMMA AcceptedShapes ==
    ASSUME NEW m \in Methods, Accepts(m), 
           \A i \in DOMAIN m.results : m.results[i] = "error" => i = Len(m.results)
    PROVE  /\ Len(m.results) \in 0..2
           /\ Len(m.results) = 2 => m.results[1] # "error" /\ m.results[2] = "error"
<1>1. m.results \in Seq(Types) /\ Len(m.results) \in Nat /\ DOMAIN m.results = 1..Len(m.results)
    BY DispatchAssumption, LenProperties
<1>2. IsFiniteSet(NonErrors(m)) /\ Cardinality(NonErrors(m)) \in Nat
    <2>1. IsFiniteSet(1..Len(m.results))
        BY <1>1, FS_Interval
    <2>2. NonErrors(m) \subseteq 1..Len(m.results)
        BY <1>1 DEF NonErrors
    <2> QED
        BY <2>1, <2>2, FS_Subset, FS_CardinalityType
<1>3. Cardinality(NonErrors(m)) <= 1
    BY <1>2 DEF Accepts, ValidStream, ValidReturn
<1>4. ~({1, 2} \subseteq NonErrors(m))
    <2> SUFFICES ASSUME {1, 2} \subseteq NonErrors(m) PROVE FALSE
        OBVIOUS
    <2>1. Cardinality({1, 2}) <= Cardinality(NonErrors(m))
        BY <1>2, FS_Subset
    <2> QED
        BY <1>2, <1>3, <2>1, TwoPositions
<1>5. Len(m.results) >= 3 => {1, 2} \subseteq NonErrors(m)
    <2> SUFFICES ASSUME Len(m.results) >= 3 PROVE {1, 2} \subseteq NonErrors(m)
        OBVIOUS
    <2>1. 1 \in DOMAIN m.results /\ 2 \in DOMAIN m.results
        BY <1>1
    <2>2. 1 # Len(m.results) /\ 2 # Len(m.results)
        BY <1>1
    <2>3. m.results[1] # "error" /\ m.results[2] # "error"
        BY <2>1, <2>2
    <2> QED
        BY <2>1, <2>3 DEF NonErrors
<1>6. Len(m.results) = 2 => 1 \in NonErrors(m) /\ (m.results[2] # "error" => 2 \in NonErrors(m))
    <2> SUFFICES ASSUME Len(m.results) = 2
                 PROVE  1 \in NonErrors(m) /\ (m.results[2] # "error" => 2 \in NonErrors(m))
        OBVIOUS
    <2>1. 1 \in DOMAIN m.results /\ 2 \in DOMAIN m.results /\ m.results[1] # "error"
        BY <1>1
    <2> QED
        BY <2>1 DEF NonErrors
<1>7. Len(m.results) = 2 => m.results[1] # "error" /\ m.results[2] = "error"
    <2>1. 1 \in NonErrors(m) => m.results[1] # "error"
        BY DEF NonErrors
    <2>2. ~(1 \in NonErrors(m) /\ 2 \in NonErrors(m))
        BY <1>4
    <2> QED
        BY <1>6, <2>1, <2>2
<1>8. ~(Len(m.results) >= 3)
    BY <1>4, <1>5
<1>9. Len(m.results) \in Nat
    BY <1>1
<1>10. \A n \in Nat : n >= 3 \/ n \in 0..2
    OBVIOUS
<1>11. Len(m.results) \in 0..2
    BY <1>8, <1>9, <1>10
<1> QED
    BY <1>7, <1>11

\* What a method returned, under the signatures README.md:209 lists, is what the caller
\* gets: the value of a plain type, or the error as an exception.
LEMMA ValuesArrive ==
    ASSUME NEW m \in Methods, Accepts(m), NEW vals \in ResultsOf(m),
           \A i \in DOMAIN m.results : m.results[i] = "error" => i = Len(m.results),
           EncodeResults(m, vals) # Abort
    PROVE  LET errors == {vals[i] : i \in {j \in DOMAIN vals : m.results[j] = "error"}} \ {"nil"}
               saws == DecodeResponse(m, EncodeResults(m, vals))
           IN  /\ errors = {"some"} => saws = "exception"
               /\ errors = {} /\ m.results # <<>> /\ m.results[1] \in Plain => saws = Arrives(vals[1])
<1> DEFINE errors == {vals[i] : i \in {j \in DOMAIN vals : m.results[j] = "error"}} \ {"nil"}
           saws == DecodeResponse(m, EncodeResults(m, vals))
           first == SuccessResponse(Marshal(m.results[1], vals[1]))
<1>1. /\ m.results \in Seq(Types) /\ Len(m.results) \in 0..2
      /\ DOMAIN m.results = 1..Len(m.results)
      /\ Len(m.results) = 2 => m.results[1] # "error" /\ m.results[2] = "error"
    BY AcceptedShapes, LenProperties, DispatchAssumption
<1>2. /\ vals \in [1..Len(m.results) -> Values]
      /\ \A i \in 1..Len(m.results) : vals[i] \in ValuesOf(m.results[i])
    BY <1>1 DEF ResultsOf
<1>3. Len(vals) = Len(m.results) /\ DOMAIN vals = 1..Len(m.results)
    <2>1. vals \in Seq(Values)
        BY <1>1, <1>2
    <2> QED
        BY <1>1, <1>2, <2>1, LenProperties
<1>4. ASSUME NEW v \in ValuesOf("error") PROVE v \in {"nil", "blank", "some"}
    BY <1>4 DEF ValuesOf
<1>5. "error" \notin Plain /\ \A t \in Plain : ~IsErrorType(t)
    BY DEF Plain, IsErrorType
<1>6. CASE Len(m.results) = 0
    <2>1. errors = {} /\ m.results = <<>>
        BY <1>1, <1>3, <1>6, EmptySeq
    <2> QED
        BY <2>1
<1>7. CASE Len(m.results) = 1 /\ m.results[1] = "error"
    <2>1. errors = {vals[1]} \ {"nil"}
        BY <1>3, <1>7
    <2>2. EncodeResults(m, vals) = ErrorOr("error", vals[1], first)
        BY <1>3, <1>7 DEF EncodeResults
    <2>3. vals[1] = "some" => saws = "exception"
        BY <2>2, FailedThrows DEF ErrorOr, IsErrorType
    <2> QED
        BY <1>5, <1>7, <2>1, <2>3
<1>8. CASE Len(m.results) = 1 /\ m.results[1] # "error"
    <2>1. errors = {}
        BY <1>3, <1>8
    <2>2. NonErrors(m) = {1}
        BY <1>1, <1>8 DEF NonErrors
    <2>3. ResultKind(m) = Kind(m.results[1])
        BY <2>2, TypedByTheFirst
    <2>4. m.results[1] \in Plain => EncodeResults(m, vals) = first
        BY <1>3, <1>5, <1>8 DEF EncodeResults, ErrorOr
    <2>5. vals[1] \in ValuesOf(m.results[1])
        BY <1>2, <1>8
    <2>6. m.results[1] \in Plain => saws = Arrives(vals[1])
        BY <2>3, <2>4, <2>5, PlainArrives
    <2> QED
        BY <2>1, <2>6
<1>9. CASE Len(m.results) = 2
    <2>1. errors = {vals[2]} \ {"nil"} /\ vals[2] \in ValuesOf("error")
        BY <1>1, <1>2, <1>3, <1>9
    <2>2. EncodeResults(m, vals) = ErrorOr("error", vals[2], first)
        BY <1>1, <1>3, <1>9 DEF EncodeResults
    <2>3. vals[2] = "some" => saws = "exception"
        BY <2>2, FailedThrows DEF ErrorOr, IsErrorType
    <2>4. vals[2] = "nil" => EncodeResults(m, vals) = first
        BY <2>2 DEF ErrorOr, IsErrorType
    <2>5. NonErrors(m) = {1}
        BY <1>1, <1>9 DEF NonErrors
    <2>6. ResultKind(m) = Kind(m.results[1]) /\ vals[1] \in ValuesOf(m.results[1])
        BY <1>2, <1>9, <2>5, TypedByTheFirst
    <2>7. vals[2] = "nil" /\ m.results[1] \in Plain => saws = Arrives(vals[1])
        BY <2>4, <2>6, PlainArrives
    <2>8. errors = {"some"} => vals[2] = "some"
        BY <2>1
    <2>9. errors = {} => vals[2] = "nil"
        BY <2>1
    <2> QED
        BY <2>3, <2>7, <2>8, <2>9
<1>10. Len(m.results) = 0 \/ Len(m.results) = 1 \/ Len(m.results) = 2
    BY <1>1
<1> QED
    BY <1>6, <1>7, <1>8, <1>9, <1>10

\* Before the first call nothing was done, sealed or answered.
LEMMA InitInv == Init => IInv
<1> SUFFICES ASSUME Init PROVE IInv
    OBVIOUS
<1>1. saw = "nothing" /\ copies = {} /\ pc = "idle" /\ did = NoResults /\ secret = "none"
    BY DEF Init
<1>2. method \in Methods /\ Accepts(method) /\ bound \in BOOLEAN
    BY DEF Init
<1>3. aborted \in BOOLEAN /\ calls \in 0..MaxCalls
    <2>1. aborted = FALSE /\ calls = 0 /\ MaxCalls \in Nat
        BY DEF Init, DispatchAssumption
    <2>2. aborted \in BOOLEAN
        BY <2>1, Zenon
    <2>3. calls \in 0..MaxCalls
        BY <2>1, SMT
    <2> QED
        BY <2>2, <2>3
<1>4. TypeOK
    BY <1>1, <1>2, <1>3 DEF TypeOK, Places
<1> QED
    BY <1>1, <1>4 DEF IInv, Sealing, Doing, Responding, HasRun, NothingReadableLeft,
                      FailuresAreThrown, Answered, Failure

\* A call starts with the history of the one before it forgotten.
LEMMA CallInv ==
    ASSUME IInv, Call \/ CallSecure
    PROVE  IInv'
<1>1. did' = NoResults /\ secret' = "none" /\ UNCHANGED <<method, bound, response, aborted>>
    BY DEF Call, CallSecure
<1>2. TypeOK'
    <2>1. calls' \in 0..MaxCalls
        BY DEF IInv, TypeOK, Call, CallSecure, Ready
    <2>2. copies' \subseteq {"c", "go"} /\ pc' \in Places
        BY DEF IInv, TypeOK, Call, CallSecure, Ready, Places
    <2> QED
        BY <1>1, <2>1, <2>2 DEF IInv, TypeOK
<1>3. Sealing'
    BY <1>1 DEF IInv, Sealing, Call, CallSecure, Ready
<1>4. (pc' = "lookup" /\ saw' = "nothing") \/ (pc' = "idle" /\ saw' = "throws")
    BY DEF Call, CallSecure, Ready
<1>5. Doing' /\ Responding' /\ NothingReadableLeft' /\ FailuresAreThrown'
    BY <1>1, <1>4 DEF Doing, Responding, HasRun, NothingReadableLeft, FailuresAreThrown, Answered
<1> QED
    BY <1>2, <1>3, <1>5 DEF IInv

\* Whatever goes wrong before the method runs becomes a failed response.
LEMMA BeforeInv ==
    ASSUME IInv, Lookup \/ DecodeParams \/ Seal \/ SealEmpty
    PROVE  IInv'
<1>1. /\ pc \in {"lookup", "decode", "seal"} /\ pc' \in {"decode", "seal", "invoke", "return"}
      /\ did = NoResults /\ UNCHANGED <<method, bound, saw, aborted, calls, did>>
    BY DEF Lookup, DecodeParams, Seal, SealEmpty, Untouched, Respond, IInv, Doing
<1>2. TypeOK'
    BY <1>1 DEF IInv, TypeOK, Lookup, DecodeParams, Seal, SealEmpty, copiesAndSecret, Places
<1>3. Sealing'
    BY <1>1 DEF IInv, Sealing, Lookup, DecodeParams, Seal, SealEmpty, copiesAndSecret, Respond
<1>4. pc' = "return" => response' = Failed("some")
    BY DEF Lookup, DecodeParams, Seal, SealEmpty, Respond
<1>5. Doing' /\ Responding' /\ NothingReadableLeft' /\ FailuresAreThrown'
    BY <1>1, <1>4 DEF Doing, Responding, HasRun, NothingReadableLeft, FailuresAreThrown, Answered
<1> QED
    BY <1>2, <1>3, <1>5 DEF IInv

\* The method returns one of its results, or panics and is answered with an error.
LEMMA MethodInv ==
    ASSUME IInv, Returns \/ Panics
    PROVE  IInv'
<1>1. /\ pc = "invoke" /\ pc' \in {"encode", "return"}
      /\ UNCHANGED <<method, bound, saw, aborted, calls, copies>>
    BY DEF Returns, Panics, Untouched, copiesAndSecret, Respond
<1>2. TypeOK'
    BY <1>1 DEF IInv, TypeOK, Returns, Panics, copiesAndSecret, Places
<1>3. Sealing'
    BY <1>1 DEF IInv, Sealing, TypeOK, Returns, Panics, copiesAndSecret
<1>4. Doing'
    <2>1. CASE Returns
        BY <1>1, <2>1 DEF Returns, Doing, ResultsOf
    <2>2. CASE Panics
        BY <1>1, <2>2 DEF Panics, Respond, Doing
    <2> QED
        BY <2>1, <2>2
<1>5. NothingReadableLeft' /\ FailuresAreThrown'
    BY <1>1 DEF NothingReadableLeft, FailuresAreThrown, Answered
<1>6. Responding'
    BY <1>1 DEF Responding, HasRun, Returns, Panics, Respond
<1> QED
    BY <1>2, <1>3, <1>4, <1>5, <1>6 DEF IInv

\* encodeResults makes the response of the results, or aborts.
LEMMA EncodeInv ==
    ASSUME IInv, Encode
    PROVE  IInv'
<1>1. /\ pc = "encode" /\ pc' = "return" /\ aborted' \in BOOLEAN
      /\ UNCHANGED <<method, bound, saw, calls, did, copies, secret>>
    BY DEF Encode, Respond, copiesAndSecret
<1>2. TypeOK'
    BY <1>1 DEF IInv, TypeOK, Places
<1>3. Sealing'
    BY <1>1 DEF IInv, Sealing
<1>4. ~Failure
    BY <1>1, ResultsAreNoFailure DEF IInv, Doing, TypeOK, Failure
<1>5. Doing' /\ NothingReadableLeft' /\ FailuresAreThrown'
    BY <1>1, <1>4 DEF Doing, Failure, NothingReadableLeft, FailuresAreThrown, Answered
<1>6. Responding'
    <2>1. did \in ResultsOf(method)
        BY <1>1 DEF IInv, Doing
    <2>2. response' = EncodeResults(method, did)
        BY DEF Encode, Respond
    <2>3. aborted' <=> response' = Abort
        BY Zenon DEF Encode
    <2>4. pc' = "return" /\ did' = did /\ method' = method
        BY <1>1
    <2> QED
        BY <2>1, <2>2, <2>3, <2>4 DEF Responding, ResultsOf
<1> QED
    BY <1>2, <1>3, <1>5, <1>6 DEF IInv

\* With the C buffer wiped as well nothing is left of a secret that was sealed.
LEMMA ReturnInv ==
    ASSUME IInv, Return
    PROVE  IInv'
<1>1. /\ pc = "return" /\ pc' = "idle" /\ copies' = copies \ {"c"}
      /\ saw' = DecodeResponse(method, response)
      /\ UNCHANGED <<method, bound, did, response, secret, aborted, calls>>
    BY DEF Return
<1>2. TypeOK'
    BY <1>1 DEF IInv, TypeOK, Places
<1>3. Sealing'
    BY <1>1 DEF IInv, Sealing
<1>4. NothingReadableLeft'
    BY <1>1 DEF IInv, TypeOK, Sealing, NothingReadableLeft
<1>5. Doing' /\ FailuresAreThrown'
    BY <1>1, FailedThrows DEF IInv, Doing, Failure, FailuresAreThrown
<1>6. Responding'
    <2>1. ~aborted
        BY DEF Return
    <2>2. HasRun => did \in ResultsOf(method) /\ response = EncodeResults(method, did)
                    /\ response # Abort
        BY <1>1, <2>1 DEF IInv, Responding
    <2>3. HasRun' => HasRun
        BY <1>1 DEF HasRun
    <2> QED
        BY <1>1, <2>2, <2>3 DEF Responding, ResultsOf
<1> QED
    BY <1>2, <1>3, <1>4, <1>5, <1>6 DEF IInv

\* The invariant is inductive: one lemma per group of steps.
LEMMA NextInv == IInv /\ [Next]_vars => IInv'
<1> SUFFICES ASSUME IInv, [Next]_vars PROVE IInv'
    OBVIOUS
<1>1. CASE Bind \/ UNCHANGED vars
    <2>1. bound' \in BOOLEAN
          /\ UNCHANGED <<method, pc, did, response, saw, copies, secret, aborted, calls>>
        BY <1>1 DEF Bind, vars, copiesAndSecret, IInv, TypeOK
    <2> QED
        BY <2>1 DEF IInv, TypeOK, Sealing, Doing, Failure, Responding, HasRun, ResultsOf,
                    NothingReadableLeft, FailuresAreThrown, Answered
<1>2. CASE Next /\ ~Bind
    BY <1>2, CallInv, BeforeInv, MethodInv, EncodeInv, ReturnInv DEF Next
<1> QED
    BY <1>1, <1>2

\* What is known of each place of a call holds at all times, for every signature.
THEOREM Invariance == Spec => []IInv
BY InitInv, NextInv, PTL DEF Spec

-----------------------------------------------------------------------------
\* TypeOK holds in every run: every variable keeps its shape, and as long as there is a
\* Secret the Go copy of its bytes is wiped.
THEOREM TypeCorrect == Spec => []TypeOK
<1>1. IInv => TypeOK
    BY DEF IInv
<1> QED
    BY <1>1, Invariance, PTL

\* For every signature: a call that comes before Bind, parameters that do not fit, a
\* panic and an empty secret are exceptions in Dart, never values.
THEOREM FailuresThrow == Spec => []FailuresAreThrown
<1>1. IInv => FailuresAreThrown
    BY DEF IInv
<1> QED
    BY <1>1, Invariance, PTL

\* For every signature: a bound secure method that was called leaves no plaintext where
\* the bridge has put it, whatever it did with its Secret.
THEOREM SecretsAreWiped == Spec => []NothingReadableLeft
<1>1. IInv => NothingReadableLeft
    BY DEF IInv
<1> QED
    BY <1>1, Invariance, PTL

\* For every accepted signature of the shape README.md:209 lists: what a method returned is
\* what the Dart caller gets, the value of a plain type or the error as an exception.
THEOREM ReturnedIsReceived == Spec => []ResultsArrive
<1>1. IInv => ResultsArrive
    <2> SUFFICES ASSUME IInv, Ran, ErrorIsLast PROVE ResultsArrive
        BY DEF ResultsArrive
    <2>1. method \in Methods /\ Accepts(method)
        BY DEF IInv, TypeOK
    <2>2. /\ did \in ResultsOf(method) /\ EncodeResults(method, did) # Abort
          /\ saw = DecodeResponse(method, EncodeResults(method, did))
        BY DEF IInv, Responding, HasRun, Ran, Answered
    <2>3. \A i \in DOMAIN method.results :
            method.results[i] = "error" => i = Len(method.results)
        BY DEF ErrorIsLast
    <2> QED
        BY <2>1, <2>2, <2>3, ValuesArrive DEF ResultsArrive, Arrives
<1> QED
    BY <1>1, Invariance, PTL
=============================================================================
