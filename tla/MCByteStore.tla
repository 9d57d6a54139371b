---------------------------- MODULE MCByteStore ----------------------------
(***************************************************************************)
(* Instance of ByteStore for TLC.  With a cap of two and five calls on     *)
(* three threads, evictions happen, a thread can be overtaken by enough    *)
(* others to evict its own result, and two threads can race for one id     *)
(* while a third evicts.  Threads are interchangeable.                     *)
(***************************************************************************)
EXTENDS ByteStore, TLC

ThreadSymmetry == Permutations(Threads)
=============================================================================
