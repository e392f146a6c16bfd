------------------------------ MODULE ShmVars ------------------------------
(***************************************************************************)
(* The shared variable table of src/libwzd-core/wzd_vars.c: _shm_vars, 32  *)
(* buckets of linked entries (key, data, datalength), indexed by bits 7-11 *)
(* of _str_hash(key); vars_shm_get, vars_shm_set and vars_shm_free, each   *)
(* under SET_MUTEX_SHVARS, called by any thread.                           *)
(*                                                                         *)
(* A key is the sequence of its bytes (values of char, signed on the      *)
(* builds considered: bytes are below 128 here).  _str_hash works modulo    *)
(* 2^32; the bucket index only depends on the hash modulo 2^12, which the   *)
(* model computes.  Data is a sequence of bytes from a small set.  A        *)
(* bucket is a sequence of entries, head first; a thread's var is the     *)
(* position of the entry it looks at in its bucket (0 for NULL).          *)
(***************************************************************************)
EXTENDS Naturals, Sequences, SequencesExt

CONSTANTS
  Threads,    \* the threads calling the table
  Keys,       \* the variable names, as byte sequences
  Datas,      \* the values set, as byte sequences (at least one byte)
  BufLens,    \* the buffer lengths vars_shm_get is called with
  MaxFrees,   \* bound on vars_shm_free calls
  NoThread

ASSUME ShmVarsAssumption ==
  /\ NoThread \notin Threads /\ MaxFrees \in Nat
  /\ \A d \in Datas : Len(d) > 0

Buckets == 0..31

\* _str_hash (lines 644-653), modulo 2^12: h = key[0], then h*31 + c.
StrHash(key) == FoldLeft(LAMBDA h, c : (h * 31 + c) % 4096, 0, key)

\* The bucket of a key: (hash >> 7) & 31 (lines 698, 747).
Index(key) == (StrHash(key) \div 128) % 32

VARIABLES
  shm,      \* shm[b]: _shm_vars[b], a sequence of [key, data, len]
  lock,     \* holder of SET_MUTEX_SHVARS
  pc,       \* pc[t]: "idle", "find" (in vars_shm_find), "done"
  op,       \* op[t]: the call, [kind, key, data, buf]
  var,      \* var[t]: position of vars_shm_find's var in the bucket
  got,      \* got[t]: what vars_shm_get copied into data, or <<>>
  lastSet,  \* lastSet[k]: the data of the last vars_shm_set of k, or <<>>
  frees     \* vars_shm_free calls made

vars == <<shm, lock, pc, op, var, got, lastSet, frees>>

Calls ==
  [kind : {"get"}, key : Keys, data : {<<>>}, buf : BufLens]
    \cup [kind : {"set"}, key : Keys, data : Datas, buf : {0}]

-----------------------------------------------------------------------------
(* Seeded faults.                                                          *)

\* vars_shm_set's shrinking branch without its memcpy.
ModifyNoCopy(e, d) == IF Len(d) < e.len THEN e ELSE [e EXCEPT !.data = d, !.len = Len(d)]

-----------------------------------------------------------------------------
\* The first step of vars_shm_find (lines 699-700): var = _shm_vars[index].
FindStart(b, k) == IF shm[b] = <<>> THEN 0 ELSE 1

\* The modification branch of vars_shm_set (lines 762-770): a shorter value
\* is copied over the start of the old one, whose datalength stays;
\* otherwise the data is reallocated to the new length.
Modify(e, d) ==
  IF Len(d) < e.len
  THEN [e EXCEPT !.data = d \o SubSeq(e.data, Len(d) + 1, e.len)]
  ELSE [e EXCEPT !.data = d, !.len = Len(d)]

\* vars_shm_get after the lookup (lines 712-727): MIN(datalength,
\* var->datalength) bytes copied, 0; or 1 when not found.
GetResult(e, buf) == SubSeq(e.data, 1, IF buf < e.len THEN buf ELSE e.len)

Init ==
  /\ shm = [b \in Buckets |-> <<>>]
  /\ lock = NoThread
  /\ pc = [t \in Threads |-> "idle"]
  /\ op = [t \in Threads |-> CHOOSE c \in Calls : TRUE]
  /\ var = [t \in Threads |-> 0]
  /\ got = [t \in Threads |-> <<>>]
  /\ lastSet = [k \in Keys |-> <<>>]
  /\ frees = 0

\* vars_shm_get or vars_shm_set: WZD_MUTEX_LOCK, then vars_shm_find's
\* hash and first read of the bucket.
Call(t, c) ==
  /\ pc[t] = "idle" /\ lock = NoThread
  /\ lock' = t /\ pc' = [pc EXCEPT ![t] = "find"] /\ op' = [op EXCEPT ![t] = c]
  /\ var' = [var EXCEPT ![t] = FindStart(Index(c.key), c.key)]
  /\ got' = [got EXCEPT ![t] = <<>>]
  /\ UNCHANGED <<shm, lastSet, frees>>

\* One round of vars_shm_find's loop (lines 701-705), and what the caller
\* does with its result, then WZD_MUTEX_UNLOCK.  The loop returns var when
\* its key matches; otherwise it goes round again with the same var, for
\* ever, holding the mutex: the loop has no var = var->next_var, and the
\* step is not enabled.  At NULL, vars_shm_get returns 1 and
\* vars_shm_set inserts a new entry at the head of the bucket (lines
\* 741-760).
FindStep(t) ==
  LET c == op[t]
      b == Index(c.key)
      v == var[t]
  IN /\ pc[t] = "find"
     /\ IF v = 0 THEN TRUE ELSE shm[b][v].key = c.key
     /\ CASE v = 0 /\ c.kind = "set" ->
               shm' = [shm EXCEPT ![b] = <<[key |-> c.key, data |-> c.data,
                                           len |-> Len(c.data)]>> \o @]
          [] v # 0 /\ c.kind = "set" ->
               shm' = [shm EXCEPT ![b][v] = Modify(@, c.data)]
          [] OTHER -> UNCHANGED shm
     /\ got' = IF c.kind = "get" /\ v # 0
               THEN [got EXCEPT ![t] = GetResult(shm[b][v], c.buf)] ELSE got
     /\ lastSet' = IF c.kind = "set" THEN [lastSet EXCEPT ![c.key] = c.data] ELSE lastSet
     /\ pc' = [pc EXCEPT ![t] = "done"] /\ lock' = NoThread
     /\ UNCHANGED <<op, var, frees>>

\* The caller goes on to its next call.
Return(t) ==
  /\ pc[t] = "done"
  /\ pc' = [pc EXCEPT ![t] = "idle"]
  /\ UNCHANGED <<shm, lock, op, var, got, lastSet, frees>>

\* vars_shm_free (lines 662-685): under the mutex, every bucket emptied.
ShmFree(t) ==
  /\ pc[t] = "idle" /\ lock = NoThread /\ frees < MaxFrees
  /\ shm' = [b \in Buckets |-> <<>>] /\ lastSet' = [k \in Keys |-> <<>>]
  /\ frees' = frees + 1
  /\ UNCHANGED <<lock, pc, op, var, got>>

Next ==
  \E t \in Threads :
    \/ \E c \in Calls : Call(t, c)
    \/ FindStep(t) \/ Return(t) \/ ShmFree(t)

\* A thread holding the mutex runs; a thread returns to its caller.
Spec == Init /\ [][Next]_vars
        /\ \A t \in Threads : WF_vars(FindStep(t)) /\ WF_vars(Return(t))

-----------------------------------------------------------------------------
\* What vars_shm_get copies out starts with the value of the last
\* vars_shm_set of that name that returned before it, up to the caller's
\* buffer.
GetSeesSet ==
  [][\A t \in Threads :
       pc[t] = "find" /\ pc'[t] = "done" /\ op[t].kind = "get" /\ got'[t] # <<>> =>
         LET last == lastSet[op[t].key]
             n == IF op[t].buf < Len(last) THEN op[t].buf ELSE Len(last)
         IN SubSeq(got'[t], 1, n) = SubSeq(last, 1, n)]_vars

\* Every call of vars_shm_get and vars_shm_set returns, whatever names
\* the table already holds.
CallsReturn == \A t \in Threads : pc[t] = "find" ~> pc[t] = "done"
-----------------------------------------------------------------------------
(* The values the runs give the constants: two threads; "ab" and "aA"    *)
(* share bucket 24, "zz" is alone in bucket 30.                          *)

MCKeys == {<<97, 98>>, <<97, 65>>, <<122, 122>>}
MCDatas == {<<1>>, <<2, 2>>}
MCBufLens == {1, 2}
=============================================================================
