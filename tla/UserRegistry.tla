---------------------------- MODULE UserRegistry ----------------------------
(***************************************************************************)
(* The registry of users, src/libwzd-core/wzd_user.c: the array            *)
(* _user_array, indexed by uid, of pointers to wzd_user_t, of _max_uid + 1 *)
(* entries, guarded by SET_MUTEX_USER; and the threads that call           *)
(* user_register, user_update, user_unregister and user_free_registry.     *)
(*                                                                         *)
(* A user is a pointer (a model value of Users) whose uid field is         *)
(* uidOf[u].  The array is arr over 0..MaxIndex; only 0..maxUid is         *)
(* allocated, and only when allocated is TRUE (_user_array != NULL).       *)
(* Every function whose body runs under the mutex is one action.           *)
(* user_update makes its checks before taking the mutex, so it is two      *)
(* actions.  A memory access the C code makes through NULL or past the end *)
(* of the array stops the model with fault set to what happened.           *)
(*                                                                         *)
(* user_get_list, group_list_users and user_find_free_uid take no lock ("the _user_array    *)
(* can only grow"); each call is one action here.  Its result (listed,  *)
(* found) is kept until the registry next changes, so that it can be      *)
(* compared with the registry it was computed from.                        *)
(*                                                                         *)
(* user_get_by_name walks the array without the lock, re-reading           *)
(* _user_array at each slot: its walk is two actions, and a reallocation   *)
(* or free of the array in between may have been read through (moved).     *)
(* A user's name is the user itself.                                       *)
(***************************************************************************)
EXTENDS Integers, FiniteSets, FiniteSetsExt, TLC

CONSTANTS
  Users,     \* wzd_user_t structures a backend allocates
  Threads,   \* threads calling user_update
  Readers,   \* threads calling user_get_by_name
  Starts,    \* the start arguments of user_find_free_uid
  Uids,      \* the uids the callers pass, a range 0..n
  Grow,      \* the extent the array grows by (256 in the code)
  Gids,      \* the gids of the groups group_get_by_id finds
  Null       \* the NULL pointer

ASSUME RegistryAssumption ==
  /\ Null \notin Users /\ Grow \in Nat \ {0}
  /\ Uids # {} /\ \A n \in Uids : n \in Nat /\ 0..n \subseteq Uids

\* The largest _max_uid a run reaches: a uid below it grows it by Grow.
MaxIndex == CHOOSE n \in Uids : \A m \in Uids : m <= n
Index == 0..(MaxIndex + Grow)

VARIABLES
  arr,         \* arr[i]: _user_array[i]
  maxUid,      \* _max_uid
  allocated,   \* _user_array != NULL
  uidOf,       \* uidOf[u]: u->uid
  registered,  \* the users whose user_register returned their uid, until
               \* they are unregistered or the registry is freed
  upd,         \* upd[t]: the user_update thread t is in, past its checks
  fault,       \* "none", or the invalid access the code has made
  listing,     \* a result of user_get_list is pending
  listed,      \* the uids user_get_list or group_list_users returned
  listGid,     \* the gid group_list_users was called with; -1 for user_get_list
  gidsOf,      \* gidsOf[u]: the gids in u->groups, which its backend set
  found,       \* the uid user_find_free_uid returned, -1 when none pending
  rpc,         \* rpc[r]: "idle", or "scan" inside user_get_by_name's loop
  moved        \* moved[r]: the array was reallocated or freed during r's scan

vars == <<arr, maxUid, allocated, uidOf, registered, upd, fault, listing, listed, listGid,
          found, gidsOf, rpc, moved>>
lookVars == <<rpc, moved, gidsOf>>
readVars == <<listing, listed, listGid, found>>

\* A change to the registry: the results of earlier reads are dropped.
ResetReads == listing' = FALSE /\ listed' = {} /\ listGid' = -1 /\ found' = -1

NoUpdate == [uid |-> -1, newUid |-> -1]

InArray(u) == \E i \in 0..maxUid : arr[i] = u

\* wzd_realloc or wzd_free of the array under a scanning reader.
MoveArray == moved' = [r \in Readers |-> moved[r] \/ rpc[r] = "scan"]

-----------------------------------------------------------------------------
(* Seeded fault.                                                           *)

\* user_update moving a user without clearing its old slot.
MoveKeepOld(a, from, to) == [a EXCEPT ![to] = a[from]]

-----------------------------------------------------------------------------
\* The extent user_register grows the array by for uid >= _max_uid
\* (lines 203-212): up to uid when it is far beyond, Grow otherwise.
GrowSize(uid, max) == IF uid >= max + (Grow - 1) THEN uid - max ELSE Grow

\* The last part of user_update (lines 259-262): the user moves to its new
\* uid and its old slot is cleared.
MoveUser(a, from, to) == [a EXCEPT ![to] = a[from], ![from] = Null]

-----------------------------------------------------------------------------
Init ==
  /\ arr = [i \in Index |-> Null]
  /\ maxUid = 0
  /\ allocated = FALSE
  /\ uidOf = [u \in Users |-> 0]
  /\ registered = {}
  /\ upd = [t \in Threads |-> NoUpdate]
  /\ fault = "none"
  /\ listing = FALSE /\ listed = {} /\ listGid = -1 /\ found = -1
  /\ gidsOf \in [Users -> SUBSET Gids]
  /\ rpc = [r \in Readers |-> "idle"] /\ moved = [r \in Readers |-> FALSE]

Running == fault = "none"

\* user_register(user) (lines 182-229), for a freshly allocated user whose
\* uid a backend has set: grow the array when uid >= _max_uid (clearing
\* from index _max_uid on), then store the user unless the slot is taken.
UserRegister(u, uid) ==
  LET grows == uid >= maxUid
      max2  == IF grows THEN maxUid + GrowSize(uid, maxUid) ELSE maxUid
      arr2  == IF grows THEN [i \in Index |-> IF i >= maxUid THEN Null ELSE arr[i]]
                        ELSE arr
  IN /\ Running /\ ~InArray(u)
     /\ uidOf' = [uidOf EXCEPT ![u] = uid]
     /\ maxUid' = max2 /\ allocated' = TRUE
     /\ IF arr2[uid] = Null
        THEN arr' = [arr2 EXCEPT ![uid] = u] /\ registered' = registered \cup {u}
        ELSE arr' = arr2 /\ UNCHANGED registered
     /\ IF grows THEN MoveArray ELSE UNCHANGED moved
     /\ ResetReads /\ UNCHANGED <<upd, fault, rpc, gidsOf>>

\* user_update(uid, new_user), the checks made before the mutex (lines
\* 241-249).  A read of _user_array[new_uid] past the end of the array is
\* undefined: it may find NULL or not.
UserUpdateCheck(t, uid, newUid) ==
  /\ Running /\ upd[t] = NoUpdate
  /\ uid <= maxUid
  /\ IF ~allocated
     THEN fault' = "null_deref" /\ UNCHANGED upd
     ELSE /\ arr[uid] # Null
          /\ uid # newUid => (newUid > maxUid \/ arr[newUid] = Null)
          /\ upd' = [upd EXCEPT ![t] = [uid |-> uid, newUid |-> newUid]]
          /\ UNCHANGED fault
  /\ UNCHANGED <<arr, maxUid, allocated, uidOf, registered, readVars, lookVars>>

\* user_update under the mutex (lines 251-263): the new data is copied into
\* *_user_array[uid] (its uid field included) and the user moved.
UserUpdateLocked(t) ==
  LET uid == upd[t].uid
      new == upd[t].newUid
  IN /\ Running /\ upd[t] # NoUpdate
     /\ upd' = [upd EXCEPT ![t] = NoUpdate]
     /\ CASE ~allocated \/ (uid <= maxUid /\ arr[uid] = Null) ->
               fault' = "null_deref" /\ UNCHANGED <<arr, uidOf>>
          [] uid > maxUid ->
               fault' = "out_of_bounds_read" /\ UNCHANGED <<arr, uidOf>>
          [] uid # new /\ new > maxUid ->
               fault' = "out_of_bounds_write" /\ UNCHANGED <<arr, uidOf>>
          [] OTHER ->
               /\ uidOf' = [uidOf EXCEPT ![arr[uid]] = new]
               /\ arr' = IF uid # new THEN MoveUser(arr, uid, new) ELSE arr
               /\ UNCHANGED fault
     /\ ResetReads /\ UNCHANGED <<maxUid, allocated, registered, lookVars>>

\* user_unregister(uid) (lines 273-293).
UserUnregister(uid) ==
  /\ Running /\ uid <= maxUid
  /\ IF ~allocated
     THEN fault' = "null_deref" /\ UNCHANGED <<arr, registered>>
     ELSE /\ arr' = [arr EXCEPT ![uid] = Null]
          /\ registered' = registered \ {arr[uid]}
          /\ UNCHANGED fault
  /\ ResetReads /\ UNCHANGED <<maxUid, allocated, uidOf, upd, lookVars>>

\* user_free_registry() (lines 298-311): every user is freed.
UserFreeRegistry ==
  /\ Running
  /\ arr' = [i \in Index |-> Null]
  /\ maxUid' = 0 /\ allocated' = FALSE /\ registered' = {}
  /\ MoveArray
  /\ ResetReads /\ UNCHANGED <<uidOf, upd, fault, rpc, gidsOf>>

\* user_get_list() (lines 348-374): the uids of the users in slots
\* 0.._max_uid-1 of the array.
UserGetList ==
  /\ Running
  /\ listing' = TRUE
  /\ listed' = {uidOf[arr[i]] : i \in {j \in 0..maxUid - 1 : arr[j] # Null}}
  /\ listGid' = -1
  /\ UNCHANGED <<arr, maxUid, allocated, uidOf, registered, upd, fault, found, lookVars>>

\* group_list_users(gid, 0) (lines 416-456), for a gid group_get_by_id
\* finds: the same loop over slots 0.._max_uid-1, keeping the users one of
\* whose groups is gid.  The flag filter is not used (flag 0).
GroupListUsers(gid) ==
  /\ Running
  /\ listing' = TRUE /\ listGid' = gid
  /\ listed' = {uidOf[arr[i]] : i \in {j \in 0..maxUid - 1 : arr[j] # Null /\ gid \in gidsOf[arr[j]]}}
  /\ UNCHANGED <<arr, maxUid, allocated, uidOf, registered, upd, fault, found, lookVars>>

\* user_find_free_uid(start) (lines 378-394): the first uid from start
\* below _max_uid whose slot is NULL; the uid the loop stopped at, which
\* is _max_uid when every slot below it is taken, or start itself when it
\* is not below _max_uid.
UserFindFreeUid(start) ==
  LET free == {i \in start..(maxUid - 1) : arr[i] = Null}
  IN /\ Running
     /\ found' = IF free # {} THEN Min(free) ELSE IF start < maxUid THEN maxUid ELSE start
     /\ UNCHANGED <<arr, maxUid, allocated, uidOf, registered, upd, fault, listing, listed,
                    listGid, lookVars>>

\* user_get_by_name (lines 329-335) up to its loop: NULL when _max_uid is 0.
UserGetByNameStart(r) ==
  /\ Running /\ rpc[r] = "idle"
  /\ maxUid # 0
  /\ rpc' = [rpc EXCEPT ![r] = "scan"]
  /\ UNCHANGED <<arr, maxUid, allocated, uidOf, registered, upd, fault, readVars, moved, gidsOf>>

\* The loop of user_get_by_name (lines 336-343): the first slot up to
\* _max_uid holding the user, or NULL (the result is not kept).  After a
\* reallocation the loop may have loaded the old pointer and read the
\* freed array; after
\* user_free_registry, _max_uid is 0 and slot 0 is read through NULL, or
\* the loop had passed it and returns NULL.
UserGetByNameScan(r) ==
  /\ Running /\ rpc[r] = "scan"
  /\ rpc' = [rpc EXCEPT ![r] = "idle"] /\ moved' = [moved EXCEPT ![r] = FALSE]
  /\ \/ moved[r] /\ allocated /\ fault' = "use_after_free"
     \/ moved[r] /\ ~allocated /\ fault' = "null_read"
     \/ UNCHANGED fault
  /\ UNCHANGED <<arr, maxUid, allocated, uidOf, registered, upd, readVars, gidsOf>>

Next ==
  \/ \E u \in Users, uid \in Uids : UserRegister(u, uid)
  \/ \E t \in Threads, uid, newUid \in Uids : UserUpdateCheck(t, uid, newUid)
  \/ \E t \in Threads : UserUpdateLocked(t)
  \/ \E uid \in Uids : UserUnregister(uid)
  \/ UserFreeRegistry
  \/ UserGetList \/ \E gid \in Gids : GroupListUsers(gid)
  \/ \E start \in Starts : UserFindFreeUid(start)
  \/ \E r \in Readers : UserGetByNameStart(r) \/ UserGetByNameScan(r)

Spec == Init /\ [][Next]_vars

\* Users and update threads are interchangeable: the registry compares
\* pointers and threads only for equality, never orders them.
Symmetry == Permutations(Users) \cup Permutations(Threads)

-----------------------------------------------------------------------------
TypeOK ==
  /\ arr \in [Index -> Users \cup {Null}]
  /\ maxUid \in Index /\ allocated \in BOOLEAN
  /\ uidOf \in [Users -> Uids] /\ registered \subseteq Users
  /\ upd \in [Threads -> [uid : Uids \cup {-1}, newUid : Uids \cup {-1}]]
  /\ fault \in {"none", "null_deref", "out_of_bounds_write", "out_of_bounds_read",
               "use_after_free", "null_read"}
  /\ listed \subseteq Index /\ listGid \in Gids \cup {-1} /\ found \in Index \cup {-1}
  /\ gidsOf \in [Users -> SUBSET Gids]
  /\ rpc \in [Readers -> {"idle", "scan"}] /\ moved \in [Readers -> BOOLEAN]

\* Every user in the array is at the index of its own uid, so
\* user_get_by_id(uid) returns a user whose uid is uid, and no user is in
\* two slots; user_register, user_update and user_unregister, interleaved,
\* keep it.
ArrayConsistent ==
  \A i \in 0..maxUid : arr[i] # Null => uidOf[arr[i]] = i

\* A user whose registration succeeded stays in the array until it is
\* unregistered or the registry freed: growing the array for another uid,
\* or moving another user, never drops it.
RegisteredUserNeverDropped ==
  \A u \in registered : InArray(u)

\* No function of the registry reads or writes through NULL or past the end
\* of _user_array.
NoMemoryFault == fault = "none"

\* user_get_by_name never reads through a freed or NULL _user_array: the
\* comment at line 335 holds that the array "can only grow", so no lock.
UnlockedReadsSafe == fault \notin {"use_after_free", "null_read"}

\* user_get_list returns the uid of every user in the registry, so the
\* backend it serves sees them all; group_list_users(gid) returns every
\* user of the group gid.
ListComplete ==
  listing => listed = {uidOf[arr[i]] : i \in {j \in 0..maxUid : arr[j] # Null
                                               /\ (listGid = -1 \/ listGid \in gidsOf[arr[j]])}}

\* user_find_free_uid returns a uid no user has: registering a user there
\* succeeds.
FreeUidIsFree == found = -1 \/ found > maxUid \/ arr[found] = Null
=============================================================================
