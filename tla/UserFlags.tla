----------------------------- MODULE UserFlags -----------------------------
(***************************************************************************)
(* The flags field of one user, char flags[MAX_FLAGS_NUM] (wzd_structs.h), *)
(* and the functions that change it: user_flags_add, user_flags_delete,    *)
(* user_flags_clear and user_flags_change (src/libwzd-core/wzd_user.c), and *)
(* the "flags" branch of vars_user_set (src/libwzd-core/wzd_vars.c), which  *)
(* copies the string in without them.                                      *)
(*                                                                         *)
(* The field is a function from byte index to character, NUL included; a   *)
(* string argument is a sequence of characters.  The functions are         *)
(* operators that return the new field and the return code; the state     *)
(* machine applies them to the user in any order.  The field is shown to   *)
(* implement the flag set of module FlagSet.                               *)
(***************************************************************************)
EXTENDS Integers, Sequences, SequencesExt

CONSTANTS
  MaxFlagsNum,  \* MAX_FLAGS_NUM, the size of the field
  FlagChars,    \* the characters isalnum() accepts
  InputChars,   \* the characters of the arguments: FlagChars, '+', '-', others
  MaxInput,     \* bound on the length of an argument
  SITEOP,       \* FLAG_SITEOP
  GADMIN,       \* FLAG_GADMIN
  WithVarsSet   \* vars_user_set(..., "flags", ...) is called

ASSUME UserFlagsAssumption ==
  /\ MaxFlagsNum \in Nat \ {0} /\ MaxInput \in Nat
  /\ {SITEOP, GADMIN} \subseteq FlagChars /\ FlagChars \subseteq InputChars
  /\ {"+", "-"} \subseteq InputChars \ FlagChars

NUL == ""
Idx == 0..MaxFlagsNum - 1

\* The arguments a command can pass.
Inputs == UNION {[1..n -> InputChars] : n \in 0..MaxInput}

IsAlnum(c) == c \in FlagChars

\* strlen() of the field: the index of its first NUL.
StrLen(a) ==
  IF \E i \in Idx : a[i] = NUL THEN Min({i \in Idx : a[i] = NUL}) ELSE MaxFlagsNum

\* strchr() on the field, and on an argument.
StrChr(a, c) == \E i \in 0..StrLen(a) - 1 : a[i] = c
InStr(s, c) == \E i \in 1..Len(s) : s[i] = c

\* The flags the field holds: the characters before its NUL.
FlagsOf(a) == {a[i] : i \in 0..StrLen(a) - 1}

\* A field of NUL bytes.
Zeroed == [i \in Idx |-> NUL]

-----------------------------------------------------------------------------
(* Seeded faults.                                                          *)

\* user_flags_clear writing only the first NUL.
UserFlagsClearFirstByte(a) == [a EXCEPT ![0] = NUL]

\* The loop of user_flags_add without its isalnum() test.
AddLoopNoAlnum(a, s, currlen) ==
  LET RECURSIVE Loop(_, _, _)
      Loop(b, k, j) ==
        IF k > Len(s) THEN b
        ELSE IF ~StrChr(b, s[k])
             THEN Loop([b EXCEPT ![currlen + j] = s[k]], k + 1, j + 1)
             ELSE Loop(b, k + 1, j)
  IN Loop(a, 1, 0)

-----------------------------------------------------------------------------
\* user_flags_clear (lines 546-549): memset of the field.
UserFlagsClear(a) == Zeroed

\* The loop of user_flags_add (lines 491-498): each alphanumeric character
\* of the argument not yet in the field is written at currlen + j.
AddLoop(a, s, currlen) ==
  LET RECURSIVE Loop(_, _, _)
      Loop(b, k, j) ==
        IF k > Len(s) THEN b
        ELSE IF IsAlnum(s[k]) /\ ~StrChr(b, s[k])
             THEN Loop([b EXCEPT ![currlen + j] = s[k]], k + 1, j + 1)
             ELSE Loop(b, k + 1, j)
  IN Loop(a, 1, 0)

\* user_flags_add (lines 469-504): -1 on an empty argument; -2 when SITEOP
\* and GADMIN would be held together; -3 when currlen + length does not
\* fit; otherwise the loop, and a NUL written at currlen + length.
UserFlagsAdd(a, s) ==
  LET currlen == StrLen(a)
  IN CASE Len(s) = 0 -> [ret |-> -1, flags |-> a]
       [] \/ StrChr(a, SITEOP) /\ InStr(s, GADMIN)
          \/ StrChr(a, GADMIN) /\ InStr(s, SITEOP)
          \/ InStr(s, SITEOP) /\ InStr(s, GADMIN) -> [ret |-> -2, flags |-> a]
       [] currlen + Len(s) >= MaxFlagsNum -> [ret |-> -3, flags |-> a]
       [] OTHER -> [ret |-> 0,
                    flags |-> [AddLoop(a, s, currlen) EXCEPT ![currlen + Len(s)] = NUL]]

\* user_flags_delete (lines 513-539): -1 on an empty or too long argument;
\* otherwise the characters of the field not in the argument are copied
\* into the zeroed newflags, which strncpy copies back, padding with NUL.
UserFlagsDelete(a, s) ==
  LET kept == SelectSeq([i \in 1..StrLen(a) |-> a[i - 1]], LAMBDA c : ~InStr(s, c))
  IN IF Len(s) = 0 \/ Len(s) >= MaxFlagsNum THEN [ret |-> -1, flags |-> a]
     ELSE [ret |-> 0, flags |-> [i \in Idx |-> IF i < Len(kept) THEN kept[i + 1] ELSE NUL]]

\* user_flags_change (lines 564-603): '+' adds, '-' deletes, an
\* alphanumeric first character replaces (clear, then add), anything else
\* is -1; the return codes of the callee are translated.
UserFlagsChange(a, s) ==
  IF Len(s) = 0 THEN [ret |-> -1, flags |-> a]
  ELSE CASE s[1] = "+" ->
              LET r == UserFlagsAdd(a, Tail(s))
              IN [ret |-> CASE r.ret = -2 -> -5 [] r.ret < 0 -> -2 [] OTHER -> 0,
                  flags |-> r.flags]
         [] s[1] = "-" ->
              LET r == UserFlagsDelete(a, Tail(s))
              IN [ret |-> IF r.ret # 0 THEN -3 ELSE 0, flags |-> r.flags]
         [] IsAlnum(s[1]) ->
              CASE Len(s) >= MaxFlagsNum -> [ret |-> -1, flags |-> a]
                [] InStr(s, SITEOP) /\ InStr(s, GADMIN) -> [ret |-> -5, flags |-> a]
                [] OTHER -> LET r == UserFlagsAdd(UserFlagsClear(a), s)
                            IN [ret |-> IF r.ret # 0 THEN -4 ELSE 0, flags |-> r.flags]
         [] OTHER -> [ret |-> -1, flags |-> a]

\* The "flags" branch of vars_user_set (wzd_vars.c lines 370-373):
\* strncpy(user->flags, data, MAX_FLAGS_NUM-1): the argument, padded with
\* NUL, over all bytes but the last.
VarsUserSetFlagsCopy(a, d) ==
  [i \in Idx |-> CASE i = MaxFlagsNum - 1 -> a[i]
                   [] i < Len(d) -> d[i + 1]
                   [] OTHER -> NUL]

-----------------------------------------------------------------------------
VARIABLES
  flags,   \* user->flags
  ret      \* what the last call returned

vars == <<flags, ret>>

\* user_allocate: user_init_struct zeroes the structure.
Init == flags = Zeroed /\ ret = 0

\* SITE CHANGE flags: user_flags_change with the argument s.
FlagsChange(s) ==
  LET r == UserFlagsChange(flags, s) IN flags' = r.flags /\ ret' = r.ret

\* SITE VARS_USER ... flags d: vars_user_set (lines 333-481) for an
\* existing user; its result, backend_mod_user's, is not followed.
VarsUserSetFlags(d) ==
  /\ WithVarsSet
  /\ flags' = VarsUserSetFlagsCopy(flags, d)
  /\ UNCHANGED ret

Next == \E s \in Inputs : FlagsChange(s) \/ VarsUserSetFlags(s)

Spec == Init /\ [][Next]_vars

-----------------------------------------------------------------------------
\* Every byte after the field's NUL is NUL.  user_flags_add writes its
\* NUL at currlen + length, not currlen + j, and its strchr() reads the
\* field while it is being extended: both are right only while the bytes
\* past the NUL are zero, which every writer of the field must keep.
TailZero == \A i \in Idx : i >= StrLen(flags) => flags[i] = NUL

\* The field implements the flag set of FlagSet: every change adds,
\* removes or replaces flags the way its comment says, and never leaves
\* SITEOP and GADMIN together.
Abs == INSTANCE FlagSet WITH fset <- FlagsOf(flags)
AbsSpec == Abs!Spec

\* SITEOP and GADMIN are never both in the field.
SiteopGadminExclusive == ~(StrChr(flags, SITEOP) /\ StrChr(flags, GADMIN))
=============================================================================
