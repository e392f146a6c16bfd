------------------------------ MODULE FlagSet ------------------------------
(***************************************************************************)
(* What a user's flags are, as the comments of user_flags_add,            *)
(* user_flags_delete and user_flags_change (src/libwzd-core/wzd_user.c)    *)
(* describe them: a set of flag characters.  "+s" adds the flags of s,      *)
(* "-s" removes them, a flag string replaces them; "setting SITEOP and     *)
(* GADMIN flags at the same time is BAD", so no change leaves both.  A      *)
(* change that fails leaves the set as it was (a stuttering step).          *)
(***************************************************************************)
CONSTANTS
  FlagChars,   \* the alphanumeric characters a flag can be
  SITEOP,      \* FLAG_SITEOP, 'O'
  GADMIN       \* FLAG_GADMIN, 'G'

VARIABLE fset

Exclusive(s) == ~({SITEOP, GADMIN} \subseteq s)

Init == fset = {}

AddFlags(s) == Exclusive(fset \cup s) /\ fset' = fset \cup s

DeleteFlags(s) == fset' = fset \ s

ReplaceFlags(s) == s # {} /\ Exclusive(s) /\ fset' = s

Next == \E s \in SUBSET FlagChars : AddFlags(s) \/ DeleteFlags(s) \/ ReplaceFlags(s)

Spec == Init /\ [][Next]_fset

\* SITEOP and GADMIN are never held together.
SiteopGadminExclusive == Exclusive(fset)
=============================================================================
