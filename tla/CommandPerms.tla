---------------------------- MODULE CommandPerms ----------------------------
(***************************************************************************)
(* The permission lists of the command table, src/libwzd-core/            *)
(* wzd_commands.c: commands_set_permission, commands_add_permission,       *)
(* commands_delete_permission and commands_check_permission, called by     *)
(* sessions (SITE commands changing permissions, every command checking    *)
(* them) with no lock around any of them.                                  *)
(*                                                                         *)
(* command->perms is a linked list of rules; perms[s] is its content and   *)
(* head[s] the identity of its first cell (0 for NULL), so that a list     *)
(* that is freed while a reader still holds it can be told apart from a    *)
(* new one.  perm_add_perm (not in src/) parses a permission line word by  *)
(* word and appends each rule to the list it is given; a word that is not *)
(* a valid rule (Bad) makes it fail.  Each append is a step, since another *)
(* thread can run between them.                                            *)
(*                                                                         *)
(* The command table itself (a CHTBL of src/libwzd-base/hash.c, with no    *)
(* lock either) maps a name to a command structure, and command->perms is  *)
(* a field of the structure: a structure is <<c, k>>, the k-th allocated   *)
(* for name c, and gen[c] is the k the table holds for c, 0 when none.     *)
(* commands_add and commands_add_external (which replaces a command by     *)
(* removing it and inserting a new one, two steps) change the table.       *)
(* chtbl_remove frees the table's entry only, never the structure: a       *)
(* replaced structure is leaked, and a thread that found it before goes on *)
(* using it.                                                               *)
(***************************************************************************)
EXTENDS Naturals, Sequences, TLC

CONSTANTS
  Commands,    \* the commands whose permissions are changed
  Rules,       \* permission rules (allow/deny of a user, group or flag)
  Bad,         \* a word of a permission line that is not a rule
  Lines,       \* permission lines, as the sequences of their words
  InitPerms,   \* InitPerms[c]: the rules of c read from the configuration
  Writers,     \* threads changing permissions
  Readers,     \* threads checking permissions
  MaxCells,    \* bound on list allocations
  MaxRules,    \* bound on the length of a list
  MaxStructs   \* bound on command structures allocated

ASSUME PermsAssumption ==
  /\ Bad \notin Rules /\ Lines \subseteq Seq(Rules \cup {Bad})
  /\ InitPerms \in [Commands -> Seq(Rules)] /\ MaxCells \in Nat

\* The command structures: <<c, k>>, and NoStruct for a NULL pointer.
Structs == Commands \X (1..MaxStructs)
NoStruct == <<CHOOSE x \in Commands : TRUE, 0>>

VARIABLES
  perms,      \* perms[s]: the rules of s->perms
  head,       \* head[s]: the first cell of s->perms, 0 for NULL
  cells,      \* the number of cells allocated so far
  freed,      \* the cells perm_free_recursive has freed
  stable,     \* stable[s]: the list the last finished update left in perms[s]
  wpc,        \* wpc[w]: "idle", "take", "set", "add" or "ext"
  wS, wOld, wOldHead, wRest,  \* writer's command structure, old_perms,
                              \* and the words left to parse
  wName,      \* the name commands_add_external is replacing
  rpc,        \* rpc[r]: "idle" or "walking"
  rSeen, rHead, rStable,  \* the list and first cell the reader walks,
                          \* and stable[] of its command when it started
  fault,      \* "none" or "use_after_free"
  gen,        \* gen[c]: the structure the table maps c to, 0 for none
  structs,    \* command structures allocated so far
  missed      \* a lookup found no command for a name the table had

vars == <<perms, head, cells, freed, stable, wpc, wS, wOld, wOldHead, wRest,
          wName, rpc, rSeen, rHead, rStable, fault, gen, structs, missed>>
readVars == <<rpc, rSeen, rHead, rStable>>
tableVars == <<gen, structs, missed>>

Running == fault = "none"

\* Seeded fault: perm_free_recursive without its NULL test.
FreeNoNullCheck(h) == freed \cup {h}

\* perm_free_recursive(list with first cell h): nothing for NULL.
Free(h) == IF h = 0 THEN freed ELSE freed \cup {h}

-----------------------------------------------------------------------------
\* chtbl_lookup (hash.c lines 166-184): the table has an entry for c.
ChtblLookup(c) == gen[c] # 0

\* commands_find (lines 331-342): the structure for c, NULL if none.
CommandsFind(c) == IF gen[c] # 0 THEN <<c, gen[c]>> ELSE NoStruct

\* chtbl_insert (hash.c lines 111-137): fails when c is already present.
ChtblInsert(c, k) == IF gen[c] = 0 THEN [gen EXCEPT ![c] = k] ELSE gen

\* chtbl_remove (hash.c lines 139-164): the entry is unlinked and freed;
\* the structure it pointed to is not.
ChtblRemove(c) == [gen EXCEPT ![c] = 0]

\* commands_set_permission when perm_add_perm fails (lines 370-373): the
\* list built so far is freed and old_perms put back.
SetFailRestore(w) ==
  /\ freed' = Free(head[wS[w]])
  /\ perms' = [perms EXCEPT ![wS[w]] = wOld[w]]
  /\ head' = [head EXCEPT ![wS[w]] = wOldHead[w]]

Init ==
  /\ perms = [s \in Structs |-> IF s[2] = 1 THEN InitPerms[s[1]] ELSE <<>>]
  /\ head = [s \in Structs |-> IF s[2] = 1 /\ InitPerms[s[1]] # <<>> THEN 1 ELSE 0]
  /\ cells = 1 /\ freed = {}
  /\ stable = perms
  /\ wpc = [w \in Writers |-> "idle"] /\ wS = [w \in Writers |-> NoStruct]
  /\ wOld = [w \in Writers |-> <<>>] /\ wOldHead = [w \in Writers |-> 0]
  /\ wRest = [w \in Writers |-> <<>>] /\ wName = [w \in Writers |-> NoStruct[1]]
  /\ rpc = [r \in Readers |-> "idle"]
  /\ rSeen = [r \in Readers |-> <<>>] /\ rHead = [r \in Readers |-> 0]
  /\ rStable = [r \in Readers |-> <<>>]
  /\ fault = "none"
  \* commands_init and commands_add_defaults (not modelled) have put the
  \* first structure of every command in the table.
  /\ gen = [c \in Commands |-> 1] /\ structs = 1
  /\ missed = FALSE

\* commands_set_permission up to old_perms = command->perms (lines
\* 354-364): the command is found, and its list taken.
SetPermissionTake(w, c, line) ==
  LET s == CommandsFind(c) IN
  /\ Running /\ wpc[w] = "idle" /\ ChtblLookup(c)
  /\ wpc' = [wpc EXCEPT ![w] = "take"] /\ wS' = [wS EXCEPT ![w] = s]
  /\ wOld' = [wOld EXCEPT ![w] = perms[s]]
  /\ wOldHead' = [wOldHead EXCEPT ![w] = head[s]]
  /\ wRest' = [wRest EXCEPT ![w] = line]
  /\ UNCHANGED <<perms, head, cells, freed, stable, wName, readVars, fault, tableVars>>

\* command->perms = NULL (line 365), before perm_add_perm.
SetPermissionClear(w) ==
  /\ Running /\ wpc[w] = "take"
  /\ wpc' = [wpc EXCEPT ![w] = "set"]
  /\ perms' = [perms EXCEPT ![wS[w]] = <<>>] /\ head' = [head EXCEPT ![wS[w]] = 0]
  /\ UNCHANGED <<cells, freed, stable, wS, wOld, wOldHead, wRest, wName, readVars,
                 fault, tableVars>>

\* commands_add_permission (lines 387-397): perm_add_perm on the list in
\* place.
AddPermissionStart(w, c, line) ==
  /\ Running /\ wpc[w] = "idle" /\ ChtblLookup(c)
  /\ wpc' = [wpc EXCEPT ![w] = "add"] /\ wS' = [wS EXCEPT ![w] = CommandsFind(c)]
  /\ wRest' = [wRest EXCEPT ![w] = line]
  /\ UNCHANGED <<perms, head, cells, freed, stable, wOld, wOldHead, wName, readVars,
                 fault, tableVars>>

\* perm_add_perm appends one parsed rule to the writer's command->perms;
\* the first append to a NULL list allocates its first cell.  The
\* structure may have been removed from the table meanwhile: the rule
\* goes into it all the same.
AppendRule(w) ==
  LET s == wS[w] IN
  /\ Running /\ wpc[w] \in {"set", "add"}
  /\ wRest[w] # <<>> /\ Head(wRest[w]) # Bad
  /\ head[s] = 0 => cells < MaxCells
  /\ Len(perms[s]) < MaxRules
  /\ perms' = [perms EXCEPT ![s] = Append(@, Head(wRest[w]))]
  /\ IF head[s] = 0 THEN head' = [head EXCEPT ![s] = cells + 1] /\ cells' = cells + 1
                    ELSE UNCHANGED <<head, cells>>
  /\ wRest' = [wRest EXCEPT ![w] = Tail(@)]
  /\ UNCHANGED <<freed, stable, wpc, wS, wOld, wOldHead, wName, readVars, fault,
                 tableVars>>

\* The end of perm_add_perm: every word parsed, or a bad one met.  For
\* commands_set_permission (lines 367-374): on success old_perms is freed,
\* on failure the new list is freed and old_perms restored.
WriteEnd(w) ==
  LET ok == wRest[w] = <<>>
      s == wS[w]
  IN /\ Running /\ wpc[w] \in {"set", "add"}
     /\ ok \/ (wRest[w] # <<>> /\ Head(wRest[w]) = Bad)
     /\ IF wpc[w] = "set" /\ ~ok
        THEN SetFailRestore(w)
        ELSE /\ freed' = IF wpc[w] = "set" THEN Free(wOldHead[w]) ELSE freed
             /\ UNCHANGED <<perms, head>>
     /\ stable' = [stable EXCEPT ![s] = perms'[s]]
     /\ wpc' = [wpc EXCEPT ![w] = "idle"]
     /\ UNCHANGED <<cells, wS, wOld, wOldHead, wRest, wName, readVars, fault, tableVars>>

\* commands_delete_permission (lines 422-433): free, then set NULL.
DeletePermission(w, c) ==
  LET s == CommandsFind(c) IN
  /\ Running /\ wpc[w] = "idle" /\ ChtblLookup(c)
  /\ freed' = Free(head[s])
  /\ perms' = [perms EXCEPT ![s] = <<>>] /\ head' = [head EXCEPT ![s] = 0]
  /\ stable' = [stable EXCEPT ![s] = <<>>]
  /\ UNCHANGED <<cells, wpc, wS, wOld, wOldHead, wRest, wName, readVars, fault,
                 tableVars>>

\* The session finds the command it received (commands_find) and, when
\* there is one, commands_check_permission (lines 407-412):
\* perm_check_perm starts walking command->perms ...  A name the table
\* does not have is answered as an unknown command.
CheckStart(r, c) ==
  LET s == CommandsFind(c) IN
  /\ Running /\ rpc[r] = "idle"
  /\ IF ~ChtblLookup(c)
     THEN missed' = TRUE /\ UNCHANGED readVars
     ELSE /\ rpc' = [rpc EXCEPT ![r] = "walking"]
          /\ rSeen' = [rSeen EXCEPT ![r] = perms[s]]
          /\ rHead' = [rHead EXCEPT ![r] = head[s]]
          /\ rStable' = [rStable EXCEPT ![r] = stable[s]]
          /\ UNCHANGED missed
  /\ UNCHANGED <<perms, head, cells, freed, stable, wpc, wS, wOld, wOldHead, wRest,
                 wName, fault, gen, structs>>

\* ... and reads its cells to the end: reading a freed cell is a fault.
CheckEnd(r) ==
  /\ Running /\ rpc[r] = "walking"
  /\ rpc' = [rpc EXCEPT ![r] = "idle"]
  /\ fault' = IF rHead[r] \in freed THEN "use_after_free" ELSE "none"
  /\ UNCHANGED <<perms, head, cells, freed, stable, wpc, wS, wOld, wOldHead, wRest,
                 wName, rSeen, rHead, rStable, tableVars>>

\* commands_add (lines 106-141): a new native command, with no
\* permissions, when the table has none of that name; nothing otherwise.
CommandsAdd(w, c) ==
  /\ Running /\ wpc[w] = "idle" /\ ~ChtblLookup(c) /\ structs < MaxStructs
  /\ gen' = ChtblInsert(c, structs + 1) /\ structs' = structs + 1
  /\ UNCHANGED <<perms, head, cells, freed, stable, wpc, wS, wOld, wOldHead, wRest,
                 wName, readVars, fault, missed>>

\* commands_add_external (lines 153-170), up to the insertion: a command
\* of that name is removed from the table (and leaked).
AddExternalStart(w, c) ==
  /\ Running /\ wpc[w] = "idle"
  /\ gen' = IF ChtblLookup(c) THEN ChtblRemove(c) ELSE gen
  /\ wpc' = [wpc EXCEPT ![w] = "ext"] /\ wName' = [wName EXCEPT ![w] = c]
  /\ UNCHANGED <<perms, head, cells, freed, stable, wS, wOld, wOldHead, wRest,
                 readVars, fault, structs, missed>>

\* The rest of commands_add_external (lines 171-190): a new structure,
\* with no permissions, inserted; when a command of that name has been
\* inserted meanwhile, chtbl_insert fails and the new one is freed.
AddExternalInsert(w) ==
  /\ Running /\ wpc[w] = "ext" /\ structs < MaxStructs
  /\ gen' = ChtblInsert(wName[w], structs + 1) /\ structs' = structs + 1
  /\ wpc' = [wpc EXCEPT ![w] = "idle"]
  /\ UNCHANGED <<perms, head, cells, freed, stable, wS, wOld, wOldHead, wRest,
                 wName, readVars, fault, missed>>

Next ==
  \/ \E w \in Writers, c \in Commands, l \in Lines :
       SetPermissionTake(w, c, l) \/ AddPermissionStart(w, c, l)
  \/ \E w \in Writers : SetPermissionClear(w) \/ AppendRule(w) \/ WriteEnd(w)
  \/ \E w \in Writers, c \in Commands :
       DeletePermission(w, c) \/ CommandsAdd(w, c) \/ AddExternalStart(w, c)
  \/ \E w \in Writers : AddExternalInsert(w)
  \/ \E r \in Readers, c \in Commands : CheckStart(r, c) \/ CheckEnd(r)

Spec == Init /\ [][Next]_vars

\* Writers are interchangeable: the code compares threads for nothing.
Symmetry == Permutations(Writers)

-----------------------------------------------------------------------------
TypeOK ==
  /\ perms \in [Structs -> Seq(Rules)]
  /\ \A s \in Structs : Len(perms[s]) <= MaxRules
  /\ head \in [Structs -> 0..MaxCells] /\ cells \in 0..MaxCells
  /\ freed \subseteq 1..MaxCells
  /\ wpc \in [Writers -> {"idle", "take", "set", "add", "ext"}]
  /\ gen \in [Commands -> 0..MaxStructs] /\ structs \in 0..MaxStructs
  /\ rpc \in [Readers -> {"idle", "walking"}]
  /\ fault \in {"none", "use_after_free"}

\* The permission list of a command in the table is never one that has
\* been freed: every path of set, add and delete frees exactly the list it
\* takes out of command->perms, never the one it leaves there, also when
\* two SITE commands change the same command's permissions at once.
CurrentListNotFreed ==
  \A c \in Commands : ChtblLookup(c) => head[CommandsFind(c)] \notin freed

\* §4.4: an update of a command's permissions is atomic for readers: a
\* check walks the list as it was before an update or as one left it,
\* never the NULL or half-built list of an update in progress.
CheckSeesWholeList == \A r \in Readers : rpc[r] = "walking" => rSeen[r] = rStable[r]

\* §4.4: find(name) returns the command's handler: a command the table
\* holds is found by every lookup, also while it is being replaced.
CommandAlwaysFound == ~missed

\* No check of permissions reads a rule after it has been freed.
NoUseAfterFree == fault = "none"
-----------------------------------------------------------------------------
(* The values the runs give the constants: one command whose configured    *)
(* permissions are one rule; permission lines of the two rules in the      *)
(* other order, and of a rule followed by a word that does not parse.      *)
(* The two rules are interchangeable model values.                         *)

MCRuleA == CHOOSE r \in Rules : TRUE
MCRuleB == CHOOSE r \in Rules \ {MCRuleA} : TRUE
MCLines == {<<MCRuleB, MCRuleA>>, <<MCRuleA, Bad>>}
MCInitPerms == [c \in Commands |-> <<MCRuleA>>]
=============================================================================
