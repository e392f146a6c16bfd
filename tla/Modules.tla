------------------------------ MODULE Modules ------------------------------
(***************************************************************************)
(* The module list and the hook list of the server,                        *)
(* src/libwzd-core/wzd_mod.c: module_add, module_load, module_unload and    *)
(* module_free on mainConfig->module, with hook_add and hook_remove on      *)
(* mainConfig->hook, called in any order (configuration loading, SITE      *)
(* commands, shutdown); the functions take no lock and are modelled as the *)
(* sequential calls they are.                                               *)
(*                                                                         *)
(* A module is a model value; its shared object exports WZD_MODULE_INIT,   *)
(* which registers the module's hook with hook_add, and WZD_MODULE_CLOSE,  *)
(* which removes it with hook_remove (the modules' code is not in src/;     *)
(* this is what §6 asks of them).  A module in InitFails has an init that   *)
(* returns an error.  refs[m] is the dlopen() reference count of m's       *)
(* object and dl the objects with a non-zero count, in the order they were *)
(* first opened: every module is opened with RTLD_GLOBAL, so a lookup in    *)
(* the global scope (dlsym with a NULL handle, RTLD_DEFAULT) finds the     *)
(* first of them that defines the symbol.  A hook is a list cell (a        *)
(* number) whose function belongs to fnOf[cell], or, for a hook of       *)
(* hook_add_external, whose external_command is cmdOf[cell].               *)
(*                                                                         *)
(* A module in ProtoMods also registers, in its init, a protocol handler   *)
(* for the signature SigOf[m] with hook_add_protocol (the perl and tcl     *)
(* modules register "perl:" and "tcl:"); wzd_mod.c has no function that    *)
(* removes one.  hook_call_external runs an external hook: a command that  *)
(* starts with a signature goes to its handler, any other to popen().  A   *)
(* command is the sequence of its bytes; cookie_parse_buffer leaves the    *)
(* commands of the model (they hold no cookie) as they are.                 *)
(***************************************************************************)
EXTENDS Naturals, Sequences, SequencesExt

CONSTANTS
  Mods,        \* the modules named in the configuration
  InitFails,   \* modules whose WZD_MODULE_INIT returns non-zero
  MaxCells,    \* bound on hook cells allocated
  MaxList,     \* bound on the length of the module list
  ProtoMods,   \* modules whose init calls hook_add_protocol
  SigOf,       \* SigOf[m]: the signature m registers
  Cmds,        \* the external commands of hook_add_external
  Codes,       \* the codes hook_call_external is called with
  Threads      \* the threads that run hooks (client threads, the crontab)

ASSUME ModulesAssumption ==
  /\ InitFails \subseteq Mods /\ MaxCells \in Nat /\ MaxList \in Nat
  /\ ProtoMods \subseteq Mods /\ \A m \in ProtoMods : Len(SigOf[m]) > 0
  /\ \A c \in Cmds : Len(c) > 0

QUOTE == 34   \* '"'

VARIABLES
  mlist,     \* *module_list: a sequence of [name, handle], handle a BOOLEAN
  refs,      \* refs[m]: dlopen() references to m's object
  dl,        \* the objects with references, in first-open order
  hooks,     \* *hook_list: the cells, head first
  fnOf,      \* fnOf[cell]: the module whose function cell->hook is
  cells,     \* cells allocated so far
  freed,     \* cells freed
  cmdOf,     \* cmdOf[cell]: cell->external_command, <<>> for NULL
  protos,    \* proto_handler_list: a sequence of [sig, owner], head first
  replyCode, \* _reply_code
  callPc,    \* callPc[t]: "idle", or "handler" while t runs a protocol handler
  callCode,  \* callCode[t]: the code t passed to hook_call_external
  fault      \* "none", or the invalid call hook_call_external made

callVars == <<callPc, callCode>>
vars == <<mlist, refs, dl, hooks, fnOf, cells, freed, cmdOf, protos, replyCode,
          callVars, fault>>

\* hook_remove(&hook_list, mask, fn) (lines 246-282): the first cell whose
\* function is fn is unlinked and freed; nothing if there is none.  An
\* external hook's function is NULL.
HookRemove(list, fn) ==
  LET at == {k \in 1..Len(list) : cmdOf[list[k]] = <<>> /\ fnOf[list[k]] = fn}
  IN IF at = {} THEN list ELSE RemoveAt(list, Min(at))

\* WZD_MODULE_CLOSE of module m: hook_remove of m's hook; the cell
\* hook_remove frees is the one it unlinks.
CloseEffect(m) ==
  /\ hooks' = HookRemove(hooks, m)
  /\ freed' = freed \cup (Range(hooks) \ Range(hooks'))

\* hook_add(&hook_list, mask, fn) (lines 186-214): a new cell for fn at the
\* tail of the list.
HookAdd(k, m) ==
  /\ hooks' = Append(hooks, k)
  /\ fnOf' = [fnOf EXCEPT ![k] = m]

\* hook_add_protocol(sig, len, handler) (lines 107-124): a handler at the
\* head of proto_handler_list.
HookAddProtocol(list, m) == <<[sig |-> SigOf[m], owner |-> m]>> \o list

\* dlopen() and dlclose() of m's object.
Dlopen(m) ==
  /\ refs' = [refs EXCEPT ![m] = @ + 1]
  /\ dl' = IF refs[m] = 0 THEN Append(dl, m) ELSE dl

Dlclose(m) ==
  /\ refs' = [refs EXCEPT ![m] = @ - 1]
  /\ dl' = IF refs[m] = 1 THEN SelectSeq(dl, LAMBDA x : x # m) ELSE dl

\* The server stops at a fault: it has crashed.
Running == fault = "none"

-----------------------------------------------------------------------------
(* Seeded fault.                                                           *)

\* module_free dlclose()ing a module before it looks up and calls its
\* WZD_MODULE_CLOSE: the lookup in the closed object finds nothing.
FreeHeadDlcloseFirst(e) ==
  /\ Dlclose(e.name)
  /\ UNCHANGED <<hooks, freed>>

-----------------------------------------------------------------------------
\* The body of module_free's loop for an entry with a handle (lines
\* 617-622): WZD_MODULE_CLOSE is called, then dlclose().
FreeHead(e) ==
  /\ CloseEffect(e.name)
  /\ Dlclose(e.name)

Init ==
  /\ mlist = <<>> /\ refs = [m \in Mods |-> 0] /\ dl = <<>> /\ hooks = <<>>
  /\ fnOf = [c \in 1..MaxCells |-> CHOOSE m \in Mods : TRUE]
  /\ cells = 0 /\ freed = {}
  /\ cmdOf = [c \in 1..MaxCells |-> <<>>]
  /\ protos = <<>> /\ replyCode = 0 /\ fault = "none"
  /\ callPc = [t \in Threads |-> "idle"] /\ callCode = [t \in Threads |-> 0]

\* module_add (lines 458-483): a new entry, without handle, at the tail.
ModuleAdd(m) ==
  /\ Running /\ Len(mlist) < MaxList
  /\ mlist' = Append(mlist, [name |-> m, handle |-> FALSE])
  /\ UNCHANGED <<refs, dl, hooks, fnOf, cells, freed, cmdOf, protos, replyCode, callVars, fault>>

\* module_load (lines 486-553) of entry i: dlopen(), then WZD_MODULE_INIT,
\* which registers the hook with hook_add and, for a module of ProtoMods,
\* its protocol with hook_add_protocol;
\* when the init fails, module_load dlclose()s the object and leaves the
\* entry without handle.
ModuleLoad(i) ==
  LET m == mlist[i].name IN
  /\ Running /\ ~mlist[i].handle /\ cells < MaxCells
  /\ IF m \in InitFails
     THEN UNCHANGED <<mlist, refs, dl, hooks, fnOf, cells, protos>>
     ELSE /\ Dlopen(m)
          /\ HookAdd(cells + 1, m) /\ cells' = cells + 1
          /\ mlist' = [mlist EXCEPT ![i].handle = TRUE]
          /\ protos' = IF m \in ProtoMods THEN HookAddProtocol(protos, m) ELSE protos
  /\ UNCHANGED <<freed, cmdOf, replyCode, callVars, fault>>

\* module_unload(name) (lines 556-601): the first entry of that name;
\* WZD_MODULE_CLOSE is looked up with dlsym(handle) even when the handle is
\* NULL, where dlsym searches the global scope and finds the close
\* function of the first object opened; the entry is unlinked and freed,
\* and the object is not dlclose()d.
ModuleUnload(m) ==
  LET at == {k \in 1..Len(mlist) : mlist[k].name = m}
      i  == Min(at)
  IN /\ Running /\ at # {}
     /\ CASE mlist[i].handle -> CloseEffect(m)
          [] dl # <<>>       -> CloseEffect(Head(dl))
          [] OTHER           -> UNCHANGED <<hooks, freed>>
     /\ mlist' = RemoveAt(mlist, i)
     /\ UNCHANGED <<refs, dl, fnOf, cells, cmdOf, protos, replyCode, callVars, fault>>

\* One round of module_free's loop (lines 604-637), on the head entry: closed
\* and dlclose()d when it has a handle, then freed.
ModuleFree ==
  /\ Running /\ mlist # <<>>
  /\ IF Head(mlist).handle THEN FreeHead(Head(mlist))
                           ELSE UNCHANGED <<refs, dl, hooks, freed>>
  /\ mlist' = Tail(mlist)
  /\ UNCHANGED <<fnOf, cells, cmdOf, protos, replyCode, callVars, fault>>

\* hook_free (lines 165-183): every cell is freed and the list emptied.
HookFree ==
  /\ Running /\ hooks # <<>>
  /\ hooks' = <<>> /\ freed' = freed \cup Range(hooks)
  /\ UNCHANGED <<mlist, refs, dl, fnOf, cells, cmdOf, protos, replyCode, callVars, fault>>

\* hook_add_external (lines 216-243): a cell with a copy of the command,
\* at the tail.
HookAddExternal(c) ==
  /\ Running /\ cells < MaxCells
  /\ hooks' = Append(hooks, cells + 1)
  /\ cmdOf' = [cmdOf EXCEPT ![cells + 1] = c] /\ cells' = cells + 1
  /\ UNCHANGED <<mlist, refs, dl, fnOf, freed, protos, replyCode, callVars, fault>>

\* hook_free_protocols (lines 126-139): every handler freed.
HookFreeProtocols ==
  /\ Running /\ protos # <<>>
  /\ protos' = <<>>
  /\ UNCHANGED <<mlist, refs, dl, hooks, fnOf, cells, freed, cmdOf, replyCode, callVars, fault>>

\* hook_check_protocol(str) (lines 141-154): the first handler whose
\* signature starts str, 0 for none.
HookCheckProtocol(str) == SelectInSeq(protos, LAMBDA p : IsPrefix(p.sig, str))

\* hook_call_external(hook, code) (lines 285-345), run by thread t, for the
\* external hook at position k of the list: _reply_code = code, a static
\* every thread shares; a command with a protocol calls its handler, in
\* the object of the module that registered it, after cutting the
\* arguments: when the signature is followed by '"', strchr() looks for the
\* closing one and writes through what it returns, NULL when there is
\* none.  Any other command goes to popen(), whose process does not see
\* _reply_code.
HookCallExternal(t, k, code) ==
  LET buf == cmdOf[hooks[k]]
      i   == HookCheckProtocol(buf)
      p   == protos[i]
      rest == SubSeq(buf, Len(p.sig) + 1, Len(buf))
  IN /\ Running /\ callPc[t] = "idle" /\ buf # <<>>
     /\ replyCode' = code
     /\ fault' = CASE i = 0 -> "none"
                 [] rest # <<>> /\ rest[1] = QUOTE /\ \A j \in 2..Len(rest) : rest[j] # QUOTE ->
                      "null_deref"
                 [] refs[p.owner] = 0 -> "unmapped_handler"
                 [] OTHER -> "none"
     /\ callPc' = [callPc EXCEPT ![t] = IF i = 0 THEN "idle" ELSE "handler"]
     /\ callCode' = [callCode EXCEPT ![t] = code]
     /\ UNCHANGED <<mlist, refs, dl, hooks, fnOf, cells, freed, cmdOf, protos>>

\* The protocol handler of t's call asks for the code of the event with
\* hook_get_current_reply_code (lines 665-668), which returns _reply_code
\* as it is now, and returns.
HookHandlerRun(t) ==
  /\ Running /\ callPc[t] = "handler"
  /\ fault' = IF replyCode = callCode[t] THEN fault ELSE "wrong_reply_code"
  /\ callPc' = [callPc EXCEPT ![t] = "idle"]
  /\ UNCHANGED <<mlist, refs, dl, hooks, fnOf, cells, freed, cmdOf, protos,
                 replyCode, callCode>>

Next ==
  \/ \E m \in Mods : ModuleAdd(m) \/ ModuleUnload(m)
  \/ \E i \in 1..Len(mlist) : ModuleLoad(i)
  \/ ModuleFree \/ HookFree \/ HookFreeProtocols
  \/ \E c \in Cmds : HookAddExternal(c)
  \/ \E t \in Threads :
       \/ \E k \in 1..Len(hooks), code \in Codes : HookCallExternal(t, k, code)
       \/ HookHandlerRun(t)

Spec == Init /\ [][Next]_vars

-----------------------------------------------------------------------------
\* Every hook in the list calls into an object that is still mapped: a
\* module's hook leaves the list before its object is dlclose()d, on every
\* path of module_load, module_unload and module_free.
NoDanglingHook ==
  \A k \in 1..Len(hooks) : cmdOf[hooks[k]] = <<>> => refs[fnOf[hooks[k]]] > 0

\* A module that is loaded keeps its hook: unloading another module never
\* removes it.
LoadedModulesKeepHooks ==
  \A i \in 1..Len(mlist) :
    mlist[i].handle =>
      \E k \in 1..Len(hooks) : cmdOf[hooks[k]] = <<>> /\ fnOf[hooks[k]] = mlist[i].name

\* §4 (hook system): hook failures are logged, never fatal: running an
\* external hook never writes through NULL, whatever its command.
HookCallSafe == fault # "null_deref"

\* A protocol handler hook_call_external calls is in an object that is
\* still mapped: a module's handlers leave the list before its object is
\* dlclose()d.
HandlersMapped == fault # "unmapped_handler"

\* A protocol handler that asks for the reply code gets the code its own
\* hook_call_external was called with, whatever other threads run hooks
\* meanwhile.
ReplyCodeOwn == fault # "wrong_reply_code"
-----------------------------------------------------------------------------
(* The values the runs give the constants: the one protocol module         *)
(* registers "p:"; the external hooks' commands are "p:x" (a protocol      *)
(* command), "p:\"x" (one with an unclosed quote) and "s" (a shell        *)
(* command).  Bytes are their ASCII codes.                                 *)

MCSigOf == [m \in ProtoMods |-> <<112, 58>>]
MCCmds == {<<112, 58, 120>>, <<112, 58, 34, 120>>, <<115>>}
=============================================================================
