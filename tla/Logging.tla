------------------------------ MODULE Logging ------------------------------
(***************************************************************************)
(* The log channels and the memory log of src/libwzd-core/wzd_log.c:      *)
(* _log_channels[level].fd and .syslog, set by log_set and log_set_syslog; *)
(* log_open; out_log, called by any thread, which writes the message to    *)
(* its level's descriptor and pushes it into the memory log _static_log     *)
(* under _static_log_mutex; and log_fini.                                  *)
(*                                                                         *)
(* A descriptor is a number; kernel[f] says what number f refers to now:  *)
(* "free", a log file ("log"), or a file or socket of the rest of the      *)
(* server ("other").  open() and socket() hand out the lowest free number, *)
(* as POSIX requires.  A message is its sequence number; a NULL slot of    *)
(* the memory log is 0.  The administrative calls (log_open, log_set,      *)
(* log_set_syslog, log_fini) have no caller in src/: they are made in any  *)
(* order, with the descriptors log_open returned.                           *)
(*                                                                         *)
(* The module also holds the server variables, on which out_log depends:  *)
(* the first section below is vars_set and vars_get of                    *)
(* src/libwzd-core/wzd_vars.c, with str2loglevel and loglevel2str.         *)
(***************************************************************************)
EXTENDS Integers, SequencesExt

-----------------------------------------------------------------------------
(***************************************************************************)
(* The server variables of src/libwzd-core/wzd_vars.c: vars_set, called by *)
(* SITE VARS and the scripting modules, which changes a field of the       *)
(* server's configuration, and vars_get, which reports one; with           *)
(* str2loglevel and loglevel2str of wzd_log.c, which convert the log level.*)
(*                                                                         *)
(* The configuration is one record: the log level out_log filters at, the  *)
(* passive port range, the two boolean options vars_set can change and the *)
(* four numeric limits.  A value is the string the caller passes; strtoul  *)
(* is the table Strtoul of what it returns for the strings of the model    *)
(* and whether it read the whole string.  The log levels LEVEL_LOWEST ..   *)
(* LEVEL_CRITICAL are 0..5 in the order of LevelNames (wzd_log.h, which    *)
(* defines them, is not in src/).  CfgLoglevel is the "loglevel" entry of  *)
(* the GLOBAL section of the configuration file, or NoCfgValue; the file   *)
(* is loaded before the server runs (not in src/) and sets the level.      *)
(* Names are compared as the code compares them, but the strings of the    *)
(* model are all lower case, so strcasecmp and strcmp agree on them.       *)
(***************************************************************************)

CONSTANTS
  VarNames,     \* the variable names callers pass to vars_set
  VarInputs,    \* the values callers pass
  CfgLoglevel,  \* the configuration file's loglevel, or NoCfgValue
  NoCfgValue,
  PasvLowInit, PasvHighInit   \* the passive range the file configured

LevelNames == <<"lowest", "flood", "info", "normal", "high", "critical">>
LogLevels == 0..Len(LevelNames) - 1

OptionNames == {"deny_access_files_uploaded", "hide_dotted_files"}
LimitNames == {"max_users", "max_dl", "max_threads", "max_ul"}

ASSUME ServerVarsAssumption ==
  /\ CfgLoglevel \in ToSet(LevelNames) \cup {NoCfgValue}
  /\ PasvLowInit \in 0..65534 /\ PasvHighInit \in 0..65534
  /\ PasvLowInit < PasvHighInit

\* strtoul(s, &ptr, 0): the number read and whether ptr reached the end.
\* A string with no leading digits gives 0 and leaves ptr at its start.
Strtoul(s) ==
  CASE s = "0"     -> [ul |-> 0, full |-> TRUE]
    [] s = "1"     -> [ul |-> 1, full |-> TRUE]
    [] s = "2000"  -> [ul |-> 2000, full |-> TRUE]
    [] s = "70000" -> [ul |-> 70000, full |-> TRUE]
    [] s = "1x"    -> [ul |-> 1, full |-> FALSE]
    [] OTHER       -> [ul |-> 0, full |-> FALSE]

\* str2loglevel (wzd_log.c lines 482-491): the level named s, -1 for none
\* (SelectInSeq gives 0 for none).
str2loglevel(s) == SelectInSeq(LevelNames, LAMBDA x : x = s) - 1

\* loglevel2str (wzd_log.c lines 493-504): the name of level l, "" for a
\* number that is no level.
loglevel2str(l) == IF l \in LogLevels THEN LevelNames[l + 1] ELSE ""

VARIABLES
  config    \* the fields of *config vars_set and vars_get use

serverVars == <<config>>

InitServerVars ==
  /\ config = [loglevel |-> IF CfgLoglevel = NoCfgValue THEN 0
                            ELSE str2loglevel(CfgLoglevel),
               pasvLow |-> PasvLowInit, pasvHigh |-> PasvHighInit,
               options |-> {}, limits |-> [n \in LimitNames |-> 0]]

-----------------------------------------------------------------------------
(* The branches of vars_set: each gives the new configuration and the     *)
(* return code, 0 when it took the value.                                  *)

Took(cfg) == [cfg |-> cfg, ret |-> 0]
Rejected(cfg) == [cfg |-> cfg, ret |-> 1]

\* deny_access_files_uploaded and hide_dotted_files (lines 150-161):
\* strtoul(data, NULL, 0), and CFG_SET_OPTION for 1, CFG_CLR_OPTION for 0.
OptionSet(cfg, name, n) ==
  CASE n.ul = 1 -> Took([cfg EXCEPT !.options = @ \cup {name}])
    [] n.ul = 0 -> Took([cfg EXCEPT !.options = @ \ {name}])
    [] OTHER    -> Rejected(cfg)

\* loglevel (lines 163-170): the level only when s names one.
SetLoglevel(cfg, s) ==
  IF str2loglevel(s) = -1 THEN Rejected(cfg)
  ELSE Took([cfg EXCEPT !.loglevel = str2loglevel(s)])

\* max_users, max_dl, max_threads, max_ul (lines 171-198): the number only
\* when strtoul read all of data; otherwise the tests of the names after
\* it, which cannot match, and 1.
LimitSet(cfg, name, n) ==
  IF n.full THEN Took([cfg EXCEPT !.limits[name] = n.ul]) ELSE Rejected(cfg)

\* pasv_low and pasv_high (lines 199-212): strtoul without an end pointer,
\* and the range kept ordered and below 65535.
PasvLowSet(cfg, n) ==
  IF n.ul < 65535 /\ n.ul < cfg.pasvHigh THEN Took([cfg EXCEPT !.pasvLow = n.ul])
  ELSE Rejected(cfg)

PasvHighSet(cfg, n) ==
  IF n.ul < 65535 /\ n.ul > cfg.pasvLow THEN Took([cfg EXCEPT !.pasvHigh = n.ul])
  ELSE Rejected(cfg)

\* vars_set(name, s, ...) (lines 143-215): the branch of the name; an
\* unknown name returns 1.  The return code goes to the caller (SITE VARS
\* replies with it) and changes no state.  The configuration takes
\* finitely many values for the finitely many inputs, so the calls need no
\* bound.
VarsSetResult(name, s) ==
  CASE name \in OptionNames -> OptionSet(config, name, Strtoul(s))
    [] name = "loglevel"    -> SetLoglevel(config, s)
    [] name \in LimitNames  -> LimitSet(config, name, Strtoul(s))
    [] name = "pasv_low"    -> PasvLowSet(config, Strtoul(s))
    [] name = "pasv_high"   -> PasvHighSet(config, Strtoul(s))
    [] OTHER                -> Rejected(config)

VarsSet(name, s) ==
  config' = VarsSetResult(name, s).cfg

\* vars_get("loglevel", ...) (lines 73-91): the configuration file's entry
\* when there is one, else the name of the level in force.
VarsGetLoglevel ==
  IF CfgLoglevel # NoCfgValue THEN CfgLoglevel ELSE loglevel2str(config.loglevel)

-----------------------------------------------------------------------------
\* vars_get reports the log level out_log filters at: the name it returns,
\* given back to vars_set, sets the level in force, whatever vars_set
\* calls came before.
VarsGetSeesSet == str2loglevel(VarsGetLoglevel) = config.loglevel
-----------------------------------------------------------------------------
(* Logging.                                                                *)

CONSTANTS
  MaxLogChannels, \* MAX_LOG_CHANNELS
  FdNums,         \* the descriptor numbers the process can get
  Threads,        \* threads calling out_log
  BufSize,        \* _static_log.size
  MaxMsgs,        \* bound on out_log calls
  MaxAdmin,       \* bound on administrative calls and other opens
  NoThread

ASSUME LoggingAssumption ==
  /\ MaxLogChannels \in Nat \ {0} /\ FdNums \subseteq Nat \ {0}
  /\ BufSize \in Nat \ {0} /\ MaxMsgs \in Nat /\ MaxAdmin \in Nat
  /\ NoThread \notin Threads

Levels == 0..MaxLogChannels - 1
NoFd == 0   \* -1 in the code; 0 is never a log descriptor here

VARIABLES
  chan,        \* chan[l]: _log_channels[l].fd
  syslogOn,    \* syslogOn[l]: _log_channels[l].syslog
  kernel,      \* kernel[f]: "free", "log", "other"
  buf,         \* _static_log.data, slots 1..BufSize
  enabled,     \* _static_log_enabled
  mutex,       \* _static_log_mutex: "free", "fini" (held by log_fini), "destroyed"
  pc,          \* pc[t]: "idle", "push"
  msg,         \* msg[t]: the message t is logging
  sent,        \* out_log calls made
  pushLog,     \* the messages pushed into the memory log, in order
  admin,       \* administrative calls made
  misdirected, \* some out_log wrote to a descriptor that is not a log file
  fault        \* a thread locked the destroyed mutex

logVars == <<chan, syslogOn, kernel, buf, enabled, mutex, pc, msg, sent, pushLog,
             admin, misdirected, fault>>
vars == <<logVars, serverVars>>


\* The number open() or socket() returns.
Lowest == Min({f \in FdNums : kernel[f] = "free"})
CanOpen == \E f \in FdNums : kernel[f] = "free"

-----------------------------------------------------------------------------
(* Seeded faults.                                                          *)

\* log_set without the count: the old descriptor is always closed.
LastUserAlways(l) == TRUE

\* _buffer_push overwriting the last slot when the log is full, without
\* the memmove.
BufferPushNoRotate(b, m) ==
  IF \E i \in 1..BufSize : b[i] = 0
  THEN [b EXCEPT ![Min({i \in 1..BufSize : b[i] = 0})] = m]
  ELSE [b EXCEPT ![BufSize] = m]

-----------------------------------------------------------------------------
\* _buffer_push (lines 506-523): the first NULL slot takes the message; when
\* there is none, the oldest is freed, the others move down one, and the
\* message goes in the last slot.
BufferPush(b, m) ==
  IF \E i \in 1..BufSize : b[i] = 0
  THEN [b EXCEPT ![Min({i \in 1..BufSize : b[i] = 0})] = m]
  ELSE [i \in 1..BufSize |-> IF i < BufSize THEN b[i + 1] ELSE m]

\* close() of the descriptors of a set: each number becomes free, whatever
\* it referred to.
CloseAll(k, fs) == [f \in FdNums |-> IF f \in fs THEN "free" ELSE k[f]]

\* log_init (lines 84-104): the mutex and the memory log are created, and
\* every channel disabled.
Init ==
  /\ chan = [l \in Levels |-> NoFd] /\ syslogOn = [l \in Levels |-> FALSE]
  /\ kernel = [f \in FdNums |-> "free"]
  /\ buf = [i \in 1..BufSize |-> 0] /\ enabled = TRUE /\ mutex = "free"
  /\ pc = [t \in Threads |-> "idle"] /\ msg = [t \in Threads |-> 0]
  /\ sent = 0 /\ pushLog = <<>> /\ admin = 0
  /\ misdirected = FALSE /\ fault = FALSE
  /\ InitServerVars

\* log_open (lines 106-115): open() gives the lowest free number.
LogOpen ==
  /\ admin < MaxAdmin /\ CanOpen /\ ~fault
  /\ kernel' = [kernel EXCEPT ![Lowest] = "log"] /\ admin' = admin + 1
  /\ UNCHANGED <<chan, syslogOn, buf, enabled, mutex, pc, msg, sent, pushLog,
                 misdirected, fault>>
  /\ UNCHANGED serverVars

\* log_set's count (lines 200-206): no channel other than l has l's
\* descriptor.
LastUser(l) == Cardinality({i \in Levels : chan[i] = chan[l]}) = 1

\* log_set(level, fd) (lines 194-215), with a descriptor log_open returned
\* or -1: when the channel's old descriptor is used by no other channel it
\* is closed (log_close, lines 117-126); then the channel takes fd.
LogSet(l, fd) ==
  LET old == chan[l]
      last == LastUser(l)
  IN /\ admin < MaxAdmin /\ ~fault
     /\ kernel' = IF old # NoFd /\ last THEN CloseAll(kernel, {old}) ELSE kernel
     /\ chan' = [chan EXCEPT ![l] = fd] /\ admin' = admin + 1
     /\ UNCHANGED <<syslogOn, buf, enabled, mutex, pc, msg, sent, pushLog,
                    misdirected, fault>>
     /\ UNCHANGED serverVars

\* log_set_syslog (lines 217-224).
LogSetSyslog(l, v) ==
  /\ admin < MaxAdmin /\ ~fault /\ syslogOn[l] # v
  /\ syslogOn' = [syslogOn EXCEPT ![l] = v] /\ admin' = admin + 1
  /\ UNCHANGED <<chan, kernel, buf, enabled, mutex, pc, msg, sent, pushLog,
                 misdirected, fault>>
  /\ UNCHANGED serverVars

\* The rest of the server opens a file or accepts a connection, or closes
\* one it opened.
OtherOpen ==
  /\ admin < MaxAdmin /\ CanOpen /\ ~fault
  /\ kernel' = [kernel EXCEPT ![Lowest] = "other"] /\ admin' = admin + 1
  /\ UNCHANGED <<chan, syslogOn, buf, enabled, mutex, pc, msg, sent, pushLog,
                 misdirected, fault>>
  /\ UNCHANGED serverVars

OtherClose(f) ==
  /\ kernel[f] = "other" /\ ~fault
  /\ kernel' = [kernel EXCEPT ![f] = "free"]
  /\ UNCHANGED <<chan, syslogOn, buf, enabled, mutex, pc, msg, sent, pushLog,
                 admin, misdirected, fault>>
  /\ UNCHANGED serverVars

\* out_log(level, ...) (lines 226-262) up to the memory log: a level below
\* mainConfig->loglevel returns at once (a step that changes nothing);
\* otherwise, when the channel has a descriptor or syslog, the message is written to the
\* descriptor (the two write() calls), and, if _static_log_enabled, goes
\* on to be pushed; syslog() and the free of the buffer follow the push.
OutLogWrite(t, l) ==
  /\ pc[t] = "idle" /\ sent < MaxMsgs /\ ~fault
  /\ l >= config.loglevel
  /\ chan[l] # NoFd \/ syslogOn[l]
  /\ sent' = sent + 1 /\ msg' = [msg EXCEPT ![t] = sent + 1]
  /\ misdirected' = (misdirected \/ (chan[l] # NoFd /\ kernel[chan[l]] # "log"))
  /\ pc' = [pc EXCEPT ![t] = IF enabled THEN "push" ELSE "idle"]
  /\ UNCHANGED <<chan, syslogOn, kernel, buf, enabled, mutex, pushLog, admin, fault>>
  /\ UNCHANGED serverVars

\* The rest of out_log's body (lines 249-292): wzd_mutex_lock,
\* _buffer_push, unlock; then syslog() with the level's priority and the
\* free of the message, which change nothing modelled.  A lock of the
\* destroyed mutex (NULL after log_fini) is undefined: it fails, and the
\* push is skipped, or the process crashes.
OutLogPush(t) ==
  /\ pc[t] = "push" /\ ~fault
  /\ \/ /\ mutex = "free"
        /\ buf' = BufferPush(buf, msg[t]) /\ pushLog' = Append(pushLog, msg[t])
        /\ UNCHANGED fault
     \/ /\ mutex = "destroyed"
        /\ fault' \in BOOLEAN
        /\ UNCHANGED <<buf, pushLog>>
  /\ pc' = [pc EXCEPT ![t] = "idle"]
  /\ UNCHANGED <<chan, syslogOn, kernel, enabled, mutex, msg, sent, admin, misdirected>>
  /\ UNCHANGED serverVars

\* log_fini (lines 128-155) up to the destruction of the mutex:
\* _static_log_enabled = 0, the lock, every channel's descriptor closed
\* once and the channels cleared; the memory log is freed only if
\* _static_log_enabled, which has just been cleared.
LogFini ==
  /\ mutex = "free" /\ ~fault
  /\ enabled' = FALSE /\ mutex' = "fini"
  /\ kernel' = CloseAll(kernel, {chan[l] : l \in Levels} \ {NoFd})
  /\ chan' = [l \in Levels |-> NoFd]
  /\ UNCHANGED <<syslogOn, buf, pc, msg, sent, pushLog, admin, misdirected, fault>>
  /\ UNCHANGED serverVars

\* The end of log_fini: wzd_mutex_destroy, _static_log_mutex = NULL.
LogFiniDestroy ==
  /\ mutex = "fini"
  /\ mutex' = "destroyed"
  /\ UNCHANGED <<chan, syslogOn, kernel, buf, enabled, pc, msg, sent, pushLog,
                 admin, misdirected, fault>>
  /\ UNCHANGED serverVars

Next ==
  \/ LogOpen \/ OtherOpen \/ LogFini \/ LogFiniDestroy
  \/ \E l \in Levels : \E fd \in {f \in FdNums : kernel[f] = "log"} \cup {NoFd} : LogSet(l, fd)
  \/ \E l \in Levels, v \in BOOLEAN : LogSetSyslog(l, v)
  \/ \E f \in FdNums : OtherClose(f)
  \/ \E t \in Threads : OutLogPush(t) \/ \E l \in Levels : OutLogWrite(t, l)
  \/ \E name \in VarNames, s \in VarInputs : VarsSet(name, s) /\ UNCHANGED logVars

Spec == Init /\ [][Next]_vars

-----------------------------------------------------------------------------
\* The memory log holds the last BufSize messages pushed, oldest first,
\* with its NULL slots after them: _buffer_push fills the first NULL slot
\* and rotates a full log by one.
MemoryLogKeepsLast ==
  LET n == IF Len(pushLog) < BufSize THEN Len(pushLog) ELSE BufSize
  IN buf = [i \in 1..BufSize |-> IF i <= n THEN pushLog[Len(pushLog) - n + i] ELSE 0]

\* out_log writes only to log files: a channel never keeps a descriptor
\* that log_set or log_fini has closed, whose number the next open() or
\* accept() of the server may get.
LogWritesReachLogs == ~misdirected

\* log_set closes a channel's old descriptor only when no other channel
\* still has it: a descriptor two channels share stays an open log file
\* through any order of log_set, log_open, log_fini and the server's own
\* opens and closes.
SharedChannelFdOpen ==
  \A l1, l2 \in Levels :
    l1 # l2 /\ chan[l1] = chan[l2] /\ chan[l1] # NoFd => kernel[chan[l1]] = "log"

\* out_log never locks the memory log's mutex after log_fini destroyed it.
NoLockAfterDestroy == ~fault
=============================================================================
