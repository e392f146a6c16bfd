------------------------------ MODULE Zeroconf ------------------------------
(***************************************************************************)
(* The zeroconf module, src/modules/zeroconf/libwzd_avahi.c: it advertises *)
(* the FTP service through the avahi daemon.  The server calls             *)
(* av_zeroconf_setup, av_zeroconf_run and, at the end, av_zeroconf_shutdown *)
(* (their caller is not in src/); in between, the avahi event loop calls   *)
(* client_callback when the client's state changes and publish_reply when  *)
(* the entry group's does.  This is the HAVE_AVAHI_THREADED_POLL build     *)
(* when Threaded holds; the other build fails in av_zeroconf_setup.         *)
(*                                                                         *)
(* The avahi library is the environment.  A client or entry group is a    *)
(* number, 0 being NULL; its life is "unborn", "live" or "freed".          *)
(* avahi_client_free frees the client's groups with it.  avahi_client_new  *)
(* calls client_callback with the new client's first state before it      *)
(* returns; with AVAHI_CLIENT_NO_FAIL that state is never a failure.  When  *)
(* the daemon withdraws a group's entries (a name collision) or            *)
(* avahi_entry_group_reset clears them, the group is empty.  An avahi call *)
(* in MayFail may return an error.  Each callback runs to its end on the   *)
(* event loop's thread, so an event and its callback are one step.  The    *)
(* service name is left out: avahi_alternative_service_name only changes   *)
(* it.  The group of client c is numbered c: a client has one group.       *)
(***************************************************************************)
EXTENDS Naturals

CONSTANTS
  Threaded,     \* HAVE_AVAHI_THREADED_POLL
  MaxClients,   \* clients avahi_client_new can create (reconnections + 1)
  MaxEvents,    \* bound on the daemon's state changes
  MayFail,      \* the avahi calls that may return an error
  DaemonFails   \* "client": the client may fail; "group": a group may fail

ASSUME ZeroconfAssumption ==
  /\ Threaded \in BOOLEAN /\ MaxClients \in Nat \ {0} /\ MaxEvents \in Nat
  /\ MayFail \subseteq {"poll_new", "client_new", "group_new", "add_service",
                        "commit", "poll_start"}
  /\ DaemonFails \subseteq {"client", "group"}

NULL == 0
Ids == 1..MaxClients

\* The states avahi_client_new reports first, and the changes the daemon
\* makes afterwards (a host name collision is followed by a new name).
FirstStates == {"CONNECTING", "S_REGISTERING", "S_RUNNING", "S_COLLISION"}
ClientMoves ==
  [CONNECTING |-> {"S_REGISTERING", "S_RUNNING", "S_COLLISION"},
   S_REGISTERING |-> {"S_RUNNING", "S_COLLISION"},
   S_RUNNING |-> {"S_COLLISION", "S_REGISTERING"},
   S_COLLISION |-> {"S_REGISTERING"},
   FAILURE |-> {}]

VARIABLES
  w,        \* struct context and the avahi objects (see World)
  mainPc,   \* the server's calls: "setup", "run", "up", "done"
  events    \* state changes the daemon has made

vars == <<w, mainPc, events>>

\* ctx: client, group, thread_running and whether ctx was freed; the
\* threaded poll: "none", "created", "running", "quit", "stopped", "freed";
\* fault: the invalid avahi calls made so far.
World == [ctx : [client : {NULL} \cup Ids, group : {NULL} \cup Ids,
                 threadRunning : BOOLEAN, freed : BOOLEAN],
          clients : [Ids -> [life : {"unborn", "live", "freed"},
                             state : FirstStates \cup {"FAILURE"}]],
          groups : [Ids -> [life : {"unborn", "live", "freed"},
                            phase : {"UNCOMMITED", "REGISTERING", "ESTABLISHED"},
                            empty : BOOLEAN]],
          poll : {"none", "created", "running", "quit", "stopped", "freed"},
          fault : SUBSET {"client_free", "group_reset", "poll_set_func", "setup_return"}]

Live(v, c) == c # NULL /\ v.clients[c].life = "live"
Fresh(v) == {c \in Ids : v.clients[c].life = "unborn"}

\* The outcomes of a call that may fail: the error path, when the call is
\* in MayFail, and the outcomes of its success.
Fallible(call, failed, ok) == (IF call \in MayFail THEN {failed} ELSE {}) \cup ok

\* avahi_client_free(c): asserts c, and frees it with its group; on a
\* freed client it is a double free.
ClientFree(v, c) ==
  IF ~Live(v, c) THEN [v EXCEPT !.fault = @ \cup {"client_free"}]
  ELSE [v EXCEPT !.clients[c].life = "freed",
                 !.groups[c].life = IF @ = "live" THEN "freed" ELSE @]

\* avahi_threaded_poll_quit: the loop ends after the current callback.
PollQuit(v) ==
  [v EXCEPT !.poll = IF @ \in {"created", "running"} THEN "quit" ELSE @]

-----------------------------------------------------------------------------
\* The fail label of register_stuff (lines 89-95): the client is freed and
\* the loop told to quit; ctx->client and ctx->group are left as they are.
RegisterFail(v) == PollQuit(ClientFree(v, v.ctx.client))

\* register_stuff (lines 39-96): a group for ctx->client if ctx has none,
\* and, if the group is empty, the service added to it and committed; an
\* error of any of the three calls goes to fail.
RegisterStuff(v) ==
  LET g == v.ctx.client
      New == [v EXCEPT !.ctx.group = g,
                       !.groups[g] = [life |-> "live", phase |-> "UNCOMMITED", empty |-> TRUE]]
      Added(u) == [u EXCEPT !.groups[u.ctx.group].empty = FALSE]
      Commit(u) == [Added(u) EXCEPT !.groups[u.ctx.group].phase = "REGISTERING"]
      Fill(u) ==
        IF ~u.groups[u.ctx.group].empty THEN {u}
        ELSE Fallible("add_service", RegisterFail(u),
                      Fallible("commit", RegisterFail(Added(u)), {Commit(u)}))
  IN IF v.ctx.group # NULL THEN Fill(v)
     ELSE Fallible("group_new", RegisterFail(v), Fill(New))

\* avahi_entry_group_reset(ctx->group): the group's entries are withdrawn.
GroupReset(v) ==
  IF v.groups[v.ctx.group].life # "live" THEN [v EXCEPT !.fault = @ \cup {"group_reset"}]
  ELSE [v EXCEPT !.groups[v.ctx.group].empty = TRUE,
                 !.groups[v.ctx.group].phase = "UNCOMMITED"]

\* avahi_client_new(..., client_callback, ctx, &error): a new client in one
\* of its first states, reported through client_callback before the call
\* returns, after which ctx->client is the new client; an error returns
\* NULL, and the caller goes on to the state failed (v has ctx->client NULL
\* in both callers).
RECURSIVE ClientCallback(_, _)
ClientNew(v, failed) ==
  Fallible("client_new", failed,
    UNION {LET c == CHOOSE x \in Fresh(v) : \A y \in Fresh(v) : x <= y
               u == [v EXCEPT !.clients[c] = [life |-> "live", state |-> s]]
           IN {[r EXCEPT !.ctx.client = c] : r \in ClientCallback(u, c)}
           : s \in FirstStates})

\* client_callback(client, state, ctx) (lines 147-220) for client c in the
\* state the daemon just gave it: ctx->client is set, then
\*   S_RUNNING: register_stuff when ctx has no group;
\*   S_COLLISION: ctx's group is reset;
\*   FAILURE after a disconnection: the client is freed, ctx->client and
\*     ctx->group cleared, and a new client created; if that fails, the
\*     NULL ctx->client is freed and the loop told to quit;
\*   any other FAILURE: the client is freed and the loop told to quit.
\* An event on a disconnection carries state "DISCONNECTED" here, which
\* avahi reports as FAILURE with avahi_client_errno AVAHI_ERR_DISCONNECTED.
ClientCallback(v0, c) ==
  LET v == [v0 EXCEPT !.ctx.client = c]
      st == v.clients[c].state
  IN CASE st = "S_RUNNING" -> IF v.ctx.group = NULL THEN RegisterStuff(v) ELSE {v}
       [] st = "S_COLLISION" -> IF v.ctx.group # NULL THEN {GroupReset(v)} ELSE {v}
       [] st = "FAILURE" -> {PollQuit(ClientFree(v, v.ctx.client))}
       [] st = "DISCONNECTED" ->
            LET u == [ClientFree([v EXCEPT !.clients[c].state = "FAILURE"], v.ctx.client)
                        EXCEPT !.ctx.client = NULL, !.ctx.group = NULL]
            IN ClientNew(u, PollQuit(ClientFree(u, NULL)))
       [] OTHER -> {v}

\* publish_reply(g, state, ctx) (lines 99-145): on ESTABLISHED nothing; on
\* COLLISION a new name and register_stuff (the daemon has withdrawn the
\* entries); on FAILURE the group's client is freed and the loop told to
\* quit.
PublishReply(v, g, st) ==
  CASE st = "ESTABLISHED" -> {[v EXCEPT !.groups[g].phase = "ESTABLISHED"]}
    [] st = "COLLISION" ->
         RegisterStuff([v EXCEPT !.groups[g].phase = "UNCOMMITED", !.groups[g].empty = TRUE])
    [] st = "FAILURE" -> {PollQuit(ClientFree(v, g))}

\* av_zeroconf_unregister (lines 395-436) as the threaded build runs it
\* from a failed setup or run, where thread_running is 0: the name freed,
\* ctx->client freed when not NULL, the poll freed, then ctx.
Unregister(v) ==
  LET u == IF v.ctx.client # NULL THEN ClientFree(v, v.ctx.client) ELSE v
  IN [u EXCEPT !.poll = IF @ = "none" THEN @ ELSE "freed", !.ctx.freed = TRUE]

-----------------------------------------------------------------------------
Init ==
  /\ w = [ctx |-> [client |-> NULL, group |-> NULL, threadRunning |-> FALSE, freed |-> FALSE],
          clients |-> [c \in Ids |-> [life |-> "unborn", state |-> "CONNECTING"]],
          groups |-> [c \in Ids |-> [life |-> "unborn", phase |-> "UNCOMMITED", empty |-> TRUE]],
          poll |-> "none", fault |-> {}]
  /\ mainPc = "setup" /\ events = 0

\* av_zeroconf_setup (lines 226-312).  The build without a threaded poll
\* calls avahi_simple_poll_set_func on ctx->simple_poll while it is still
\* NULL.  The threaded build returns without a value when
\* avahi_threaded_poll_new fails, and goes to unregister when
\* avahi_client_new fails (setup returns NULL: the server goes on without
\* zeroconf).
Setup ==
  /\ mainPc = "setup"
  /\ IF ~Threaded
     THEN w' = [w EXCEPT !.fault = @ \cup {"poll_set_func"}] /\ mainPc' = "done"
     ELSE \E r \in Fallible("poll_new", [w EXCEPT !.fault = @ \cup {"setup_return"}],
                            LET v == [w EXCEPT !.poll = "created"]
                            IN ClientNew(v, Unregister(v))) :
            /\ w' = r
            /\ mainPc' = IF r.ctx.freed \/ r.fault # {} THEN "done" ELSE "run"
  /\ UNCHANGED events

\* av_zeroconf_run (lines 317-351): the event loop's thread started and
\* thread_running set, or, when avahi_threaded_poll_start fails,
\* av_zeroconf_unregister.  A loop told to quit during setup ends at once.
Run ==
  /\ mainPc = "run"
  /\ \E r \in Fallible("poll_start", Unregister(w),
                       {[w EXCEPT !.poll = IF @ = "created" THEN "running" ELSE @,
                                  !.ctx.threadRunning = TRUE]}) :
       /\ w' = r
       /\ mainPc' = IF r.ctx.freed THEN "done" ELSE "up"
  /\ UNCHANGED events

\* av_zeroconf_shutdown (lines 377-389), threaded build: the loop stopped
\* (its thread joined), the name freed, avahi_client_free(ctx->client)
\* whatever ctx->client is, and the poll freed.
Shutdown ==
  /\ mainPc = "up"
  /\ w' = [ClientFree([w EXCEPT !.poll = "stopped"], w.ctx.client) EXCEPT !.poll = "freed"]
  /\ mainPc' = "done"
  /\ UNCHANGED events

\* The daemon changes the state of ctx's client, and the loop runs
\* client_callback: a move of ClientMoves, a failure, or a disconnection
\* (when a new client can still be created).
ClientEvent ==
  /\ w.poll = "running" /\ events < MaxEvents /\ Live(w, w.ctx.client)
  /\ LET c == w.ctx.client
         moves == ClientMoves[w.clients[c].state]
                    \cup (IF "client" \in DaemonFails THEN {"FAILURE"} ELSE {})
                    \cup (IF Fresh(w) # {} THEN {"DISCONNECTED"} ELSE {})
     IN \E st \in moves :
          w' \in ClientCallback([w EXCEPT !.clients[c].state = st], c)
  /\ events' = events + 1
  /\ UNCHANGED mainPc

\* The daemon changes the state of ctx's group, and the loop runs
\* publish_reply: a committed group is established once the server runs,
\* and a registering or established group may meet a collision or fail.
GroupEvent ==
  /\ w.poll = "running" /\ events < MaxEvents
  /\ w.ctx.group # NULL /\ w.groups[w.ctx.group].life = "live"
  /\ LET g == w.ctx.group
         ph == w.groups[g].phase
         moves == (IF ph = "REGISTERING" /\ w.clients[g].state = "S_RUNNING"
                   THEN {"ESTABLISHED"} ELSE {})
                  \cup (IF ph # "UNCOMMITED" THEN {"COLLISION"} ELSE {})
                  \cup (IF ph # "UNCOMMITED" /\ "group" \in DaemonFails THEN {"FAILURE"} ELSE {})
     IN \E st \in moves : w' \in PublishReply(w, g, st)
  /\ events' = events + 1
  /\ UNCHANGED mainPc

Next == Setup \/ Run \/ Shutdown \/ ClientEvent \/ GroupEvent

Spec == Init /\ [][Next]_vars

-----------------------------------------------------------------------------
\* Every avahi call the module makes is valid: no client is freed twice or
\* freed as NULL, no group reset after its client was freed, and setup
\* neither passes a NULL poll nor returns without a value.  The failure
\* paths of client_callback, publish_reply and register_stuff free the
\* client and leave ctx->client pointing at it, which av_zeroconf_shutdown
\* frees again.
CallsValid == w.fault = {}

\* While the module is up and its client is in S_RUNNING, the service is
\* in the entry group (registering or established): client_callback's
\* comment says that is when "it's time to create our services", and a
\* host name collision resets the group.
ServiceInGroupWhileRunning ==
  LET c == w.ctx.client IN
  (mainPc = "up" /\ w.poll = "running" /\ Live(w, c) /\ w.clients[c].state = "S_RUNNING")
    => w.ctx.group # NULL /\ ~w.groups[w.ctx.group].empty
=============================================================================
