--------------------------- MODULE SessionServer ---------------------------
(***************************************************************************)
(* The accept loop and the session context table, src/src/wzd_ServerThread.c:*)
(* serverMainThreadProc selects on the listening socket and calls          *)
(* login_new, which accepts the connection, reserves a context with        *)
(* context_find_free, tags it (magic), gives it the control socket, and    *)
(* runs the session: in the main thread (the default build), or in a       *)
(* forked child when WZD_MULTITHREAD is defined.  The table lives in       *)
(* shared memory (wzd_shm_create), so a child's writes to it are seen by    *)
(* the parent.                                                              *)
(*                                                                         *)
(* A client is a model value; its control connection goes through the      *)
(* listen backlog (queue) to a session.  A client in Aborting may reset its *)
(* connection while it waits in the backlog: the kernel then drops it from *)
(* the backlog (the BSD behaviour, also Linux's for a reset before          *)
(* accept).  socket_accept sets O_NONBLOCK on the socket it is given, the   *)
(* listening one (wzd_socket.c line 228): listenNB records it.  The end of  *)
(* a session (clientThreadProc, not in src/) releases its context, as §3    *)
(* and §4.3 describe; a child in Crashing may instead die, and its SIGCHLD  *)
(* handler cleanchild runs.                                                 *)
(***************************************************************************)
EXTENDS Naturals, Sequences, FiniteSetsExt

CONSTANTS
  Clients,        \* the clients that connect
  HardUserLimit,  \* HARD_USERLIMIT, the number of contexts
  Aborting,       \* clients that may reset before their connection is accepted
  Crashing,       \* clients whose session process may die (WZD_MULTITHREAD)
  NoClient        \* controlfd -1; no client

ASSUME SessionAssumption ==
  /\ HardUserLimit \in Nat \ {0}
  /\ Aborting \subseteq Clients /\ Crashing \subseteq Clients
  /\ NoClient \notin Clients

Slots == 1..HardUserLimit
NoSlot == 0

VARIABLES
  multithread, \* the build: WZD_MULTITHREAD is defined (fixed for a run)
  conn,      \* conn[c]: "idle", "queued", "aborted", "accepted", "rejected",
             \* "session", "done", "crashed"
  queue,     \* the listen backlog, oldest first
  listenNB,  \* the listening socket has O_NONBLOCK
  magic,     \* magic[s]: context_list[s].magic = CONTEXT_MAGIC
  ctlfd,     \* ctlfd[s]: context_list[s].controlfd, as the client it is for
  slotOf,    \* slotOf[c]: the context c's session runs with
  mainPc,    \* "select", "accept", "tag", "setfd", "serving", "exited"
  cur,       \* login_new's newsock, as the client
  curSlot    \* login_new's context

vars == <<multithread, conn, queue, listenNB, magic, ctlfd, slotOf, mainPc, cur, curSlot>>

-----------------------------------------------------------------------------
(* Seeded faults.                                                          *)

\* context_find_free without its test of magic: the first context.
FindFreeNoTest(m) == 1

\* login_new's full-table branch returning without close(newsock).
RejectKeepsSocket(c) == [conn EXCEPT ![c] = "accepted"]

-----------------------------------------------------------------------------
\* context_find_free (lines 54-72): the first context whose magic is 0,
\* or NULL.
FindFree(m) == IF \E s \in Slots : ~m[s] THEN Min({s \in Slots : ~m[s]}) ELSE NoSlot

\* The full-table branch of login_new (lines 106-110): close(newsock); the
\* client sees its connection closed.
Reject(c) == [conn EXCEPT ![c] = "rejected"]

\* context_init (lines 39-52), as serverMainThreadProc applies it to every
\* context (lines 160-168).
Init ==
  /\ multithread \in BOOLEAN
  /\ conn = [c \in Clients |-> "idle"]
  /\ queue = <<>>
  /\ listenNB = FALSE
  /\ magic = [s \in Slots |-> FALSE]
  /\ ctlfd = [s \in Slots |-> NoClient]
  /\ slotOf = [c \in Clients |-> NoSlot]
  /\ mainPc = "select"
  /\ cur = NoClient /\ curSlot = NoSlot

\* A client connects: the kernel completes the handshake and queues it.
Connect(c) ==
  /\ conn[c] = "idle" /\ mainPc # "exited"
  /\ conn' = [conn EXCEPT ![c] = "queued"] /\ queue' = Append(queue, c)
  /\ UNCHANGED <<multithread, listenNB, magic, ctlfd, slotOf, mainPc, cur, curSlot>>

\* A queued client resets its connection; the kernel drops it.
Abort(c) ==
  /\ c \in Aborting /\ conn[c] = "queued"
  /\ conn' = [conn EXCEPT ![c] = "aborted"]
  /\ queue' = SelectSeq(queue, LAMBDA x : x # c)
  /\ UNCHANGED <<multithread, listenNB, magic, ctlfd, slotOf, mainPc, cur, curSlot>>

\* The loop of serverMainThreadProc (lines 205-226): select() reports the
\* listening socket readable, and login_new is called.  A timeout or an
\* EINTR goes round the loop again: a stuttering step.
MainSelect ==
  /\ mainPc = "select" /\ queue # <<>>
  /\ mainPc' = "accept"
  /\ UNCHANGED <<multithread, conn, queue, listenNB, magic, ctlfd, slotOf, cur, curSlot>>

\* socket_accept (wzd_socket.c lines 179-266) when accept() succeeds: the
\* oldest connection leaves the backlog, and fcntl sets O_NONBLOCK on
\* sock, the listening socket, not on new_sock (line 228).
SocketAccept == queue' = Tail(queue) /\ listenNB' = TRUE

\* login_new up to the tagging (lines 83-110): socket_accept, then a
\* context is looked for; with none free the connection is closed.  On an
\* empty backlog a blocking accept() waits: the action is not enabled.
MainAccept ==
  LET c == Head(queue)
      s == FindFree(magic)
  IN /\ mainPc = "accept" /\ queue # <<>>
     /\ SocketAccept
     /\ IF s = NoSlot
        THEN conn' = Reject(c) /\ mainPc' = "select" /\ UNCHANGED <<cur, curSlot>>
        ELSE /\ conn' = [conn EXCEPT ![c] = "accepted"]
             /\ mainPc' = "tag" /\ cur' = c /\ curSlot' = s
     /\ UNCHANGED <<multithread, magic, ctlfd, slotOf>>

\* login_new when accept() fails, as a non-blocking accept() on an empty
\* backlog does: serverMainThreadExit(-1) (lines 83-88, 232-244).
AcceptFail ==
  /\ mainPc = "accept" /\ queue = <<>> /\ listenNB
  /\ mainPc' = "exited"
  /\ UNCHANGED <<multithread, conn, queue, listenNB, magic, ctlfd, slotOf, cur, curSlot>>

\* login_new: context->magic = CONTEXT_MAGIC (line 113).
LoginTag ==
  /\ mainPc = "tag"
  /\ magic' = [magic EXCEPT ![curSlot] = TRUE]
  /\ mainPc' = "setfd"
  /\ UNCHANGED <<multithread, conn, queue, listenNB, ctlfd, slotOf, cur, curSlot>>

\* login_new: context->controlfd = newsock (line 114), then the session:
\* clientThreadProc in this thread, or, with WZD_MULTITHREAD, in a forked
\* child while the parent closes newsock and returns (lines 123-133).
LoginStart ==
  /\ mainPc = "setfd"
  /\ ctlfd' = [ctlfd EXCEPT ![curSlot] = cur]
  /\ conn' = [conn EXCEPT ![cur] = "session"]
  /\ slotOf' = [slotOf EXCEPT ![cur] = curSlot]
  /\ mainPc' = IF multithread THEN "select" ELSE "serving"
  /\ cur' = NoClient /\ curSlot' = NoSlot
  /\ UNCHANGED <<multithread, queue, listenNB, magic>>

\* The end of clientThreadProc (§3, §4.3): the session releases its
\* context; in the default build the main loop goes on.
SessionEnd(c) ==
  /\ conn[c] = "session"
  /\ conn' = [conn EXCEPT ![c] = "done"]
  /\ magic' = [magic EXCEPT ![slotOf[c]] = FALSE]
  /\ ctlfd' = [ctlfd EXCEPT ![slotOf[c]] = NoClient]
  /\ slotOf' = [slotOf EXCEPT ![c] = NoSlot]
  /\ mainPc' = IF multithread THEN mainPc ELSE "select"
  /\ UNCHANGED <<multithread, queue, listenNB, cur, curSlot>>

\* A session child dies (WZD_MULTITHREAD); the parent's SIGCHLD handler
\* cleanchild (lines 27-37) reaps it and clears context_list[0].pid_child
\* if it is the child's pid, which it never is: pid_child stays 0.  The
\* context keeps its magic.
ChildCrash(c) ==
  /\ multithread /\ c \in Crashing /\ conn[c] = "session"
  /\ conn' = [conn EXCEPT ![c] = "crashed"]
  /\ UNCHANGED <<multithread, queue, listenNB, magic, ctlfd, slotOf, mainPc, cur, curSlot>>

MainThread == MainSelect \/ MainAccept \/ AcceptFail \/ LoginTag \/ LoginStart

Next ==
  \/ MainThread
  \/ \E c \in Clients : Connect(c) \/ Abort(c) \/ SessionEnd(c) \/ ChildCrash(c)

\* The main loop wakes up at least every HARD_REACTION_TIME seconds and
\* only blocks in accept() while the backlog is empty: its steps are weakly
\* fair.  A session ends when its client quits or its idle timeout fires.
Spec == Init /\ [][Next]_vars /\ WF_vars(MainThread)
        /\ \A c \in Clients : WF_vars(SessionEnd(c))

-----------------------------------------------------------------------------
Running(c) == conn[c] = "session"

\* No two sessions run with the same context (§8, registry mutual
\* exclusion): context_find_free, called by the accept loop alone, never
\* hands out a context a running or crashed session still holds.
SlotsExclusive ==
  \A c1, c2 \in Clients :
    c1 # c2 /\ slotOf[c1] # NoSlot => slotOf[c1] # slotOf[c2]

\* Every connection that reaches the backlog is answered while the server
\* runs: accepted into a session or closed because the table is full; the
\* accept loop never leaves an accepted socket open without a session.
ConnectionAnswered ==
  \A c \in Clients :
    conn[c] = "queued" ~> (conn[c] \in {"rejected", "session", "done",
                                          "crashed", "aborted"}
                           \/ mainPc = "exited")

\* §7: an error of one connection never affects other sessions; the
\* accept loop keeps running whatever a client does.
ServerSurvives == mainPc # "exited"

\* §3: a context is fully initialised before it is tagged in use: a
\* reader of the table (SITE WHO, the cron jobs) never sees CONTEXT_MAGIC
\* with no control connection.
InitBeforeTag == \A s \in Slots : magic[s] => ctlfd[s] # NoClient

\* §4.3: a context is in use only while a session holds it or the accept
\* loop is claiming it; a session that has gone gives its context back.
NoLeakedSlot ==
  \A s \in Slots :
    magic[s] => (\E c \in Clients : Running(c) /\ slotOf[c] = s)
                \/ (mainPc \in {"tag", "setfd"} /\ curSlot = s)
=============================================================================
