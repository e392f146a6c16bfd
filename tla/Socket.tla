------------------------------- MODULE Socket -------------------------------
(***************************************************************************)
(* One caller of socket_connect and then socket_wait_to_read on the socket  *)
(* it returns (src/libwzd-core/wzd_socket.c, the POSIX build), against the  *)
(* kernel and the remote peer.                                              *)
(*                                                                         *)
(* The kernel state of the socket is kstate: "none", "connecting" (after a  *)
(* non-blocking connect() returned EINPROGRESS), "connected" or "failed"   *)
(* (the handshake was refused: SO_ERROR is set).  The peer accepts, refuses *)
(* or never answers; once connected it may send data, and urgent (OOB)     *)
(* data.  What select() reports follows from that state, the way the       *)
(* kernel does it: writable once the handshake has ended, successfully or  *)
(* not; readable when data or an error is pending; exceptional when OOB    *)
(* data is pending; nothing, until the timeout, otherwise.  A signal may   *)
(* interrupt any select(): that is an action of its own, with no fairness.  *)
(* errno is kept: the code reads it after calls that do not set it.        *)
(***************************************************************************)
EXTENDS Naturals

CONSTANTS
  UrgentDuringConnect, \* the peer may send OOB data before socket_connect returns
  MaxAttempts          \* the number of connections the caller makes

VARIABLES
  attempts,  \* connections made so far
  peer,      \* "accepting", "refusing" or "silent", for this connection
  timed,     \* socket_connect's timeout is not 0
  kstate,    \* the kernel state of the socket
  fdOpen,    \* the descriptor is open
  data,      \* the peer has sent data not yet read
  oob,       \* the peer has sent OOB data not yet read
  errno,     \* errno of the calling thread
  pc,        \* "start", "wait", "read", "done"
  result,    \* what socket_connect returned: "none", "sock", "err"
  readRes    \* what socket_wait_to_read returned: "none", "0", "1", "-1",
             \* or "timeout" for a 1 after the full timeout

vars == <<attempts, peer, timed, kstate, fdOpen, data, oob, errno, pc, result, readRes>>

\* What select() reports for the socket; socket_select (lines 166-175)
\* passes the call through to it.
Writable == kstate \in {"connected", "failed"}
Readable == data \/ kstate = "failed"
Except   == oob

-----------------------------------------------------------------------------
(* Seeded faults.                                                          *)

-----------------------------------------------------------------------------
\* socket_connect's test after a failed wait (line 536): go round again
\* when errno is EINPROGRESS.
RetryErrno(e) == e = "EINPROGRESS"

\* socket_connect's failure exits (lines 531-540, 549-558): socket_close,
\* errno, return -1.
Fail(e) ==
  /\ errno' = e /\ result' = "err" /\ pc' = "done"
  /\ fdOpen' = FALSE

Init ==
  /\ attempts = 1
  /\ peer \in {"accepting", "refusing", "silent"}
  /\ timed \in BOOLEAN
  /\ kstate = "none" /\ fdOpen = FALSE /\ data = FALSE /\ oob = FALSE
  /\ errno = "0" /\ pc = "start" /\ result = "none" /\ readRes = "none"

\* socket_connect up to connect() (lines 323-528, 545-558): the socket is
\* created and SO_REUSEADDR set.  With a timeout of 0, the block that
\* makes it non-blocking and calls connect() (lines 432-546) is skipped:
\* ret is setsockopt's 0, and the socket is returned unconnected.  With a
\* timeout, a non-blocking connect() returns at once: connected or
\* refused on the loopback, otherwise EINPROGRESS; connect() >= 0 returns
\* the socket; otherwise the errno is not looked at and the wait loop
\* starts.
ConnectStart ==
  /\ pc = "start"
  /\ \/ /\ ~timed
        /\ result' = "sock" /\ pc' = "read" /\ fdOpen' = TRUE
        /\ UNCHANGED <<kstate, errno>>
     \/ /\ timed /\ peer = "accepting"
        /\ kstate' = "connected" /\ result' = "sock" /\ pc' = "read"
        /\ UNCHANGED errno /\ fdOpen' = TRUE
     \/ /\ timed /\ peer = "refusing"
        /\ kstate' = "failed" /\ errno' = "ECONNREFUSED" /\ pc' = "wait"
        /\ fdOpen' = TRUE /\ UNCHANGED result
     \/ /\ timed
        /\ kstate' = "connecting" /\ errno' = "EINPROGRESS" /\ pc' = "wait"
        /\ fdOpen' = TRUE /\ UNCHANGED result
  /\ UNCHANGED <<attempts, peer, timed, data, oob, readRes>>

\* The peer answers the handshake.
Handshake ==
  /\ kstate = "connecting" /\ fdOpen /\ peer # "silent"
  /\ kstate' = IF peer = "accepting" THEN "connected" ELSE "failed"
  /\ UNCHANGED <<attempts, peer, timed, fdOpen, data, oob, errno, pc, result, readRes>>

\* The connected peer sends data, or OOB data.
PeerSend ==
  /\ kstate = "connected" /\ fdOpen /\ ~data
  /\ data' = TRUE
  /\ UNCHANGED <<attempts, peer, timed, kstate, fdOpen, oob, errno, pc, result, readRes>>

PeerUrgent ==
  /\ kstate = "connected" /\ fdOpen /\ ~oob
  /\ pc = "wait" => UrgentDuringConnect
  /\ oob' = TRUE
  /\ UNCHANGED <<attempts, peer, timed, kstate, fdOpen, data, errno, pc, result, readRes>>

\* One round of socket_connect's wait loop (lines 528-542): one select()
\* of socket_wait_to_write (lines 665-711) on writability and exceptions.
\* Nothing before the timeout: 1, ETIMEDOUT.  An exception: errno is what
\* it was; on EINTR the inner loop goes on, otherwise -1, and socket_connect
\* goes round again if RetryErrno.  Writable: 0, and the socket is returned.
WaitToWrite ==
  /\ pc = "wait"
  /\ CASE ~Writable /\ ~Except -> Fail("ETIMEDOUT") /\ UNCHANGED readRes
       [] Except -> IF errno = "EINTR" \/ RetryErrno(errno)
                    THEN UNCHANGED <<errno, pc, result, fdOpen, readRes>>
                    ELSE Fail(errno) /\ UNCHANGED readRes
       [] OTHER -> result' = "sock" /\ pc' = "read"
                   /\ UNCHANGED <<errno, fdOpen, readRes>>
  /\ UNCHANGED <<attempts, peer, timed, kstate, data, oob>>

\* A signal interrupts the select() of socket_wait_to_write: it returns -1
\* with EINTR, and socket_connect fails unless RetryErrno.
WaitToWriteInterrupted ==
  /\ pc = "wait"
  /\ IF RetryErrno("EINTR") THEN errno' = "EINTR" /\ UNCHANGED <<pc, result, fdOpen>>
                            ELSE Fail("EINTR")
  /\ UNCHANGED <<attempts, peer, timed, kstate, data, oob, readRes>>

\* socket_wait_to_read on the returned socket (lines 615-663): a blocking
\* socket is ready at once; otherwise one select() on readability,
\* writability and exceptions: nothing before the timeout gives 1; an
\* exception -1 (the inner loop goes on when errno is EINTR); otherwise 0
\* if readable, and 1 if not.
WaitToRead ==
  /\ pc = "read"
  /\ CASE ~timed -> readRes' = "0"
       [] ~Readable /\ ~Writable /\ ~Except -> readRes' = "timeout"
       [] Except -> IF errno = "EINTR" THEN UNCHANGED readRes ELSE readRes' = "-1"
       [] Readable -> readRes' = "0"
       [] OTHER -> readRes' = "1"
  /\ pc' = IF readRes' = "none" THEN pc ELSE "done"
  /\ UNCHANGED <<attempts, peer, timed, kstate, fdOpen, data, oob, errno, result>>

\* A signal interrupts the select() of socket_wait_to_read: -1, EINTR.
WaitToReadInterrupted ==
  /\ pc = "read" /\ timed
  /\ readRes' = "-1" /\ errno' = "EINTR" /\ pc' = "done"
  /\ UNCHANGED <<attempts, peer, timed, kstate, fdOpen, data, oob, result>>

\* The caller is done with the socket: socket_close (lines 111-164:
\* shutdown and close) when it is open; then the next connection, to a
\* peer that may behave differently.  errno is left as it was.
CloseAndReconnect ==
  /\ pc = "done" /\ attempts < MaxAttempts
  /\ attempts' = attempts + 1
  /\ peer' \in {"accepting", "refusing", "silent"} /\ timed' \in BOOLEAN
  /\ kstate' = "none" /\ fdOpen' = FALSE /\ data' = FALSE /\ oob' = FALSE
  /\ pc' = "start" /\ result' = "none" /\ readRes' = "none"
  /\ UNCHANGED errno

Next ==
  \/ ConnectStart \/ CloseAndReconnect \/ WaitToWrite \/ WaitToWriteInterrupted
  \/ WaitToRead \/ WaitToReadInterrupted
  \/ Handshake \/ PeerSend \/ PeerUrgent

\* The caller's steps are weakly fair: select() returns by its timeout at
\* the latest.  The peer and signals are not.
Spec == Init /\ [][Next]_vars
        /\ WF_vars(ConnectStart) /\ WF_vars(WaitToWrite) /\ WF_vars(WaitToRead)

-----------------------------------------------------------------------------
\* socket_connect returns: its wait loop ends by the peer's answer, the
\* timeout or an error, whatever the peer sends.
ConnectReturns == pc = "wait" ~> pc # "wait"

\* socket_wait_to_read returns, at the latest when its timeout passes,
\* whatever errno the thread's earlier calls left.
WaitReadReturns == pc = "read" ~> pc # "read"

\* §4.2: connect fails with ConnectError when the connection cannot be
\* made; a socket socket_connect returns is connected.
ConnectedMeansConnected == result = "sock" => kstate = "connected"

\* socket_wait_to_read returns 1 (timeout) only when the timeout has
\* passed with nothing to read.
ReadTimeoutIsReal == readRes # "1"
=============================================================================
