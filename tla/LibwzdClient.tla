---------------------------- MODULE LibwzdClient ----------------------------
(***************************************************************************)
(* The login of the client library, src/libwzd/libwzd_socket.c:            *)
(* server_try_socket connects with socket_connect4, reads the welcome,     *)
(* switches to TLS with socket_tls_switch when the library is built with   *)
(* TLS and OPTION_NOTLS is clear, then sends USER and PASS and reads their *)
(* replies; every failure goes to the abort label, which calls             *)
(* socket_disconnect.  socket_read is the loop that reads one reply: it    *)
(* calls read() until a chunk of at least 4 bytes has a space as its 4th   *)
(* byte, or strstr() finds "code " in the buffer.                          *)
(*                                                                         *)
(* The server is the other end of the connection: it answers each command  *)
(* with one reply, appended to stream, and may close the connection.      *)
(* read() returns any non-empty prefix of what has arrived that fits; once *)
(* everything is read, 0 after the server's close (or when asked for 0     *)
(* bytes), -1 after a reset, and otherwise it blocks.  A byte is a one-character string; NL     *)
(* stands for the two bytes CRLF, which socket_read never looks at.  The   *)
(* library's buffers come from malloc(): UNINIT marks a byte never         *)
(* written, NUL a zero byte.  TLS (libwzd_tls.c, not in src/) carries the  *)
(* same bytes; tls_init and tls_handshake succeed, and OPTION_TLS, which   *)
(* only selects tls_read/tls_write, is left out.                           *)
(***************************************************************************)
EXTENDS Integers, Sequences, SequencesExt

CONSTANTS
  BufLen,         \* the 1024 bytes of the buffers, scaled
  TlsBuild,       \* HAVE_GNUTLS or HAVE_OPENSSL
  NoTls,          \* OPTION_NOTLS is set in _config->options
  ForceTls,       \* the caller set OPTION_TLS: TLS is required
  ServerMayClose, \* the server may close the connection
  MallocZeroed    \* malloc() returns zeroed memory

ASSUME LibwzdAssumption ==
  /\ BufLen \in Nat \ {0}
  /\ {TlsBuild, NoTls, ForceTls, ServerMayClose, MallocZeroed} \subseteq BOOLEAN

NL == "\n"
NUL == "NUL"
UNINIT == "UNINIT"

\* A reply line: three code bytes, a separator (" " on the last line of a
\* reply, "-" on the others), text and the line end.
Line(code, sep, text) == code \o <<sep>> \o text \o <<NL>>

\* The replies the server may give to each command, and whether each is
\* the one the library wants (RFC 959 codes; the welcome may be a
\* multi-line reply whose first line's text has a space in it).
Replies ==
  [CONNECT |-> {[ok |-> TRUE, bytes |-> Line(<<"2","2","0">>, " ", <<"a">>)],
                [ok |-> TRUE, bytes |-> Line(<<"2","2","0">>, "-", <<"a"," ","b">>)
                                         \o Line(<<"2","2","0">>, " ", <<"a">>)],
                [ok |-> FALSE, bytes |-> Line(<<"4","2","1">>, " ", <<"a">>)]},
   AUTH    |-> {[ok |-> TRUE, bytes |-> Line(<<"2","3","4">>, " ", <<"a">>)],
                [ok |-> FALSE, bytes |-> Line(<<"5","0","0">>, " ", <<"a">>)]},
   USER    |-> {[ok |-> TRUE, bytes |-> Line(<<"3","3","1">>, " ", <<"a">>)],
                [ok |-> FALSE, bytes |-> Line(<<"5","3","0">>, " ", <<"a">>)]},
   PASS    |-> {[ok |-> TRUE, bytes |-> Line(<<"2","3","0">>, " ", <<"a">>)],
                [ok |-> FALSE, bytes |-> Line(<<"5","3","0">>, " ", <<"a">>)]}]

\* The code server_try_socket (or socket_tls_switch) compares the first
\* bytes of each reply with.
Want == [CONNECT |-> <<"2","2">>, AUTH |-> <<"2","3","4">>,
         USER |-> <<"3","3","1">>, PASS |-> <<"2","3","0">>]

\* The exchanges of server_try_socket, in order.
Plan == <<"CONNECT">> \o (IF TlsBuild /\ ~NoTls THEN <<"AUTH">> ELSE <<>>)
          \o <<"USER", "PASS">>

\* The buffer of an exchange: socket_tls_switch reads into its own.
BufOf(cmd) == IF cmd = "AUTH" THEN "tls" ELSE "main"

FreshBuf == [i \in 0..BufLen-1 |-> IF MallocZeroed THEN NUL ELSE UNINIT]

VARIABLES
  pc,        \* "connect", "send", "read", "check", "ok", "failed"
  ex,        \* the exchange of Plan under way
  state,     \* _config->state: "NONE", "CONNECTING", "OK"
  sockOpen,  \* _config->sock is an open socket
  bufs,      \* bufs[b]: the bytes of server_try_socket's ("main") or
             \* socket_tls_switch's ("tls") buffer
  offset,    \* socket_read's offset
  got,       \* the value socket_read returned
  stream,    \* the bytes the server has sent that read() has not returned
  closed,    \* "no", or how the server closed the connection: "fin", "rst"
  sent,      \* the commands the server has received, CONNECT first
  answers    \* the replies the server gave, in order

vars == <<pc, ex, state, sockOpen, bufs, offset, got, stream, closed,
          sent, answers>>
clientVars == <<pc, ex, state, sockOpen, bufs, offset, got>>
serverVars == <<stream, closed, sent, answers>>

Cmd == Plan[ex]

Init ==
  /\ pc = "connect" /\ ex = 1 /\ state = "NONE" /\ sockOpen = FALSE
  /\ bufs = [b \in {"main", "tls"} |-> [i \in 0..BufLen-1 |-> UNINIT]]
  /\ offset = 0 /\ got = 0
  /\ stream = <<>> /\ closed = "no" /\ sent = <<>> /\ answers = <<>>

\* strstr(buf, needle): the needle found before the first zero byte; when
\* the scan reaches a byte malloc() left unset, or the end of the buffer,
\* before a zero byte, it reads memory nothing wrote and either outcome
\* can occur.
StrstrFinds(buf, needle) ==
  LET stops == {i \in 0..BufLen-1 : buf[i] \in {NUL, UNINIT}}
      stop  == IF stops = {} THEN BufLen ELSE Min(stops)
      found == \E i \in 0..stop-4 : \A k \in 0..3 : buf[i+k] = needle[k+1]
  IN IF found THEN {TRUE}
     ELSE IF stop = BufLen \/ buf[stop] = UNINIT THEN {TRUE, FALSE} ELSE {FALSE}

\* The bytes of chunk written into buf from position at.
Store(buf, at, chunk) ==
  [i \in 0..BufLen-1 |-> IF i >= at /\ i < at + Len(chunk) THEN chunk[i-at+1]
                                                          ELSE buf[i]]

\* socket_disconnect (lines 217-233): the socket, if there is one, is
\* closed.
Disconnect == sockOpen' = FALSE

\* The abort label of server_try_socket (lines 158-169): the buffer freed,
\* socket_disconnect called, the state STATE_NONE, -1 returned.
Abort ==
  /\ Disconnect /\ state' = "NONE" /\ pc' = "failed"
  /\ UNCHANGED <<ex, bufs, offset, got>>

\* server_try_socket up to the connection (lines 77-98), with
\* socket_connect4 (lines 174-215): on success the server has the
\* connection and the buffer is allocated; gethostbyname, socket() or
\* connect() failing (socket_connect4 closes its own socket) goes to abort.
Connect ==
  /\ pc = "connect"
  /\ \/ /\ sockOpen' = TRUE /\ state' = "CONNECTING"
        /\ bufs' = [bufs EXCEPT !["main"] = FreshBuf]
        /\ sent' = <<"CONNECT">>
        /\ pc' = "read" /\ offset' = 0
        /\ UNCHANGED <<ex, got>>
     \/ /\ Abort /\ UNCHANGED sent
  /\ UNCHANGED <<stream, closed, answers>>

\* socket_write of USER, PASS (lines 123-126, 138-141) or, in
\* socket_tls_switch, AUTH TLS (lines 344-351), which first allocates its
\* own buffer: write() fails only on a connection the server has closed,
\* and a failure goes to abort (socket_tls_switch returns -1, which
\* server_try_socket takes for a failure).
Send ==
  /\ pc = "send"
  /\ \E ok \in IF closed # "no" THEN BOOLEAN ELSE {TRUE} :
       IF ok
       THEN /\ sent' = Append(sent, Cmd)
            /\ bufs' = IF Cmd = "AUTH" THEN [bufs EXCEPT !["tls"] = FreshBuf] ELSE bufs
            /\ pc' = "read" /\ offset' = 0
            /\ UNCHANGED <<ex, state, sockOpen, got>>
       ELSE Abort /\ UNCHANGED sent
  /\ UNCHANGED <<stream, closed, answers>>

\* One round of socket_read's loop (lines 253-295): read() into the
\* buffer at offset; fewer than 4 bytes go round again; a chunk whose 4th
\* byte is a space, or a buffer in which strstr finds the first three
\* bytes followed by a space, ends the reply.  A read() that returns 0
\* (the server has closed, or no room is left) also goes round again,
\* changing nothing: a stuttering step.  A read error returns -1.
ReadChunk ==
  /\ pc = "read"
  /\ \/ /\ stream # <<>> /\ offset < BufLen
        /\ \E n \in 1..Min({Len(stream), BufLen - offset}) :
             LET b    == BufOf(Cmd)
                 buf2 == Store(bufs[b], offset, SubSeq(stream, 1, n))
                 seq  == <<buf2[0], buf2[1], buf2[2], " ">>
             IN /\ bufs' = [bufs EXCEPT ![b] = buf2]
                /\ stream' = SubSeq(stream, n + 1, Len(stream))
                /\ \E found \in IF n < 4 THEN {FALSE}
                                ELSE IF buf2[offset+3] = " " THEN {TRUE}
                                ELSE StrstrFinds(buf2, seq) :
                     IF found THEN got' = offset + n /\ pc' = "check" /\ UNCHANGED offset
                     ELSE offset' = offset + n /\ UNCHANGED <<got, pc>>
     \/ /\ closed = "rst" /\ stream = <<>>
        /\ got' = -1 /\ pc' = "check"
        /\ UNCHANGED <<bufs, offset, stream>>
  /\ UNCHANGED <<ex, state, sockOpen, closed, sent, answers>>

\* What server_try_socket (lines 103-110, 129-135, 144-150) or
\* socket_tls_switch (lines 353-366) does with the reply: abort when
\* socket_read failed, else write a zero byte after it (when it fills the
\* buffer the byte goes past its end, which the model leaves out), then
\* compare its first bytes with the code wanted; after the last exchange
\* the state is STATE_OK.
Check ==
  /\ pc = "check"
  /\ LET b    == BufOf(Cmd)
         buf2 == IF got < BufLen THEN [bufs[b] EXCEPT ![got] = NUL] ELSE bufs[b]
     IN IF got > 0 /\ \A k \in 1..Len(Want[Cmd]) : buf2[k-1] = Want[Cmd][k]
        THEN /\ bufs' = [bufs EXCEPT ![b] = buf2]
             /\ IF ex = Len(Plan)
                THEN state' = "OK" /\ pc' = "ok" /\ UNCHANGED ex
                ELSE ex' = ex + 1 /\ pc' = "send" /\ UNCHANGED state
             /\ UNCHANGED <<sockOpen, offset, got>>
        ELSE Abort
  /\ UNCHANGED serverVars

\* The server answers the next command it has received with one reply.
ServerReply ==
  /\ closed = "no" /\ Len(answers) < Len(sent)
  /\ LET c == sent[Len(answers) + 1]
     IN \E r \in Replies[c] :
          /\ stream' = stream \o r.bytes
          /\ answers' = Append(answers, [cmd |-> c, ok |-> r.ok])
  /\ UNCHANGED <<clientVars, closed, sent>>

\* The server closes the connection, or it is reset.
ServerClose ==
  /\ ServerMayClose /\ closed = "no"
  /\ closed' \in {"fin", "rst"}
  /\ UNCHANGED <<clientVars, stream, sent, answers>>

Client == Connect \/ Send \/ ReadChunk \/ Check

Next == Client \/ ServerReply \/ ServerClose

\* The library is called by one thread, which runs; the server answers
\* every command it receives, but may close instead.
Spec == Init /\ [][Next]_vars /\ WF_vars(Client) /\ WF_vars(ServerReply)

-----------------------------------------------------------------------------
\* The server refused: it closed the connection, could not be connected
\* to, or gave a reply other than the one wanted to a command (to AUTH TLS
\* only when the caller required TLS).
Refused ==
  \/ closed # "no" \/ sent = <<>>
  \/ \E i \in 1..Len(answers) :
       ~answers[i].ok /\ (answers[i].cmd # "AUTH" \/ ForceTls)

\* server_try_socket fails only when the server refused the login: a
\* server that gives the wanted replies gets the library logged in,
\* whatever way TCP splits its replies into read() chunks.
AbortOnlyOnRefusal == pc = "failed" => Refused

\* Every socket_read returns: a reply the server sends is read to its end,
\* and a closed connection ends the read.
ReadReturns == pc = "read" ~> pc # "read"
=============================================================================
