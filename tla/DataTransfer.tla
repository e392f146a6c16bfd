---------------------------- MODULE DataTransfer ----------------------------
(***************************************************************************)
(* The data-transfer engine of one session, src/src/wzd_data.c: RETR sends *)
(* a file to the client over the data connection, STOR writes what the     *)
(* client sends into a file.  The session's loop calls data_execute() each *)
(* time the data descriptor is ready; each call moves one buffer (2048     *)
(* bytes, here one chunk) or ends the transfer.                             *)
(*                                                                         *)
(* Files and the client's upload are counted in chunks.  Each system call *)
(* of the code has the outcomes it can have: a read returns data, 0 at     *)
(* end of file, or -1 (an I/O error, or the transfer timeout of            *)
(* clear_read/clear_write); a write succeeds or fails.  The commands that  *)
(* start a transfer (do_retr, do_stor: they open the file and the data     *)
(* connection and reply 150) are not in src/ and are modelled from §4.5.   *)
(* A transfer that ends with 226 is written to the xferlog by out_xferlog  *)
(* (src/libwzd-core/wzd_log.c); a record is its direction and its          *)
(* file-size field, the count bytesnow.                                    *)
(***************************************************************************)
EXTENDS Integers, Sequences

CONSTANTS
  FileSizes,      \* sizes, in chunks, of the files a transfer moves
  MaxTransfers,   \* the number of RETR/STOR commands of a run
  XferlogOn       \* mainConfig->xferlog_fd is not -1

VARIABLES
  token,       \* context->current_action.token: "NONE", "RETR" or "STOR"
  fileOpen,    \* current_action.current_file is open
  dataOpen,    \* context->datafd is open
  bytesnow,    \* current_action.bytesnow, in chunks
  size,        \* the chunks the transfer should move (file size, upload size)
  left,        \* chunks the source has not yet produced
  delivered,   \* chunks that reached the destination (client or file)
  reply,       \* the last reply sent on the control connection
  dlTotal,     \* user->bytes_dl_total, in chunks
  transfers,   \* transfers started
  xferlog,     \* the records out_xferlog has written, oldest first
  history      \* each ended transfer: direction, chunks read, reply

vars == <<token, fileOpen, dataOpen, bytesnow, size, left, delivered, reply,
          dlTotal, transfers, xferlog, history>>
logVars == <<xferlog, history>>

ReadResults == {"data", "eof", "error"}

\* The results a read of a source with k chunks left can give.
ReadResult(k) == IF k > 0 THEN {"data", "error"} ELSE {"eof", "error"}

-----------------------------------------------------------------------------
(* Seeded faults.                                                          *)

\* The total incremented by write()'s return value, -1 on a failed write.
DlCountByRet(n, ok) == IF ok THEN n ELSE -1

\* out_xferlog called after the counters are reset.
OutXferlogAfterReset(log, dir, n) ==
  IF XferlogOn THEN Append(log, [dir |-> dir, size |-> 0]) ELSE log

-----------------------------------------------------------------------------
\* out_xferlog(context, 1) (wzd_log.c lines 430-468): nothing when the
\* xferlog is not open; otherwise one line, whose file-size field is
\* current_action.bytesnow and whose direction is 'o' for RETR, 'i' else.
\* The host, user, date and file name of the line are left out.
OutXferlog(log, dir, n) ==
  IF XferlogOn THEN Append(log, [dir |-> dir, size |-> n]) ELSE log

\* The end of a transfer, as the history sees it.
Ended(dir, read, code) == [dir |-> dir, read |-> read, reply |-> code]

\* user->bytes_dl_total grows by n only after the write to the client has
\* succeeded (lines 118-136).
DlCount(n, ok) == IF ok THEN n ELSE 0

\* The token an ended transfer leaves: TOK_UNKNOWN (lines 123, 145, 179).
EndToken(t) == "NONE"

\* data_close(): the data descriptor is closed (lines 29-42).
DataClose == dataOpen' = FALSE

\* The common end of a transfer (lines 120-125, 139-147, 172-181): file
\* closed, counters reset, token cleared, data connection closed and a
\* reply on the control connection.
EndTransfer(code) ==
  /\ fileOpen' = FALSE /\ bytesnow' = 0
  /\ token' = EndToken(token)
  /\ DataClose
  /\ reply' = code

-----------------------------------------------------------------------------
Init ==
  /\ token = "NONE" /\ fileOpen = FALSE /\ dataOpen = FALSE
  /\ bytesnow = 0 /\ size = 0 /\ left = 0 /\ delivered = 0
  /\ reply = "none" /\ dlTotal = 0 /\ transfers = 0
  /\ xferlog = <<>> /\ history = <<>>

\* do_retr / do_stor (§4.5): open the file and the data connection, set
\* the token and reply 150.
StartTransfer(t, n) ==
  /\ token = "NONE" /\ transfers < MaxTransfers
  /\ token' = t /\ fileOpen' = TRUE /\ dataOpen' = TRUE
  /\ size' = n /\ left' = n /\ delivered' = 0
  /\ reply' = "150" /\ transfers' = transfers + 1
  /\ UNCHANGED <<bytesnow, dlTotal, xferlog, history>>

\* The bound Len(history) < MaxTransfers in the two data_execute actions
\* never bites while each transfer ends once (the history then has fewer
\* entries than transfers started); it keeps the model finite when an end
\* leaves the transfer going.

\* data_execute, case TOK_RETR (lines 109-154): read a buffer from the
\* file; if there was one, write it to the client, and on a failed write
\* end the transfer with 426; on end of file or a read error write the
\* xferlog record, then end it with 226.
DataExecuteRetr(r, ok) ==
  /\ token = "RETR" /\ r \in ReadResult(left)
  /\ Len(history) < MaxTransfers
  /\ IF r = "data"
     THEN /\ left' = left - 1
          /\ delivered' = delivered + (IF ok THEN 1 ELSE 0)
          /\ dlTotal' = dlTotal + DlCount(1, ok)
          /\ IF ok THEN /\ bytesnow' = bytesnow + 1
                        /\ UNCHANGED <<token, fileOpen, dataOpen, reply, logVars>>
                   ELSE /\ EndTransfer("426")
                        /\ history' = Append(history, Ended("RETR", size - left', "426"))
                        /\ UNCHANGED xferlog
     ELSE /\ ok
          /\ xferlog' = OutXferlog(xferlog, "RETR", bytesnow)
          /\ history' = Append(history, Ended("RETR", size - left, "226"))
          /\ EndTransfer("226")
          /\ UNCHANGED <<left, delivered, dlTotal>>
  /\ UNCHANGED <<size, transfers>>

\* data_execute, case TOK_STOR (lines 155-196): read a buffer from the
\* client; if there was one, write it to the file (the result of write()
\* is not looked at); on end of stream or a read error write the xferlog
\* record, end with 226 and call the POSTUPLOAD hooks.
DataExecuteStor(r, ok) ==
  /\ token = "STOR" /\ r \in ReadResult(left)
  /\ Len(history) < MaxTransfers
  /\ IF r = "data"
     THEN /\ left' = left - 1
          /\ delivered' = delivered + (IF ok THEN 1 ELSE 0)
          /\ bytesnow' = bytesnow + 1
          /\ UNCHANGED <<token, fileOpen, dataOpen, reply, logVars>>
     ELSE /\ ok
          /\ xferlog' = OutXferlog(xferlog, "STOR", bytesnow)
          /\ history' = Append(history, Ended("STOR", size - left, "226"))
          /\ EndTransfer("226")
          /\ UNCHANGED <<left, delivered>>
  /\ UNCHANGED <<size, dlTotal, transfers>>

Next ==
  \/ \E t \in {"RETR", "STOR"}, n \in FileSizes : StartTransfer(t, n)
  \/ \E r \in ReadResults, ok \in BOOLEAN : DataExecuteRetr(r, ok)
  \/ \E r \in ReadResults, ok \in BOOLEAN : DataExecuteStor(r, ok)

\* No fairness: the session loop calls data_execute only when select()
\* reports the data descriptor ready (data_check_fd), which a stalled
\* peer never makes it; only safety is checked.
Spec == Init /\ [][Next]_vars

-----------------------------------------------------------------------------
TypeOK ==
  /\ token \in {"NONE", "RETR", "STOR"}
  /\ fileOpen \in BOOLEAN /\ dataOpen \in BOOLEAN
  /\ {bytesnow, size, left, delivered, dlTotal, transfers} \subseteq Nat
  /\ reply \in {"none", "150", "226", "426"}
  /\ xferlog \in Seq([dir : {"RETR", "STOR"}, size : Nat])

\* The xferlog has one record for each transfer that ended with 226, in
\* the order they ended, with its direction and, as file size, the chunks
\* that transfer read from its source: bytesnow, counted over the
\* transfer's data_execute calls, is read by out_xferlog before the end of
\* transfer resets it, and starts from 0 for the next transfer.
XferlogRecordsTransfers ==
  LET done == SelectSeq(history, LAMBDA h : h.reply = "226")
  IN XferlogOn =>
       xferlog = [i \in 1..Len(done) |-> [dir |-> done[i].dir, size |-> done[i].read]]

\* §4.5, §7: a transfer that fails reports the failure on the control
\* connection; 226 (transfer complete) is sent only when every chunk has
\* reached its destination.
CompleteOnlyWhenDelivered ==
  reply = "226" => delivered = size
=============================================================================
