------------------------------ MODULE UdsFlash ------------------------------
(***************************************************************************)
(* The flashing pipeline (uds_flash_pipeline.c: 0x34, 0x36, 0x37), fed by  *)
(* a tester over a link that may lose a request or a response.  Session    *)
(* and security are present through their promise, AccessControl: requests *)
(* change them between flash requests, timers at any time, a reboot resets *)
(* them together with the pipeline.                                        *)
(*                                                                         *)
(* The tester streams the cells 1..Image in blocks.  A block whose answer  *)
(* is missing is sent again, and wrongBlockSequenceCounter to a block sent *)
(* again is taken for the answer that was lost: the code knows no other    *)
(* way to tell that the block was written.                                 *)
(***************************************************************************)
EXTENDS Integers

CONSTANTS Image,       \* length of the image, in cells
          MaxPayload,  \* cells in a block, at most
          Bases,       \* addresses an image is downloaded to
          Word,        \* 2^32: addresses and sizes are uint32_t
          BlockMod,    \* 2^8: the block counter is a uint8_t
          Disciplined  \* does the tester announce the image's true length, and
                       \* send blocks only after its download was accepted?

ASSUME FlashAssumption ==
  /\ Image \in Nat \ {0} /\ MaxPayload \in Nat \ {0}
  /\ BlockMod \in Nat /\ BlockMod > 1
  /\ Word \in Nat /\ Image < Word /\ Bases \subseteq Nat
  /\ \A a \in Bases : a + Image <= Word
  /\ Disciplined \in BOOLEAN

VARIABLES session, granted, blocked, \* see AccessControl
          pipeline_state, memory_address, memory_size, bytes_received,
          expected_block_counter,
          flash,                     \* the content of every cell
          pc,                        \* control point of the RX thread
          req, reply,                \* the tester's request, and its answer
          mode, base, next, block,   \* the tester: its transfer,
          doubt                      \*   and whether an answer is missing

access == <<session, granted, blocked>>
pipeline == <<pipeline_state, memory_address, memory_size, bytes_received,
              expected_block_counter>>
tester == <<mode, base, next, block, doubt>>
vars == <<access, pipeline, flash, pc, req, reply, tester>>

Access == INSTANCE AccessControl

\* What a cell may hold besides a cell of the image.
Old == -1
Erased == 0
Damaged == -2

Cells == 0..Word - 1
Region(address, size) == {(address + i) % Word : i \in 0..size - 1}
Fill(cells, content) == [c \in Cells |-> IF c \in cells THEN content ELSE flash[c]]

\* Flash with the payload of the block request r written at an address.
Programmed(address, r) ==
  [c \in Cells |-> IF \E i \in 0..r.size - 1 : c = (address + i) % Word
                   THEN r.address + 1 + ((c - address) % Word) ELSE flash[c]]

Answer(code) == pc' = "recv" /\ reply' = code

----------------------------------------------------------------------------
(* The server.                                                             *)

GateSession ==
  /\ pc = "session"
  /\ IF session # "DEFAULT" THEN pc' = "security" /\ UNCHANGED reply
                            ELSE Answer("refused")
  /\ UNCHANGED <<access, pipeline, flash, req, tester>>

\* Address and size are stored before the erase hook is called.
BugGateSecurity ==
  /\ pc = "security"
  /\ pc' = "erase" /\ UNCHANGED reply
  /\ memory_address' = req.address /\ memory_size' = req.size
  /\ UNCHANGED <<access, pipeline_state, bytes_received,
                 expected_block_counter, flash, req, tester>>
GateSecurity ==
  /\ pc = "security"
  /\ \/ /\ granted
        /\ pc' = "erase" /\ UNCHANGED reply
        /\ memory_address' = req.address /\ memory_size' = req.size
     \/ /\ ~granted /\ Answer("refused")
        /\ UNCHANGED <<memory_address, memory_size>>
  /\ UNCHANGED <<access, pipeline_state, bytes_received,
                 expected_block_counter, flash, req, tester>>

Target == Region(memory_address, memory_size)

BugErase ==
  /\ pc = "erase"
  /\ \/ /\ Answer("ok")
        /\ flash' = Fill(Target, Erased)
        /\ expected_block_counter' = 1
        /\ pipeline_state' = "DOWNLOAD_APPROVED" /\ UNCHANGED bytes_received
     \/ /\ Answer("refused")
        /\ flash' \in {flash, Fill(Target, Erased)}
        /\ UNCHANGED <<bytes_received, expected_block_counter, pipeline_state>>
  /\ UNCHANGED <<access, memory_address, memory_size, req, tester>>
\* uds_app_flash_erase_target succeeds, or fails and may have erased.
Erase ==
  /\ pc = "erase"
  /\ \/ /\ Answer("ok")
        /\ flash' = Fill(Target, Erased)
        /\ bytes_received' = 0 /\ expected_block_counter' = 1
        /\ pipeline_state' = "DOWNLOAD_APPROVED"
     \/ /\ Answer("refused")
        /\ flash' \in {flash, Fill(Target, Erased)}
        /\ UNCHANGED <<bytes_received, expected_block_counter, pipeline_state>>
  /\ UNCHANGED <<access, memory_address, memory_size, req, tester>>

BugInSequence == TRUE
InSequence == req.counter = expected_block_counter

\* uds_handle_transfer_data up to the write hook: neither session nor security
\* is looked at.
TransferData ==
  /\ pc = "transfer"
  /\ \/ pipeline_state = "IDLE" /\ Answer("sequence error")
     \/ pipeline_state # "IDLE" /\ ~InSequence /\ Answer("wrong counter")
     \/ pipeline_state # "IDLE" /\ InSequence /\ pc' = "write" /\ UNCHANGED reply
  /\ UNCHANGED <<access, pipeline, flash, req, tester>>

current_offset == (memory_address + bytes_received) % Word

BugAdvance ==
  /\ bytes_received' = (bytes_received + req.size) % Word
  /\ expected_block_counter' = expected_block_counter + 1
  /\ pipeline_state' = "TRANSFERRING"
Advance ==
  /\ bytes_received' = (bytes_received + req.size) % Word
  /\ expected_block_counter' = (expected_block_counter + 1) % BlockMod
  /\ pipeline_state' = "TRANSFERRING"

\* uds_app_flash_write_block succeeds, or fails and may leave damaged cells.
WriteBlock ==
  /\ pc = "write"
  /\ \/ /\ Answer("ok")
        /\ flash' = Programmed(current_offset, req)
        /\ Advance
     \/ /\ Answer("suspended")
        /\ flash' \in {flash, Fill(Region(current_offset, req.size), Damaged)}
        /\ UNCHANGED <<bytes_received, expected_block_counter, pipeline_state>>
  /\ UNCHANGED <<access, memory_address, memory_size, req, tester>>

\* A transfer shorter than announced is only logged.
TransferExit ==
  /\ pc = "exit"
  /\ \/ /\ pipeline_state = "TRANSFERRING" /\ Answer("ok")
        /\ pipeline_state' = "IDLE"
     \/ /\ pipeline_state # "TRANSFERRING" /\ Answer("sequence error")
        /\ UNCHANGED pipeline_state
  /\ UNCHANGED <<access, memory_address, memory_size, bytes_received,
                 expected_block_counter, flash, req, tester>>

\* What a reboot may leave of the hook call it cuts off.
Interrupted ==
  CASE pc = "erase" -> {flash, Fill(Target, Erased), Fill(Target, Damaged)}
    [] pc = "write" -> {flash, Programmed(current_offset, req),
                        Fill(Region(current_offset, req.size), Damaged)}
    [] OTHER -> {flash}

\* uds_flash_pipeline_init; a request that was being handled gets no answer.
Reset ==
  /\ pipeline_state' = "IDLE"
  /\ memory_address' = 0 /\ memory_size' = 0 /\ bytes_received' = 0
  /\ expected_block_counter' = 1

Reboot ==
  /\ Access!Restart
  /\ Reset
  /\ flash' \in Interrupted
  /\ pc' = "recv" /\ reply' = IF pc = "recv" THEN reply ELSE "lost"
  /\ UNCHANGED <<req, tester>>

\* Requests to the session and security services, and the kernel timers.
AccessChange ==
  /\ (pc = "recv" /\ Access!Request) \/ Access!Expiry
  /\ UNCHANGED <<pipeline, flash, pc, req, reply, tester>>

----------------------------------------------------------------------------
(* The tester and the link.                                                *)

Send(sid, address, size, counter) ==
  /\ pc = "recv" /\ reply = "none"
  /\ pc' = CASE sid = "download" -> "session"
             [] sid = "block" -> "transfer"
             [] sid = "exit" -> "exit"
  /\ req' = [sid |-> sid, address |-> address, size |-> size, counter |-> counter]
  /\ UNCHANGED <<access, pipeline, flash, reply>>

\* A new download abandons the transfer under way.
SendDownload ==
  /\ \E a \in Bases, n \in IF Disciplined THEN {Image} ELSE 1..Image :
       Send("download", a, n, 0)
  /\ mode' = "idle" /\ doubt' = FALSE
  /\ UNCHANGED <<base, next, block>>

\* The next cells of the image.
SendBlock ==
  /\ mode = "sending" \/ ~Disciplined
  /\ ~doubt /\ next < Image
  /\ \E n \in 1..MaxPayload : next + n <= Image /\ Send("block", next, n, block)
  /\ UNCHANGED tester

\* The block in doubt, once more.
Resend ==
  /\ doubt
  /\ Send("block", req.address, req.size, req.counter)
  /\ UNCHANGED tester

SendExit ==
  /\ mode = "sending" /\ ~doubt
  /\ next = Image \/ ~Disciplined
  /\ Send("exit", 0, 0, 0)
  /\ UNCHANGED tester

\* A request or a response is lost.
Lose ==
  /\ \/ pc \in {"session", "transfer", "exit"}
     \/ pc = "recv" /\ reply \notin {"none", "lost"}
  /\ Answer("lost")
  /\ UNCHANGED <<access, pipeline, flash, req, tester>>

DownloadAnswered ==
  /\ req.sid = "download"
  /\ \/ /\ reply = "ok" /\ mode' = "sending"
        /\ base' = req.address /\ next' = 0 /\ block' = 1
     \/ /\ reply # "ok" /\ UNCHANGED <<mode, base, next, block>>
  /\ UNCHANGED doubt

BlockAnswered ==
  /\ req.sid = "block"
  /\ \/ /\ reply = "ok" \/ (reply = "wrong counter" /\ doubt)
        /\ next' = next + req.size /\ block' = (block + 1) % BlockMod
        /\ doubt' = FALSE /\ UNCHANGED mode
     \/ /\ reply = "lost" /\ doubt' = TRUE
        /\ UNCHANGED <<mode, next, block>>
     \/ /\ reply = "suspended" /\ doubt' = FALSE
        /\ UNCHANGED <<mode, next, block>>
     \/ /\ reply = "sequence error" \/ (reply = "wrong counter" /\ ~doubt)
        /\ mode' = "idle" /\ doubt' = FALSE
        /\ UNCHANGED <<next, block>>
  /\ UNCHANGED base

ExitAnswered ==
  /\ req.sid = "exit"
  /\ mode' = "idle"
  /\ UNCHANGED <<base, next, block, doubt>>

Answered ==
  /\ pc = "recv" /\ reply # "none" /\ reply' = "none"
  /\ DownloadAnswered \/ BlockAnswered \/ ExitAnswered
  /\ UNCHANGED <<access, pipeline, flash, pc, req>>

----------------------------------------------------------------------------
Init ==
  /\ Access!Init
  /\ pipeline_state = "IDLE" /\ memory_address = 0 /\ memory_size = 0
  /\ bytes_received = 0 /\ expected_block_counter = 1
  /\ flash = [c \in Cells |-> Old]
  /\ pc = "recv" /\ reply = "none"
  /\ req = [sid |-> "exit", address |-> 0, size |-> 0, counter |-> 0]
  /\ mode = "idle" /\ base = 0 /\ next = 0 /\ block = 1
  /\ doubt = FALSE

Next ==
  \/ GateSession \/ GateSecurity \/ Erase
  \/ TransferData \/ WriteBlock \/ TransferExit
  \/ AccessChange \/ Reboot
  \/ SendDownload \/ SendBlock \/ Resend \/ SendExit \/ Lose \/ Answered

Spec == Init /\ [][Next]_vars

----------------------------------------------------------------------------
(* The refinement of StopAndWait.                                          *)

Sending == mode = "sending"

\* The cells that were written, as far as somebody can tell: the server counts
\* them, and after a reboot an answer on its way still speaks of a block.
Wrote ==
  CASE ~Sending -> 0
    [] Sending /\ pipeline_state # "IDLE" -> bytes_received
    [] OTHER -> IF req.sid = "block" /\ reply \in {"ok", "wrong counter"}
                THEN next + req.size ELSE next

Transfers == INSTANCE StopAndWait WITH
               on <- Sending, wrote <- Wrote,
               acked <- IF Sending THEN next ELSE 0

----------------------------------------------------------------------------
(* Properties.                                                             *)

\* Every variable keeps its type: uint32_t and uint8_t values their width.
TypeOK ==
  /\ session \in Access!Sessions /\ granted \in BOOLEAN /\ blocked \in BOOLEAN
  /\ pipeline_state \in {"IDLE", "DOWNLOAD_APPROVED", "TRANSFERRING"}
  /\ memory_address \in Cells /\ memory_size \in 0..Image
  /\ bytes_received \in Cells
  /\ expected_block_counter \in 0..BlockMod - 1
  /\ flash \in [Cells -> {Old, Damaged} \cup 0..Image]
  /\ pc \in {"recv", "session", "security", "erase", "transfer", "write", "exit"}
  /\ req \in [sid : {"download", "block", "exit"}, address : Bases \cup 0..Image,
              size : 0..Image, counter : 0..BlockMod - 1]
  /\ reply \in {"none", "ok", "lost", "refused", "suspended",
                "sequence error", "wrong counter"}
  /\ mode \in {"idle", "sending"} /\ base \in Bases \cup {0}
  /\ next \in 0..Image /\ block \in 0..BlockMod - 1 /\ doubt \in BOOLEAN

\* What the tester takes for written is in flash, at its place: whatever got
\* lost, failed or was sent twice, and even when a reboot came between.
ImageIntegrity ==
  mode = "sending" => \A i \in 0..next - 1 : flash[base + i] = i + 1

\* A download that ends with a positive answer to 0x37 is complete: the whole
\* image is in flash where the tester asked for it.  The server sees to no part
\* of that on its own; it takes a disciplined tester, which counts.
DownloadComplete ==
  mode = "sending" /\ req.sid = "exit" /\ reply = "ok" =>
    \A i \in 0..Image - 1 : flash[base + i] = i + 1

\* No block is counted twice or left out, by server or tester: they go through
\* the image in step, one block in doubt at most, although either may learn of
\* a block from a repeated request, and a reboot may come at any time.
BlockByBlock == Transfers!Spec

\* The erase hook is reached only while a session other than the default one
\* and an open grant hold together, although they are read one after the other.
DownloadAuthorised ==
  [][pc # "erase" /\ pc' = "erase" => session # "DEFAULT" /\ granted]_vars

\* uds_flash_pipeline.c:103, "Clear target area inside physical memory flash
\* before data ingestion": no block is handed to the write hook for a cell
\* that holds old content or an earlier block.  Violated by a tester that is
\* not disciplined: nothing compares bytes_received with memory_size.
IngestOnlyCleared ==
  [][pc = "write" =>
       \A c \in Cells : flash'[c] # flash[c] => flash[c] \in {Erased, Damaged}]_vars

\* uds_flash_pipeline.c:32, "Download session negotiated, target memory
\* erased": until a first block is written the target region is blank, but for
\* what a failing write hook left there.  Violated: a later download that is
\* refused has already replaced memory_address and memory_size.
ApprovedIsErased ==
  pipeline_state = "DOWNLOAD_APPROVED" /\ pc = "recv" =>
    \A c \in Target : flash[c] \in {Erased, Damaged}
=============================================================================
