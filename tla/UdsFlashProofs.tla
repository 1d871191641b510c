--------------------------- MODULE UdsFlashProofs ---------------------------
(***************************************************************************)
(* Theorems about UdsFlash for every image, block size, set of addresses   *)
(* and width of addresses and block counter, over the lossy link, with     *)
(* failing hooks and reboots.                                              *)
(***************************************************************************)
EXTENDS UdsFlash, TLAPS

\* A request is under way, or its answer; and it may still be a block.
Pending == pc # "recv" \/ reply # "none"
InDoubt == req.sid = "block" /\ (Pending \/ doubt)

\* The first n cells of the image are in place, the others from n on cleared.
Prefix(n) == \A k \in 0..Image - 1 : k < n => flash[base + k] = k + 1
Clear(n) == \A k \in 0..Image - 1 :
              k >= n => flash[base + k] \in {Erased, Damaged}

\* The server has not, or has, written the block that the tester sends.
Fresh == bytes_received = next /\ expected_block_counter = block
Written == /\ bytes_received = next + req.size
           /\ expected_block_counter = (block + 1) % BlockMod
           /\ Prefix(next + req.size)

\* Which request each control point handles, and what the tester meant by it.
Control ==
  /\ pc \in {"session", "security", "erase"} => req.sid = "download"
  /\ pc \in {"transfer", "write"} => req.sid = "block"
  /\ pc = "exit" => req.sid = "exit"
  /\ pc # "recv" => reply = "none"
  /\ doubt => req.sid = "block"
  /\ req.sid = "download" =>
       /\ req.address \in Bases /\ (Disciplined => req.size = Image)
       /\ Pending => mode = "idle" /\ ~doubt
  /\ InDoubt =>
       /\ req.address = next /\ req.counter = block
       /\ req.size > 0 /\ next + req.size <= Image
       /\ Disciplined => mode = "sending"
  /\ pc = "security" /\ session = "DEFAULT" => ~granted
  /\ pc = "erase" => memory_address = req.address /\ memory_size = req.size
  /\ pc = "write" => pipeline_state # "IDLE" /\ InSequence

\* Server and tester agree on the transfer, up to the block in doubt, unless a
\* reboot made the server forget it.
Transfer ==
  mode = "sending" =>
    /\ base \in Bases
    /\ pipeline_state # "IDLE" =>
         /\ memory_address = base
         /\ \/ Fresh /\ ~(req.sid = "block" /\ reply \in {"ok", "wrong counter"})
            \/ /\ Written /\ InDoubt
               /\ IF pc = "recv" THEN doubt \/ reply \in {"ok", "lost"}
                                 ELSE doubt
               /\ reply # "suspended"
         /\ Disciplined => Clear(bytes_received)
    /\ req.sid = "block" /\ reply \in {"ok", "wrong counter"} =>
         Prefix(next + req.size) /\ (reply = "wrong counter" => doubt)

\* An accepted download is the one that was asked for.
Accepted ==
  req.sid = "download" /\ reply = "ok" /\ pipeline_state # "IDLE" =>
    /\ memory_address = req.address
    /\ bytes_received = 0 /\ expected_block_counter = 1
    /\ Disciplined => \A k \in 0..Image - 1 :
                        flash[req.address + k] \in {Erased, Damaged}

Inv == TypeOK /\ ImageIntegrity /\ Control /\ Transfer /\ Accepted

----------------------------------------------------------------------------
(* Addresses modulo Word, counters modulo BlockMod.                        *)

LEMMA WordFacts ==
  /\ Word \in Nat /\ Word > 0 /\ Image \in Nat /\ Image > 0 /\ Image < Word
  /\ BlockMod \in Nat /\ BlockMod > 1
  /\ \A a \in Bases : a \in Nat /\ a + Image <= Word
BY FlashAssumption

\* What fits is not changed, and what went once around comes back.
LEMMA ModSmall == \A x \in 0..Word - 1 : x % Word = x
BY WordFacts, SMT

LEMMA ModRange == \A x \in Int : x % Word \in Cells
BY WordFacts, SMT DEF Cells

LEMMA ModAbove == \A x \in Word..2 * Word - 1 : x % Word = x - Word
BY WordFacts, SMT

LEMMA ModBelow == \A x \in (-Word)..-1 : x % Word = x + Word
BY WordFacts, SMT

\* The next block number is another one, and a block number.
LEMMA NextBlock ==
  \A b \in 0..BlockMod - 1 :
    (b + 1) % BlockMod \in 0..BlockMod - 1 /\ (b + 1) % BlockMod # b
BY WordFacts, SMT

\* The first block has number 1 whatever the width of the counter.
LEMMA FirstBlock == 1 \in 0..BlockMod - 1
BY WordFacts, SMT

\* The distance from an address to a cell behind it.
LEMMA Distance ==
  ASSUME NEW address \in Cells, NEW k \in 0..Word - 1
  PROVE  (((address + k) % Word) - address) % Word = k
<1>1. address \in Int /\ k \in Int /\ address >= 0 /\ address < Word
  BY WordFacts, SMT DEF Cells
<1>2. CASE address + k < Word
  <2>1. (address + k) % Word = address + k
    BY <1>1, <1>2, ModSmall, WordFacts, SMT
  <2>2. k % Word = k
    BY ModSmall
  <2> QED BY <1>1, <2>1, <2>2, SMT
<1>3. CASE address + k >= Word
  <2>1. (address + k) % Word = address + k - Word
    BY <1>1, <1>3, ModAbove, WordFacts, SMT
  <2>2. (k - Word) % Word = k
    BY <1>1, ModBelow, WordFacts, SMT
  <2>3. ((address + k) % Word) - address = k - Word
    BY <1>1, <2>1, WordFacts, SMT
  <2> QED BY <2>2, <2>3
<1> QED BY <1>1, <1>2, <1>3, WordFacts, SMT

----------------------------------------------------------------------------
(* The content of flash.                                                   *)

Contents == {Old, Damaged} \cup 0..Image

LEMMA FillFacts ==
  ASSUME flash \in [Cells -> Contents], NEW cells, NEW content \in Contents
  PROVE  /\ Fill(cells, content) \in [Cells -> Contents]
         /\ \A c \in Cells : Fill(cells, content)[c] =
                             IF c \in cells THEN content ELSE flash[c]
BY Zenon DEF Fill

\* A block of the image leaves cells of the image in flash.
LEMMA ProgrammedFacts ==
  ASSUME flash \in [Cells -> Contents], NEW address \in Cells,
         NEW r, r.address \in Nat, r.size \in Nat, r.address + r.size <= Image
  PROVE  /\ Programmed(address, r) \in [Cells -> Contents]
         /\ \A c \in Cells :
              \/ \E k \in 0..r.size - 1 :
                   /\ c = (address + k) % Word
                   /\ Programmed(address, r)[c] = r.address + 1 + k
              \/ /\ c \notin Region(address, r.size)
                 /\ Programmed(address, r)[c] = flash[c]
<1>1. ASSUME NEW c \in Cells, NEW k \in 0..r.size - 1, c = (address + k) % Word
      PROVE  /\ r.address + 1 + ((c - address) % Word) = r.address + 1 + k
             /\ r.address + 1 + k \in Contents
  <2>1. k \in 0..Word - 1
    BY WordFacts, SMT
  <2>2. (c - address) % Word = k
    BY <1>1, <2>1, Distance
  <2> QED BY <2>2, WordFacts, SMT DEF Contents
<1>2. \A c \in Cells : Programmed(address, r)[c] =
        IF \E k \in 0..r.size - 1 : c = (address + k) % Word
        THEN r.address + 1 + ((c - address) % Word) ELSE flash[c]
  BY Zenon DEF Programmed
<1>3. ASSUME NEW c \in Cells
      PROVE  /\ Programmed(address, r)[c] \in Contents
             /\ \/ \E k \in 0..r.size - 1 :
                     /\ c = (address + k) % Word
                     /\ Programmed(address, r)[c] = r.address + 1 + k
                \/ /\ c \notin Region(address, r.size)
                   /\ Programmed(address, r)[c] = flash[c]
  <2>1. CASE \E k \in 0..r.size - 1 : c = (address + k) % Word
    <3>1. PICK k \in 0..r.size - 1 : c = (address + k) % Word
      BY <2>1
    <3>2. Programmed(address, r)[c] = r.address + 1 + k
      BY <1>1, <1>2, <2>1, <3>1
    <3> QED BY <1>1, <3>1, <3>2
  <2>2. CASE ~\E k \in 0..r.size - 1 : c = (address + k) % Word
    <3>1. Programmed(address, r)[c] = flash[c]
      BY <1>2, <2>2
    <3> QED BY <2>2, <3>1 DEF Region
  <2> QED BY <2>1, <2>2
<1>4. Programmed(address, r) \in [Cells -> Contents]
  BY <1>3, Zenon DEF Programmed
<1> QED BY <1>3, <1>4
----------------------------------------------------------------------------
(* The parts of the type invariant.                                        *)

AccessType == session \in Access!Sessions /\ granted \in BOOLEAN /\ blocked \in BOOLEAN
PipelineType ==
  /\ pipeline_state \in {"IDLE", "DOWNLOAD_APPROVED", "TRANSFERRING"}
  /\ memory_address \in Cells /\ memory_size \in 0..Image
  /\ bytes_received \in Cells
  /\ expected_block_counter \in 0..BlockMod - 1
Requests == [sid : {"download", "block", "exit"}, address : Bases \cup 0..Image,
             size : 0..Image, counter : 0..BlockMod - 1]
Points == {"recv", "session", "security", "erase", "transfer", "write", "exit"}
Replies == {"none", "ok", "lost", "refused", "suspended",
            "sequence error", "wrong counter"}
LinkType == pc \in Points /\ req \in Requests /\ reply \in Replies
TesterType ==
  /\ mode \in {"idle", "sending"} /\ base \in Bases \cup {0}
  /\ next \in 0..Image /\ block \in 0..BlockMod - 1 /\ doubt \in BOOLEAN

LEMMA TypeParts ==
  /\ TypeOK <=> /\ AccessType /\ PipelineType /\ flash \in [Cells -> Contents]
                /\ LinkType /\ TesterType
  /\ TypeOK' <=> /\ AccessType' /\ PipelineType' /\ (flash \in [Cells -> Contents])'
                 /\ LinkType' /\ TesterType'
BY Zenon DEF TypeOK, AccessType, PipelineType, LinkType, TesterType, Contents,
             Requests, Points, Replies

LEMMA FalseIsBoolean == \A x : x = FALSE => x \in BOOLEAN
BY Zenon

LEMMA AccessTyped ==
  ASSUME AccessType,
         Access!Request \/ Access!Expiry \/ Access!Restart \/ UNCHANGED access
  PROVE  AccessType'
<1>1. CASE Access!Request
  BY <1>1, Zenon DEF AccessType, Access!Request, Access!Revoke, Access!Grant,
       Access!Block, Access!EnterSession
<1>2. CASE Access!Expiry
  BY <1>2, Zenon DEF AccessType, Access!Expiry, Access!Timeout, Access!Unblock,
       Access!Sessions
<1>3. CASE Access!Restart
  BY <1>3, Zenon DEF AccessType, Access!Restart, Access!Sessions
<1>4. CASE UNCHANGED access
  BY <1>4, Zenon DEF AccessType, access
<1> QED BY <1>1, <1>2, <1>3, <1>4

\* The fields of a request, and of the request that Send builds.
LEMMA RequestFields ==
  ASSUME req \in Requests
  PROVE  /\ req.sid \in {"download", "block", "exit"}
         /\ req.address \in Bases \cup 0..Image
         /\ req.size \in 0..Image /\ req.counter \in 0..BlockMod - 1
BY Zenon DEF Requests

LEMMA SendFields ==
  ASSUME NEW sid \in {"download", "block", "exit"}, NEW address, NEW size,
         NEW counter, Send(sid, address, size, counter)
  PROVE  /\ req'.sid = sid /\ req'.address = address
         /\ req'.size = size /\ req'.counter = counter
         /\ pc = "recv" /\ reply = "none" /\ reply' = "none"
         /\ pc' = IF sid = "download" THEN "session"
                  ELSE IF sid = "block" THEN "transfer" ELSE "exit"
         /\ UNCHANGED <<access, pipeline, flash>>
         /\ address \in Bases \cup 0..Image /\ size \in 0..Image
              /\ counter \in 0..BlockMod - 1 => req' \in Requests
<1>1. req' = [sid |-> sid, address |-> address, size |-> size, counter |-> counter]
  BY Zenon DEF Send
<1>2. address \in Bases \cup 0..Image /\ size \in 0..Image
        /\ counter \in 0..BlockMod - 1 => req' \in Requests
  BY <1>1, Zenon DEF Requests
<1>3. pc' = IF sid = "download" THEN "session"
            ELSE IF sid = "block" THEN "transfer" ELSE "exit"
  BY SMT DEF Send
<1>4. req'.sid = sid /\ req'.address = address
        /\ req'.size = size /\ req'.counter = counter
  BY <1>1, Zenon
<1>5. /\ pc = "recv" /\ reply = "none" /\ reply' = "none"
      /\ UNCHANGED <<access, pipeline, flash>>
  BY Zenon DEF Send
<1> QED BY <1>2, <1>3, <1>4, <1>5

LEMMA InitInv == Init => Inv
<1> SUFFICES ASSUME Init PROVE Inv
  OBVIOUS
<1>1. AccessType
  BY Zenon DEF Init, Access!Init, AccessType, Access!Sessions
<1>2. PipelineType
  BY WordFacts, FirstBlock, SMT DEF Init, PipelineType, Cells
<1>3. flash \in [Cells -> Contents]
  BY Zenon DEF Init, Contents
<1>4. req \in Requests
  <2>1. 0 \in 0..BlockMod - 1 /\ 0 \in 0..Image
    BY WordFacts, SMT
  <2> QED BY <2>1, Zenon DEF Init, Requests
<1>5. LinkType
  BY <1>4, Zenon DEF Init, LinkType, Points, Replies
<1>6. TesterType
  BY WordFacts, FirstBlock, FalseIsBoolean, SMT DEF Init, TesterType
<1>7. TypeOK
  BY <1>1, <1>2, <1>3, <1>5, <1>6, TypeParts
<1>8. req.sid = "exit"
  BY Zenon DEF Init
<1> QED BY <1>7, <1>8, SMT DEF Init, Inv, ImageIntegrity, Control, Transfer,
          Accepted, InDoubt, Pending

\* What Control says of a block request, and of the offset it is written at.
LEMMA BlockFacts ==
  ASSUME TypeOK, Control, InDoubt
  PROVE  /\ req.address = next /\ req.counter = block
         /\ req.size \in Nat /\ req.size > 0
         /\ next \in Nat /\ next + req.size <= Image
BY TypeParts, RequestFields, WordFacts, SMT DEF Control, LinkType, TesterType

LEMMA OffsetInCells == ASSUME TypeOK PROVE current_offset \in Cells
<1>1. memory_address + bytes_received \in Int
  BY TypeParts, WordFacts, SMT DEF PipelineType, Cells
<1> QED BY <1>1, ModRange DEF current_offset

\* What a write hook, whatever its outcome, may leave in flash.
Outcomes == {flash, Programmed(current_offset, req),
             Fill(Region(current_offset, req.size), Damaged)}

LEMMA OutcomesTyped ==
  ASSUME TypeOK, Control, pc = "write", NEW f \in Outcomes
  PROVE  f \in [Cells -> Contents]
<1>1. flash \in [Cells -> Contents]
  BY TypeParts
<1>2. InDoubt
  BY Zenon DEF Control, InDoubt, Pending
<1>3. Programmed(current_offset, req) \in [Cells -> Contents]
  BY <1>1, <1>2, BlockFacts, OffsetInCells, ProgrammedFacts
<1>4. Damaged \in Contents
  BY Zenon DEF Contents
<1>5. Fill(Region(current_offset, req.size), Damaged) \in [Cells -> Contents]
  BY <1>1, <1>4, FillFacts
<1> QED BY <1>1, <1>3, <1>5 DEF Outcomes

LEMMA ErasedTyped ==
  ASSUME flash \in [Cells -> Contents], NEW cells
  PROVE  /\ Fill(cells, Erased) \in [Cells -> Contents]
         /\ Fill(cells, Damaged) \in [Cells -> Contents]
<1>1. Erased \in Contents /\ Damaged \in Contents
  BY WordFacts, SMT DEF Contents, Erased
<1> QED BY <1>1, FillFacts

\* TypeOK, action by action.
LEMMA TypeServer ==
  ASSUME TypeOK, Control,
         \/ GateSession \/ GateSecurity \/ Erase
         \/ TransferData \/ WriteBlock \/ TransferExit
  PROVE  TypeOK'
<1>1. AccessType /\ PipelineType /\ flash \in [Cells -> Contents] /\ LinkType /\ TesterType
  BY TypeParts
<1>2. UNCHANGED <<access, req, tester>>
  BY Zenon DEF GateSession, GateSecurity, Erase, TransferData, WriteBlock,
    TransferExit
<1>3. AccessType' /\ TesterType'
  BY <1>1, <1>2, Zenon DEF AccessType, TesterType, access, tester
<1>4. pc' \in Points /\ reply' \in Replies
  <2>1. pc \in Points /\ reply \in Replies
    BY <1>1 DEF LinkType
  <2>2. pc' \in Points
    BY <2>1, Zenon DEF Points, Answer, GateSession, GateSecurity,
      Erase, TransferData, WriteBlock, TransferExit
  <2>3. reply' \in Replies
    BY <2>1, Zenon DEF Replies, Answer, GateSession, GateSecurity,
      Erase, TransferData, WriteBlock, TransferExit
  <2> QED BY <2>2, <2>3
<1>5. LinkType'
  BY <1>1, <1>2, <1>4, Zenon DEF LinkType
<1>6. PipelineType' /\ (flash \in [Cells -> Contents])'
  <2>1. CASE GateSession \/ TransferData
    BY <1>1, <2>1, Zenon DEF PipelineType, pipeline, GateSession, TransferData
  <2>2. CASE GateSecurity
    <3>1. req.address \in Cells /\ req.size \in 0..Image
      <4>1. req.sid = "download"
        BY <2>2, Zenon DEF GateSecurity, Control
      <4>2. req.address \in Bases
        BY <4>1, Zenon DEF Control
      <4> QED BY <4>2, <1>1, WordFacts, RequestFields, SMT DEF LinkType, Cells
    <3>2. /\ memory_address' \in Cells /\ memory_size' \in 0..Image
          /\ UNCHANGED flash
      BY <1>1, <2>2, <3>1, Zenon DEF PipelineType, GateSecurity
    <3> QED BY <1>1, <2>2, <3>2, Zenon DEF PipelineType, GateSecurity
  <2>3. CASE Erase
    <3>1. (flash \in [Cells -> Contents])'
      <4>1. flash' \in {flash, Fill(Target, Erased)}
        BY <2>3, Zenon DEF Erase
      <4> QED BY <1>1, <4>1, ErasedTyped
    <3>2. 0 \in Cells
      BY WordFacts, SMT DEF Cells
    <3> QED BY <1>1, <2>3, <3>1, <3>2, FirstBlock, Zenon DEF PipelineType,
        Erase
  <2>4. CASE WriteBlock
    <3>1. flash' \in Outcomes
      BY <2>4, Zenon DEF WriteBlock, Outcomes
    <3>2. (flash \in [Cells -> Contents])'
      BY <2>4, <3>1, OutcomesTyped DEF WriteBlock
    <3>3. bytes_received' \in Cells
      <4>1. bytes_received + req.size \in Int
        BY <1>1, RequestFields, WordFacts, SMT DEF LinkType, PipelineType,
          Cells
      <4> QED BY <1>1, <2>4, <4>1, ModRange, Zenon
                DEF WriteBlock, Advance, PipelineType
    <3>4. expected_block_counter' \in 0..BlockMod - 1
      BY <1>1, <2>4, NextBlock, Zenon DEF WriteBlock, Advance, PipelineType
    <3> QED BY <1>1, <2>4, <3>2, <3>3, <3>4, Zenon
              DEF WriteBlock, Advance, PipelineType
  <2>5. CASE TransferExit
    BY <1>1, <2>5, Zenon DEF PipelineType, TransferExit
  <2> QED BY <2>1, <2>2, <2>3, <2>4, <2>5
<1> QED BY <1>3, <1>5, <1>6, TypeParts

LEMMA TypeReboot ==
  ASSUME TypeOK, Control, Reboot
  PROVE  TypeOK'
<1>1. AccessType /\ flash \in [Cells -> Contents] /\ LinkType /\ TesterType
  BY TypeParts
<1>2. AccessType'
  BY <1>1, AccessTyped, Zenon DEF Reboot
<1>3. TesterType'
  BY <1>1, Zenon DEF Reboot, TesterType, tester
<1>4. LinkType'
  BY <1>1, Zenon DEF Reboot, LinkType, Points, Replies
<1>5. PipelineType'
  BY FirstBlock, WordFacts, SMT DEF Reboot, Reset, PipelineType, Cells
<1>6. (flash \in [Cells -> Contents])'
  <2>1. CASE pc = "erase"
    <3>1. flash' \in {flash, Fill(Target, Erased), Fill(Target, Damaged)}
      BY <2>1, SMT DEF Reboot, Interrupted
    <3> QED BY <1>1, <3>1, ErasedTyped
  <2>2. CASE pc = "write"
    <3>1. flash' \in Outcomes
      BY <2>2 DEF Reboot, Interrupted, Outcomes
    <3> QED BY <2>2, <3>1, OutcomesTyped
  <2>3. CASE pc \notin {"erase", "write"}
    <3>1. flash' = flash
      BY <2>3 DEF Reboot, Interrupted
    <3> QED BY <1>1, <3>1
  <2> QED BY <2>1, <2>2, <2>3
<1> QED BY <1>2, <1>3, <1>4, <1>5, <1>6, TypeParts

LEMMA TypeSend ==
  ASSUME TypeOK, Control, SendDownload \/ SendBlock \/ Resend \/ SendExit
  PROVE  TypeOK'
<1>1. AccessType /\ PipelineType /\ flash \in [Cells -> Contents] /\ LinkType /\ TesterType
  BY TypeParts
<1>2. ASSUME NEW sid \in {"download", "block", "exit"},
             NEW address \in Bases \cup 0..Image, NEW size \in 0..Image,
             NEW counter \in 0..BlockMod - 1, Send(sid, address, size, counter),
             TesterType'
      PROVE  TypeOK'
  <2>1. UNCHANGED <<access, pipeline, flash>>
    BY <1>2, SendFields
  <2>2. AccessType' /\ PipelineType' /\ (flash \in [Cells -> Contents])'
    BY <1>1, <2>1, Zenon DEF AccessType, PipelineType, access, pipeline
  <2>3. pc' \in Points /\ reply' \in Replies
    <3>1. reply' = "none" /\ pc' = IF sid = "download" THEN "session"
                                   ELSE IF sid = "block" THEN "transfer" ELSE "exit"
      BY <1>2, SendFields
    <3> QED BY <3>1, Zenon DEF Points, Replies
  <2>4. req' \in Requests
    BY <1>2, SendFields
  <2> QED BY <1>2, <2>2, <2>3, <2>4, TypeParts DEF LinkType
<1>3. CASE SendDownload
  <2>1. PICK a \in Bases, n \in IF Disciplined THEN {Image} ELSE 1..Image :
          Send("download", a, n, 0)
    BY <1>3, Zenon DEF SendDownload
  <2>2. n \in 0..Image /\ 0 \in 0..BlockMod - 1
    BY <2>1, WordFacts, SMT
  <2>3. TesterType'
    BY <1>1, <1>3, FalseIsBoolean, Zenon DEF TesterType, SendDownload
  <2> QED BY <1>2, <2>1, <2>2, <2>3
<1>4. CASE SendBlock
  <2>1. PICK n \in 1..MaxPayload : next + n <= Image /\ Send("block", next, n, block)
    BY <1>4, Zenon DEF SendBlock
  <2>2. next \in 0..Image /\ n \in 0..Image /\ block \in 0..BlockMod - 1
    <3>1. next \in 0..Image /\ block \in 0..BlockMod - 1
      BY <1>1 DEF TesterType
    <3> QED BY <2>1, <3>1, WordFacts, FlashAssumption, SMT
  <2>3. TesterType'
    BY <1>1, <1>4, Zenon DEF TesterType, SendBlock, tester
  <2> QED BY <1>2, <2>1, <2>2, <2>3
<1>5. CASE Resend
  <2>1. TesterType'
    BY <1>1, <1>5, Zenon DEF TesterType, Resend, tester
  <2>2. Send("block", req.address, req.size, req.counter)
    BY <1>5 DEF Resend
  <2> QED BY <1>1, <1>2, <2>1, <2>2, RequestFields DEF LinkType
<1>6. CASE SendExit
  <2>1. TesterType'
    BY <1>1, <1>6, Zenon DEF TesterType, SendExit, tester
  <2>2. 0 \in 0..Image /\ 0 \in 0..BlockMod - 1
    BY WordFacts, SMT
  <2>3. Send("exit", 0, 0, 0)
    BY <1>6 DEF SendExit
  <2> QED BY <1>2, <2>1, <2>2, <2>3
<1> QED BY <1>3, <1>4, <1>5, <1>6

LEMMA TypeAnswered ==
  ASSUME TypeOK, Control, Answered
  PROVE  TypeOK'
<1>1. AccessType /\ PipelineType /\ flash \in [Cells -> Contents] /\ LinkType /\ TesterType
  BY TypeParts
<1>2. UNCHANGED <<access, pipeline, flash, pc, req>> /\ reply' = "none"
  BY Zenon DEF Answered
<1>3. AccessType' /\ PipelineType' /\ (flash \in [Cells -> Contents])' /\ LinkType'
  BY <1>1, <1>2, Zenon DEF AccessType, PipelineType, LinkType, Replies,
    access, pipeline
<1>4. TesterType'
  <2>1. CASE DownloadAnswered
    <3>1. req.sid = "download"
      BY <2>1 DEF DownloadAnswered
    <3>2. req.address \in Bases
      BY <3>1, Zenon DEF Control
    <3>3. 0 \in 0..Image
      BY WordFacts, SMT
    <3> QED BY <1>1, <2>1, <3>2, <3>3, FirstBlock, Zenon DEF TesterType,
        DownloadAnswered
  <2>2. CASE BlockAnswered
    <3>1. next + req.size \in 0..Image
      <4>1. InDoubt
        BY <2>2, Zenon DEF Answered, BlockAnswered, InDoubt, Pending
      <4> QED BY <4>1, BlockFacts, WordFacts, SMT
    <3>2. (block + 1) % BlockMod \in 0..BlockMod - 1
      BY <1>1, NextBlock DEF TesterType
    <3>3. mode' \in {"idle", "sending"} /\ base' \in Bases \cup {0}
          /\ next' \in 0..Image
      BY <1>1, <2>2, <3>1, Zenon DEF TesterType, BlockAnswered
    <3>4. block' \in 0..BlockMod - 1 /\ doubt' \in BOOLEAN
      BY <1>1, <2>2, <3>2, FalseIsBoolean, Zenon DEF TesterType, BlockAnswered
    <3> QED BY <3>3, <3>4 DEF TesterType
  <2>3. CASE ExitAnswered
    BY <1>1, <2>3, Zenon DEF TesterType, ExitAnswered
  <2> QED BY <2>1, <2>2, <2>3 DEF Answered
<1> QED BY <1>3, <1>4, TypeParts

LEMMA TypeNext ==
  ASSUME TypeOK, Control, [Next]_vars
  PROVE  TypeOK'
<1>1. AccessType /\ PipelineType /\ flash \in [Cells -> Contents] /\ LinkType /\ TesterType
  BY TypeParts
<1>2. CASE AccessChange
  <2>1. AccessType'
    BY <1>1, <1>2, AccessTyped, Zenon DEF AccessChange
  <2>2. PipelineType' /\ (flash \in [Cells -> Contents])' /\ LinkType' /\ TesterType'
    BY <1>1, <1>2, Zenon DEF AccessChange, PipelineType, LinkType, TesterType,
                              pipeline, tester
  <2> QED BY <2>1, <2>2, TypeParts
<1>3. CASE Lose
  <2>1. AccessType' /\ PipelineType' /\ (flash \in [Cells -> Contents])' /\ TesterType'
    BY <1>1, <1>3, Zenon DEF Lose, AccessType, PipelineType, TesterType,
                              access, pipeline, tester
  <2>2. LinkType'
    BY <1>1, <1>3, Zenon DEF Lose, Answer, LinkType, Points, Replies
  <2> QED BY <2>1, <2>2, TypeParts
<1>4. CASE UNCHANGED vars
  <2>1. AccessType' /\ PipelineType' /\ (flash \in [Cells -> Contents])'
        /\ LinkType' /\ TesterType'
    BY <1>1, <1>4, Zenon DEF vars, AccessType, PipelineType, LinkType,
      TesterType,
                              access, pipeline, tester
  <2> QED BY <2>1, TypeParts
<1> QED BY <1>2, <1>3, <1>4, TypeServer, TypeReboot, TypeSend,
    TypeAnswered DEF Next

----------------------------------------------------------------------------
(* Which request is handled, and what it asks.                             *)

LEMMA ControlServer ==
  ASSUME TypeOK, Control,
         \/ GateSession \/ GateSecurity \/ Erase
         \/ TransferData \/ WriteBlock \/ TransferExit
  PROVE  Control'
<1>1. UNCHANGED <<access, req, tester>>
  BY Zenon DEF GateSession, GateSecurity, Erase, TransferData, WriteBlock,
    TransferExit
<1>2. CASE GateSession
  BY <1>1, <1>2, SMT DEF Control, InDoubt, Pending, InSequence, Answer,
    access, tester,
    pipeline, GateSession
<1>3. CASE GateSecurity
  BY <1>1, <1>3, SMT DEF Control, InDoubt, Pending, InSequence, Answer,
    access, tester,
    GateSecurity
<1>4. CASE Erase
  BY <1>1, <1>4, SMT DEF Control, InDoubt, Pending, InSequence, Answer,
    access, tester, Erase
<1>5. CASE TransferData
  BY <1>1, <1>5, ZenonT(30) DEF Control, InDoubt, Pending, InSequence,
    Answer, access, tester,
    pipeline, TransferData
<1>6. CASE WriteBlock
  BY <1>1, <1>6, SMT DEF Control, InDoubt, Pending, InSequence, Answer,
    access, tester, WriteBlock
<1>7. CASE TransferExit
  <2>1. req'.sid = "exit" /\ pc' = "recv" /\ ~doubt'
    <3>1. req.sid = "exit" /\ (doubt => req.sid = "block")
      BY <1>7, Zenon DEF Control, TransferExit
    <3>2. ~doubt
      BY <3>1
    <3>3. req' = req /\ doubt' = doubt /\ pc' = "recv"
      BY <1>1, <1>7, Zenon DEF tester, TransferExit, Answer
    <3> QED BY <3>1, <3>2, <3>3
  <2> QED BY <2>1, SMT DEF Control, InDoubt, Pending
<1> QED BY <1>2, <1>3, <1>4, <1>5, <1>6, <1>7

\* Only the conjunct on session and grant knows of a change of access.
LEMMA ControlSame ==
  ASSUME Control, UNCHANGED <<req, tester>>, Pending' <=> Pending,
         pc' = "recv", reply' # "none" \/ UNCHANGED reply
  PROVE  Control'
<1>1. InDoubt' <=> InDoubt
  BY Zenon DEF InDoubt, tester
<1>2. UNCHANGED <<mode, next, block, doubt, req>>
  BY Zenon DEF tester
<1> QED BY <1>1, <1>2, SMT DEF Control

LEMMA ControlOther ==
  ASSUME TypeOK, Control, AccessChange \/ Reboot \/ Lose \/ UNCHANGED vars
  PROVE  Control'
<1>1. CASE AccessChange
  <2>1. UNCHANGED <<pipeline_state, memory_address, memory_size,
                    expected_block_counter, pc, req, reply, mode, next, block, doubt>>
    BY <1>1, Zenon DEF AccessChange, pipeline, tester
  <2>2. pc' = "security" /\ session' = "DEFAULT" => ~granted'
    <3>1. SUFFICES ASSUME pc = "security", session' = "DEFAULT" PROVE ~granted'
      BY <2>1
    <3>2. Access!Expiry
      BY <1>1, <3>1, Zenon DEF AccessChange
    <3>3. session = "DEFAULT" => ~granted
      BY <3>1, Zenon DEF Control
    <3> QED BY <3>1, <3>2, <3>3, Zenon
              DEF Access!Expiry, Access!Timeout, Access!Unblock
  <2>3. InDoubt' <=> InDoubt
    BY <2>1, Zenon DEF InDoubt, Pending
  <2>4. Pending' <=> Pending
    BY <2>1, Zenon DEF Pending
  <2>5. InSequence' <=> InSequence
    BY <2>1, Zenon DEF InSequence
  <2> QED BY <2>1, <2>2, <2>3, <2>4, <2>5, Zenon DEF Control
<1>2. CASE Reboot
  <2>1. UNCHANGED <<req, tester>> /\ pc' = "recv"
        /\ reply' = IF pc = "recv" THEN reply ELSE "lost"
    BY <1>2, Zenon DEF Reboot
  <2>2. Pending' <=> Pending
    BY <2>1, SMT DEF Pending
  <2>3. reply' # "none" \/ UNCHANGED reply
    BY <2>1, SMT
  <2> QED BY <2>1, <2>2, <2>3, ControlSame
<1>3. CASE Lose
  <2>1. UNCHANGED <<req, tester>> /\ pc' = "recv" /\ reply' = "lost"
    BY <1>3, Zenon DEF Lose, Answer
  <2>2. Pending /\ Pending'
    BY <1>3, <2>1, SMT DEF Pending, Lose
  <2> QED BY <2>1, <2>2, ControlSame
<1>4. CASE UNCHANGED vars
  <2>1. UNCHANGED <<pipeline_state, memory_address, memory_size, session, granted,
                    expected_block_counter, pc, req, reply, mode, next, block, doubt>>
    BY <1>4, Zenon DEF vars, pipeline, tester, access
  <2>3. InDoubt' <=> InDoubt
    BY <2>1, Zenon DEF InDoubt, Pending
  <2>4. Pending' <=> Pending
    BY <2>1, Zenon DEF Pending
  <2>5. InSequence' <=> InSequence
    BY <2>1, Zenon DEF InSequence
  <2> QED BY <2>1, <2>3, <2>4, <2>5, Zenon DEF Control
<1> QED BY <1>1, <1>2, <1>3, <1>4

LEMMA ControlSend ==
  ASSUME TypeOK, Control, SendDownload \/ SendBlock \/ Resend \/ SendExit
  PROVE  Control'
<1>1. CASE SendDownload
  <2>1. PICK a \in Bases, n \in IF Disciplined THEN {Image} ELSE 1..Image :
          Send("download", a, n, 0)
    BY <1>1, Zenon DEF SendDownload
  <2>2. req'.sid = "download" /\ req'.address = a /\ req'.size = n
        /\ pc' = "session" /\ reply' = "none"
    BY <2>1, SendFields
  <2>3. mode' = "idle" /\ ~doubt'
    BY <1>1, Zenon DEF SendDownload
  <2>4. Disciplined => n = Image
    BY <2>1
  <2> QED BY <2>2, <2>3, <2>4, SMT DEF Control, InDoubt
<1>2. CASE SendBlock
  <2>1. PICK n \in 1..MaxPayload : next + n <= Image /\ Send("block", next, n, block)
    BY <1>2, Zenon DEF SendBlock
  <2>2. req'.sid = "block" /\ req'.address = next /\ req'.size = n
        /\ req'.counter = block /\ pc' = "transfer" /\ reply' = "none"
    BY <2>1, SendFields
  <2>3. UNCHANGED <<mode, next, block, doubt>> /\ (mode = "sending" \/ ~Disciplined)
    BY <1>2, Zenon DEF SendBlock, tester
  <2>4. n > 0
    BY <2>1, FlashAssumption, SMT
  <2> QED BY <2>1, <2>2, <2>3, <2>4, SMT DEF Control, InDoubt
<1>3. CASE Resend
  <2>1. req'.sid = "block" /\ req'.address = req.address /\ req'.size = req.size
        /\ req'.counter = req.counter /\ pc' = "transfer" /\ reply' = "none"
    <3>1. Send("block", req.address, req.size, req.counter)
      BY <1>3 DEF Resend
    <3> QED BY <3>1, SendFields
  <2>2. UNCHANGED <<mode, next, block, doubt>>
    BY <1>3, Zenon DEF Resend, tester
  <2>3. InDoubt
    BY <1>3, Zenon DEF Resend, Control, InDoubt
  <2> QED BY <2>1, <2>2, <2>3, SMT DEF Control
<1>4. CASE SendExit
  <2>1. req'.sid = "exit" /\ pc' = "exit" /\ reply' = "none"
    <3>1. Send("exit", 0, 0, 0)
      BY <1>4 DEF SendExit
    <3> QED BY <3>1, SendFields
  <2>2. ~doubt'
    BY <1>4, Zenon DEF SendExit, tester
  <2> QED BY <2>1, <2>2, SMT DEF Control, InDoubt
<1> QED BY <1>1, <1>2, <1>3, <1>4

LEMMA ControlAnswered ==
  ASSUME TypeOK, Control, Answered
  PROVE  Control'
<1>1. pc' = "recv" /\ reply' = "none" /\ req' = req /\ Pending /\ ~Pending'
  BY Zenon DEF Answered, Pending
<1>2. InDoubt' <=> req.sid = "block" /\ doubt'
  BY <1>1, Zenon DEF InDoubt
<1>3. CASE DownloadAnswered
  <2>1. req.sid = "download" /\ ~doubt'
    BY <1>1, <1>3, Zenon DEF DownloadAnswered, Control
  <2> QED BY <1>1, <2>1, SMT DEF Control, InDoubt
<1>4. CASE BlockAnswered
  <2>1. req.sid = "block" /\ (doubt' => UNCHANGED <<mode, next, block>>)
    BY <1>4, Zenon DEF BlockAnswered
  <2>2. InDoubt
    BY <1>1, <2>1, Zenon DEF InDoubt
  <2> QED BY <1>1, <1>2, <2>1, <2>2, SMT DEF Control
<1>5. CASE ExitAnswered
  <2>1. req.sid = "exit" /\ (doubt => req.sid = "block") /\ doubt' = doubt
    BY <1>5, Zenon DEF ExitAnswered, Control
  <2>2. ~doubt'
    BY <2>1
  <2> QED BY <1>1, <2>1, <2>2, SMT DEF Control, InDoubt
<1> QED BY <1>3, <1>4, <1>5 DEF Answered

LEMMA ControlNext ==
  ASSUME TypeOK, Control, [Next]_vars
  PROVE  Control'
BY ControlServer, ControlOther, ControlSend, ControlAnswered DEF Next

----------------------------------------------------------------------------
(* The transfer.                                                           *)

\* A block of a transfer is written at its place.
LEMMA InPlace ==
  ASSUME TypeOK, Control, Transfer, pc = "write", mode = "sending"
  PROVE  /\ InDoubt /\ Fresh /\ memory_address = base /\ base \in Bases
         /\ pipeline_state # "IDLE" /\ (Disciplined => Clear(next))
         /\ current_offset = base + next
<1>1. InDoubt /\ pipeline_state # "IDLE" /\ InSequence
  BY Zenon DEF Control, InDoubt, Pending
<1>2. expected_block_counter = block
  BY <1>1, BlockFacts DEF InSequence
<1>3. ~Written
  <2>1. block \in 0..BlockMod - 1
    BY TypeParts DEF TesterType
  <2> QED BY <1>2, <2>1, NextBlock DEF Written
<1>4. Fresh /\ memory_address = base /\ base \in Bases
      /\ (Disciplined => Clear(bytes_received))
  BY <1>1, <1>3, Zenon DEF Transfer
<1>5. Disciplined => Clear(next)
  BY <1>4 DEF Fresh
<1>6. current_offset = base + next
  <2>1. base + next \in 0..Word - 1
    BY <1>1, <1>4, BlockFacts, WordFacts, SMT
  <2> QED BY <1>4, <2>1, ModSmall DEF current_offset, Fresh
<1> QED BY <1>1, <1>4, <1>5, <1>6

\* The cells of the image, and those of them that the block is written to.
LEMMA BlockRegion ==
  ASSUME TypeOK, Control, Transfer, pc = "write", mode = "sending",
         NEW k \in 0..Image - 1
  PROVE  /\ base + k \in Cells
         /\ base + k \in Region(current_offset, req.size)
              <=> next <= k /\ k < next + req.size
         /\ \A i \in 0..req.size - 1 :
              base + k = (current_offset + i) % Word => k = next + i
<1>1. /\ req.size \in Nat /\ next \in Nat /\ next + req.size <= Image
      /\ base \in Nat /\ base + Image <= Word /\ current_offset = base + next
  BY InPlace, BlockFacts, WordFacts
<1>2. base + k \in Cells
  BY <1>1, WordFacts, SMT DEF Cells
<1>3. \A i \in 0..req.size - 1 : (current_offset + i) % Word = base + next + i
  <2> SUFFICES ASSUME NEW i \in 0..req.size - 1
               PROVE  (current_offset + i) % Word = base + next + i
    OBVIOUS
  <2>1. current_offset + i \in 0..Word - 1 /\ current_offset + i = base + next + i
    BY <1>1, WordFacts, SMT
  <2> QED BY <2>1, ModSmall
<1>4. \A i \in 0..req.size - 1 :
        base + k = (current_offset + i) % Word => k = next + i
  BY <1>1, <1>3, SMT
<1>5. ASSUME next <= k, k < next + req.size
      PROVE  base + k \in Region(current_offset, req.size)
  <2>1. k - next \in 0..req.size - 1 /\ base + next + (k - next) = base + k
    BY <1>1, <1>5, SMT
  <2>2. (current_offset + (k - next)) % Word = base + k
    BY <1>3, <2>1
  <2> QED BY <2>1, <2>2 DEF Region
<1>6. ASSUME base + k \in Region(current_offset, req.size)
      PROVE  next <= k /\ k < next + req.size
  <2>1. PICK i \in 0..req.size - 1 : base + k = (current_offset + i) % Word
    BY <1>6 DEF Region
  <2> QED BY <1>1, <1>4, <2>1, SMT
<1> QED BY <1>2, <1>4, <1>5, <1>6

\* What each outcome of the hook does to a cell of the image.
LEMMA Outcome ==
  ASSUME TypeOK, Control, Transfer, pc = "write", mode = "sending",
         NEW k \in 0..Image - 1
  PROVE  /\ Programmed(current_offset, req)[base + k] =
              IF next <= k /\ k < next + req.size THEN k + 1 ELSE flash[base + k]
         /\ Fill(Region(current_offset, req.size), Damaged)[base + k] =
              IF next <= k /\ k < next + req.size THEN Damaged ELSE flash[base + k]
<1>1. flash \in [Cells -> Contents] /\ Damaged \in Contents
  BY TypeParts, Zenon DEF Contents
<1>2. Fill(Region(current_offset, req.size), Damaged)[base + k] =
        IF next <= k /\ k < next + req.size THEN Damaged ELSE flash[base + k]
  <2>1. Fill(Region(current_offset, req.size), Damaged)[base + k] =
          IF base + k \in Region(current_offset, req.size) THEN Damaged ELSE flash[base + k]
    BY <1>1, BlockRegion, FillFacts
  <2> QED BY <2>1, BlockRegion
<1>3. InDoubt /\ req.address = next /\ req.address \in Nat /\ req.size \in Nat
      /\ req.address + req.size <= Image
  BY InPlace, BlockFacts
<1>4. \/ \E i \in 0..req.size - 1 :
           /\ base + k = (current_offset + i) % Word
           /\ Programmed(current_offset, req)[base + k] = req.address + 1 + i
      \/ /\ base + k \notin Region(current_offset, req.size)
         /\ Programmed(current_offset, req)[base + k] = flash[base + k]
  BY <1>1, <1>3, BlockRegion, OffsetInCells, ProgrammedFacts
<1>5. CASE \E i \in 0..req.size - 1 :
             /\ base + k = (current_offset + i) % Word
             /\ Programmed(current_offset, req)[base + k] = req.address + 1 + i
  <2>1. PICK i \in 0..req.size - 1 :
          /\ base + k = (current_offset + i) % Word
          /\ Programmed(current_offset, req)[base + k] = req.address + 1 + i
    BY <1>5
  <2>2. k = next + i
    BY <2>1, BlockRegion
  <2>3. Programmed(current_offset, req)[base + k] = k + 1
        /\ next <= k /\ k < next + req.size
    BY <1>3, <2>1, <2>2, SMT
  <2> QED BY <1>2, <2>3
<1>6. CASE /\ base + k \notin Region(current_offset, req.size)
           /\ Programmed(current_offset, req)[base + k] = flash[base + k]
  BY <1>2, <1>6, BlockRegion
<1> QED BY <1>4, <1>5, <1>6

\* ImageIntegrity in terms of Prefix; both, and Clear, look at nothing but the
\* cells of flash and the base of the image.
LEMMA IntegrityIsPrefix ==
  /\ TypeOK => (ImageIntegrity <=> (mode = "sending" => Prefix(next)))
  /\ TypeOK' => (ImageIntegrity' <=> (mode' = "sending" => Prefix(next)'))
<1>1. ASSUME TypeOK
      PROVE  (\A i \in 0..next - 1 : flash[base + i] = i + 1) <=> Prefix(next)
  <2>1. next \in 0..Image
    BY <1>1, TypeParts DEF TesterType
  <2>2. \A k : k \in 0..next - 1 <=> k \in 0..Image - 1 /\ k < next
    BY <2>1, WordFacts, SMT
  <2> QED BY <2>2, Zenon DEF Prefix
<1>2. ASSUME TypeOK'
      PROVE  (\A i \in 0..next' - 1 : flash'[base' + i] = i + 1) <=> Prefix(next)'
  <2>1. next' \in 0..Image
    BY <1>2, TypeParts DEF TesterType
  <2>2. \A k : k \in 0..next' - 1 <=> k \in 0..Image - 1 /\ k < next'
    BY <2>1, WordFacts, SMT
  <2> QED BY <2>2, Zenon DEF Prefix
<1> QED BY <1>1, <1>2, Zenon DEF ImageIntegrity

LEMMA TransferWrite ==
  ASSUME TypeOK, Control, Transfer, ImageIntegrity, WriteBlock, TypeOK'
  PROVE  Transfer' /\ ImageIntegrity'
<1>1. pc = "write" /\ pc' = "recv" /\ UNCHANGED <<memory_address, req>>
      /\ UNCHANGED <<mode, base, next, block, doubt>>
  BY Zenon DEF WriteBlock, Answer, tester
<1>2. CASE mode = "sending"
  <2>1. /\ InDoubt /\ Fresh /\ memory_address = base /\ base \in Bases
        /\ pipeline_state # "IDLE" /\ (Disciplined => Clear(next))
    BY <1>1, <1>2, InPlace
  <2>2. /\ req.size \in Nat /\ req.size > 0 /\ next \in Nat
        /\ next + req.size <= Image /\ req.sid = "block"
    BY <2>1, BlockFacts DEF InDoubt
  <2>3. flash' \in Outcomes
    BY Zenon DEF WriteBlock, Outcomes
  <2>4. \A k \in 0..Image - 1 :
          ~(next <= k /\ k < next + req.size) => flash'[base + k] = flash[base + k]
    BY <1>1, <1>2, <2>3, Outcome DEF Outcomes
  <2>5. Prefix(next)
    BY <1>2, IntegrityIsPrefix
  <2>6. Prefix(next)'
    BY <1>1, <2>2, <2>4, <2>5, SMT DEF Prefix
  <2>7. ImageIntegrity'
    BY <2>6, IntegrityIsPrefix
  <2>8. CASE /\ Answer("ok") /\ flash' = Programmed(current_offset, req) /\ Advance
    <3>1. \A k \in 0..Image - 1 : next <= k /\ k < next + req.size =>
            flash'[base + k] = k + 1
      BY <1>1, <1>2, <2>8, Outcome
    <3>2. Prefix(next + req.size)'
      BY <1>1, <2>2, <2>4, <2>5, <3>1, SMT DEF Prefix
    <3>3. bytes_received' = next + req.size
      <4>1. bytes_received' = (next + req.size) % Word
        BY <2>1, <2>8, Zenon DEF Fresh, Advance
      <4>2. next + req.size \in 0..Word - 1
        BY <2>2, WordFacts, SMT
      <4> QED BY <4>1, <4>2, ModSmall
    <3>4. expected_block_counter' = (block + 1) % BlockMod /\ reply' = "ok"
      BY <2>1, <2>8, Zenon DEF Fresh, Advance, Answer
    <3>5. Written'
      BY <1>1, <3>2, <3>3, <3>4, Zenon DEF Written
    <3>6. InDoubt'
      BY <1>1, <2>2, <3>4, SMT DEF InDoubt, Pending
    <3>7. Disciplined => Clear(bytes_received)'
      BY <1>1, <2>1, <2>2, <2>4, <3>3, SMT DEF Clear
    <3>8. /\ base' \in Bases /\ memory_address' = base'
      BY <1>1, <2>1
    <3>9. reply' # "suspended" /\ reply' # "wrong counter" /\ reply' \in {"ok", "lost"}
      BY <3>4
    <3>10. Transfer'
      BY <1>1, <3>2, <3>5, <3>6, <3>7, <3>8, <3>9, Zenon DEF Transfer
    <3> QED BY <2>7, <3>10
  <2>9. CASE /\ Answer("suspended")
             /\ flash' \in {flash, Fill(Region(current_offset, req.size), Damaged)}
             /\ UNCHANGED <<bytes_received, expected_block_counter, pipeline_state>>
    <3>1. \A k \in 0..Image - 1 : flash'[base + k] \in {flash[base + k], Damaged}
      <4>1. SUFFICES ASSUME NEW k \in 0..Image - 1
                     PROVE  flash'[base + k] \in {flash[base + k], Damaged}
        OBVIOUS
      <4>2. Fill(Region(current_offset, req.size), Damaged)[base + k]
              \in {flash[base + k], Damaged}
        BY <1>1, <1>2, Outcome, SMT
      <4> QED BY <2>9, <4>2, Zenon
    <3>2. Disciplined => Clear(bytes_received)'
      BY <1>1, <2>1, <2>9, <3>1, SMT DEF Clear, Fresh
    <3>3. Fresh'
      BY <1>1, <2>1, <2>9, Zenon DEF Fresh
    <3>4. reply' \notin {"ok", "wrong counter"}
      BY <2>9, SMT DEF Answer
    <3>5. Transfer'
      BY <1>1, <2>1, <3>2, <3>3, <3>4, Zenon DEF Transfer
    <3> QED BY <2>7, <3>5
  <2> QED BY <2>8, <2>9 DEF WriteBlock
<1>3. CASE mode # "sending"
  BY <1>1, <1>3, Zenon DEF Transfer, ImageIntegrity
<1> QED BY <1>2, <1>3

\* No transfer is under way while a download is asked for.
LEMMA TransferIdle ==
  ASSUME mode' = "idle"
  PROVE  Transfer' /\ ImageIntegrity'
BY SMT DEF Transfer, ImageIntegrity

LEMMA TransferRequest ==
  ASSUME TypeOK, Control, Transfer, ImageIntegrity,
         GateSession \/ GateSecurity \/ Erase \/ TransferData \/ TransferExit
  PROVE  Transfer' /\ ImageIntegrity'
<1>1. CASE GateSession \/ GateSecurity \/ Erase
  <2>1. pc \in {"session", "security", "erase"} /\ mode' = mode
    BY <1>1, Zenon DEF GateSession, GateSecurity, Erase, tester
  <2>2. mode' = "idle"
    BY <2>1, SMT DEF Control, Pending
  <2> QED BY <2>2, TransferIdle
<1>2. CASE TransferData
  <2>1. /\ UNCHANGED <<pipeline_state, memory_address, bytes_received,
                       expected_block_counter, flash, req>>
        /\ UNCHANGED <<mode, base, next, block, doubt>>
        /\ pc = "transfer" /\ reply = "none"
    BY <1>2, Zenon DEF TransferData, pipeline, tester, Control
  <2>2. ImageIntegrity'
    BY <2>1, Zenon DEF ImageIntegrity
  <2>3. InDoubt /\ req.sid = "block" /\ req.counter = block
    BY <2>1, BlockFacts, SMT DEF InDoubt, Pending, Control
  <2>4. CASE mode = "sending" /\ pipeline_state # "IDLE"
    <3>1. Fresh \/ (Written /\ doubt)
      BY <2>1, <2>4, SMT DEF Transfer
    <3>2. base \in Bases /\ memory_address = base
          /\ (Disciplined => Clear(bytes_received))
      BY <2>4, Zenon DEF Transfer
    <3>3. (Fresh' <=> Fresh) /\ (Written' <=> Written)
          /\ (Clear(bytes_received)' <=> Clear(bytes_received))
          /\ (Prefix(next + req.size)' <=> Prefix(next + req.size))
      BY <2>1, Zenon DEF Fresh, Written, Clear, Prefix
    <3>4. CASE ~InSequence
      <4>1. Written /\ doubt /\ Prefix(next + req.size)
        BY <2>3, <3>1, <3>4, SMT DEF Fresh, InSequence, Written
      <4>2. reply' = "wrong counter" /\ pc' = "recv"
        BY <1>2, <2>4, <3>4, Zenon DEF TransferData, Answer
      <4>3. InDoubt'
        BY <2>1, <2>3, <4>1, Zenon DEF InDoubt
      <4>4. Transfer'
        BY <2>1, <3>2, <3>3, <4>1, <4>2, <4>3, Zenon DEF Transfer
      <4> QED BY <2>2, <4>4
    <3>5. CASE InSequence
      <4>1. reply' = "none" /\ pc' = "write"
        BY <1>2, <2>1, <2>4, <3>5, Zenon DEF TransferData
      <4>2. InDoubt'
        BY <2>1, <2>3, <4>1, SMT DEF InDoubt, Pending
      <4>3. Transfer'
        BY <2>1, <3>1, <3>2, <3>3, <4>1, <4>2, SMT DEF Transfer
      <4> QED BY <2>2, <4>3
    <3> QED BY <3>4, <3>5
  <2>5. CASE mode = "sending" /\ pipeline_state = "IDLE"
    <3>1. reply' = "sequence error"
      BY <1>2, <2>5, Zenon DEF TransferData, Answer
    <3>2. Transfer'
      BY <2>1, <2>5, <3>1, Zenon DEF Transfer
    <3> QED BY <2>2, <3>2
  <2>6. CASE mode # "sending"
    BY <2>1, <2>2, <2>6, Zenon DEF Transfer
  <2> QED BY <2>4, <2>5, <2>6
<1>3. CASE TransferExit
  <2>1. /\ UNCHANGED <<memory_address, bytes_received,
                       expected_block_counter, flash, req>>
        /\ UNCHANGED <<mode, base, next, block, doubt>>
        /\ (pipeline_state' = "IDLE" \/ UNCHANGED pipeline_state)
        /\ pc = "exit" /\ pc' = "recv"
    BY <1>3, Zenon DEF TransferExit, tester, Answer
  <2>2. req.sid # "block" /\ ~InDoubt
    BY <2>1, SMT DEF Control, InDoubt
  <2>3. ImageIntegrity'
    BY <2>1, Zenon DEF ImageIntegrity
  <2>4. (Fresh' <=> Fresh) /\ (Clear(bytes_received)' <=> Clear(bytes_received))
    BY <2>1, Zenon DEF Fresh, Clear
  <2>5. Transfer'
    BY <2>1, <2>2, <2>4, Zenon DEF Transfer
  <2> QED BY <2>3, <2>5
<1> QED BY <1>1, <1>2, <1>3

LEMMA TransferOther ==
  ASSUME TypeOK, Control, Transfer, ImageIntegrity,
         AccessChange \/ Lose \/ Reboot \/ UNCHANGED vars
  PROVE  Transfer' /\ ImageIntegrity'
<1>1. CASE AccessChange \/ UNCHANGED vars
  <2>1. /\ UNCHANGED <<pipeline_state, memory_address, bytes_received,
                       expected_block_counter, flash, pc, req, reply>>
        /\ UNCHANGED <<mode, base, next, block, doubt>>
    BY <1>1, Zenon DEF AccessChange, vars, pipeline, tester
  <2>2. (Fresh' <=> Fresh) /\ (Written' <=> Written) /\ (InDoubt' <=> InDoubt)
        /\ (Clear(bytes_received)' <=> Clear(bytes_received))
        /\ (Prefix(next + req.size)' <=> Prefix(next + req.size))
    BY <2>1, Zenon DEF Fresh, Written, Clear, Prefix, InDoubt, Pending
  <2>3. Transfer'
    BY <2>1, <2>2, Zenon DEF Transfer
  <2>4. ImageIntegrity'
    BY <2>1, Zenon DEF ImageIntegrity
  <2> QED BY <2>3, <2>4
<1>2. CASE Lose
  <2>1. /\ UNCHANGED <<pipeline_state, memory_address, bytes_received,
                       expected_block_counter, flash, req>>
        /\ UNCHANGED <<mode, base, next, block, doubt>>
        /\ pc' = "recv" /\ reply' = "lost"
    BY <1>2, Zenon DEF Lose, Answer, pipeline, tester
  <2>2. (Fresh' <=> Fresh) /\ (Written' <=> Written)
        /\ (Clear(bytes_received)' <=> Clear(bytes_received))
    BY <2>1, Zenon DEF Fresh, Written, Clear, Prefix
  <2>3. InDoubt => InDoubt'
    BY <2>1, SMT DEF InDoubt, Pending
  <2>4. Transfer'
    BY <2>1, <2>2, <2>3, Zenon DEF Transfer
  <2>5. ImageIntegrity'
    BY <2>1, Zenon DEF ImageIntegrity
  <2> QED BY <2>4, <2>5
<1>3. CASE Reboot
  <2>1. /\ pipeline_state' = "IDLE" /\ UNCHANGED <<req, mode, base, next, block, doubt>>
        /\ pc' = "recv" /\ reply' = IF pc = "recv" THEN reply ELSE "lost"
        /\ flash' \in Interrupted
    BY <1>3, Zenon DEF Reboot, Reset, tester
  <2>2. CASE mode = "sending"
    <3>1. pc # "erase"
      BY <2>2, SMT DEF Control, Pending
    <3>2. CASE pc = "write"
      <4>1. flash' \in Outcomes
        BY <2>1, <3>2, SMT DEF Interrupted, Outcomes
      <4>2. InDoubt /\ next \in Nat /\ next <= Image
        BY <2>2, <3>2, InPlace, BlockFacts, WordFacts, SMT
      <4>3. \A k \in 0..Image - 1 : k < next => flash'[base + k] = flash[base + k]
        <5> SUFFICES ASSUME NEW k \in 0..Image - 1, k < next
                     PROVE  flash'[base + k] = flash[base + k]
          OBVIOUS
        <5>1. ~(next <= k /\ k < next + req.size)
          BY <4>2, WordFacts, SMT
        <5> QED BY <2>2, <3>2, <4>1, <5>1, Outcome DEF Outcomes
      <4>4. Prefix(next)'
        BY <2>1, <2>2, <4>3, IntegrityIsPrefix, SMT DEF Prefix
      <4>5. reply' = "lost"
        BY <2>1, <3>2
      <4>6. base \in Bases
        BY <2>2, Zenon DEF Transfer
      <4>7. Transfer'
        BY <2>1, <4>5, <4>6, Zenon DEF Transfer
      <4>8. TypeOK'
        BY <1>3, TypeReboot
      <4> QED BY <4>4, <4>7, <4>8, IntegrityIsPrefix
    <3>3. CASE pc \notin {"erase", "write"}
      <4>1. flash' = flash
        BY <2>1, <3>3, SMT DEF Interrupted
      <4>2. ImageIntegrity'
        BY <2>1, <4>1, Zenon DEF ImageIntegrity
      <4>3. reply' \in {reply, "lost"}
        BY <2>1
      <4>4. Prefix(next + req.size)' <=> Prefix(next + req.size)
        BY <2>1, <4>1, Zenon DEF Prefix
      <4>5. Transfer'
        BY <2>1, <4>3, <4>4, Zenon DEF Transfer
      <4> QED BY <4>2, <4>5
    <3> QED BY <3>1, <3>2, <3>3
  <2>3. CASE mode # "sending"
    BY <2>1, <2>3, Zenon DEF Transfer, ImageIntegrity
  <2> QED BY <2>2, <2>3
<1> QED BY <1>1, <1>2, <1>3

LEMMA TransferSend ==
  ASSUME TypeOK, Control, Transfer, ImageIntegrity,
         SendDownload \/ SendBlock \/ Resend \/ SendExit
  PROVE  Transfer' /\ ImageIntegrity'
<1>1. CASE SendDownload
  BY <1>1, TransferIdle DEF SendDownload
<1>2. ASSUME SendBlock \/ Resend \/ SendExit,
             NEW sid \in {"block", "exit"}, NEW address, NEW size, NEW counter,
             Send(sid, address, size, counter),
             \/ sid = "block" /\ ~doubt
             \/ sid = "block" /\ doubt /\ size = req.size
             \/ sid = "exit" /\ ~doubt
      PROVE  Transfer' /\ ImageIntegrity'
  <2>1. /\ req'.sid = sid /\ req'.size = size /\ pc = "recv" /\ reply = "none"
        /\ reply' = "none" /\ (sid = "block" => pc' = "transfer")
        /\ UNCHANGED <<pipeline, flash>>
    BY <1>2, SendFields
  <2>2. /\ UNCHANGED <<pipeline_state, memory_address, bytes_received,
                       expected_block_counter, flash>>
        /\ UNCHANGED <<mode, base, next, block, doubt>>
    BY <1>2, <2>1, Zenon DEF SendBlock, Resend, SendExit, pipeline, tester
  <2>3. ImageIntegrity'
    BY <2>2, Zenon DEF ImageIntegrity
  <2>4. /\ Fresh' <=> Fresh
        /\ Clear(bytes_received)' <=> Clear(bytes_received)
    BY <2>2, Zenon DEF Fresh, Clear
  <2>5. doubt => sid = "block" /\ (Written' <=> Written) /\ InDoubt' /\ pc' # "recv"
    <3>1. SUFFICES ASSUME doubt
                   PROVE  sid = "block" /\ (Written' <=> Written) /\ InDoubt' /\ pc' # "recv"
      OBVIOUS
    <3>2. sid = "block" /\ size = req.size
      BY <1>2, <3>1
    <3>3. Written' <=> Written
      BY <2>1, <2>2, <3>2, Zenon DEF Written, Prefix
    <3>4. InDoubt'
      BY <2>1, <2>2, <3>1, <3>2, Zenon DEF InDoubt
    <3> QED BY <2>1, <3>2, <3>3, <3>4
  <2>6. reply' \notin {"ok", "wrong counter"} /\ reply' # "suspended"
    BY <2>1
  <2>7. CASE mode = "sending" /\ pipeline_state # "IDLE"
    <3>1. Fresh \/ (Written /\ doubt)
      <4>1. reply \notin {"ok", "lost"}
        BY <2>1
      <4> QED BY <2>1, <2>7, <4>1, Zenon DEF Transfer
    <3>2. Transfer'
      BY <2>2, <2>4, <2>5, <2>6, <2>7, <3>1, Zenon DEF Transfer
    <3> QED BY <2>3, <3>2
  <2>8. CASE ~(mode = "sending" /\ pipeline_state # "IDLE")
    <3>1. Transfer'
      BY <2>2, <2>6, <2>8, Zenon DEF Transfer
    <3> QED BY <2>3, <3>1
  <2> QED BY <2>7, <2>8
<1>3. CASE SendBlock
  <2>1. PICK n \in 1..MaxPayload : Send("block", next, n, block)
    BY <1>3, Zenon DEF SendBlock
  <2>2. ~doubt
    BY <1>3, Zenon DEF SendBlock
  <2> QED BY <1>2, <1>3, <2>1, <2>2
<1>4. CASE Resend
  <2>1. doubt /\ Send("block", req.address, req.size, req.counter)
    BY <1>4 DEF Resend
  <2> QED BY <1>2, <1>4, <2>1
<1>5. CASE SendExit
  <2>1. ~doubt /\ Send("exit", 0, 0, 0)
    BY <1>5 DEF SendExit
  <2> QED BY <1>2, <1>5, <2>1
<1> QED BY <1>1, <1>3, <1>4, <1>5

LEMMA TransferAnswered ==
  ASSUME TypeOK, Control, Transfer, ImageIntegrity, Accepted, Answered
  PROVE  Transfer' /\ ImageIntegrity'
<1>1. /\ pc = "recv" /\ pc' = "recv" /\ reply # "none" /\ reply' = "none"
      /\ UNCHANGED <<pipeline_state, memory_address, bytes_received,
                     expected_block_counter, flash, req>>
      /\ Pending
  BY Zenon DEF Answered, pipeline, Pending
<1>2. reply' \notin {"ok", "wrong counter"} /\ reply' # "suspended"
  BY <1>1
<1>3. TypeOK'
  BY TypeAnswered
<1>4. CASE DownloadAnswered
  <2>1. req.sid = "download" /\ mode = "idle"
    BY <1>1, <1>4, Zenon DEF DownloadAnswered, Control
  <2>2. CASE reply = "ok"
    <3>1. mode' = "sending" /\ base' = req.address /\ next' = 0 /\ block' = 1
      BY <1>4, <2>2, Zenon DEF DownloadAnswered
    <3>2. req.address \in Bases
      BY <2>1, Zenon DEF Control
    <3>3. Prefix(next)'
      BY <3>1, SMT DEF Prefix
    <3>4. ImageIntegrity'
      BY <1>3, <3>3, IntegrityIsPrefix
    <3>5. pipeline_state # "IDLE" =>
            memory_address = req.address /\ Fresh' /\ (Disciplined => Clear(bytes_received)')
      BY <1>1, <2>1, <2>2, <3>1, Zenon DEF Accepted, Fresh, Clear
    <3>6. Transfer'
      BY <1>1, <1>2, <3>1, <3>2, <3>5, Zenon DEF Transfer
    <3> QED BY <3>4, <3>6
  <2>3. CASE reply # "ok"
    <3>1. mode' = "idle"
      BY <1>4, <2>1, <2>3, Zenon DEF DownloadAnswered
    <3> QED BY <3>1, TransferIdle
  <2> QED BY <2>2, <2>3
<1>5. CASE BlockAnswered
  <2>1. req.sid = "block" /\ base' = base /\ InDoubt
    BY <1>1, <1>5, Zenon DEF BlockAnswered, InDoubt
  <2>2. CASE mode' = "sending"
    <3>1. mode = "sending"
      BY <1>5, <2>2, Zenon DEF BlockAnswered
    <3>2. base \in Bases /\ (pipeline_state # "IDLE" =>
            memory_address = base /\ (Disciplined => Clear(bytes_received)'))
      BY <1>1, <2>1, <3>1, Zenon DEF Transfer, Clear
    <3>3. CASE reply = "ok" \/ (reply = "wrong counter" /\ doubt)
      <4>1. Prefix(next + req.size)
        BY <2>1, <3>1, <3>3, Zenon DEF Transfer
      <4>2. next' = next + req.size /\ block' = (block + 1) % BlockMod
        <5>1. reply # "lost" /\ reply # "suspended" /\ reply # "sequence error"
          BY <3>3
        <5> QED BY <1>5, <3>3, <5>1, Zenon DEF BlockAnswered
      <4>3. Prefix(next)'
        BY <1>1, <2>1, <4>1, <4>2, Zenon DEF Prefix
      <4>4. ImageIntegrity'
        BY <1>3, <4>3, IntegrityIsPrefix
      <4>5. pipeline_state # "IDLE" => Fresh'
        <5>1. pipeline_state # "IDLE" => Written
          BY <2>1, <3>1, <3>3, Zenon DEF Transfer
        <5> QED BY <1>1, <4>2, <5>1, Zenon DEF Written, Fresh
      <4>6. Transfer'
        BY <1>1, <1>2, <2>1, <3>2, <4>5, Zenon DEF Transfer
      <4> QED BY <4>4, <4>6
    <3>4. CASE reply = "lost" \/ reply = "suspended"
      <4>1. UNCHANGED <<mode, next, block>> /\ (reply = "lost" => doubt')
        <5>1. reply # "ok" /\ reply # "wrong counter" /\ reply # "sequence error"
          BY <3>4
        <5> QED BY <1>5, <3>4, <5>1, Zenon DEF BlockAnswered
      <4>2. ImageIntegrity'
        BY <2>1, <1>1, <4>1, Zenon DEF ImageIntegrity
      <4>3. (Fresh' <=> Fresh) /\ (Written' <=> Written)
        BY <1>1, <2>1, <4>1, Zenon DEF Fresh, Written, Prefix
      <4>4. pipeline_state # "IDLE" => Fresh \/ (Written /\ reply = "lost")
        BY <3>1, <3>4, Zenon DEF Transfer
      <4>5. doubt' => InDoubt'
        BY <1>1, <2>1, Zenon DEF InDoubt
      <4>6. Transfer'
        BY <1>1, <1>2, <2>1, <3>2, <4>1, <4>3, <4>4, <4>5, Zenon DEF Transfer
      <4> QED BY <4>2, <4>6
    <3>5. reply = "ok" \/ (reply = "wrong counter" /\ doubt)
          \/ reply = "lost" \/ reply = "suspended"
      BY <1>5, <2>2, Zenon DEF BlockAnswered
    <3> QED BY <3>3, <3>4, <3>5
  <2>3. CASE mode' # "sending"
    <3>1. mode' = "idle"
      BY <1>3, <2>3, TypeParts, SMT DEF TesterType
    <3> QED BY <3>1, TransferIdle
  <2> QED BY <2>2, <2>3
<1>6. CASE ExitAnswered
  BY <1>6, TransferIdle DEF ExitAnswered
<1> QED BY <1>4, <1>5, <1>6 DEF Answered

LEMMA TransferNext ==
  ASSUME TypeOK, Control, Transfer, ImageIntegrity, Accepted, [Next]_vars
  PROVE  Transfer' /\ ImageIntegrity'
BY TypeNext, TransferWrite, TransferRequest, TransferOther, TransferSend,
   TransferAnswered DEF Next

\* An erase clears the cells of the image that was asked for.
LEMMA ErasedRegion ==
  ASSUME TypeOK, NEW a \in Bases, NEW k \in 0..Image - 1
  PROVE  Fill(Region(a, Image), Erased)[a + k] = Erased
<1>1. a + k \in 0..Word - 1 /\ a \in Nat
  BY WordFacts, SMT
<1>2. (a + k) % Word = a + k
  BY <1>1, ModSmall
<1>3. a + k \in Region(a, Image) /\ a + k \in Cells
  BY <1>1, <1>2 DEF Region, Cells
<1> QED BY <1>3, Zenon DEF Fill

LEMMA AcceptedNext ==
  ASSUME TypeOK, Control, Accepted, [Next]_vars
  PROVE  Accepted'
<1>1. CASE Erase
  <2>1. pc = "erase" /\ req' = req /\ memory_address' = memory_address
    BY <1>1, Zenon DEF Erase
  <2>2. req.sid = "download" /\ memory_address = req.address /\ memory_size = req.size
        /\ req.address \in Bases /\ (Disciplined => req.size = Image)
    BY <2>1, SMT DEF Control
  <2>3. CASE reply' # "ok"
    BY <2>3, Zenon DEF Accepted
  <2>4. CASE reply' = "ok"
    <3>1. bytes_received' = 0 /\ expected_block_counter' = 1
          /\ flash' = Fill(Target, Erased)
      BY <1>1, <2>4, SMT DEF Erase, Answer
    <3>2. Disciplined => \A k \in 0..Image - 1 : flash'[req.address + k] = Erased
      BY <2>2, <3>1, ErasedRegion DEF Target
    <3> QED BY <2>1, <2>2, <3>1, <3>2, Zenon DEF Accepted
  <2> QED BY <2>3, <2>4
<1>2. CASE \/ GateSession \/ GateSecurity
           \/ TransferData \/ WriteBlock \/ TransferExit
  <2>1. CASE GateSession \/ GateSecurity
    <3>1. reply' # "ok"
      BY <2>1, SMT DEF GateSession, GateSecurity, Answer, Control
    <3> QED BY <3>1, Zenon DEF Accepted
  <2>2. CASE TransferData \/ WriteBlock \/ TransferExit
    <3>1. req' = req /\ pc \in {"transfer", "write", "exit"}
      BY <2>2, Zenon DEF TransferData, WriteBlock, TransferExit
    <3>2. req'.sid # "download"
      BY <3>1, SMT DEF Control
    <3> QED BY <3>2, Zenon DEF Accepted
  <2> QED BY <1>2, <2>1, <2>2
<1>3. CASE AccessChange \/ UNCHANGED vars
  BY <1>3, Zenon DEF AccessChange, vars, pipeline, Accepted
<1>4. CASE Reboot
  BY <1>4, Zenon DEF Reboot, Reset, Accepted
<1>5. CASE SendDownload \/ SendBlock \/ Resend \/ SendExit
  <2>1. reply' = "none"
    BY <1>5, SMT DEF SendDownload, SendBlock, Resend, SendExit, Send
  <2>2. reply' # "ok"
    BY <2>1
  <2> QED BY <2>2, Zenon DEF Accepted
<1>6. CASE Lose \/ Answered
  <2>1. reply' \in {"lost", "none"}
    BY <1>6, Zenon DEF Lose, Answered, Answer
  <2>2. reply' # "ok"
    BY <2>1
  <2> QED BY <2>2, Zenon DEF Accepted
<1> QED BY <1>1, <1>2, <1>3, <1>4, <1>5, <1>6 DEF Next

----------------------------------------------------------------------------
(* The theorems.                                                           *)

LEMMA NextInv == Inv /\ [Next]_vars => Inv'
BY TypeNext, ControlNext, TransferNext, AcceptedNext DEF Inv

LEMMA Invariance == Spec => []Inv
BY InitInv, NextInv, PTL DEF Spec

\* Addresses, sizes and counters keep the width of their C types, and no other
\* content than the image's, the old and that of a failed hook is in flash.
THEOREM TypeCorrect == Spec => []TypeOK
<1>1. Inv => TypeOK
  BY DEF Inv
<1> QED BY <1>1, Invariance, PTL

\* What the tester takes for written is in flash, however many requests and
\* answers got lost, hooks failed, blocks were sent twice and reboots happened.
THEOREM ImageKept == Spec => []ImageIntegrity
<1>1. Inv => ImageIntegrity
  BY DEF Inv
<1> QED BY <1>1, Invariance, PTL

\* The erase hook is called under a session other than the default one and an
\* open grant that hold together, although timers run between the two checks.
THEOREM DownloadsAuthorised == Spec => DownloadAuthorised
<1>1. ASSUME Inv, [Next]_vars, pc # "erase", pc' = "erase"
      PROVE  session # "DEFAULT" /\ granted
  <2>1. GateSecurity
    <3>1. ~UNCHANGED pc
      BY <1>1
    <3>2. ~(SendDownload \/ SendBlock \/ Resend \/ SendExit)
      BY <1>1, SMT DEF SendDownload, SendBlock, Resend, SendExit, Send
    <3> QED BY <1>1, <3>1, <3>2, SMT DEF Next, vars, GateSession, Erase,
        TransferData,
              WriteBlock, TransferExit, AccessChange, Reboot, Lose, Answered,
      Answer
  <2>2. pc = "security" /\ granted
    BY <1>1, <2>1, SMT DEF GateSecurity, Answer
  <2> QED BY <1>1, <2>2, SMT DEF Inv, Control
<1>2. Inv /\ [Next]_vars =>
        [pc # "erase" /\ pc' = "erase" => session # "DEFAULT" /\ granted]_vars
  BY <1>1
<1> QED BY <1>2, Invariance, PTL DEF Spec, DownloadAuthorised

\* A tester that announces the true length and waits for its download to be
\* accepted never writes over old content or an earlier block.
THEOREM IngestCleared ==
  ASSUME Disciplined
  PROVE  Spec => IngestOnlyCleared
<1>1. ASSUME Inv, [Next]_vars, pc = "write", NEW c \in Cells, flash'[c] # flash[c]
      PROVE  flash[c] \in {Erased, Damaged}
  <2>1. TypeOK /\ Control /\ Transfer
    BY <1>1 DEF Inv
  <2>2. InDoubt /\ mode = "sending"
    BY <1>1, <2>1, SMT DEF Control, InDoubt, Pending
  <2>3. /\ base \in Nat /\ base + Image <= Word /\ current_offset = base + next
        /\ Clear(next)
    BY <1>1, <2>1, <2>2, InPlace, WordFacts
  <2>4. req.size \in Nat /\ next \in Nat /\ next + req.size <= Image
        /\ req.address = next
    BY <2>1, <2>2, BlockFacts
  <2>5. flash' \in Outcomes
    <3>1. CASE WriteBlock
      BY <3>1, Zenon DEF WriteBlock, Outcomes
    <3>2. CASE Reboot
      BY <1>1, <3>2, SMT DEF Reboot, Interrupted, Outcomes
    <3>3. CASE ~(WriteBlock \/ Reboot)
      <4>1. flash' = flash
        BY <1>1, <3>3, SMT DEF Next, vars, pipeline, GateSession,
          GateSecurity, Erase,
          TransferData, TransferExit, AccessChange, SendDownload, SendBlock,
          Resend,
          SendExit, Send, Lose, Answered
      <4> QED BY <4>1 DEF Outcomes
    <3> QED BY <3>1, <3>2, <3>3
  <2>6. c \in Region(current_offset, req.size)
    <3>1. Programmed(current_offset, req)[c] # flash[c] =>
            c \in Region(current_offset, req.size)
      <4>1. flash \in [Cells -> Contents] /\ current_offset \in Cells
            /\ req.address \in Nat /\ req.address + req.size <= Image
        BY <2>1, <2>4, TypeParts, OffsetInCells
      <4> QED BY <2>4, <4>1, ProgrammedFacts DEF Region
    <3>2. Fill(Region(current_offset, req.size), Damaged)[c] # flash[c] =>
            c \in Region(current_offset, req.size)
      BY Zenon DEF Fill
    <3> QED BY <1>1, <2>5, <3>1, <3>2 DEF Outcomes
  <2>7. PICK i \in 0..req.size - 1 : c = (current_offset + i) % Word
    BY <2>6 DEF Region
  <2>8. next + i \in 0..Image - 1 /\ next + i >= next
        /\ current_offset + i \in 0..Word - 1
        /\ current_offset + i = base + (next + i)
    BY <2>3, <2>4, <2>7, WordFacts, SMT
  <2>9. c = base + (next + i)
    BY <2>7, <2>8, ModSmall
  <2> QED BY <2>3, <2>8, <2>9 DEF Clear
<1>2. Inv /\ [Next]_vars =>
        [pc = "write" =>
           \A c \in Cells : flash'[c] # flash[c] => flash[c] \in {Erased, Damaged}]_vars
  BY <1>1
<1> QED BY <1>2, Invariance, PTL DEF Spec, IngestOnlyCleared

\* A disciplined tester ends a transfer when it has gone through the image.
ExitAtEnd == mode = "sending" /\ req.sid = "exit" => next = Image

LEMMA ExitAtEndNext ==
  ASSUME Disciplined, ExitAtEnd, [Next]_vars
  PROVE  ExitAtEnd'
<1>1. CASE SendDownload
  <2>1. mode' # "sending"
    BY <1>1 DEF SendDownload
  <2> QED BY <2>1 DEF ExitAtEnd
<1>2. CASE SendBlock \/ Resend
  <2>1. req'.sid # "exit"
    BY <1>2, SMT DEF SendBlock, Resend, Send
  <2> QED BY <2>1 DEF ExitAtEnd
<1>3. CASE SendExit
  BY <1>3, SMT DEF SendExit, tester, ExitAtEnd
<1>4. CASE Answered
  <2>1. req' = req
    BY <1>4 DEF Answered
  <2>2. CASE req.sid # "exit"
    BY <2>1, <2>2 DEF ExitAtEnd
  <2>3. CASE req.sid = "exit"
    <3>1. mode' # "sending"
      BY <1>4, <2>3, SMT DEF Answered, DownloadAnswered, BlockAnswered,
         ExitAnswered
    <3> QED BY <3>1 DEF ExitAtEnd
  <2> QED BY <2>2, <2>3
<1>5. CASE UNCHANGED <<req, tester>>
  BY <1>5 DEF tester, ExitAtEnd
<1> QED
  BY <1>1, <1>2, <1>3, <1>4, <1>5, Zenon DEF Next, vars, GateSession,
     GateSecurity, Erase, TransferData, WriteBlock, TransferExit,
     AccessChange, Reboot, Lose

\* A tester that ends its transfer only behind the last block, and is told that
\* the transfer is over, has the whole image in flash (uds_flash_pipeline.c:171).
THEOREM DownloadsComplete ==
  ASSUME Disciplined
  PROVE  Spec => []DownloadComplete
<1>1. Init => ExitAtEnd
  BY DEF Init, ExitAtEnd
<1>2. Inv /\ ExitAtEnd /\ [Next]_vars => ExitAtEnd'
  BY ExitAtEndNext
<1>3. Inv /\ ExitAtEnd => DownloadComplete
  BY DEF Inv, ImageIntegrity, ExitAtEnd, DownloadComplete
<1> QED BY <1>1, <1>2, <1>3, Invariance, PTL DEF Spec
=============================================================================
