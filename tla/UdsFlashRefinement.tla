------------------------- MODULE UdsFlashRefinement -------------------------
(***************************************************************************)
(* UdsFlash implements StopAndWait, for every image, block size, set of    *)
(* addresses and width of the block counter, and for every tester.         *)
(***************************************************************************)
EXTENDS UdsFlashProofs

Confirmed == req.sid = "block" /\ reply \in {"ok", "wrong counter"}

\* The server is up to date, or one block ahead of the tester.
Level == Wrote = next
Ahead == /\ Wrote = next + req.size /\ next < Wrote /\ Wrote <= Image
         /\ req.sid = "block"

\* No other answer says that a block was written.
Unambiguous ==
  Confirmed => reply \notin {"none", "lost", "suspended", "sequence error"}

LEMMA OnlyConfirmed == Unambiguous
<1>1. \A x \in {"ok", "wrong counter"} :
        x \notin {"none", "lost", "suspended", "sequence error"}
  OBVIOUS
<1> QED BY <1>1, Zenon DEF Unambiguous, Confirmed

LEMMA OnlyConfirmedNext == Unambiguous'
BY OnlyConfirmed, PTL

LEMMA ConfirmedInDoubt == Confirmed => InDoubt
BY OnlyConfirmed, Zenon DEF Unambiguous, Confirmed, InDoubt, Pending

LEMMA WroteApproved ==
  ASSUME Sending, pipeline_state # "IDLE"
  PROVE  Wrote = bytes_received
BY DEF Wrote

LEMMA WroteIdle ==
  ASSUME Sending, pipeline_state = "IDLE"
  PROVE  Wrote = IF Confirmed THEN next + req.size ELSE next
BY DEF Wrote, Confirmed

LEMMA DoubtBlock ==
  ASSUME Inv, InDoubt, Wrote = next + req.size
  PROVE  Ahead
<1>1. next \in Nat /\ req.size \in Nat /\ req.size > 0 /\ next + req.size <= Image
  BY BlockFacts DEF Inv
<1> QED BY <1>1, WordFacts, SMT DEF Ahead, InDoubt

\* Which of the two, by what the server knows.
LEMMA Levels ==
  ASSUME Inv, Sending
  PROVE  /\ Level \/ Ahead
         /\ pipeline_state # "IDLE" =>
              \/ Fresh /\ Level /\ ~Confirmed
              \/ Written /\ Ahead /\ InDoubt
         /\ pipeline_state = "IDLE" => IF Confirmed THEN Ahead ELSE Level
<1>1. CASE pipeline_state # "IDLE"
  <2>1. (Fresh /\ ~Confirmed) \/ (Written /\ InDoubt)
    BY <1>1 DEF Inv, Transfer, Sending, Confirmed
  <2>2. ASSUME Fresh PROVE Level
    BY <1>1, <2>2, WroteApproved DEF Fresh, Level
  <2>3. ASSUME Written, InDoubt PROVE Ahead
    BY <1>1, <2>3, WroteApproved, DoubtBlock DEF Written
  <2> QED BY <1>1, <2>1, <2>2, <2>3
<1>2. CASE pipeline_state = "IDLE"
  <2>1. CASE Confirmed
    BY <1>2, <2>1, WroteIdle, ConfirmedInDoubt, DoubtBlock
  <2>2. CASE ~Confirmed
    BY <1>2, <2>2, WroteIdle DEF Level
  <2> QED BY <1>2, <2>1, <2>2
<1> QED BY <1>1, <1>2

----------------------------------------------------------------------------
(* The steps.                                                              *)

\* What neither starts nor ends a transfer nor moves a count is a stutter.
LEMMA Stutter ==
  ASSUME UNCHANGED <<mode, next>>, Wrote' = Wrote
  PROVE  [Transfers!Next]_(Transfers!transfer)
<1>1. Sending' = Sending
  BY DEF Sending
<1> QED BY <1>1 DEF Transfers!transfer

\* A step between two transfers.
LEMMA Between ==
  ASSUME ~Sending, ~Sending'
  PROVE  [Transfers!Next]_(Transfers!transfer)
<1>1. Wrote = 0 /\ Wrote' = 0
  BY DEF Wrote
<1>2. Sending' = Sending
  BY DEF Sending
<1> QED BY <1>1, <1>2 DEF Transfers!transfer

\* A transfer ends.
LEMMA Ends ==
  ASSUME Sending, ~Sending'
  PROVE  Transfers!Next
<1>1. Wrote' = 0
  BY DEF Wrote
<1>2. Sending' = FALSE
  BY DEF Sending
<1> QED BY <1>1, <1>2 DEF Transfers!Next, Transfers!Stop

\* A transfer begins with an accepted download, of which nothing is written.
LEMMA Begins ==
  ASSUME Inv, [Next]_vars, ~Sending, Sending'
  PROVE  Transfers!Next
<1>1. Answered /\ DownloadAnswered
  <2>1. mode # "sending" /\ mode' = "sending" /\ mode' # "idle"
    BY DEF Sending
  <2>2. ~UNCHANGED mode
    BY <2>1
  <2>3. ~SendDownload /\ ~ExitAnswered
    BY <2>1, SMT DEF SendDownload, ExitAnswered
  <2>4. ~BlockAnswered
    BY <2>1, <2>2, Zenon DEF BlockAnswered
  <2> QED
    BY <2>2, <2>3, <2>4, Zenon DEF Next, vars, tester, GateSession,
       GateSecurity, Erase, TransferData, WriteBlock, TransferExit,
       AccessChange, Reboot, SendBlock, Resend, SendExit, Lose, Answered
<1>2. req.sid = "download" /\ reply = "ok" /\ next' = 0
  BY <1>1, SMT DEF Answered, DownloadAnswered, Sending
<1>3. reply' = "none" /\ UNCHANGED <<req, bytes_received, pipeline_state>>
  BY <1>1 DEF Answered, pipeline
<1>4. Wrote' = 0
  <2>1. CASE pipeline_state = "IDLE"
    BY <1>2, <1>3, <2>1, SMT DEF Wrote
  <2>2. CASE pipeline_state # "IDLE"
    <3>1. bytes_received = 0
      BY <1>2, <2>2 DEF Inv, Accepted
    <3> QED BY <1>3, <2>2, <3>1 DEF Wrote
  <2> QED BY <2>1, <2>2
<1>5. Sending' = TRUE
  BY DEF Sending
<1> QED BY <1>2, <1>4, <1>5 DEF Transfers!Next, Transfers!Start

----------------------------------------------------------------------------
(* The steps within a transfer.                                            *)

\* While the server's counter is known, its steps move the count alone.
LEMMA SameCount ==
  ASSUME Sending, UNCHANGED <<mode, next, bytes_received, pipeline_state>>,
         pipeline_state = "IDLE" => (Confirmed' <=> Confirmed),
         pipeline_state = "IDLE" /\ Confirmed => UNCHANGED req
  PROVE  [Transfers!Next]_(Transfers!transfer)
<1>1. Sending'
  BY DEF Sending
<1>2. Wrote' = Wrote
  <2>1. CASE pipeline_state = "IDLE"
    BY <1>1, <2>1, WroteIdle DEF Wrote, Confirmed
  <2>2. CASE pipeline_state # "IDLE"
    BY <1>1, <2>2 DEF Wrote
  <2> QED BY <2>1, <2>2
<1> QED BY <1>2, Stutter

\* The requests that precede a transfer are over.
LEMMA NoDownload ==
  ASSUME Inv, Sending
  PROVE  pc \notin {"session", "security", "erase"}
<1>1. mode # "idle"
  BY DEF Sending
<1>2. Control
  BY DEF Inv
<1> QED BY <1>1, <1>2, SMT DEF Control, Pending

LEMMA ServerImplements ==
  ASSUME Inv, Sending, TransferData \/ WriteBlock \/ TransferExit
  PROVE  [Transfers!Next]_(Transfers!transfer)
<1>1. CASE TransferData
  <2>1. UNCHANGED <<mode, next, bytes_received, pipeline_state, req>>
    BY <1>1 DEF TransferData, tester, pipeline
  <2>2. pipeline_state = "IDLE" => ~Confirmed /\ ~Confirmed'
    <3>1. pc = "transfer" /\ Control
      BY <1>1 DEF Inv, TransferData
    <3>2. reply = "none"
      BY <3>1, SMT DEF Control
    <3>3. pipeline_state = "IDLE" => reply' = "sequence error"
      BY <1>1, Zenon DEF TransferData, Answer
    <3> QED
      BY <3>2, <3>3, OnlyConfirmed, OnlyConfirmedNext DEF Unambiguous
  <2> QED BY <2>1, <2>2, SameCount
<1>2. CASE WriteBlock
  <2>1. UNCHANGED <<mode, next, req>> /\ Sending'
    BY <1>2 DEF WriteBlock, tester, Sending
  <2>2. InDoubt /\ pipeline_state # "IDLE" /\ InSequence
    BY <1>2, SMT DEF Inv, Control, WriteBlock, InDoubt, Pending
  <2>3. /\ next \in Nat /\ req.size \in Nat /\ req.size > 0
        /\ next + req.size <= Image
    BY <2>2, BlockFacts DEF Inv
  <2>4. Fresh /\ Level
    <3>1. expected_block_counter = block
      BY <2>2 DEF Inv, Control, InSequence
    <3>2. block \in 0..BlockMod - 1
      BY DEF Inv, TypeOK
    <3>3. ~Written
      BY <3>1, <3>2, NextBlock DEF Written
    <3> QED BY <2>2, <3>3, Levels
  <2>5. CASE Advance
    <3>1. bytes_received' = next + req.size /\ pipeline_state' # "IDLE"
      <4>1. bytes_received' = (next + req.size) % Word
            /\ pipeline_state' = "TRANSFERRING"
        BY <2>4, <2>5, Zenon DEF Advance, Fresh
      <4>2. (next + req.size) % Word = next + req.size
        BY <2>3, ModSmall, WordFacts, SMT
      <4> QED BY <4>1, <4>2
    <3>2. Wrote' = next + req.size
      BY <2>1, <3>1 DEF Wrote
    <3>3. Wrote = next
      BY <2>4 DEF Level
    <3>4. Transfers!Write
      BY <2>1, <2>3, <3>2, <3>3, WordFacts, SMT DEF Transfers!Write, Sending
    <3> QED BY <3>4 DEF Transfers!Next
  <2>6. CASE UNCHANGED <<bytes_received, pipeline_state>>
    BY <2>1, <2>2, <2>6, SameCount
  <2> QED BY <1>2, <2>5, <2>6, Zenon DEF WriteBlock
<1>3. CASE TransferExit
  <2>1. UNCHANGED <<mode, next, bytes_received, req>> /\ Sending'
    BY <1>3 DEF TransferExit, tester, Sending
  <2>2. req.sid = "exit"
    <3>1. pc = "exit" /\ Control
      BY <1>3 DEF Inv, TransferExit
    <3> QED BY <3>1, Zenon DEF Control
  <2>3. ~Confirmed /\ ~Confirmed' /\ ~InDoubt
    BY <2>1, <2>2, SMT DEF Confirmed, InDoubt
  <2>4. Level
    BY <2>3, Levels
  <2>5. CASE pipeline_state' = "IDLE"
    <3>1. Wrote' = next
      BY <2>1, <2>3, <2>5, Zenon DEF Wrote, Confirmed
    <3> QED BY <2>1, <2>4, <3>1, Stutter DEF Level
  <2>6. CASE UNCHANGED pipeline_state
    BY <2>1, <2>3, <2>6, SameCount
  <2> QED BY <1>3, <2>5, <2>6, Zenon DEF TransferExit
<1> QED BY <1>1, <1>2, <1>3

\* A block that nobody but the server knew of is forgotten, if there is one.
LEMMA Forgets ==
  ASSUME Inv, Sending, UNCHANGED <<mode, next>>, Wrote' = next
  PROVE  [Transfers!Next]_(Transfers!transfer)
<1>1. CASE Level
  BY <1>1, Stutter DEF Level
<1>2. CASE Ahead
  <2>1. Sending' = Sending
    BY DEF Sending
  <2>2. Transfers!Forget
    BY <1>2, <2>1 DEF Transfers!Forget, Ahead
  <2> QED BY <2>2 DEF Transfers!Next
<1> QED BY <1>1, <1>2, Levels

LEMMA FailuresImplement ==
  ASSUME Inv, Sending, Reboot \/ Lose
  PROVE  [Transfers!Next]_(Transfers!transfer)
<1>1. UNCHANGED <<mode, next, req>> /\ Sending'
  BY Zenon DEF Reboot, Lose, tester, Sending
<1>2. CASE Reboot
  <2>1. pipeline_state' = "IDLE" /\ reply' \in {reply, "lost"}
    BY <1>2, Zenon DEF Reboot, Reset
  <2>2. Wrote' = IF Confirmed' THEN next + req.size ELSE next
    BY <1>1, <2>1 DEF Wrote, Confirmed
  <2>3. CASE Confirmed'
    <3>1. Confirmed
      BY <1>1, <2>1, <2>3, OnlyConfirmedNext DEF Unambiguous, Confirmed
    <3>2. Ahead
      BY <3>1, Levels
    <3> QED BY <1>1, <2>2, <2>3, <3>2, Stutter DEF Ahead
  <2>4. CASE ~Confirmed'
    BY <1>1, <2>2, <2>4, Forgets
  <2> QED BY <2>3, <2>4
<1>3. CASE Lose
  <2>1. UNCHANGED <<bytes_received, pipeline_state>> /\ reply' = "lost"
    BY <1>3, Zenon DEF Lose, pipeline, Answer
  <2>2. ~Confirmed'
    BY <2>1, OnlyConfirmedNext DEF Unambiguous
  <2>3. CASE pipeline_state = "IDLE"
    <3>1. Wrote' = next
      BY <1>1, <2>1, <2>2, <2>3, Zenon DEF Wrote, Confirmed
    <3> QED BY <1>1, <3>1, Forgets
  <2>4. CASE pipeline_state # "IDLE"
    BY <1>1, <2>1, <2>4, SameCount
  <2> QED BY <2>3, <2>4
<1> QED BY <1>2, <1>3

LEMMA RequestsImplement ==
  ASSUME Inv, Sending,
         AccessChange \/ SendBlock \/ Resend \/ SendExit
  PROVE  [Transfers!Next]_(Transfers!transfer)
<1>1. UNCHANGED <<mode, next, bytes_received, pipeline_state>>
  BY Zenon DEF AccessChange, SendBlock, Resend, SendExit, Send, tester,
     pipeline
<1>2. CASE AccessChange
  BY <1>1, <1>2, SameCount DEF AccessChange, Confirmed
<1>3. CASE SendBlock \/ Resend \/ SendExit
  <2>1. reply = "none" /\ reply' = "none"
    BY <1>3, Zenon DEF SendBlock, Resend, SendExit, Send
  <2>2. ~Confirmed /\ ~Confirmed'
    BY <2>1, OnlyConfirmed, OnlyConfirmedNext DEF Unambiguous
  <2> QED BY <1>1, <2>2, SameCount
<1> QED BY <1>2, <1>3

\* The tester learns of a block that it is told of, and of no other.
LEMMA AnswersImplement ==
  ASSUME Inv, Sending, Sending', Answered
  PROVE  [Transfers!Next]_(Transfers!transfer)
<1>1. /\ pc = "recv" /\ reply # "none" /\ reply' = "none"
      /\ UNCHANGED <<req, bytes_received, pipeline_state>>
  BY DEF Answered, pipeline
<1>2. mode = "sending" /\ mode' = "sending"
  BY DEF Sending
<1>3. BlockAnswered
  <2>1. ~DownloadAnswered
    <3>1. ASSUME req.sid = "download" PROVE mode = "idle"
      BY <1>1, <3>1 DEF Inv, Control, Pending
    <3> QED BY <1>2, <3>1 DEF DownloadAnswered
  <2>2. ~ExitAnswered
    BY <1>2, SMT DEF ExitAnswered
  <2> QED BY <2>1, <2>2, Zenon DEF Answered
<1>4. ~Confirmed'
  BY <1>1, OnlyConfirmedNext DEF Unambiguous
<1>5. CASE reply = "ok" \/ (reply = "wrong counter" /\ doubt)
  <2>1. Confirmed
    BY <1>3, <1>5, Zenon DEF BlockAnswered, Confirmed
  <2>2. Ahead
    BY <2>1, Levels
  <2>3. next' = next + req.size
    <3>1. reply \notin {"lost", "suspended", "sequence error"}
      BY <2>1, OnlyConfirmed DEF Unambiguous
    <3>2. ~(reply = "wrong counter" /\ ~doubt)
      BY <1>5
    <3> QED BY <1>3, <3>1, <3>2, Zenon DEF BlockAnswered
  <2>4. Wrote' = next'
    <3>1. CASE pipeline_state = "IDLE"
      BY <1>1, <1>2, <1>4, <3>1, Zenon DEF Wrote, Confirmed, Sending
    <3>2. CASE pipeline_state # "IDLE"
      <4>1. Wrote' = Wrote
        BY <1>1, <1>2, <3>2 DEF Wrote, Sending
      <4> QED BY <2>2, <2>3, <4>1 DEF Ahead
    <3> QED BY <3>1, <3>2
  <2>5. Transfers!Confirm
    <3>1. Sending' = Sending
      BY DEF Sending
    <3> QED BY <2>2, <2>3, <2>4, <3>1 DEF Ahead, Transfers!Confirm
  <2> QED BY <2>5 DEF Transfers!Next
<1>6. CASE ~(reply = "ok" \/ (reply = "wrong counter" /\ doubt))
  <2>1. UNCHANGED <<mode, next>>
    <3>1. ~(mode' = "idle")
      BY <1>2
    <3> QED BY <1>3, <1>6, <3>1, Zenon DEF BlockAnswered
  <2>2. pipeline_state = "IDLE" => ~Confirmed
    <3>1. Confirmed => doubt \/ reply = "ok"
      BY <1>2 DEF Inv, Transfer, Confirmed
    <3> QED BY <1>6, <3>1 DEF Confirmed
  <2> QED BY <1>1, <1>4, <2>1, <2>2, SameCount
<1> QED BY <1>5, <1>6

LEMMA NextImplements ==
  ASSUME Inv, [Next]_vars
  PROVE  [Transfers!Next]_(Transfers!transfer)
<1>1. CASE ~Sending
  BY <1>1, Between, Begins
<1>2. CASE Sending /\ ~Sending'
  BY <1>2, Ends
<1>3. CASE Sending /\ Sending'
  <2>1. CASE GateSession \/ GateSecurity \/ Erase
    BY <1>3, <2>1, NoDownload, Zenon DEF GateSession, GateSecurity, Erase
  <2>2. CASE TransferData \/ WriteBlock \/ TransferExit
    BY <1>3, <2>2, ServerImplements
  <2>3. CASE Reboot \/ Lose
    BY <1>3, <2>3, FailuresImplement
  <2>4. CASE AccessChange \/ SendBlock \/ Resend \/ SendExit
    BY <1>3, <2>4, RequestsImplement
  <2>5. CASE SendDownload
    BY <1>3, <2>5 DEF SendDownload, Sending
  <2>6. CASE Answered
    BY <1>3, <2>6, AnswersImplement
  <2>7. CASE UNCHANGED vars
    BY <1>3, <2>7, SameCount DEF vars, tester, pipeline, Confirmed
  <2> QED BY <2>1, <2>2, <2>3, <2>4, <2>5, <2>6, <2>7 DEF Next
<1> QED BY <1>1, <1>2, <1>3

\* Whatever the tester announces, sends again or abandons, and whatever is
\* lost, fails or is cut off by a reboot: server and tester go through the
\* image block by block, none counted twice and none left out.
THEOREM Refinement == Spec => BlockByBlock
<1>1. Init => Transfers!Init
  BY SMT DEF Init, Transfers!Init, Sending, Wrote
<1>2. Inv /\ [Next]_vars => [Transfers!Next]_(Transfers!transfer)
  BY NextImplements
<1> QED
  BY <1>1, <1>2, Invariance, PTL DEF Spec, BlockByBlock, Transfers!Spec
=============================================================================
