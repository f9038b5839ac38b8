------------------------------ MODULE JfdpStream ------------------------------
(***************************************************************************)
(* The request stream between the development host and the device:         *)
(* JfdpStreamAdapter (jellyframe_esp32s3_jfdp_transport.cpp), which puts   *)
(* frames together from the bytes of the USB serial link; the loop of the  *)
(* device image task, which watches the link and the silence on it; the    *)
(* install transaction as far as requests open, continue and end it; and   *)
(* the host tool, one process after the other, which sends a request and   *)
(* waits for the answer.  A process whose install is refused, because one  *)
(* that is gone left its own open, cancels that one first.                 *)
(*                                                                         *)
(* The stream is cut into cells: a header is two of them (the declared     *)
(* length is in the second), a payload none or more.  A header put         *)
(* together from other cells declares any length.  The checksum and the    *)
(* fixed fields are taken to detect whatever is not one whole frame.  What *)
(* the store does with an install is DeviceInstallTransaction's.           *)
(***************************************************************************)
EXTENDS Integers, SequencesExt

CONSTANTS
  Hosts,            \* numbers of the host processes, one after the other, used again (bound)
  Chunks,           \* chunks of an install
  MaxPayloadCells,  \* kDeviceProtocolMaxPayloadBytes
  MaxFaults         \* lost links and answers, dying hosts, malformed requests, delays (bound)

ASSUME StreamAssumption ==
  /\ Hosts \in Nat \ {0} /\ Chunks \in Nat \ {0} /\ MaxPayloadCells \in Nat \ {0}
  /\ MaxFaults \in Nat

VARIABLES
  host,         \* the host process; its number is the id of the installs it makes
  step,         \* the process is "opening" the link, "ready" to send or "waiting" for the answer
  made,         \* requests of its install answered with success
  blocker,      \* the install that keeps it from its own, 0 if none is known
  due,          \* the requests sent that the device has not handed on yet
  faults,       \* faults so far (and slow reactions of the device)
  connected,    \* the link is up
  wire,         \* cells sent and not yet read
  wasConnected, \* was_connected of the device's loop
  read,         \* cells read and not yet fed: bytes and size of feed
  buffer,       \* buffer_ up to buffered_bytes_
  expected,     \* expected_frame_bytes_
  reply,        \* answers on their way to the host
  transaction   \* the open install: the set of at most one

hostVars == <<host, step, made, blocker, due>>
deviceVars == <<wasConnected, read, buffer, expected, transaction>>
streamVars == <<hostVars, faults, connected, wire, deviceVars, reply>>

-----------------------------------------------------------------------------
(***************************************************************************)
(* Frames and cells                                                        *)
(***************************************************************************)
HeaderCells == 2

Malformed == {"badMagic", "badCrc", "oversize"}
Bare == {"ask", "flagged", "oversize"}
Kinds == {"ask", "begin", "chunk", "commit", "abort", "flagged"} \cup Malformed
Ids == 1 .. Hosts
Frames == [host : Ids, kind : Kinds, tx : 0 .. Hosts, k : 0 .. Chunks]

FrameSize(f) == HeaderCells + (IF f.kind \in Bare THEN 0 ELSE 1)
CellsOf(f) == [j \in 1 .. FrameSize(f) |-> [frame |-> f, part |-> j]]

TooLong == MaxPayloadCells + 1

\* payload_length of 24 bytes taken for a header.
DeclaredLengths(header) ==
  LET f == header[1].frame IN
  IF header # SubSeq(CellsOf(f), 1, HeaderCells) THEN 0 .. TooLong
  ELSE {IF f.kind = "oversize" THEN TooLong ELSE FrameSize(f) - HeaderCells}

\* decode_device_frame: magic, version, type, size and checksum of the payload.
Decodes(cells) ==
  LET f == cells[1].frame IN cells = CellsOf(f) /\ f.kind \notin Malformed

-----------------------------------------------------------------------------
(***************************************************************************)
(* The host tool                                                           *)
(***************************************************************************)
StreamInit ==
  /\ host = 1 /\ step = "ready" /\ made = 0 /\ blocker = 0 /\ due = {} /\ faults = 0
  /\ connected = TRUE /\ wasConnected = TRUE
  /\ wire = <<>> /\ read = <<>> /\ buffer = <<>> /\ expected = 0
  /\ reply = <<>> /\ transaction = {}

Request(kind, tx, k) == [host |-> host, kind |-> kind, tx |-> tx, k |-> k]

\* What the tool sends next: a discovery at any time, the install step by step or its abort;
\* the abort of an install in the way comes first.
Requests ==
  IF blocker # 0 THEN {Request("abort", blocker, 0)}
  ELSE {Request("ask", 0, 0)}
       \cup CASE made = 0 -> {Request("begin", host, 0)}
              [] made \in 1 .. Chunks -> {Request("abort", host, 0), Request("chunk", host, made)}
              [] OTHER -> {Request("abort", host, 0), Request("commit", host, 0)}

SendFrame(f) ==
  /\ step = "ready" /\ connected
  /\ wire' = wire \o CellsOf(f)
  /\ step' = "waiting" /\ due' = due \cup {f}
  /\ UNCHANGED <<host, made, connected, deviceVars, reply>>

SendRequest == (\E f \in Requests : SendFrame(f)) /\ blocker' = 0 /\ UNCHANGED faults

Fault == faults < MaxFaults /\ faults' = faults + 1

\* The cases of the acceptance probe.
SendMalformed ==
  /\ Fault /\ UNCHANGED blocker
  /\ \E kind \in Malformed \cup {"flagged"} : SendFrame(Request(kind, 0, 0))

NextProcess ==
  /\ host' = (IF host = Hosts THEN 1 ELSE host + 1)
  /\ step' = "opening" /\ made' = 0 /\ reply' = <<>>

Silence == wire = <<>> /\ read = <<>>

\* The process waits a fifth of a second and then empties its input.  By then the device
\* has dealt with whatever it was sent, or is slow for once.
Open ==
  /\ step = "opening" /\ connected
  /\ (Silence /\ UNCHANGED faults) \/ (~Silence /\ Fault)
  /\ step' = "ready" /\ reply' = <<>>
  /\ UNCHANGED <<host, made, blocker, due, connected, wire, deviceVars>>

\* An answer to another process ends this one, as does any that is not a success.
GetReply ==
  /\ step = "waiting" /\ reply # <<>>
  /\ LET r == Head(reply) IN
       /\ blocker' = IF r.frame.host = host /\ ~r.ok THEN r.open ELSE 0
       /\ IF r.frame.host = host /\ r.ok /\ r.frame.kind \in {"ask", "begin", "chunk"}
          THEN /\ made' = IF r.frame.kind = "ask" THEN made ELSE made + 1
               /\ step' = "ready" /\ reply' = Tail(reply) /\ UNCHANGED host
          ELSE NextProcess
  /\ UNCHANGED <<due, faults, connected, wire, deviceVars>>

\* has_partial_frame
HasPartial == buffer # <<>>

\* The device is done with everything and has not answered.
Unanswered == step = "waiting" /\ reply = <<>> /\ Silence /\ buffer = <<>>

\* No answer within seconds: by then a partial frame has been given up by the device.
GiveUp ==
  /\ step = "waiting" /\ reply = <<>> /\ Silence /\ ~HasPartial
  /\ NextProcess
  /\ UNCHANGED <<blocker, due, faults, connected, wire, deviceVars>>

\* What was not transmitted is lost, at any place; what comes back for it nobody reads.
CutOff ==
  /\ \E n \in 0 .. Len(wire) : wire' = SubSeq(wire, 1, n)
  /\ NextProcess
  /\ UNCHANGED <<blocker, due>>

\* The process is killed, the link stays up, another process opens it.
HostDies ==
  /\ Fault /\ CutOff
  /\ UNCHANGED <<connected, deviceVars>>

Unplug ==
  /\ Fault /\ connected /\ connected' = FALSE
  /\ CutOff
  /\ UNCHANGED deviceVars

Plug ==
  /\ ~connected /\ connected' = TRUE
  /\ UNCHANGED <<hostVars, faults, wire, deviceVars, reply>>

-----------------------------------------------------------------------------
(***************************************************************************)
(* The endpoint: what a request that was put together does                 *)
(***************************************************************************)
Continues(f) == {t \in transaction : t.tx = f.tx /\ t.received = f.k - 1}

\* Mutant of Concludes: an abort asks for what a commit asks for.
ConcludesWhole(f) == {t \in transaction : t.tx = f.tx /\ t.received = Chunks}

Concludes(f) == {t \in transaction : t.tx = f.tx /\ (f.kind = "abort" \/ t.received = Chunks)}

Succeeds(f) ==
  CASE f.kind = "begin" -> transaction = {}
    [] f.kind = "chunk" -> Continues(f) # {}
    [] f.kind \in {"commit", "abort"} -> Concludes(f) # {}
    [] OTHER -> TRUE

\* Requests that do not succeed leave the transaction alone; a frame with flags ends it.
TransactionAfter(f) ==
  CASE f.kind = "flagged" -> {}
    [] f.kind = "begin" /\ transaction = {} -> {[tx |-> f.tx, received |-> 0]}
    [] f.kind = "chunk" /\ Continues(f) # {} -> {[tx |-> f.tx, received |-> f.k]}
    [] f.kind \in {"commit", "abort"} -> transaction \ Concludes(f)
    [] OTHER -> transaction

\* An answer names the install that is open; 0 if there is none.
Answer(f) ==
  [frame |-> f, ok |-> Succeeds(f), open |-> IF transaction = {} THEN 0 ELSE (CHOOSE t \in transaction : TRUE).tx]

\* The answer may be lost.
OnJfdpFrame(f) ==
  /\ transaction' = TransactionAfter(f)
  /\ due' = due \ {f}
  /\ \/ reply' = (IF f.kind = "flagged" THEN reply ELSE Append(reply, Answer(f)))
        /\ UNCHANGED faults
     \/ f.kind # "flagged" /\ UNCHANGED reply /\ Fault

-----------------------------------------------------------------------------
(***************************************************************************)
(* The adapter and the loop of the task                                    *)
(***************************************************************************)
\* Mutant of Cleared: the length of the frame that is gone stays.
ClearedKeepsLength == buffer' = <<>> /\ UNCHANGED expected

Cleared == buffer' = <<>> /\ expected' = 0

\* on_jfdp_transport_reset aborts the open install.
Reset == Cleared /\ transaction' = {} /\ UNCHANGED <<due, reply>>
Abandon == Reset /\ UNCHANGED faults

\* Mutant of CompleteFrame: the frame stays in the buffer.
CompleteFrameKeeps(cells) ==
  IF Decodes(cells) THEN OnJfdpFrame(cells[1].frame) /\ buffer' = cells /\ expected' = expected
                    ELSE Abandon

CompleteFrame(cells) ==
  IF Decodes(cells) THEN OnJfdpFrame(cells[1].frame) /\ Cleared ELSE Abandon

\* After the copy: header complete, frame complete, or neither.
HeaderComplete(cells) ==
  \E length \in DeclaredLengths(cells) :
    CASE length = TooLong -> Abandon
      [] length = 0 -> CompleteFrame(cells)
      [] OTHER -> /\ buffer' = cells /\ expected' = HeaderCells + length
                  /\ UNCHANGED <<due, reply, faults, transaction>>

\* Mutant of Target: the header is not subtracted again for the rest of the frame.
TargetAsDeclared == IF expected = 0 THEN HeaderCells - Len(buffer) ELSE expected

Target == IF expected = 0 THEN HeaderCells - Len(buffer) ELSE expected - Len(buffer)

\* One round of the loop of feed.
Feed ==
  LET copied == IF Len(read) < Target THEN Len(read) ELSE Target
      cells == buffer \o SubSeq(read, 1, copied)
  IN /\ read # <<>>
     /\ read' = SubSeq(read, copied + 1, Len(read))
     /\ CASE expected = 0 /\ Len(cells) = HeaderCells -> HeaderComplete(cells)
          [] expected # 0 /\ Len(cells) = expected -> CompleteFrame(cells)
          [] OTHER -> buffer' = cells /\ UNCHANGED <<expected, due, reply, faults, transaction>>
     /\ UNCHANGED <<host, step, made, blocker, connected, wire, wasConnected>>

\* One read returns whatever has arrived, in pieces of any size.
ReadBytes ==
  /\ read = <<>>
  /\ \E n \in 1 .. Len(wire) : read' = SubSeq(wire, 1, n) /\ wire' = SubSeq(wire, n + 1, Len(wire))
  /\ UNCHANGED <<hostVars, faults, connected, wasConnected, buffer, expected, transaction, reply>>

\* Half a second without a byte: there is none, or the host stalls within a frame for once.
PartialFrameTimeout ==
  /\ read = <<>> /\ HasPartial
  /\ (Silence /\ UNCHANGED faults) \/ (~Silence /\ Fault)
  /\ Reset
  /\ UNCHANGED <<host, step, made, blocker, connected, wire, wasConnected, read>>

\* A link that goes and comes between two looks at it is not noticed.
PollLink ==
  /\ read = <<>> /\ connected # wasConnected
  /\ wasConnected' = connected
  /\ IF connected THEN UNCHANGED <<buffer, expected, transaction, due, reply, faults>> ELSE Abandon
  /\ UNCHANGED <<host, step, made, blocker, connected, wire, read>>

DeviceStep == Feed \/ ReadBytes \/ PollLink

HostStep == Open \/ SendRequest \/ GetReply \/ GiveUp \/ Plug

StreamNext ==
  DeviceStep \/ PartialFrameTimeout \/ HostStep \/ SendMalformed \/ HostDies \/ Unplug

\* The device's loop goes round, also when nothing arrives; the user plugs the device in
\* again and goes on asking.
StreamSpec ==
  /\ StreamInit /\ [][StreamNext]_streamVars
  /\ WF_streamVars(DeviceStep) /\ WF_streamVars(PartialFrameTimeout)
  /\ WF_streamVars(Open) /\ WF_streamVars(SendRequest) /\ WF_streamVars(GetReply) /\ WF_streamVars(GiveUp)
  /\ WF_streamVars(Plug)

-----------------------------------------------------------------------------
(***************************************************************************)
(* Properties                                                              *)
(***************************************************************************)
\* The variables hold values of their types, and the buffer never holds more than the frame
\* it expects, or than a header while that is not known.
StreamTypeOK ==
  /\ {host} \cup {t.tx : t \in transaction} \subseteq Ids /\ step \in {"opening", "ready", "waiting"}
  /\ made \in 0 .. Chunks + 1 /\ blocker \in 0 .. Hosts /\ due \subseteq Frames
  /\ faults \in 0 .. MaxFaults /\ {connected, wasConnected} \subseteq BOOLEAN
  /\ \A cells \in {wire, read, buffer} : \A j \in DOMAIN cells : cells[j].frame \in Frames
  /\ expected \in {0} \cup HeaderCells + 1 .. HeaderCells + MaxPayloadCells
  /\ Len(buffer) < (IF expected = 0 THEN HeaderCells ELSE expected)
  /\ \A t \in transaction : t.received \in 0 .. Chunks

HandedOn == {reply'[j].frame : j \in Len(reply) + 1 .. Len(reply')}

\* Whatever bytes of earlier requests are left over and however reads cut the stream, a
\* frame is handed on and answered only if it was sent, and once for each time it was sent
\* ("Read boundaries are never message boundaries"; no duplicated chunk).
HandsOnWhatIsDue == [][HandedOn \subseteq due]_streamVars

\* Rejected, cut off or left over bytes never leave the adapter out of step for good: when
\* the faults are over, a time comes from which no request is left without an answer.
RequestsGetThrough == <>[]~Unanswered

Accepted == \E j \in DOMAIN reply : reply[j].frame.kind = "begin" /\ reply[j].ok

\* The install of a process that vanished does not keep others out for good: processes that
\* find one in their way again and again, and cancel it, are let in again and again.
LaterInstallsGetIn == []<>(blocker # 0) => []<>Accepted
=============================================================================
