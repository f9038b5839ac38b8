-------------------------- MODULE JfdpStream_proofs --------------------------
(***************************************************************************)
(* Theorems about JfdpStream: whatever bytes of earlier requests are left  *)
(* over, the adapter hands on what was sent, once for each time it was     *)
(* sent, for any number of chunks, cells of a payload and faults, as long  *)
(* as the number of a host process is not used again while bytes of it may *)
(* be on their way.                                                        *)
(*                                                                         *)
(* What has been sent and is not dealt with lies in three sequences, which *)
(* are taken as one, Stream; the steps of the device and of the host leave *)
(* a part of it without gaps, and only a request adds to it.               *)
(***************************************************************************)
EXTENDS JfdpStream, SequenceTheorems, TLAPS

\* Each process that leaves something behind costs a fault.
NumbersAreFresh == MaxFaults < Hosts

-----------------------------------------------------------------------------
(***************************************************************************)
(* Sequences                                                               *)
(***************************************************************************)
LEMMA JoinAt ==
  ASSUME NEW X, NEW s \in Seq(X), NEW t \in Seq(X)
  PROVE  /\ s \o t \in Seq(X) /\ Len(s \o t) = Len(s) + Len(t)
         /\ \A j \in 1 .. Len(s) : (s \o t)[j] = s[j]
         /\ \A j \in 1 .. Len(t) : (s \o t)[Len(s) + j] = t[j]
<1>1. s \o t \in Seq(X) /\ Len(s \o t) = Len(s) + Len(t) /\ Len(s) \in Nat /\ Len(t) \in Nat
  BY ConcatProperties, LenProperties
<1>2. \A j \in 1 .. Len(s) + Len(t) : (s \o t)[j] = IF j <= Len(s) THEN s[j] ELSE t[j - Len(s)]
  BY ConcatProperties
<1>3. ASSUME NEW j \in 1 .. Len(t) PROVE (s \o t)[Len(s) + j] = t[j]
  <2>1. Len(s) + j \in 1 .. Len(s) + Len(t) /\ ~(Len(s) + j <= Len(s)) /\ (Len(s) + j) - Len(s) = j
    BY <1>1
  <2>2. QED BY <1>2, <2>1
<1>4. QED BY <1>1, <1>2, <1>3

LEMMA PartAt ==
  ASSUME NEW X, NEW s \in Seq(X), NEW m \in 1 .. Len(s) + 1, NEW n \in 0 .. Len(s), m <= n + 1
  PROVE  /\ SubSeq(s, m, n) \in Seq(X) /\ Len(SubSeq(s, m, n)) = n - m + 1
         /\ \A j \in 1 .. n - m + 1 : SubSeq(s, m, n)[j] = s[m + j - 1]
BY SubSeqProperties, LenProperties

LEMMA NothingOf ==
  ASSUME NEW X, NEW s \in Seq(X)
  PROVE  Len(s) \in Nat /\ DOMAIN s = 1 .. Len(s) /\ (s = <<>> <=> Len(s) = 0)
BY LenProperties, EmptySeq


\* T is a part of S without gaps.
PartOf(T, S) == \E n \in Nat : \A j \in DOMAIN T : n + j \in DOMAIN S /\ T[j] = S[n + j]

LEMMA PartIsItself == ASSUME NEW X, NEW s \in Seq(X) PROVE PartOf(s, s)
<1>1. \A j \in DOMAIN s : 0 + j \in DOMAIN s /\ s[j] = s[0 + j]
  BY NothingOf
<1>2. QED BY <1>1 DEF PartOf

LEMMA PartOfFront == ASSUME NEW X, NEW s \in Seq(X), NEW t \in Seq(X) PROVE PartOf(s, s \o t)
<1>1. \A j \in DOMAIN s : 0 + j \in DOMAIN (s \o t) /\ s[j] = (s \o t)[0 + j]
  BY JoinAt, NothingOf
<1>2. QED BY <1>1 DEF PartOf

LEMMA PartOfEnd == ASSUME NEW X, NEW s \in Seq(X), NEW t \in Seq(X) PROVE PartOf(t, s \o t)
<1>1. Len(s) \in Nat /\ \A j \in DOMAIN t : Len(s) + j \in DOMAIN (s \o t) /\ t[j] = (s \o t)[Len(s) + j]
  BY JoinAt, NothingOf
<1>2. QED BY <1>1 DEF PartOf

LEMMA CutInTwo ==
  ASSUME NEW X, NEW s \in Seq(X), NEW n \in 0 .. Len(s)
  PROVE  /\ SubSeq(s, 1, n) \in Seq(X) /\ SubSeq(s, n + 1, Len(s)) \in Seq(X)
         /\ Len(SubSeq(s, 1, n)) = n /\ Len(SubSeq(s, n + 1, Len(s))) = Len(s) - n
         /\ s = SubSeq(s, 1, n) \o SubSeq(s, n + 1, Len(s))
<1> DEFINE a == SubSeq(s, 1, n)
           b == SubSeq(s, n + 1, Len(s))
<1>1. Len(s) \in Nat
  BY NothingOf
<1>2. a \in Seq(X) /\ Len(a) = n /\ \A j \in 1 .. n : a[j] = s[j]
  BY <1>1, PartAt
<1>3. b \in Seq(X) /\ Len(b) = Len(s) - n /\ \A j \in 1 .. Len(s) - n : b[j] = s[n + j]
  <2>1. n + 1 \in 1 .. Len(s) + 1 /\ Len(s) \in 0 .. Len(s) /\ n + 1 <= Len(s) + 1
    BY <1>1
  <2>2. /\ b \in Seq(X) /\ Len(b) = Len(s) - (n + 1) + 1
        /\ \A j \in 1 .. Len(s) - (n + 1) + 1 : b[j] = s[(n + 1) + j - 1]
    BY <2>1, PartAt
  <2>3. QED BY <1>1, <2>2
<1>4. a \o b \in Seq(X) /\ Len(a \o b) = Len(s)
  <2> HIDE DEF a, b
  <2>1. Len(a) + Len(b) = Len(s)
    BY <1>1, <1>2, <1>3
  <2>2. a \o b \in Seq(X) /\ Len(a \o b) = Len(a) + Len(b)
    BY <1>2, <1>3, JoinAt
  <2>3. QED BY <2>1, <2>2
<1>5. ASSUME NEW j \in 1 .. Len(s) PROVE s[j] = (a \o b)[j]
  <2>1. CASE j <= n
    <3> HIDE DEF a, b
    <3>1. QED BY <1>1, <1>2, <1>3, <2>1, JoinAt
  <2>2. CASE n < j
    <3>1. j - n \in 1 .. Len(b) /\ j = Len(a) + (j - n)
      BY <1>1, <1>2, <1>3, <2>2
    <3>2. (a \o b)[Len(a) + (j - n)] = b[j - n]
      <4> HIDE DEF a, b
      <4>1. QED BY <1>2, <1>3, <3>1, JoinAt
    <3>3. b[j - n] = s[n + (j - n)] /\ n + (j - n) = j
      BY <1>1, <1>3, <3>1
    <3>4. QED BY <3>1, <3>2, <3>3
  <2>3. QED BY <2>1, <2>2
<1>6. s = a \o b
  <2> HIDE DEF a, b
  <2>1. QED BY <1>4, <1>5, SeqEqual
<1>7. QED BY <1>2, <1>3, <1>6

-----------------------------------------------------------------------------
(***************************************************************************)
(* The stream                                                              *)
(***************************************************************************)
Cells == [frame : Frames, part : 1 .. HeaderCells + 1]
Replies == [frame : Frames, ok : BOOLEAN, open : 0 .. Hosts]

\* The part that the adapter has not copied, and all that was sent and is not dealt with.
Ahead == read \o wire
Stream == buffer \o Ahead

Sequences ==
  /\ wire \in Seq(Cells) /\ read \in Seq(Cells) /\ buffer \in Seq(Cells)
  /\ reply \in Seq(Replies)

\* The adapter copies until a header or a frame is complete.
BufferFits ==
  /\ expected \in {0} \cup HeaderCells + 1 .. HeaderCells + MaxPayloadCells
  /\ Len(buffer) < (IF expected = 0 THEN HeaderCells ELSE expected)

\* A process has at most one request in the stream, or what is left of it.
OneRequestEach(S) ==
  \A i, j \in DOMAIN S :
    i < j /\ S[i].frame.host = S[j].frame.host =>
      S[i].frame = S[j].frame /\ S[i].part < S[j].part

\* The stream is made of what was sent and was not handed on.
Sent(S, frames) ==
  \A j \in DOMAIN S : S[j].frame \in frames /\ S[j].part \in 1 .. FrameSize(S[j].frame)

Of(h, cells) == {j \in DOMAIN cells : cells[j].frame.host = h}

\* A process sends when its last request has left the stream and was answered.
OneAnswer ==
  /\ Of(host, Stream) # {} \/ Of(host, reply) # {} => step = "waiting"
  /\ Of(host, Stream) = {} \/ Of(host, reply) = {}
  /\ \A j, l \in Of(host, reply) : j = l

\* How many processes ago number h was in use.
Ago(now, h) == IF h <= now THEN now - h ELSE now + Hosts - h

\* Every process that left something in the stream has cost a fault: it died, or the next one
\* opened the link before the device had dealt with what was there.  A process that found
\* silence has nothing ahead but its own request.
Left(S, now, n) == \A j \in DOMAIN S : Ago(now, S[j].frame.host) <= n
FoundSilence ==
  /\ \A j \in DOMAIN Ahead : Ahead[j].frame.host = host
  /\ \A j \in DOMAIN reply : reply[j].frame.host = host
  /\ reply # <<>> => Stream = <<>>

FewLeftOvers ==
  IF step = "opening" THEN Left(Stream, host, faults)
  ELSE \/ faults >= 1 /\ Left(Stream, host, faults - 1)
       \/ Left(Stream, host, faults) /\ FoundSilence

\* A step of an install is asked for while it is not complete, and an install has a number.
OfInstall(h, cells) == {j \in Of(h, cells) : cells[j].frame.kind \in {"begin", "chunk"}}
StepsLeft == OfInstall(host, Stream) # {} \/ OfInstall(host, reply) # {} => made <= Chunks
Numbered(S) == \A j \in DOMAIN S : S[j].frame.kind = "begin" => S[j].frame.tx \in Ids

HostTyped ==
  /\ host \in Ids /\ step \in {"opening", "ready", "waiting"}
  /\ made \in 0 .. Chunks + 1 /\ blocker \in 0 .. Hosts /\ due \subseteq Frames
  /\ faults \in 0 .. MaxFaults /\ {connected, wasConnected} \subseteq BOOLEAN

OpenInstall == \A t \in transaction : t.tx \in Ids /\ t.received \in 0 .. Chunks

\* What is in the stream and who waits for it.
Traffic ==
  /\ OneRequestEach(Stream) /\ Sent(Stream, due) /\ Numbered(Stream)
  /\ OneAnswer /\ FewLeftOvers /\ StepsLeft

StreamInv == Sequences /\ BufferFits /\ HostTyped /\ OpenInstall /\ Traffic

LEMMA Joined ==
  ASSUME NEW b \in Seq(Cells), NEW r \in Seq(Cells), NEW w \in Seq(Cells)
  PROVE  /\ r \o w \in Seq(Cells) /\ b \o (r \o w) \in Seq(Cells)
         /\ PartOf(r \o w, b \o (r \o w))
BY JoinAt, PartOfEnd

LEMMA Regrouped ==
  ASSUME NEW s \in Seq(Cells), NEW t \in Seq(Cells), NEW u \in Seq(Cells)
  PROVE  (s \o t) \o u = s \o (t \o u)
BY ConcatAssociative

LEMMA LeftGrows ==
  ASSUME NEW S \in Seq(Cells), NEW now \in Ids, NEW n \in Int, NEW m \in Int, n <= m, Left(S, now, n)
  PROVE  Left(S, now, m)
<1>1. ASSUME NEW j \in DOMAIN S PROVE Ago(now, S[j].frame.host) <= m
  <2>1. S[j] \in Cells
    BY ElementOfSeq, NothingOf
  <2>2. S[j].frame.host \in 1 .. Hosts /\ now \in 1 .. Hosts /\ Hosts \in Nat
    BY <2>1, StreamAssumption DEF Cells, Frames, Ids
  <2>3. Ago(now, S[j].frame.host) \in Int
    BY <2>2 DEF Ago
  <2>4. QED BY <2>3 DEF Left
<1>2. QED BY <1>1 DEF Left

\* What is said of a stream is said of its parts.
LEMMA PartKeeps ==
  ASSUME NEW S \in Seq(Cells), NEW T \in Seq(Cells), PartOf(T, S)
  PROVE  /\ OneRequestEach(S) => OneRequestEach(T)
         /\ \A frames : Sent(S, frames) => Sent(T, frames)
         /\ Numbered(S) => Numbered(T)
         /\ \A now, n : Left(S, now, n) => Left(T, now, n)
         /\ \A h : Of(h, S) = {} => Of(h, T) = {}
         /\ \A h : OfInstall(h, S) = {} => OfInstall(h, T) = {}
         /\ S = <<>> => T = <<>>
         /\ \A j \in DOMAIN T : \E k \in DOMAIN S : T[j] = S[k]
<1>1. PICK n \in Nat : \A j \in DOMAIN T : n + j \in DOMAIN S /\ T[j] = S[n + j]
  BY DEF PartOf
<1>2. DOMAIN T \subseteq Nat
  BY NothingOf
<1>3. \A j \in DOMAIN T : \E k \in DOMAIN S : T[j] = S[k]
  BY <1>1
<1>4. ASSUME OneRequestEach(S) PROVE OneRequestEach(T)
  <2> SUFFICES ASSUME NEW i \in DOMAIN T, NEW j \in DOMAIN T, i < j, T[i].frame.host = T[j].frame.host
               PROVE  T[i].frame = T[j].frame /\ T[i].part < T[j].part
    BY DEF OneRequestEach
  <2>1. n + i < n + j
    BY <1>1, <1>2
  <2>2. QED BY <1>1, <1>4, <2>1 DEF OneRequestEach
<1>5. /\ \A frames : Sent(S, frames) => Sent(T, frames)
      /\ Numbered(S) => Numbered(T)
      /\ \A now, m : Left(S, now, m) => Left(T, now, m)
      /\ \A h : Of(h, S) = {} => Of(h, T) = {}
  BY <1>3 DEF Sent, Numbered, Left, Of
<1>6. \A h : OfInstall(h, S) = {} => OfInstall(h, T) = {}
  BY <1>3 DEF Of, OfInstall
<1>7. S = <<>> => T = <<>>
  <2>1. SUFFICES ASSUME S = <<>> PROVE T = <<>>
    OBVIOUS
  <2>2. DOMAIN S = {}
    BY <2>1, NothingOf
  <2>3. DOMAIN T = {}
    BY <1>3, <2>2
  <2>4. Len(T) \in Nat /\ DOMAIN T = 1 .. Len(T)
    BY NothingOf
  <2>5. Len(T) = 0
    BY <2>3, <2>4
  <2>6. QED BY <2>5, NothingOf
<1>8. QED BY <1>3, <1>4, <1>5, <1>6, <1>7

\* Steps of the device that hand nothing on.
LEMMA NothingHandedOn ==
  ASSUME StreamInv, Sequences', PartOf(Stream', Stream), PartOf(Ahead', Ahead),
         faults' \in {faults, faults + 1}, UNCHANGED <<host, step, made, due, reply>>
  PROVE  Traffic'
<1>1. Stream \in Seq(Cells) /\ Ahead \in Seq(Cells) /\ Stream' \in Seq(Cells) /\ Ahead' \in Seq(Cells)
  BY Joined DEF StreamInv, Sequences, Stream, Ahead
<1>2. OneRequestEach(Stream') /\ Sent(Stream', due') /\ Numbered(Stream')
  BY <1>1, PartKeeps DEF StreamInv, Traffic
<1>3. Of(host, Stream) = {} => Of(host, Stream') = {}
  BY <1>1, PartKeeps
<1>4. OneAnswer'
  BY <1>3 DEF StreamInv, Traffic, OneAnswer
<1>5. OfInstall(host, Stream) = {} => OfInstall(host, Stream') = {}
  BY <1>1, PartKeeps
<1>6. StepsLeft'
  BY <1>5 DEF StreamInv, Traffic, StepsLeft
<1>7. host' \in Ids
  BY DEF StreamInv, HostTyped
<1>8. FewLeftOvers'
  <2>1. \A n : Left(Stream, host, n) => Left(Stream', host', n)
    BY <1>1, PartKeeps
  <2>2. faults \in Nat
    BY DEF StreamInv, HostTyped
  <2>3. CASE step = "opening"
    <3>1. Left(Stream', host', faults)
      BY <2>1, <2>3 DEF StreamInv, Traffic, FewLeftOvers
    <3>2. Left(Stream', host', faults')
      BY <1>1, <1>7, <2>2, <3>1, LeftGrows
    <3>3. QED BY <2>3, <3>2 DEF FewLeftOvers
  <2>4. CASE step # "opening" /\ Left(Stream, host, faults - 1) /\ faults >= 1
    <3>1. Left(Stream', host', faults' - 1)
      BY <1>1, <1>7, <2>1, <2>2, <2>4, LeftGrows
    <3>2. QED BY <2>2, <2>4, <3>1 DEF FewLeftOvers
  <2>5. CASE step # "opening" /\ Left(Stream, host, faults) /\ FoundSilence
    <3>1. CASE faults' = faults + 1
      <4>1. Left(Stream', host', faults' - 1)
        BY <2>1, <2>2, <2>5, <3>1
      <4>2. QED BY <2>2, <2>5, <3>1, <4>1 DEF FewLeftOvers
    <3>2. CASE faults' = faults
      <4>1. FoundSilence'
        <5>1. \A j \in DOMAIN Ahead' : \E k \in DOMAIN Ahead : Ahead'[j] = Ahead[k]
          BY <1>1, PartKeeps
        <5>2. Stream = <<>> => Stream' = <<>>
          BY <1>1, PartKeeps
        <5>3. QED BY <2>5, <5>1, <5>2 DEF FoundSilence
      <4>2. Left(Stream', host', faults')
        BY <2>1, <2>5, <3>2
      <4>3. QED BY <2>5, <4>1, <4>2 DEF FewLeftOvers
    <3>3. QED BY <3>1, <3>2
  <2>6. QED BY <2>3, <2>4, <2>5 DEF StreamInv, Traffic, FewLeftOvers
<1>9. QED BY <1>2, <1>4, <1>6, <1>8 DEF Traffic

\* The next process has nothing in the stream, if what is there is of few processes before it.
LEMMA AnotherProcess ==
  ASSUME StreamInv, NumbersAreFresh, NextProcess, 
         NEW n \in Nat, n < MaxFaults \/ Stream = <<>>, Left(Stream, host, n),
         Sequences', PartOf(Stream', Stream), UNCHANGED due, faults' \in Nat,
         n + 1 <= faults' \/ Stream = <<>>
  PROVE  Traffic'
<1>1. Stream \in Seq(Cells) /\ Stream' \in Seq(Cells)
  BY Joined DEF StreamInv, Sequences, Stream, Ahead
<1>2. host \in 1 .. Hosts /\ host' \in 1 .. Hosts /\ Hosts \in Nat \ {0} /\ MaxFaults \in Nat
  BY StreamAssumption DEF StreamInv, HostTyped, NextProcess, Ids
<1>3. OneRequestEach(Stream') /\ Sent(Stream', due') /\ Numbered(Stream') /\ Left(Stream', host, n)
  BY <1>1, PartKeeps DEF StreamInv, Traffic
<1>4. ASSUME NEW j \in DOMAIN Stream'
      PROVE  /\ Ago(host', Stream'[j].frame.host) <= faults'
             /\ Stream'[j].frame.host # host'
  <2> DEFINE h == Stream'[j].frame.host
  <2>1. h \in 1 .. Hosts
    <3>1. Stream'[j] \in Cells
      BY <1>1, ElementOfSeq, NothingOf
    <3>2. QED BY <3>1 DEF Cells, Frames, Ids
  <2>2. Stream # <<>>
    <3>1. Stream' # <<>>
      <4>1. SUFFICES ASSUME Stream' = <<>> PROVE FALSE
        OBVIOUS
      <4>2. Len(Stream') = 0 /\ DOMAIN Stream' = 1 .. Len(Stream')
        BY <1>1, <4>1, NothingOf
      <4>3. QED BY <4>2
    <3>2. QED BY <1>1, <3>1, PartKeeps
  <2>3. Ago(host, h) <= n /\ n + 1 <= faults' /\ n + 1 < Hosts
    <3>1. Ago(host, h) <= n /\ n < MaxFaults /\ MaxFaults < Hosts /\ n + 1 <= faults'
      BY <1>3, <2>2 DEF Left, NumbersAreFresh
    <3>2. QED BY <1>2, <3>1
  <2>4. host' = IF host = Hosts THEN 1 ELSE host + 1
    BY DEF NextProcess
  <2> HIDE DEF h
  <2>5. Ago(host', h) = Ago(host, h) + 1 /\ h # host' /\ Ago(host, h) \in Nat
    BY <1>2, <2>1, <2>3, <2>4 DEF Ago
  <2>6. Ago(host', h) <= faults' /\ h # host'
    BY <2>3, <2>5
  <2>7. QED BY <2>6 DEF h
<1>5. Of(host', Stream') = {} /\ Left(Stream', host', faults')
  BY <1>4 DEF Of, Left
<1>6. reply' = <<>> /\ step' = "opening" /\ DOMAIN reply' = {}
  <2>1. reply' = <<>> /\ step' = "opening"
    BY DEF NextProcess
  <2>2. Len(reply') = 0 /\ DOMAIN reply' = 1 .. Len(reply')
    BY <2>1, NothingOf DEF Sequences
  <2>3. QED BY <2>1, <2>2
<1>7. Of(host', reply') = {}
  BY <1>6 DEF Of
<1>8. OneAnswer' /\ StepsLeft'
  BY <1>5, <1>7 DEF OneAnswer, StepsLeft, OfInstall
<1>9. FewLeftOvers'
  BY <1>5, <1>6 DEF FewLeftOvers
<1>10. QED BY <1>3, <1>8, <1>9 DEF Traffic

LEMMA CellsTyped ==
  ASSUME NEW f \in Frames
  PROVE  /\ CellsOf(f) \in Seq(Cells) /\ FrameSize(f) \in 2 .. 3 /\ Len(CellsOf(f)) = FrameSize(f)
         /\ DOMAIN CellsOf(f) = 1 .. FrameSize(f)
         /\ \A j \in 1 .. FrameSize(f) : CellsOf(f)[j].frame = f /\ CellsOf(f)[j].part = j
<1>1. FrameSize(f) \in 2 .. 3
  BY DEF FrameSize, HeaderCells
<1>2. CellsOf(f) \in [1 .. FrameSize(f) -> Cells]
  BY <1>1 DEF CellsOf, Cells, HeaderCells
<1>3. CellsOf(f) \in Seq(Cells)
  BY <1>1, <1>2, IsASeq
<1>4. QED BY <1>1, <1>2, <1>3, LenProperties DEF CellsOf

\* A process that has nothing in the stream puts a request behind it.
LEMMA OneMoreRequest ==
  ASSUME StreamInv, step = "ready", NEW f \in Frames, f.host = host,
         f.kind = "begin" => f.tx \in Ids, f.kind \in {"begin", "chunk"} => made <= Chunks,
         step' = "waiting", due' = due \cup {f}, wire' = wire \o CellsOf(f),
         faults' \in {faults, faults + 1}, UNCHANGED <<host, made, read, buffer, reply>>
  PROVE  Traffic' /\ wire' \in Seq(Cells)
<1> DEFINE C == CellsOf(f)
<1>1. C \in Seq(Cells) /\ FrameSize(f) \in 2 .. 3 /\ Len(C) = FrameSize(f)
      /\ \A j \in 1 .. Len(C) : C[j].frame = f /\ C[j].part = j
  BY CellsTyped
<1> HIDE DEF C
<1>2. /\ wire \in Seq(Cells) /\ read \in Seq(Cells) /\ buffer \in Seq(Cells)
      /\ Ahead \in Seq(Cells) /\ Stream \in Seq(Cells)
  BY Joined DEF StreamInv, Sequences, Stream, Ahead
<1>3. wire' \in Seq(Cells)
  BY <1>1, <1>2, JoinAt DEF C
<1>4. Ahead' = Ahead \o C
  <2>1. (read \o wire) \o C = read \o (wire \o C)
    <3>1. read \in Seq(Cells) /\ wire \in Seq(Cells) /\ C \in Seq(Cells)
      BY <1>1, <1>2
    <3>2. QED BY <3>1, Regrouped, Zenon
  <2>2. wire' = wire \o C /\ read' = read
    BY DEF C
  <2>3. QED BY <2>1, <2>2, Zenon DEF Ahead
<1>5. Stream' = Stream \o C
  <2>1. (buffer \o Ahead) \o C = buffer \o (Ahead \o C)
    <3>1. buffer \in Seq(Cells) /\ Ahead \in Seq(Cells) /\ C \in Seq(Cells)
      BY <1>1, <1>2
    <3>2. QED BY <3>1, Regrouped, Zenon
  <2>2. buffer' = buffer
    OBVIOUS
  <2>3. QED BY <1>4, <2>1, <2>2, Zenon DEF Stream
<1>6. /\ Stream' \in Seq(Cells) /\ Len(Stream') = Len(Stream) + Len(C)
      /\ \A j \in 1 .. Len(Stream) : Stream'[j] = Stream[j]
      /\ \A j \in 1 .. Len(C) : Stream'[Len(Stream) + j] = C[j]
  BY <1>1, <1>2, <1>5, JoinAt
<1>7. /\ DOMAIN Stream = 1 .. Len(Stream) /\ DOMAIN Stream' = 1 .. Len(Stream')
      /\ Len(Stream) \in Nat /\ Len(C) \in Nat
  BY <1>1, <1>2, <1>6, NothingOf
<1>8. \A j \in DOMAIN Stream' :
        \/ j \in DOMAIN Stream /\ Stream'[j] = Stream[j]
        \/ /\ j > Len(Stream) /\ j - Len(Stream) \in 1 .. FrameSize(f)
           /\ Stream'[j].frame = f /\ Stream'[j].part = j - Len(Stream)
  <2> SUFFICES ASSUME NEW j \in DOMAIN Stream', j \notin DOMAIN Stream
               PROVE  /\ j > Len(Stream) /\ j - Len(Stream) \in 1 .. FrameSize(f)
                      /\ Stream'[j].frame = f /\ Stream'[j].part = j - Len(Stream)
    BY <1>6, <1>7
  <2>1. j > Len(Stream) /\ j - Len(Stream) \in 1 .. Len(C) /\ j = Len(Stream) + (j - Len(Stream))
    BY <1>6, <1>7
  <2>2. Stream'[j] = C[j - Len(Stream)]
    BY <1>6, <2>1
  <2>3. QED BY <1>1, <2>1, <2>2
<1>9. Of(host, Stream) = {} /\ Of(host, reply) = {}
  BY DEF StreamInv, Traffic, OneAnswer
<1>10. OneRequestEach(Stream')
  <2> SUFFICES ASSUME NEW i \in DOMAIN Stream', NEW j \in DOMAIN Stream', i < j,
                      Stream'[i].frame.host = Stream'[j].frame.host
               PROVE  Stream'[i].frame = Stream'[j].frame /\ Stream'[i].part < Stream'[j].part
    BY DEF OneRequestEach
  <2>1. CASE i \in DOMAIN Stream /\ j \in DOMAIN Stream
    BY <1>6, <1>7, <2>1 DEF StreamInv, Traffic, OneRequestEach
  <2>2. CASE i \in DOMAIN Stream /\ j \notin DOMAIN Stream
    <3>1. Stream[i].frame.host = host
      BY <1>6, <1>7, <1>8, <2>2
    <3>2. QED BY <1>9, <2>2, <3>1 DEF Of
  <2>3. CASE i \notin DOMAIN Stream
    <3>1. j \notin DOMAIN Stream
      BY <1>7, <2>3
    <3>2. /\ Stream'[i].frame = f /\ Stream'[i].part = i - Len(Stream)
          /\ Stream'[j].frame = f /\ Stream'[j].part = j - Len(Stream)
      BY <1>8, <2>3, <3>1
    <3>3. i - Len(Stream) < j - Len(Stream)
      BY <1>7
    <3>4. QED BY <3>2, <3>3
  <2>4. QED BY <2>1, <2>2, <2>3
<1>11. Sent(Stream', due') /\ Numbered(Stream')
  <2>1. Sent(Stream', due')
    BY <1>8 DEF StreamInv, Traffic, Sent
  <2>2. Numbered(Stream')
    BY <1>8 DEF StreamInv, Traffic, Numbered
  <2>3. QED BY <2>1, <2>2
<1>12. OneAnswer' /\ StepsLeft'
  <2>1. OneAnswer'
    BY <1>9 DEF OneAnswer
  <2>2. \A j \in OfInstall(host, Stream') : f.kind \in {"begin", "chunk"}
    BY <1>8, <1>9 DEF OfInstall, Of
  <2>3. OfInstall(host, reply) = {}
    BY <1>9 DEF OfInstall
  <2>4. QED BY <2>1, <2>2, <2>3 DEF StepsLeft
<1>13. FewLeftOvers'
  <2>1. host \in 1 .. Hosts /\ Hosts \in Nat /\ faults \in Nat
    BY StreamAssumption DEF StreamInv, HostTyped, Ids
  <2>2. ASSUME NEW n \in Nat, Left(Stream, host, n) PROVE Left(Stream', host', n)
    <3>1. Ago(host, host) = 0
      BY <2>1 DEF Ago
    <3>2. QED BY <1>8, <2>2, <3>1 DEF Left
  <2>3. CASE faults >= 1 /\ Left(Stream, host, faults - 1)
    <3>1. Left(Stream', host', faults' - 1) /\ faults' >= 1
      <4>1. faults - 1 \in Nat /\ faults' - 1 \in Nat /\ faults - 1 <= faults' - 1 /\ faults' >= 1
        <5>1. faults >= 1 /\ faults \in Nat
          BY <2>1, <2>3
        <5>2. CASE faults' = faults
          BY <5>1, <5>2
        <5>3. CASE faults' = faults + 1
          BY <5>1, <5>3
        <5>4. QED BY <5>2, <5>3
      <4>2. Left(Stream', host', faults - 1)
        BY <2>2, <2>3, <4>1
      <4>3. QED BY <1>6, <2>1, <4>1, <4>2, LeftGrows DEF Ids
    <3>2. QED BY <3>1 DEF FewLeftOvers
  <2>4. CASE Left(Stream, host, faults) /\ FoundSilence /\ faults' = faults + 1
    <3>1. Left(Stream', host', faults)
      BY <2>1, <2>2, <2>4
    <3>2. faults' >= 1 /\ faults' - 1 = faults
      BY <2>1, <2>4
    <3>3. QED BY <3>1, <3>2 DEF FewLeftOvers
  <2>5. CASE Left(Stream, host, faults) /\ FoundSilence /\ faults' = faults
    <3>1. Left(Stream', host', faults')
      BY <2>1, <2>2, <2>5
    <3>2. \A j \in DOMAIN Ahead' : Ahead'[j].frame.host = host
      <4> SUFFICES ASSUME NEW j \in DOMAIN Ahead' PROVE Ahead'[j].frame.host = host
        OBVIOUS
      <4>1. /\ Len(Ahead') = Len(Ahead) + Len(C) /\ DOMAIN Ahead' = 1 .. Len(Ahead')
            /\ Len(Ahead) \in Nat /\ DOMAIN Ahead = 1 .. Len(Ahead)
        BY <1>1, <1>2, <1>4, JoinAt, NothingOf
      <4>2. CASE j \in DOMAIN Ahead
        <5>1. Ahead'[j] = Ahead[j]
          BY <1>1, <1>2, <1>4, <4>1, <4>2, JoinAt
        <5>2. QED BY <2>5, <4>2, <5>1 DEF FoundSilence
      <4>3. CASE j \notin DOMAIN Ahead
        <5>1. j - Len(Ahead) \in 1 .. Len(C) /\ j = Len(Ahead) + (j - Len(Ahead))
          BY <1>7, <4>1, <4>3
        <5>2. Ahead'[Len(Ahead) + (j - Len(Ahead))] = C[j - Len(Ahead)]
          BY <1>1, <1>2, <1>4, <5>1, JoinAt
        <5>3. QED BY <1>1, <5>1, <5>2
      <4>4. QED BY <4>2, <4>3
    <3>3. reply = <<>>
      <4>1. DOMAIN reply = {}
        BY <1>9, <2>5 DEF FoundSilence, Of
      <4>2. Len(reply) \in Nat /\ DOMAIN reply = 1 .. Len(reply)
        BY NothingOf DEF StreamInv, Sequences
      <4>3. Len(reply) = 0
        BY <4>1, <4>2
      <4>4. QED BY <4>3, NothingOf DEF StreamInv, Sequences
    <3>4. \A j \in DOMAIN reply : reply[j].frame.host = host
      BY <2>5 DEF FoundSilence
    <3>5. FoundSilence'
      BY <3>2, <3>3, <3>4 DEF FoundSilence
    <3>6. QED BY <3>1, <3>5 DEF FewLeftOvers
  <2>6. QED BY <2>3, <2>4, <2>5 DEF StreamInv, Traffic, FewLeftOvers
<1>14. QED BY <1>3, <1>10, <1>11, <1>12, <1>13 DEF Traffic

\* A frame that was put together is one that was sent, and takes all of its process along.
LEMMA WholeRequest ==
  ASSUME StreamInv, NEW f \in Frames, NEW rest \in Seq(Cells), Stream = CellsOf(f) \o rest
  PROVE  /\ f \in due /\ 1 \in DOMAIN Stream /\ Stream[1].frame = f
         /\ \A j \in DOMAIN rest : rest[j].frame.host # f.host
<1> DEFINE C == CellsOf(f)
           n == FrameSize(f)
<1>1. /\ C \in Seq(Cells) /\ n \in 2 .. 3 /\ Len(C) = n
      /\ \A j \in 1 .. n : C[j].frame = f /\ C[j].part = j
  BY CellsTyped
<1>2. /\ Stream \in Seq(Cells) /\ Len(Stream) = n + Len(rest) /\ Len(rest) \in Nat
      /\ DOMAIN Stream = 1 .. Len(Stream) /\ DOMAIN rest = 1 .. Len(rest)
      /\ \A j \in 1 .. n : Stream[j] = C[j]
      /\ \A j \in 1 .. Len(rest) : Stream[n + j] = rest[j]
  <2> HIDE DEF C
  <2>1. Stream = C \o rest
    BY DEF C
  <2>2. QED BY <1>1, <2>1, JoinAt, NothingOf
<1> HIDE DEF C, n
<1>3. /\ 1 \in DOMAIN Stream /\ Stream[1].frame = f
      /\ n \in DOMAIN Stream /\ Stream[n].frame = f /\ Stream[n].part = n
  BY <1>1, <1>2
<1>4. f \in due
  BY <1>3 DEF StreamInv, Traffic, Sent
<1>5. ASSUME NEW j \in DOMAIN rest, rest[j].frame.host = f.host PROVE FALSE
  <2>1. n + j \in DOMAIN Stream /\ n < n + j /\ Stream[n + j] = rest[j] /\ n + j \in Nat
    BY <1>1, <1>2
  <2>2. rest[j].frame = f /\ n < rest[j].part
    <3>1. OneRequestEach(Stream)
      BY DEF StreamInv, Traffic
    <3>2. Stream[n].frame.host = Stream[n + j].frame.host
      BY <1>3, <1>5, <2>1
    <3>3. Stream[n].frame = Stream[n + j].frame /\ Stream[n].part < Stream[n + j].part
      BY <1>3, <2>1, <3>1, <3>2 DEF OneRequestEach
    <3>4. QED BY <1>3, <2>1, <3>3
  <2>3. rest[j].part \in 1 .. n
    BY <2>1, <2>2 DEF StreamInv, Traffic, Sent, n
  <2>4. QED BY <1>1, <2>2, <2>3
<1>6. QED BY <1>3, <1>4, <1>5

\* What is said of a request handed on and of its answer.
LEMMA Answered ==
  ASSUME StreamInv, NEW f \in Frames, f.kind = "begin" => f.tx \in Ids, OnJfdpFrame(f)
  PROVE  /\ OpenInstall' /\ due' = due \ {f} /\ faults' \in 0 .. MaxFaults /\ faults' \in {faults, faults + 1}
         /\ reply' \in Seq(Replies)
         /\ \/ reply' = reply
            \/ /\ Len(reply') = Len(reply) + 1 /\ reply'[Len(reply) + 1].frame = f
               /\ \A j \in 1 .. Len(reply) : reply'[j] = reply[j]
<1>1. OpenInstall'
  <2> SUFFICES ASSUME NEW t \in transaction' PROVE t.tx \in Ids /\ t.received \in 0 .. Chunks
    BY DEF OpenInstall
  <2>1. transaction' = TransactionAfter(f) /\ OpenInstall
    BY DEF OnJfdpFrame, StreamInv
  <2>2. CASE t \in transaction
    BY <2>1, <2>2 DEF OpenInstall
  <2>3. CASE f.kind = "begin" /\ t = [tx |-> f.tx, received |-> 0]
    BY <2>3, StreamAssumption
  <2>4. CASE f.kind = "chunk" /\ Continues(f) # {} /\ t = [tx |-> f.tx, received |-> f.k]
    <3>1. f.tx \in Ids
      BY <2>1, <2>4 DEF Continues, OpenInstall
    <3>2. f.k \in 0 .. Chunks
      BY DEF Frames
    <3>3. QED BY <2>4, <3>1, <3>2
  <2>5. t \in transaction \/ (f.kind = "begin" /\ t = [tx |-> f.tx, received |-> 0])
        \/ (f.kind = "chunk" /\ Continues(f) # {} /\ t = [tx |-> f.tx, received |-> f.k])
    BY <2>1 DEF TransactionAfter
  <2>6. QED BY <2>2, <2>3, <2>4, <2>5
<1>2. Answer(f) \in Replies
  <2>1. Succeeds(f) \in BOOLEAN
    BY DEF Succeeds
  <2>2. (IF transaction = {} THEN 0 ELSE (CHOOSE t \in transaction : TRUE).tx) \in 0 .. Hosts
    <3>1. CASE transaction = {}
      BY <3>1, StreamAssumption
    <3>2. CASE transaction # {}
      <4>1. (CHOOSE t \in transaction : TRUE) \in transaction
        BY <3>2
      <4>2. (CHOOSE t \in transaction : TRUE).tx \in 1 .. Hosts
        BY <4>1 DEF StreamInv, OpenInstall, Ids
      <4>3. QED BY <3>2, <4>2, StreamAssumption
    <3>3. QED BY <3>1, <3>2
  <2>3. QED BY <2>1, <2>2 DEF Answer, Replies
<1>3. reply \in Seq(Replies) /\ faults \in 0 .. MaxFaults
  BY DEF StreamInv, Sequences, HostTyped
<1>4. due' = due \ {f}
  BY DEF OnJfdpFrame
<1>5. CASE UNCHANGED <<reply, faults>> \/ (UNCHANGED reply /\ Fault)
  BY <1>1, <1>3, <1>4, <1>5, StreamAssumption DEF Fault
<1>6. CASE reply' = Append(reply, Answer(f)) /\ UNCHANGED faults
  <2>1. /\ reply' \in Seq(Replies) /\ Len(reply') = Len(reply) + 1 /\ reply'[Len(reply) + 1] = Answer(f)
        /\ \A j \in 1 .. Len(reply) : reply'[j] = reply[j]
    BY <1>2, <1>3, <1>6, AppendProperties
  <2>2. Answer(f).frame = f
    BY DEF Answer
  <2>3. QED BY <1>1, <1>3, <1>4, <1>6, <2>1, <2>2
<1>7. QED BY <1>5, <1>6 DEF OnJfdpFrame

LEMMA HandsOn ==
  ASSUME StreamInv, NEW f \in Frames, NEW rest \in Seq(Cells), Stream = CellsOf(f) \o rest,
         Stream' = rest, Ahead' = rest, PartOf(rest, Ahead), \E k \in DOMAIN Ahead : Ahead[k].frame = f,
         OnJfdpFrame(f), UNCHANGED <<host, step, made>>
  PROVE  Traffic'
<1>1. Stream \in Seq(Cells) /\ Ahead \in Seq(Cells)
  BY Joined DEF StreamInv, Sequences, Stream, Ahead
<1>2. PartOf(rest, Stream)
  BY CellsTyped, PartOfEnd
<1>3. /\ f \in due /\ 1 \in DOMAIN Stream /\ Stream[1].frame = f
      /\ \A j \in DOMAIN rest : rest[j].frame.host # f.host
  BY WholeRequest
<1>4. f.kind = "begin" => f.tx \in Ids
  BY <1>3 DEF StreamInv, Traffic, Numbered
<1>5. /\ due' = due \ {f} /\ faults' \in {faults, faults + 1} /\ reply' \in Seq(Replies)
      /\ \/ reply' = reply
         \/ /\ Len(reply') = Len(reply) + 1 /\ reply'[Len(reply) + 1].frame = f
            /\ \A j \in 1 .. Len(reply) : reply'[j] = reply[j]
  BY <1>4, Answered
<1>6. /\ Len(reply) \in Nat /\ DOMAIN reply = 1 .. Len(reply) /\ DOMAIN reply' = 1 .. Len(reply')
      /\ (reply = <<>> <=> Len(reply) = 0)
  BY <1>5, NothingOf DEF StreamInv, Sequences
<1>7. \A j \in DOMAIN reply' : (j \in DOMAIN reply /\ reply'[j] = reply[j]) \/ reply'[j].frame = f
  <2> SUFFICES ASSUME NEW j \in DOMAIN reply', j \notin DOMAIN reply PROVE reply'[j].frame = f
    BY <1>5, <1>6
  <2>1. Len(reply') = Len(reply) + 1 /\ reply'[Len(reply) + 1].frame = f
    BY <1>5, <1>6
  <2>2. j = Len(reply) + 1
    BY <1>6, <2>1
  <2>3. QED BY <2>1, <2>2
<1>8. Stream' = rest
  OBVIOUS
<1>9. OneRequestEach(Stream') /\ Sent(Stream', due) /\ Numbered(Stream')
  BY <1>1, <1>2, PartKeeps DEF StreamInv, Traffic
<1>10. Sent(Stream', due')
  <2>1. \A j \in DOMAIN Stream' : Stream'[j].frame # f
    BY <1>3
  <2>2. QED BY <1>5, <1>9, <2>1 DEF Sent
<1>11. Of(host, Stream) = {} => Of(host, Stream') = {} /\ f.host # host
  <2>1. Of(host, Stream) = {} => Of(host, rest) = {}
    BY <1>1, <1>2, PartKeeps
  <2>2. Of(host, Stream) = {} => f.host # host
    BY <1>3 DEF Of
  <2>3. QED BY <2>1, <2>2
<1>12. f.host = host => Of(host, Stream') = {}
  BY <1>3 DEF Of
<1>13. f.host # host =>
         Of(host, reply') \subseteq Of(host, reply) /\ \A j \in Of(host, reply') : reply'[j] = reply[j]
  BY <1>7 DEF Of
<1>14. OneAnswer'
  <2>1. CASE f.host = host
    <3>1. Of(host, Stream) # {}
      BY <1>3, <2>1 DEF Of
    <3>2. Of(host, reply) = {} /\ step = "waiting"
      BY <3>1 DEF StreamInv, Traffic, OneAnswer
    <3>3. \A j \in Of(host, reply') : j = Len(reply) + 1
      <4> SUFFICES ASSUME NEW j \in Of(host, reply') PROVE j = Len(reply) + 1
        OBVIOUS
      <4>1. j \in DOMAIN reply' /\ reply'[j].frame.host = host
        BY DEF Of
      <4>2. j \notin DOMAIN reply \/ reply'[j] # reply[j]
        BY <3>2, <4>1 DEF Of
      <4>3. reply' # reply
        BY <4>1, <4>2
      <4>4. Len(reply') = Len(reply) + 1 /\ \A i \in 1 .. Len(reply) : reply'[i] = reply[i]
        BY <1>5, <4>3
      <4>5. j \notin 1 .. Len(reply)
        BY <1>6, <4>2, <4>4
      <4>6. j \in 1 .. Len(reply) + 1
        BY <1>6, <4>1, <4>4
      <4>7. QED BY <1>6, <4>5, <4>6
    <3>4. QED BY <1>12, <2>1, <3>2, <3>3 DEF OneAnswer
  <2>2. CASE f.host # host
    BY <1>11, <1>13, <2>2 DEF StreamInv, Traffic, OneAnswer
  <2>3. QED BY <2>1, <2>2
<1>15. StepsLeft'
  <2>1. OfInstall(host, Stream') # {} => made <= Chunks
    <3>1. OfInstall(host, Stream) = {} => OfInstall(host, rest) = {}
      BY <1>1, <1>2, PartKeeps
    <3>2. QED BY <3>1 DEF StreamInv, Traffic, StepsLeft
  <2>2. ASSUME NEW j \in OfInstall(host, reply') PROVE made <= Chunks
    <3>1. CASE j \in DOMAIN reply /\ reply'[j] = reply[j]
      BY <2>2, <3>1 DEF StreamInv, Traffic, StepsLeft, OfInstall, Of
    <3>2. CASE reply'[j].frame = f
      <4>1. 1 \in OfInstall(host, Stream)
        BY <1>3, <2>2, <3>2 DEF OfInstall, Of
      <4>2. QED BY <4>1 DEF StreamInv, Traffic, StepsLeft
    <3>3. QED BY <1>7, <2>2, <3>1, <3>2 DEF OfInstall, Of
  <2>3. QED BY <2>1, <2>2 DEF StepsLeft
<1>16. FewLeftOvers'
  <2>1. host \in Ids /\ faults \in Nat /\ host' = host /\ step' = step
    BY DEF StreamInv, HostTyped
  <2>2. \A n : Left(Stream, host, n) => Left(Stream', host', n)
    <3>1. \A n : Left(Stream, host, n) => Left(rest, host, n)
      BY <1>1, <1>2, PartKeeps
    <3>2. QED BY <2>1, <3>1
  <2>3. CASE step = "opening"
    <3>1. Left(Stream', host', faults)
      BY <2>2, <2>3 DEF StreamInv, Traffic, FewLeftOvers
    <3>2. Left(Stream', host', faults')
      <4>1. faults' \in Nat /\ faults <= faults'
        BY <1>5, <2>1
      <4>2. QED BY <2>1, <3>1, <4>1, LeftGrows
    <3>3. QED BY <2>1, <2>3, <3>2 DEF FewLeftOvers
  <2>4. CASE step # "opening" /\ Left(Stream, host, faults - 1) /\ faults >= 1
    <3>1. faults' >= 1 /\ faults - 1 \in Int /\ faults' - 1 \in Int /\ faults - 1 <= faults' - 1
      <4>1. faults >= 1
        BY <2>4
      <4>2. QED BY <1>5, <2>1, <4>1
    <3>2. Left(Stream', host', faults' - 1)
      <4>1. Left(Stream', host', faults - 1)
        BY <2>2, <2>4
      <4>2. QED BY <2>1, <3>1, <4>1, LeftGrows
    <3>3. QED BY <2>1, <2>4, <3>1, <3>2 DEF FewLeftOvers
  <2>5. CASE step # "opening" /\ Left(Stream, host, faults) /\ FoundSilence
    <3>1. CASE faults' = faults + 1
      <4>1. Left(Stream', host', faults' - 1) /\ faults' >= 1
        BY <2>1, <2>2, <2>5, <3>1
      <4>2. QED BY <2>1, <2>5, <4>1 DEF FewLeftOvers
    <3>2. CASE faults' = faults
      <4>1. f.host = host
        BY <2>5 DEF FoundSilence
      <4>2. rest = <<>>
        <5>1. \A j \in DOMAIN rest : rest[j].frame.host = host
          <6>1. \A j \in DOMAIN rest : \E k \in DOMAIN Ahead : rest[j] = Ahead[k]
            BY <1>1, PartKeeps
          <6>2. QED BY <2>5, <6>1 DEF FoundSilence
        <5>2. DOMAIN rest = {}
          BY <1>3, <4>1, <5>1
        <5>3. Len(rest) \in Nat /\ DOMAIN rest = 1 .. Len(rest)
          BY NothingOf
        <5>4. Len(rest) = 0
          BY <5>2, <5>3
        <5>5. QED BY <5>4, NothingOf
      <4>3. \A j \in DOMAIN reply' : reply'[j].frame.host = host
        BY <1>7, <2>5, <4>1 DEF FoundSilence
      <4>4. \A j \in DOMAIN Ahead' : Ahead'[j].frame.host = host
        <5>1. \A j \in DOMAIN rest : rest[j].frame.host = host
          <6>1. DOMAIN rest = 1 .. Len(rest) /\ Len(rest) = 0
            BY <4>2, NothingOf
          <6>2. QED BY <6>1
        <5>2. QED BY <5>1
      <4>5. FoundSilence'
        BY <2>1, <4>2, <4>3, <4>4 DEF FoundSilence
      <4>6. Left(Stream', host', faults')
        BY <2>2, <2>5, <3>2
      <4>7. QED BY <2>1, <2>5, <4>5, <4>6 DEF FewLeftOvers
    <3>3. QED BY <1>5, <3>1, <3>2
  <2>6. QED BY <2>3, <2>4, <2>5 DEF StreamInv, Traffic, FewLeftOvers
<1>17. QED BY <1>9, <1>10, <1>14, <1>15, <1>16 DEF Traffic

-----------------------------------------------------------------------------
(***************************************************************************)
(* The adapter                                                             *)
(***************************************************************************)
\* The cells that a round of feed has together, and what follows them.
LEMMA FeedCuts ==
  ASSUME StreamInv, read # <<>>, NEW copied, copied = IF Len(read) < Target THEN Len(read) ELSE Target
  PROVE  LET r1 == SubSeq(read, 1, copied)
             r2 == SubSeq(read, copied + 1, Len(read))
             cells == buffer \o r1
         IN /\ r1 \in Seq(Cells) /\ r2 \in Seq(Cells) /\ cells \in Seq(Cells)
            /\ copied \in 1 .. Target /\ Len(r1) = copied
            /\ Len(cells) = Len(buffer) + copied
            /\ Len(buffer) + Target = IF expected = 0 THEN HeaderCells ELSE expected
            /\ r2 \o wire \in Seq(Cells)
            /\ Stream = cells \o (r2 \o wire) /\ Ahead = r1 \o (r2 \o wire)
            /\ \E k \in DOMAIN Ahead : \E l \in DOMAIN cells : Ahead[k] = cells[l]
<1> DEFINE r1 == SubSeq(read, 1, copied)
           r2 == SubSeq(read, copied + 1, Len(read))
           cells == buffer \o r1
<1>1. wire \in Seq(Cells) /\ read \in Seq(Cells) /\ buffer \in Seq(Cells)
  BY DEF StreamInv, Sequences
<1>2. Len(read) \in Nat \ {0} /\ Len(buffer) \in Nat
  BY <1>1, NothingOf
<1>3. Target \in Nat \ {0} /\ Len(buffer) + Target = IF expected = 0 THEN HeaderCells ELSE expected
  <2>1. MaxPayloadCells \in Nat /\ BufferFits
    BY StreamAssumption DEF StreamInv
  <2>2. CASE expected = 0
    <3>1. Len(buffer) < 2 /\ Target = 2 - Len(buffer) /\ HeaderCells = 2
      BY <2>1, <2>2 DEF BufferFits, Target, HeaderCells
    <3>2. QED BY <1>2, <2>2, <3>1
  <2>3. CASE expected # 0
    <3>1. expected \in Nat /\ Len(buffer) < expected
      BY <2>1, <2>3 DEF BufferFits, HeaderCells
    <3>2. Target = expected - Len(buffer)
      BY <2>3 DEF Target
    <3>3. QED BY <1>2, <2>3, <3>1, <3>2
  <2>4. QED BY <2>2, <2>3
<1>4. copied \in 1 .. Target /\ copied \in 0 .. Len(read) /\ copied \in 1 .. Len(read)
  BY <1>2, <1>3
<1>5. r1 \in Seq(Cells) /\ r2 \in Seq(Cells) /\ Len(r1) = copied /\ read = r1 \o r2
  BY <1>1, <1>4, CutInTwo
<1> HIDE DEF r1, r2
<1>6. cells \in Seq(Cells) /\ Len(cells) = Len(buffer) + copied /\ r2 \o wire \in Seq(Cells)
  BY <1>1, <1>5, JoinAt
<1>7. Ahead = r1 \o (r2 \o wire)
  <2>1. (r1 \o r2) \o wire = r1 \o (r2 \o wire)
    BY <1>1, <1>5, Regrouped
  <2>2. QED BY <1>5, <2>1, Zenon DEF Ahead
<1>8. Stream = cells \o (r2 \o wire)
  <2>1. (buffer \o r1) \o (r2 \o wire) = buffer \o (r1 \o (r2 \o wire))
    <3>1. buffer \in Seq(Cells) /\ r1 \in Seq(Cells) /\ r2 \o wire \in Seq(Cells)
      BY <1>1, <1>5, <1>6
    <3>2. QED BY <3>1, Regrouped, Zenon
  <2>2. QED BY <1>7, <2>1, Zenon DEF Stream
<1>9. \E k \in DOMAIN Ahead : \E l \in DOMAIN cells : Ahead[k] = cells[l]
  <2>1. 1 \in 1 .. Len(r1) /\ Len(buffer) + 1 \in DOMAIN cells
    BY <1>2, <1>4, <1>5, <1>6, NothingOf
  <2>2. cells[Len(buffer) + 1] = r1[1]
    BY <1>1, <1>5, <2>1, JoinAt
  <2>3. Ahead[1] = r1[1] /\ 1 \in DOMAIN Ahead
    <3> DEFINE rest == r2 \o wire
    <3>1. rest \in Seq(Cells) /\ Ahead = r1 \o rest
      BY <1>6, <1>7
    <3> HIDE DEF rest, cells
    <3>2. Ahead \in Seq(Cells) /\ Len(Ahead) = Len(r1) + Len(rest) /\ Ahead[1] = r1[1]
      BY <1>5, <2>1, <3>1, JoinAt
    <3>3. Len(rest) \in Nat /\ DOMAIN Ahead = 1 .. Len(Ahead)
      BY <3>1, <3>2, NothingOf
    <3>4. QED BY <1>4, <1>5, <3>2, <3>3
  <2>4. QED BY <2>1, <2>2, <2>3
<1>10. QED BY <1>3, <1>4, <1>5, <1>6, <1>7, <1>8, <1>9 DEF r1, r2

\* Bytes are kept or thrown away.
LEMMA KeepsOrAbandons ==
  ASSUME StreamInv, NEW cells \in Seq(Cells), NEW r1 \in Seq(Cells), NEW r2 \in Seq(Cells),
         r2 \o wire \in Seq(Cells),
         Stream = cells \o (r2 \o wire), Ahead = r1 \o (r2 \o wire),
         read' = r2, wire' = wire, buffer' \in {cells, <<>>},
         faults' \in {faults, faults + 1}, UNCHANGED <<host, step, made, due, reply>>
  PROVE  Sequences' /\ Traffic'
<1>1. Sequences'
  <2>1. buffer' \in Seq(Cells)
    BY EmptySeq
  <2>2. QED BY <2>1 DEF StreamInv, Sequences
<1>2. Ahead' = r2 \o wire
  BY DEF Ahead
<1>3. PartOf(Ahead', Ahead)
  BY <1>2, PartOfEnd
<1>4. PartOf(Stream', Stream)
  <2>1. CASE buffer' = cells
    <3>1. Stream' = cells \o (r2 \o wire)
      BY <1>2, <2>1, Zenon DEF Stream
    <3>2. Stream' = Stream /\ Stream \in Seq(Cells)
      BY <3>1, Joined DEF StreamInv, Sequences, Stream, Ahead
    <3>3. QED BY <3>2, PartIsItself
  <2>2. CASE buffer' = <<>>
    <3>1. Stream' = <<>> \o (r2 \o wire)
      BY <1>2, <2>2, Zenon DEF Stream
    <3>2. <<>> \o (r2 \o wire) = r2 \o wire
      BY ConcatEmptySeq
    <3>3. PartOf(r2 \o wire, cells \o (r2 \o wire))
      BY PartOfEnd
    <3>4. QED BY <3>1, <3>2, <3>3
  <2>3. QED BY <2>1, <2>2
<1>5. QED BY <1>1, <1>3, <1>4, NothingHandedOn

\* What a complete header says of the length.
LEMMA DeclaredIsBounded ==
  ASSUME NEW cells, cells[1] \in Cells, NEW length \in DeclaredLengths(cells)
  PROVE  length \in 0 .. MaxPayloadCells \cup {TooLong}
<1> DEFINE f == cells[1].frame
<1>1. FrameSize(f) - HeaderCells \in 0 .. 1
  BY DEF FrameSize, HeaderCells
<1>2. MaxPayloadCells \in Nat \ {0}
  BY StreamAssumption
<1>3. CASE cells # SubSeq(CellsOf(f), 1, HeaderCells)
  <2>1. length \in 0 .. TooLong
    BY <1>3 DEF DeclaredLengths
  <2>2. QED BY <1>2, <2>1 DEF TooLong
<1>4. CASE cells = SubSeq(CellsOf(f), 1, HeaderCells)
  <2>1. length = TooLong \/ length = FrameSize(f) - HeaderCells
    BY <1>4 DEF DeclaredLengths
  <2>2. QED BY <1>1, <1>2, <2>1
<1>5. QED BY <1>3, <1>4

LEMMA FeedKeeps == ASSUME StreamInv, Feed PROVE StreamInv'
<1> DEFINE copied == IF Len(read) < Target THEN Len(read) ELSE Target
           r1 == SubSeq(read, 1, copied)
           r2 == SubSeq(read, copied + 1, Len(read))
           cells == buffer \o r1
<1>1. /\ read # <<>> /\ read' = r2
      /\ CASE expected = 0 /\ Len(cells) = HeaderCells -> HeaderComplete(cells)
           [] expected # 0 /\ Len(cells) = expected -> CompleteFrame(cells)
           [] OTHER -> buffer' = cells /\ UNCHANGED <<expected, due, reply, faults, transaction>>
      /\ UNCHANGED <<host, step, made, blocker, connected, wire, wasConnected>>
  BY DEF Feed
<1>2. /\ r1 \in Seq(Cells) /\ r2 \in Seq(Cells) /\ cells \in Seq(Cells)
      /\ copied \in 1 .. Target /\ Len(r1) = copied
      /\ Len(cells) = Len(buffer) + copied
      /\ Len(buffer) + Target = IF expected = 0 THEN HeaderCells ELSE expected
      /\ r2 \o wire \in Seq(Cells)
      /\ Stream = cells \o (r2 \o wire) /\ Ahead = r1 \o (r2 \o wire)
      /\ \E k \in DOMAIN Ahead : \E l \in DOMAIN cells : Ahead[k] = cells[l]
  BY <1>1, FeedCuts
<1> HIDE DEF copied, r1, r2, cells
<1>3. Len(buffer) \in Nat /\ expected \in {0} \cup HeaderCells + 1 .. HeaderCells + MaxPayloadCells
  BY NothingOf DEF StreamInv, Sequences, BufferFits
<1>4. 1 \in DOMAIN cells /\ cells[1] \in Cells
  <2>1. 1 \in 1 .. Len(cells)
    BY <1>2, <1>3
  <2>2. QED BY <1>2, <2>1, NothingOf, ElementOfSeq
<1>5. ASSUME Abandon PROVE StreamInv'
  <2>1. /\ buffer' = <<>> /\ expected' = 0 /\ transaction' = {} /\ UNCHANGED <<due, reply, faults>>
    BY <1>5 DEF Abandon, Reset, Cleared
  <2>2. Sequences' /\ Traffic'
    BY <1>1, <1>2, <2>1, KeepsOrAbandons
  <2>3. BufferFits'
    BY <2>1, NothingOf, EmptySeq DEF BufferFits, HeaderCells
  <2>4. HostTyped'
    BY <1>1, <2>1 DEF StreamInv, HostTyped
  <2>5. OpenInstall'
    BY <2>1 DEF OpenInstall
  <2>6. QED BY <2>2, <2>3, <2>4, <2>5 DEF StreamInv
<1>6. ASSUME buffer' = cells, UNCHANGED <<due, reply, faults, transaction>>, BufferFits' PROVE StreamInv'
  <2>1. Sequences' /\ Traffic'
    BY <1>1, <1>2, <1>6, KeepsOrAbandons
  <2>2. HostTyped' /\ OpenInstall'
    BY <1>1, <1>6 DEF StreamInv, HostTyped, OpenInstall
  <2>3. QED BY <1>6, <2>1, <2>2 DEF StreamInv
<1>7. ASSUME CompleteFrame(cells) PROVE StreamInv'
  <2> DEFINE f == cells[1].frame
             rest == r2 \o wire
  <2>1. CASE ~Decodes(cells)
    BY <1>5, <1>7, <2>1 DEF CompleteFrame
  <2>2. CASE Decodes(cells)
    <3>1. cells = CellsOf(f) /\ OnJfdpFrame(f) /\ buffer' = <<>> /\ expected' = 0
      BY <1>7, <2>2 DEF CompleteFrame, Decodes, Cleared
    <3>2. f \in Frames
      BY <1>4 DEF Cells
    <3>3. Stream = CellsOf(f) \o rest /\ rest \in Seq(Cells) /\ PartOf(rest, Ahead)
      BY <1>2, <3>1, PartOfEnd
    <3>4. Ahead' = rest /\ Stream' = rest
      <4>1. Ahead' = rest
        BY <1>1 DEF Ahead
      <4>2. Stream' = <<>> \o rest
        BY <3>1, <4>1, Zenon DEF Stream
      <4>3. <<>> \o rest = rest
        BY <3>3, ConcatEmptySeq
      <4>4. QED BY <4>1, <4>2, <4>3
    <3>5. \E k \in DOMAIN Ahead : Ahead[k].frame = f
      <4>1. \A l \in DOMAIN cells : cells[l].frame = f
        BY <3>1, <3>2, CellsTyped
      <4>2. QED BY <1>2, <4>1
    <3> HIDE DEF f, rest
    <3>6. Traffic'
      BY <1>1, <3>1, <3>2, <3>3, <3>4, <3>5, HandsOn
    <3>7. f.kind = "begin" => f.tx \in Ids
      <4>1. 1 \in DOMAIN Stream /\ Stream[1].frame = f
        BY <3>2, <3>3, WholeRequest
      <4>2. QED BY <4>1 DEF StreamInv, Traffic, Numbered
    <3>8. OpenInstall' /\ due' = due \ {f} /\ faults' \in 0 .. MaxFaults /\ reply' \in Seq(Replies)
      BY <3>1, <3>2, <3>7, Answered
    <3>9. Sequences'
      <4>1. buffer' \in Seq(Cells)
        BY <3>1, EmptySeq
      <4>2. read' \in Seq(Cells) /\ wire' \in Seq(Cells)
        BY <1>1, <1>2 DEF StreamInv, Sequences
      <4>3. QED BY <3>8, <4>1, <4>2 DEF Sequences
    <3>10. BufferFits'
      BY <3>1, EmptySeq DEF BufferFits, HeaderCells
    <3>11. HostTyped'
      BY <1>1, <3>8 DEF StreamInv, HostTyped
    <3>12. QED BY <3>6, <3>8, <3>9, <3>10, <3>11 DEF StreamInv
  <2>3. QED BY <2>1, <2>2
<1>8. CASE expected = 0 /\ Len(cells) = HeaderCells
  <2>1. HeaderComplete(cells)
    BY <1>1, <1>8
  <2>2. PICK length \in DeclaredLengths(cells) :
          CASE length = TooLong -> Abandon
            [] length = 0 -> CompleteFrame(cells)
            [] OTHER -> /\ buffer' = cells /\ expected' = HeaderCells + length
                        /\ UNCHANGED <<due, reply, faults, transaction>>
    BY <2>1 DEF HeaderComplete
  <2>3. length \in 0 .. MaxPayloadCells \cup {TooLong} /\ TooLong # 0 /\ MaxPayloadCells \in Nat
    BY <1>4, <2>2, DeclaredIsBounded, StreamAssumption DEF TooLong
  <2>4. CASE length = TooLong
    <3>1. Abandon
      BY <2>2, <2>3, <2>4
    <3>2. QED BY <1>5, <3>1
  <2>5. CASE length = 0
    BY <1>7, <2>2, <2>3, <2>5
  <2>6. CASE length # TooLong /\ length # 0
    <3>1. buffer' = cells /\ expected' = HeaderCells + length /\ UNCHANGED <<due, reply, faults, transaction>>
      BY <2>2, <2>6
    <3>2. length \in 1 .. MaxPayloadCells
      BY <2>3, <2>6
    <3>3. BufferFits'
      <4>1. Len(buffer') = 2 /\ expected' = 2 + length /\ HeaderCells = 2
        BY <1>8, <3>1 DEF HeaderCells
      <4>2. /\ expected' \in HeaderCells + 1 .. HeaderCells + MaxPayloadCells
            /\ expected' # 0 /\ Len(buffer') < expected'
        BY <2>3, <3>2, <4>1
      <4>3. QED BY <4>2 DEF BufferFits
    <3>4. QED BY <1>6, <3>1, <3>3
  <2>7. QED BY <2>4, <2>5, <2>6
<1>9. CASE expected # 0 /\ Len(cells) = expected
  BY <1>1, <1>7, <1>9
<1>10. CASE /\ ~(expected = 0 /\ Len(cells) = HeaderCells)
            /\ ~(expected # 0 /\ Len(cells) = expected)
  <2>1. buffer' = cells /\ UNCHANGED <<expected, due, reply, faults, transaction>>
    BY <1>1, <1>10
  <2>2. Target \in Int /\ Len(cells) <= IF expected = 0 THEN HeaderCells ELSE expected
    BY <1>2, <1>3 DEF Target, HeaderCells
  <2>3. BufferFits'
    BY <1>2, <1>3, <1>10, <2>1, <2>2 DEF BufferFits, HeaderCells
  <2>4. QED BY <1>6, <2>1, <2>3
<1>11. QED BY <1>8, <1>9, <1>10

LEMMA DeviceKeeps ==
  ASSUME StreamInv, ReadBytes \/ PollLink \/ PartialFrameTimeout
  PROVE  StreamInv'
<1>1. /\ wire \in Seq(Cells) /\ read \in Seq(Cells) /\ buffer \in Seq(Cells)
      /\ Ahead \in Seq(Cells) /\ Stream \in Seq(Cells) /\ PartOf(Ahead, Stream)
  BY Joined DEF StreamInv, Sequences, Stream, Ahead
<1>2. PartOf(Ahead, Ahead) /\ PartOf(Stream, Stream)
  BY <1>1, PartIsItself
<1>3. CASE ReadBytes
  <2>1. /\ read = <<>>
        /\ UNCHANGED <<hostVars, faults, connected, wasConnected, buffer, expected, transaction, reply>>
    BY <1>3 DEF ReadBytes
  <2>2. PICK n \in 1 .. Len(wire) : read' = SubSeq(wire, 1, n) /\ wire' = SubSeq(wire, n + 1, Len(wire))
    BY <1>3 DEF ReadBytes
  <2>3. n \in 0 .. Len(wire)
    BY <1>1, NothingOf
  <2>4. read' \in Seq(Cells) /\ wire' \in Seq(Cells) /\ wire = read' \o wire'
    BY <1>1, <2>2, <2>3, CutInTwo
  <2>5. Ahead' = Ahead
    <3>1. <<>> \o wire = wire
      BY <1>1, ConcatEmptySeq
    <3>2. Ahead = wire
      BY <2>1, <3>1, Zenon DEF Ahead
    <3>3. QED BY <2>4, <3>2, Zenon DEF Ahead
  <2>6. Stream' = Stream
    BY <2>1, <2>5, Zenon DEF Stream
  <2>7. Sequences'
    BY <1>1, <2>1, <2>4 DEF StreamInv, Sequences
  <2>8. HostTyped' /\ OpenInstall' /\ BufferFits'
    BY <2>1 DEF StreamInv, HostTyped, OpenInstall, BufferFits, hostVars
  <2>9. Traffic'
    <3>1. UNCHANGED <<host, step, made, due, reply, faults>>
      BY <2>1 DEF hostVars
    <3>2. faults' \in {faults, faults + 1} /\ PartOf(Stream', Stream) /\ PartOf(Ahead', Ahead)
      BY <1>2, <2>5, <2>6, <3>1
    <3>3. QED BY <2>7, <3>1, <3>2, NothingHandedOn
  <2>10. QED BY <2>7, <2>8, <2>9 DEF StreamInv
<1>4. ASSUME buffer' = <<>>, expected' = 0, transaction' = {},
             UNCHANGED <<host, step, made, blocker, connected, wire, read, due, reply>>,
             wasConnected' \in BOOLEAN, faults' \in 0 .. MaxFaults, faults' \in {faults, faults + 1}
      PROVE  StreamInv'
  <2>1. Ahead' = Ahead
    BY <1>4 DEF Ahead
  <2>2. Stream' = Ahead
    <3>1. <<>> \o Ahead = Ahead
      BY <1>1, ConcatEmptySeq
    <3>2. QED BY <1>4, <2>1, <3>1, Zenon DEF Stream
  <2>3. Sequences'
    <3>1. buffer' \in Seq(Cells)
      BY <1>4, EmptySeq
    <3>2. QED BY <1>4, <3>1 DEF StreamInv, Sequences
  <2>4. Traffic'
    BY <1>1, <1>2, <1>4, <2>1, <2>2, <2>3, NothingHandedOn
  <2>5. BufferFits'
    BY <1>4, EmptySeq DEF BufferFits, HeaderCells
  <2>6. HostTyped' /\ OpenInstall'
    BY <1>4 DEF StreamInv, HostTyped, OpenInstall
  <2>7. QED BY <2>3, <2>4, <2>5, <2>6 DEF StreamInv
<1>5. faults \in 0 .. MaxFaults /\ {connected, wasConnected} \subseteq BOOLEAN /\ MaxFaults \in Nat
  BY StreamAssumption DEF StreamInv, HostTyped
<1>6. CASE PollLink
  <2>1. CASE connected
    <3>1. /\ UNCHANGED <<host, step, made, blocker, connected, wire, read, buffer, expected>>
          /\ UNCHANGED <<transaction, due, reply, faults>> /\ wasConnected' = connected
      BY <1>6, <2>1 DEF PollLink
    <3>2. Sequences' /\ HostTyped' /\ OpenInstall' /\ BufferFits'
      BY <1>5, <3>1 DEF StreamInv, Sequences, HostTyped, OpenInstall, BufferFits
    <3>3. Ahead' = Ahead /\ Stream' = Stream
      BY <3>1 DEF Ahead, Stream
    <3>4. Traffic'
      BY <1>2, <3>1, <3>2, <3>3, NothingHandedOn
    <3>5. QED BY <3>2, <3>4 DEF StreamInv
  <2>2. CASE ~connected
    BY <1>4, <1>5, <1>6, <2>2 DEF PollLink, Abandon, Reset, Cleared
  <2>3. QED BY <2>1, <2>2
<1>7. CASE PartialFrameTimeout
  BY <1>4, <1>5, <1>7 DEF PartialFrameTimeout, Reset, Cleared, Fault
<1>8. QED BY <1>3, <1>6, <1>7

-----------------------------------------------------------------------------
(***************************************************************************)
(* The host                                                                *)
(***************************************************************************)
LEMMA RequestsTyped ==
  ASSUME StreamInv, NEW f,
         f \in Requests \/ \E kind \in Malformed \cup {"flagged"} : f = Request(kind, 0, 0)
  PROVE  /\ f \in Frames /\ f.host = host
         /\ f.kind = "begin" => f.tx \in Ids
         /\ f.kind \in {"begin", "chunk"} => made <= Chunks
<1>1. /\ host \in 1 .. Hosts /\ made \in 0 .. Chunks + 1 /\ blocker \in 0 .. Hosts
      /\ Hosts \in Nat \ {0} /\ Chunks \in Nat \ {0}
  BY StreamAssumption DEF StreamInv, HostTyped, Ids
<1>2. ASSUME NEW kind, NEW tx \in 0 .. Hosts, NEW k \in 0 .. Chunks, f = Request(kind, tx, k), kind \in Kinds
      PROVE  f \in Frames /\ f.host = host /\ f.kind = kind /\ f.tx = tx
  BY <1>1, <1>2 DEF Request, Frames, Ids
<1>3. CASE \E kind \in Malformed \cup {"flagged"} : f = Request(kind, 0, 0)
  <2>1. PICK kind \in Malformed \cup {"flagged"} : f = Request(kind, 0, 0)
    BY <1>3
  <2>2. kind \in Kinds /\ kind \notin {"begin", "chunk"} /\ 0 \in 0 .. Hosts /\ 0 \in 0 .. Chunks
    BY <1>1, <2>1 DEF Kinds, Malformed
  <2>3. f \in Frames /\ f.host = host /\ f.kind = kind /\ f.tx = 0
    BY <1>2, <2>1, <2>2
  <2>4. QED BY <2>2, <2>3
<1>4. CASE f \in Requests
  <2>1. \/ f = Request("abort", blocker, 0) \/ f = Request("ask", 0, 0)
        \/ made = 0 /\ f = Request("begin", host, 0)
        \/ made \in 1 .. Chunks /\ f = Request("chunk", host, made)
        \/ f = Request("abort", host, 0) \/ f = Request("commit", host, 0)
    BY <1>4 DEF Requests
  <2>2. {"abort", "ask", "begin", "chunk", "commit"} \subseteq Kinds
    BY DEF Kinds
  <2>3. 0 \in 0 .. Hosts /\ 0 \in 0 .. Chunks /\ host \in 0 .. Hosts
    BY <1>1
  <2>4. CASE f = Request("abort", blocker, 0) \/ f = Request("ask", 0, 0)
             \/ f = Request("abort", host, 0) \/ f = Request("commit", host, 0)
    <3>1. f \in Frames /\ f.host = host /\ f.kind \in {"abort", "ask", "commit"}
      BY <1>1, <1>2, <2>2, <2>3, <2>4
    <3>2. QED BY <3>1
  <2>5. CASE made = 0 /\ f = Request("begin", host, 0)
    <3>1. f \in Frames /\ f.host = host /\ f.tx = host
      BY <1>2, <2>2, <2>3, <2>5
    <3>2. QED BY <1>1, <2>5, <3>1 DEF Ids
  <2>6. CASE made \in 1 .. Chunks /\ f = Request("chunk", host, made)
    <3>1. made \in 0 .. Chunks /\ made <= Chunks
      BY <1>1, <2>6
    <3>2. f \in Frames /\ f.host = host /\ f.kind = "chunk"
      BY <1>2, <2>2, <2>3, <2>6, <3>1
    <3>3. QED BY <3>1, <3>2
  <2>7. QED BY <2>1, <2>4, <2>5, <2>6
<1>5. QED BY <1>3, <1>4

LEMMA SendKeeps == ASSUME StreamInv, SendRequest \/ SendMalformed PROVE StreamInv'
<1>1. PICK f : /\ SendFrame(f)
               /\ f \in Requests \/ \E kind \in Malformed \cup {"flagged"} : f = Request(kind, 0, 0)
  BY DEF SendRequest, SendMalformed
<1>2. /\ f \in Frames /\ f.host = host
      /\ f.kind = "begin" => f.tx \in Ids
      /\ f.kind \in {"begin", "chunk"} => made <= Chunks
  BY <1>1, RequestsTyped
<1>3. faults \in 0 .. MaxFaults /\ MaxFaults \in Nat /\ blocker \in 0 .. Hosts /\ Hosts \in Nat
  BY StreamAssumption DEF StreamInv, HostTyped
<1>4. faults' \in 0 .. MaxFaults /\ faults' \in {faults, faults + 1} /\ blocker' \in 0 .. Hosts
  BY <1>3 DEF SendRequest, SendMalformed, Fault
<1>5. /\ step = "ready" /\ wire' = wire \o CellsOf(f) /\ step' = "waiting" /\ due' = due \cup {f}
      /\ UNCHANGED <<host, made, connected, wasConnected, read, buffer, expected, transaction, reply>>
  BY <1>1 DEF SendFrame, deviceVars
<1>6. Traffic' /\ wire' \in Seq(Cells)
  BY <1>2, <1>4, <1>5, OneMoreRequest
<1>7. Sequences' /\ BufferFits' /\ OpenInstall'
  BY <1>5, <1>6 DEF StreamInv, Sequences, BufferFits, OpenInstall
<1>8. HostTyped'
  BY <1>2, <1>4, <1>5 DEF StreamInv, HostTyped
<1>9. QED BY <1>6, <1>7, <1>8 DEF StreamInv

\* A process that has its answer, or none, and goes.
LEMMA LeavesKeeps ==
  ASSUME StreamInv, NumbersAreFresh, NextProcess, step # "opening", FoundSilence => Stream = <<>>,
         UNCHANGED <<due, faults, connected, wire, deviceVars>>, blocker' \in 0 .. Hosts
  PROVE  StreamInv'
<1>1. /\ wire \in Seq(Cells) /\ read \in Seq(Cells) /\ buffer \in Seq(Cells)
      /\ Ahead \in Seq(Cells) /\ Stream \in Seq(Cells)
  BY Joined DEF StreamInv, Sequences, Stream, Ahead
<1>2. UNCHANGED <<wasConnected, read, buffer, expected, transaction>>
  BY DEF deviceVars
<1>3. Stream' = Stream /\ PartOf(Stream, Stream)
  BY <1>1, <1>2, PartIsItself DEF Stream, Ahead
<1>4. Sequences' /\ BufferFits' /\ OpenInstall'
  <2>1. reply' \in Seq(Replies)
    BY EmptySeq DEF NextProcess
  <2>2. QED BY <1>2, <2>1 DEF StreamInv, Sequences, BufferFits, OpenInstall
<1>5. HostTyped'
  BY <1>2, StreamAssumption DEF StreamInv, HostTyped, NextProcess, Ids
<1>6. faults \in 0 .. MaxFaults /\ MaxFaults \in Nat
  BY StreamAssumption DEF StreamInv, HostTyped
<1>7. Traffic'
  <2>1. CASE faults >= 1 /\ Left(Stream, host, faults - 1)
    <3>1. faults - 1 \in Nat /\ faults - 1 < MaxFaults /\ (faults - 1) + 1 <= faults' /\ faults' \in Nat
      <4>1. faults >= 1
        BY <2>1
      <4>2. QED BY <1>6, <4>1
    <3>2. QED BY <1>3, <1>4, <2>1, <3>1, AnotherProcess
  <2>2. CASE Left(Stream, host, faults) /\ FoundSilence
    BY <1>3, <1>4, <1>6, <2>2, AnotherProcess
  <2>3. QED BY <2>1, <2>2 DEF StreamInv, Traffic, FewLeftOvers
<1>8. QED BY <1>4, <1>5, <1>7 DEF StreamInv

LEMMA GiveUpKeeps == ASSUME StreamInv, NumbersAreFresh, GiveUp PROVE StreamInv'
<1>1. wire = <<>> /\ read = <<>> /\ buffer = <<>> /\ step = "waiting"
  BY DEF GiveUp, Silence, HasPartial
<1>2. Stream = <<>>
  <2>1. <<>> \o (<<>> \o <<>>) = <<>>
    BY ConcatEmptySeq, EmptySeq
  <2>2. QED BY <1>1, <2>1, Zenon DEF Stream, Ahead
<1>3. blocker \in 0 .. Hosts
  BY DEF StreamInv, HostTyped
<1>4. QED BY <1>1, <1>2, <1>3, LeavesKeeps DEF GiveUp

LEMMA GetReplyKeeps == ASSUME StreamInv, NumbersAreFresh, GetReply PROVE StreamInv'
<1> DEFINE r == Head(reply)
<1>1. /\ step = "waiting" /\ reply # <<>> /\ UNCHANGED <<due, faults, connected, wire, deviceVars>>
      /\ blocker' = (IF r.frame.host = host /\ ~r.ok THEN r.open ELSE 0)
      /\ IF r.frame.host = host /\ r.ok /\ r.frame.kind \in {"ask", "begin", "chunk"}
         THEN /\ made' = IF r.frame.kind = "ask" THEN made ELSE made + 1
              /\ step' = "ready" /\ reply' = Tail(reply) /\ UNCHANGED host
         ELSE NextProcess
  BY DEF GetReply
<1>2. /\ reply \in Seq(Replies) /\ r \in Replies /\ r = reply[1] /\ 1 \in DOMAIN reply
      /\ Len(reply) \in Nat /\ DOMAIN reply = 1 .. Len(reply)
  <2>1. reply \in Seq(Replies)
    BY DEF StreamInv, Sequences
  <2>2. Len(reply) \in Nat \ {0} /\ DOMAIN reply = 1 .. Len(reply)
    BY <1>1, <2>1, NothingOf
  <2>3. r = reply[1]
    OBVIOUS
  <2>4. QED BY <2>1, <2>2, <2>3, ElementOfSeq
<1>3. blocker' \in 0 .. Hosts
  BY <1>1, <1>2, StreamAssumption DEF Replies
<1> HIDE DEF r
<1>4. CASE ~(r.frame.host = host /\ r.ok /\ r.frame.kind \in {"ask", "begin", "chunk"})
  <2>1. NextProcess
    BY <1>1, <1>4
  <2>2. FoundSilence => Stream = <<>>
    BY <1>1 DEF FoundSilence
  <2>3. QED BY <1>1, <1>3, <2>1, <2>2, LeavesKeeps
<1>5. CASE r.frame.host = host /\ r.ok /\ r.frame.kind \in {"ask", "begin", "chunk"}
  <2>1. /\ made' = (IF r.frame.kind = "ask" THEN made ELSE made + 1)
        /\ step' = "ready" /\ reply' = Tail(reply) /\ host' = host
        /\ UNCHANGED <<due, faults, connected, wire, wasConnected, read, buffer, expected, transaction>>
    BY <1>1, <1>5 DEF deviceVars
  <2>2. /\ reply' \in Seq(Replies) /\ Len(reply') = Len(reply) - 1 /\ DOMAIN reply' = 1 .. Len(reply')
        /\ \A j \in 1 .. Len(reply') : reply'[j] = reply[j + 1]
    BY <1>1, <1>2, <2>1, HeadTailProperties, NothingOf
  <2>3. 1 \in Of(host, reply)
    BY <1>2, <1>5 DEF Of
  <2>4. Of(host, Stream) = {} /\ \A j \in Of(host, reply) : j = 1
    BY <2>3 DEF StreamInv, Traffic, OneAnswer
  <2>5. \A j \in DOMAIN reply' : j + 1 \in DOMAIN reply /\ j + 1 # 1 /\ reply'[j] = reply[j + 1]
    BY <1>2, <2>2
  <2>6. Of(host, reply') = {}
    BY <2>4, <2>5 DEF Of
  <2>7. Stream' = Stream /\ Ahead' = Ahead
    BY <2>1 DEF Stream, Ahead
  <2>8. Sequences' /\ BufferFits' /\ OpenInstall'
    BY <2>1, <2>2 DEF StreamInv, Sequences, BufferFits, OpenInstall
  <2>9. HostTyped'
    <3>1. r.frame.kind \in {"begin", "chunk"} => made <= Chunks
      <4>1. r.frame.kind \in {"begin", "chunk"} => 1 \in OfInstall(host, reply)
        BY <1>2, <2>3 DEF OfInstall
      <4>2. QED BY <4>1 DEF StreamInv, Traffic, StepsLeft
    <3>2. made \in 0 .. Chunks + 1 /\ Chunks \in Nat
      BY StreamAssumption DEF StreamInv, HostTyped
    <3>3. made' \in 0 .. Chunks + 1
      BY <1>5, <2>1, <3>1, <3>2
    <3>4. QED BY <1>3, <2>1, <3>3 DEF StreamInv, HostTyped
  <2>10. OneAnswer' /\ StepsLeft'
    BY <2>1, <2>4, <2>6, <2>7 DEF OneAnswer, StepsLeft, OfInstall
  <2>11. FewLeftOvers'
    <3>1. FoundSilence => FoundSilence'
      <4>1. FoundSilence => Stream = <<>>
        BY <1>1 DEF FoundSilence
      <4>2. FoundSilence => \A j \in DOMAIN reply' : reply'[j].frame.host = host
        BY <2>5 DEF FoundSilence
      <4>3. QED BY <2>1, <2>7, <4>1, <4>2 DEF FoundSilence
    <3>2. step # "opening" /\ step' # "opening"
      BY <1>1, <2>1
    <3>3. QED BY <2>1, <2>7, <3>1, <3>2 DEF StreamInv, Traffic, FewLeftOvers
  <2>12. OneRequestEach(Stream') /\ Sent(Stream', due') /\ Numbered(Stream')
    BY <2>1, <2>7 DEF StreamInv, Traffic
  <2>13. QED BY <2>8, <2>9, <2>10, <2>11, <2>12 DEF StreamInv, Traffic
<1>6. QED BY <1>4, <1>5

\* What was on the wire is cut off where a process dies or the link is lost.
LEMMA CutOffKeeps == ASSUME StreamInv, NumbersAreFresh, HostDies \/ Unplug PROVE StreamInv'
<1>1. /\ wire \in Seq(Cells) /\ read \in Seq(Cells) /\ buffer \in Seq(Cells)
      /\ Ahead \in Seq(Cells) /\ Stream \in Seq(Cells)
  BY Joined DEF StreamInv, Sequences, Stream, Ahead
<1>2. /\ Fault /\ CutOff /\ connected' \in BOOLEAN
      /\ UNCHANGED <<wasConnected, read, buffer, expected, transaction>>
  BY DEF HostDies, Unplug, deviceVars, StreamInv, HostTyped
<1>3. PICK n \in 0 .. Len(wire) : wire' = SubSeq(wire, 1, n)
  BY <1>2 DEF CutOff
<1>4. NextProcess /\ UNCHANGED <<blocker, due>>
  BY <1>2 DEF CutOff
<1> DEFINE lost == SubSeq(wire, n + 1, Len(wire))
<1>5. wire' \in Seq(Cells) /\ lost \in Seq(Cells) /\ wire = wire' \o lost
  BY <1>1, <1>3, CutInTwo
<1> HIDE DEF lost
<1>6. Ahead' \in Seq(Cells) /\ Ahead = Ahead' \o lost
  <2>1. Ahead' = read \o wire'
    BY <1>2 DEF Ahead
  <2>2. (read \o wire') \o lost = read \o (wire' \o lost)
    <3>1. read \in Seq(Cells) /\ wire' \in Seq(Cells) /\ lost \in Seq(Cells)
      BY <1>1, <1>5
    <3>2. QED BY <3>1, Regrouped, Zenon
  <2>3. Ahead = Ahead' \o lost
    BY <1>5, <2>1, <2>2, Zenon DEF Ahead
  <2>4. QED BY <1>1, <1>5, <2>1, <2>3, JoinAt
<1>7. Stream' \in Seq(Cells) /\ PartOf(Stream', Stream)
  <2>1. Stream' = buffer \o Ahead'
    BY <1>2, Zenon DEF Stream
  <2>2. (buffer \o Ahead') \o lost = buffer \o (Ahead' \o lost)
    <3>1. buffer \in Seq(Cells) /\ Ahead' \in Seq(Cells) /\ lost \in Seq(Cells)
      BY <1>1, <1>5, <1>6
    <3>2. QED BY <3>1, Regrouped, Zenon
  <2>3. Stream = Stream' \o lost
    BY <1>6, <2>1, <2>2, Zenon DEF Stream
  <2>4. Stream' \in Seq(Cells)
    BY <1>1, <1>6, <2>1, JoinAt
  <2>5. PartOf(Stream', Stream' \o lost)
    BY <1>5, <2>4, PartOfFront
  <2>6. QED BY <2>3, <2>4, <2>5, Zenon
<1>8. Sequences' /\ BufferFits' /\ OpenInstall'
  <2>1. reply' \in Seq(Replies)
    BY <1>4, EmptySeq DEF NextProcess
  <2>2. QED BY <1>2, <1>5, <2>1 DEF StreamInv, Sequences, BufferFits, OpenInstall
<1>9. faults \in 0 .. MaxFaults /\ MaxFaults \in Nat /\ faults < MaxFaults /\ faults' = faults + 1
  BY <1>2, StreamAssumption DEF StreamInv, HostTyped, Fault
<1>10. HostTyped'
  <2>1. faults' \in 0 .. MaxFaults
    BY <1>9
  <2>2. QED BY <1>2, <1>4, <2>1, StreamAssumption DEF StreamInv, HostTyped, NextProcess, Ids
<1>11. Left(Stream, host, faults)
  <2>1. host \in Ids /\ faults \in Int /\ faults - 1 \in Int /\ faults - 1 <= faults
    BY <1>9 DEF StreamInv, HostTyped
  <2>2. Left(Stream, host, faults - 1) => Left(Stream, host, faults)
    BY <1>1, <2>1, LeftGrows
  <2>3. QED BY <2>2 DEF StreamInv, Traffic, FewLeftOvers
<1>12. Traffic'
  <2>1. faults \in Nat /\ faults < MaxFaults /\ faults' \in Nat /\ faults + 1 <= faults'
    BY <1>9
  <2>2. QED BY <1>4, <1>7, <1>8, <1>11, <2>1, AnotherProcess
<1>13. QED BY <1>8, <1>10, <1>12 DEF StreamInv

LEMMA OpenKeeps == ASSUME StreamInv, Open \/ Plug PROVE StreamInv'
<1>1. /\ wire \in Seq(Cells) /\ read \in Seq(Cells) /\ buffer \in Seq(Cells)
      /\ Ahead \in Seq(Cells) /\ Stream \in Seq(Cells)
  BY Joined DEF StreamInv, Sequences, Stream, Ahead
<1>2. /\ UNCHANGED <<host, made, blocker, due, wire, wasConnected, read, buffer, expected, transaction>>
      /\ connected' \in BOOLEAN
  BY DEF Open, Plug, hostVars, deviceVars, StreamInv, HostTyped
<1>3. Stream' = Stream /\ Ahead' = Ahead
  BY <1>2 DEF Stream, Ahead
<1>4. OneRequestEach(Stream') /\ Sent(Stream', due') /\ Numbered(Stream')
  BY <1>2, <1>3 DEF StreamInv, Traffic
<1>5. CASE Plug
  <2>1. UNCHANGED <<step, faults, reply>>
    BY <1>5 DEF Plug, hostVars
  <2>2. Sequences' /\ BufferFits' /\ OpenInstall' /\ HostTyped'
    BY <1>2, <2>1 DEF StreamInv, Sequences, BufferFits, OpenInstall, HostTyped
  <2>3. OneAnswer' /\ StepsLeft' /\ FewLeftOvers'
    BY <1>2, <1>3, <2>1 DEF StreamInv, Traffic, OneAnswer, StepsLeft, FewLeftOvers, FoundSilence
  <2>4. QED BY <1>4, <2>2, <2>3 DEF StreamInv, Traffic
<1>6. CASE Open
  <2>1. /\ step = "opening" /\ step' = "ready" /\ reply' = <<>>
        /\ (Silence /\ UNCHANGED faults) \/ Fault
    BY <1>6 DEF Open
  <2>2. /\ faults \in 0 .. MaxFaults /\ MaxFaults \in Nat /\ faults' \in 0 .. MaxFaults
    BY <2>1, StreamAssumption DEF StreamInv, HostTyped, Fault
  <2>3. reply' \in Seq(Replies) /\ DOMAIN reply' = {}
    <3>1. Len(reply') = 0 /\ reply' \in Seq(Replies)
      BY <2>1, EmptySeq
    <3>2. DOMAIN reply' = 1 .. Len(reply')
      BY <3>1, NothingOf
    <3>3. QED BY <3>1, <3>2
  <2>4. Sequences' /\ BufferFits' /\ OpenInstall' /\ HostTyped'
    BY <1>2, <2>1, <2>2, <2>3 DEF StreamInv, Sequences, BufferFits, OpenInstall, HostTyped
  <2>5. Of(host, Stream) = {} /\ Of(host, reply') = {}
    BY <2>1, <2>3 DEF StreamInv, Traffic, OneAnswer, Of
  <2>6. OneAnswer' /\ StepsLeft'
    BY <1>2, <1>3, <2>5 DEF OneAnswer, StepsLeft, OfInstall
  <2>7. Left(Stream, host, faults)
    BY <2>1 DEF StreamInv, Traffic, FewLeftOvers
  <2>8. FewLeftOvers'
    <3>1. CASE Fault
      <4>1. faults' >= 1 /\ faults' - 1 = faults
        BY <2>2, <3>1 DEF Fault
      <4>2. QED BY <1>2, <1>3, <2>1, <2>7, <4>1 DEF FewLeftOvers
    <3>2. CASE Silence /\ UNCHANGED faults
      <4>1. DOMAIN Ahead' = {}
        <5>1. <<>> \o <<>> = <<>>
          BY ConcatEmptySeq, EmptySeq
        <5>2. Ahead = <<>>
          BY <3>2, <5>1, Zenon DEF Ahead, Silence
        <5>3. Len(Ahead) = 0 /\ DOMAIN Ahead = 1 .. Len(Ahead)
          BY <1>1, <5>2, NothingOf
        <5>4. QED BY <1>3, <5>3
      <4>2. FoundSilence'
        BY <2>1, <2>3, <4>1 DEF FoundSilence
      <4>3. QED BY <1>2, <1>3, <2>1, <2>7, <3>2, <4>2 DEF FewLeftOvers
    <3>3. QED BY <2>1, <3>1, <3>2
  <2>9. QED BY <1>4, <2>4, <2>6, <2>8 DEF StreamInv, Traffic
<1>7. QED BY <1>5, <1>6

-----------------------------------------------------------------------------
(***************************************************************************)
(* Theorems                                                                *)
(***************************************************************************)
LEMMA InitStreamInv == StreamInit => StreamInv
<1> SUFFICES ASSUME StreamInit PROVE StreamInv
  OBVIOUS
<1>1. wire = <<>> /\ read = <<>> /\ buffer = <<>> /\ reply = <<>>
  BY DEF StreamInit
<1>2. Sequences
  BY <1>1, EmptySeq DEF Sequences
<1>3. Stream = <<>> /\ Ahead = <<>>
  <2>1. <<>> \o <<>> = <<>> /\ <<>> \o (<<>> \o <<>>) = <<>>
    BY ConcatEmptySeq, EmptySeq
  <2>2. QED BY <1>1, <2>1, Zenon DEF Stream, Ahead
<1>4. DOMAIN Stream = {} /\ DOMAIN Ahead = {} /\ DOMAIN reply = {}
  <2>1. Stream \in Seq(Cells) /\ Ahead \in Seq(Cells) /\ reply \in Seq(Replies)
    BY <1>1, <1>3, EmptySeq
  <2>2. Len(Stream) = 0 /\ Len(Ahead) = 0 /\ Len(reply) = 0
    BY <1>1, <1>3, EmptySeq
  <2>3. QED BY <2>1, <2>2, NothingOf
<1>5. BufferFits /\ HostTyped /\ OpenInstall
  BY <1>1, EmptySeq, StreamAssumption DEF StreamInit, BufferFits, HostTyped, OpenInstall, HeaderCells, Ids
<1>6. OneRequestEach(Stream) /\ Sent(Stream, due) /\ Numbered(Stream) /\ Left(Stream, host, faults)
  BY <1>4 DEF OneRequestEach, Sent, Numbered, Left
<1>7. OneAnswer /\ StepsLeft
  BY <1>4 DEF OneAnswer, StepsLeft, OfInstall, Of
<1>8. FewLeftOvers
  BY <1>1, <1>4, <1>6 DEF FewLeftOvers, FoundSilence, StreamInit
<1>9. QED BY <1>2, <1>5, <1>6, <1>7, <1>8 DEF StreamInv, Traffic

LEMMA NextStreamInv == NumbersAreFresh /\ StreamInv /\ [StreamNext]_streamVars => StreamInv'
<1> SUFFICES ASSUME NumbersAreFresh, StreamInv, [StreamNext]_streamVars
             PROVE  StreamInv'
  OBVIOUS
<1>1. CASE DeviceStep \/ PartialFrameTimeout
  BY <1>1, FeedKeeps, DeviceKeeps DEF DeviceStep
<1>2. CASE Open \/ Plug
  BY <1>2, OpenKeeps
<1>3. CASE SendRequest \/ SendMalformed
  BY <1>3, SendKeeps
<1>4. CASE GetReply
  BY <1>4, GetReplyKeeps
<1>5. CASE GiveUp
  BY <1>5, GiveUpKeeps
<1>6. CASE HostDies \/ Unplug
  BY <1>6, CutOffKeeps
<1>7. CASE UNCHANGED streamVars
  BY <1>7 DEF streamVars, hostVars, deviceVars, StreamInv, Sequences, BufferFits, HostTyped, OpenInstall,
       Traffic, OneAnswer, StepsLeft, FewLeftOvers, FoundSilence, Stream, Ahead
<1>8. QED BY <1>1, <1>2, <1>3, <1>4, <1>5, <1>6, <1>7 DEF StreamNext, HostStep

\* Every state is one in which the stream is made of whole requests, or of what is left of them.
THEOREM StreamInvariant == StreamSpec /\ NumbersAreFresh => []StreamInv
<1> SUFFICES ASSUME NumbersAreFresh
             PROVE  StreamSpec => []StreamInv
  OBVIOUS
<1>1. StreamInv /\ [StreamNext]_streamVars => StreamInv'
  BY NextStreamInv
<1>2. QED BY InitStreamInv, <1>1, PTL DEF StreamSpec

\* Variables keep their types, and the adapter's buffer stays below the frame it expects, whatever
\* is sent and however reads cut it.
THEOREM StreamTypes == StreamSpec /\ NumbersAreFresh => []StreamTypeOK
<1>1. StreamInv => StreamTypeOK
  <2> SUFFICES ASSUME StreamInv PROVE StreamTypeOK
    OBVIOUS
  <2>1. \A cells \in {wire, read, buffer} : \A j \in DOMAIN cells : cells[j].frame \in Frames
    <3> SUFFICES ASSUME NEW cells \in {wire, read, buffer}, NEW j \in DOMAIN cells
                 PROVE  cells[j].frame \in Frames
      OBVIOUS
    <3>1. cells \in Seq(Cells)
      BY DEF StreamInv, Sequences
    <3>2. cells[j] \in Cells
      BY <3>1, NothingOf, ElementOfSeq
    <3>3. QED BY <3>2 DEF Cells
  <2>2. {host} \cup {t.tx : t \in transaction} \subseteq Ids /\ \A t \in transaction : t.received \in 0 .. Chunks
    BY DEF StreamInv, HostTyped, OpenInstall
  <2>3. QED BY <2>1, <2>2 DEF StreamInv, HostTyped, BufferFits, StreamTypeOK
<1>2. QED BY <1>1, StreamInvariant, PTL

\* What feed hands on is the frame of a request that was sent.
LEMMA FeedHandsOn ==
  ASSUME StreamInv, Feed
  PROVE  reply' = reply \/ \E f \in due : Len(reply') = Len(reply) + 1 /\ reply'[Len(reply) + 1].frame = f
<1> DEFINE copied == IF Len(read) < Target THEN Len(read) ELSE Target
           r2 == SubSeq(read, copied + 1, Len(read))
           cells == buffer \o SubSeq(read, 1, copied)
<1>1. /\ read # <<>>
      /\ CASE expected = 0 /\ Len(cells) = HeaderCells -> HeaderComplete(cells)
           [] expected # 0 /\ Len(cells) = expected -> CompleteFrame(cells)
           [] OTHER -> buffer' = cells /\ UNCHANGED <<expected, due, reply, faults, transaction>>
  BY DEF Feed
<1>2. /\ cells \in Seq(Cells) /\ copied \in 1 .. Target /\ Len(cells) = Len(buffer) + copied
      /\ r2 \o wire \in Seq(Cells) /\ Stream = cells \o (r2 \o wire)
  BY <1>1, FeedCuts
<1> HIDE DEF copied, r2, cells
<1>3. cells[1] \in Cells
  <2>1. 1 \in 1 .. Len(cells)
    BY <1>2, NothingOf DEF StreamInv, Sequences
  <2>2. QED BY <1>2, <2>1, ElementOfSeq
<1>4. ASSUME CompleteFrame(cells), Decodes(cells)
      PROVE  \/ reply' = reply
             \/ \E f \in due : Len(reply') = Len(reply) + 1 /\ reply'[Len(reply) + 1].frame = f
  <2> DEFINE f == cells[1].frame
  <2>1. cells = CellsOf(f) /\ OnJfdpFrame(f)
    BY <1>4 DEF CompleteFrame, Decodes
  <2>2. f \in Frames
    BY <1>3 DEF Cells
  <2>3. Stream = CellsOf(f) \o (r2 \o wire)
    BY <1>2, <2>1
  <2> HIDE DEF f
  <2>4. f \in due /\ 1 \in DOMAIN Stream /\ Stream[1].frame = f
    BY <1>2, <2>2, <2>3, WholeRequest
  <2>5. f.kind = "begin" => f.tx \in Ids
    BY <2>4 DEF StreamInv, Traffic, Numbered
  <2>6. QED BY <2>1, <2>2, <2>4, <2>5, Answered
<1>5. ASSUME CompleteFrame(cells), ~Decodes(cells) PROVE reply' = reply
  BY <1>5 DEF CompleteFrame, Abandon, Reset
<1>6. CASE expected = 0 /\ Len(cells) = HeaderCells
  <2>1. HeaderComplete(cells)
    BY <1>1, <1>6
  <2>2. PICK length \in DeclaredLengths(cells) :
          CASE length = TooLong -> Abandon
            [] length = 0 -> CompleteFrame(cells)
            [] OTHER -> /\ buffer' = cells /\ expected' = HeaderCells + length
                        /\ UNCHANGED <<due, reply, faults, transaction>>
    BY <2>1 DEF HeaderComplete
  <2>3. TooLong # 0
    BY StreamAssumption DEF TooLong
  <2>4. CASE length = TooLong
    <3>1. Abandon
      BY <2>2, <2>3, <2>4
    <3>2. QED BY <3>1 DEF Abandon, Reset
  <2>5. CASE length = 0
    <3>1. CompleteFrame(cells)
      BY <2>2, <2>3, <2>5
    <3>2. QED BY <1>4, <1>5, <3>1
  <2>6. CASE length # TooLong /\ length # 0
    BY <2>2, <2>6
  <2>7. QED BY <2>4, <2>5, <2>6
<1>7. CASE expected # 0 /\ Len(cells) = expected
  BY <1>1, <1>4, <1>5, <1>7
<1>8. CASE /\ ~(expected = 0 /\ Len(cells) = HeaderCells)
           /\ ~(expected # 0 /\ Len(cells) = expected)
  BY <1>1, <1>8
<1>9. QED BY <1>6, <1>7, <1>8

\* A frame that is handed on and answered was sent, and was not handed on before.
THEOREM OnlyDueIsHandedOn == StreamSpec /\ NumbersAreFresh => HandsOnWhatIsDue
<1> SUFFICES ASSUME NumbersAreFresh
             PROVE  StreamSpec => HandsOnWhatIsDue
  OBVIOUS
<1>1. StreamInv /\ StreamInv' /\ [StreamNext]_streamVars => [HandedOn \subseteq due]_streamVars
  <2> SUFFICES ASSUME StreamInv, StreamInv', StreamNext
               PROVE  HandedOn \subseteq due
    OBVIOUS
  <2>1. Len(reply) \in Nat /\ Len(reply') \in Nat
    BY NothingOf DEF StreamInv, Sequences
  <2>2. ASSUME Len(reply') <= Len(reply) PROVE HandedOn \subseteq due
    <3>1. Len(reply) + 1 .. Len(reply') = {}
      BY <2>1, <2>2
    <3>2. QED BY <3>1 DEF HandedOn
  <2>3. CASE Feed
    <3>1. CASE reply' = reply
      BY <2>1, <2>2, <3>1
    <3>2. CASE \E f \in due : Len(reply') = Len(reply) + 1 /\ reply'[Len(reply) + 1].frame = f
      <4>1. Len(reply) + 1 .. Len(reply') = {Len(reply) + 1}
        BY <2>1, <3>2
      <4>2. QED BY <3>2, <4>1 DEF HandedOn
    <3>3. QED BY <2>3, <3>1, <3>2, FeedHandsOn
  <2>4. CASE ReadBytes \/ PollLink \/ PartialFrameTimeout \/ SendRequest \/ SendMalformed \/ Plug
    <3>1. reply' = reply
      BY <2>4 DEF ReadBytes, PollLink, PartialFrameTimeout, Abandon, Reset, SendRequest, SendMalformed,
           SendFrame, Plug
    <3>2. QED BY <2>1, <2>2, <3>1
  <2>5. CASE Open \/ GiveUp \/ HostDies \/ Unplug
    <3>1. reply' = <<>>
      BY <2>5 DEF Open, GiveUp, HostDies, Unplug, CutOff, NextProcess
    <3>2. Len(reply') = 0
      BY <3>1, EmptySeq
    <3>3. QED BY <2>1, <2>2, <3>2
  <2>6. CASE GetReply
    <3>1. reply # <<>> /\ (reply' = Tail(reply) \/ reply' = <<>>)
      BY <2>6 DEF GetReply, NextProcess
    <3>2. Len(reply') <= Len(reply)
      <4>1. CASE reply' = Tail(reply)
        <5>1. reply \in Seq(Replies)
          BY DEF StreamInv, Sequences
        <5>2. Len(Tail(reply)) = Len(reply) - 1
          BY <3>1, <5>1, HeadTailProperties
        <5>3. QED BY <2>1, <4>1, <5>2
      <4>2. CASE reply' = <<>>
        <5>1. Len(reply') = 0
          BY <4>2, EmptySeq
        <5>2. QED BY <2>1, <5>1
      <4>3. QED BY <3>1, <4>1, <4>2
    <3>3. QED BY <2>2, <3>2
  <2>7. QED BY <2>3, <2>4, <2>5, <2>6 DEF StreamNext, DeviceStep, HostStep
<1>2. QED BY <1>1, StreamInvariant, PTL DEF StreamSpec, HandsOnWhatIsDue
=============================================================================
