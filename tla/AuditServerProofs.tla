--------------------------- MODULE AuditServerProofs ---------------------------
(***************************************************************************)
(* What holds of AuditServer for any connections, messages and limits.     *)
(*                                                                         *)
(* The argument: Ends, what the two ends of a connection, its stream and   *)
(* its reader say of each other; on it rests InOrder, that what was        *)
(* written is what was passed on and what is on its way, in that order.    *)
(***************************************************************************)
EXTENDS AuditServer, SequenceTheorems, TLAPS

\* What a stream is made of, and the types of all variables.
Pieces == Packets \cup {Cut}
TypeOK == ConnTypeOK /\ ServerTypeOK

-------------------------------------------------------------------------------
(***************************************************************************)
(* Streams.                                                                *)
(***************************************************************************)

\* A fragment is no packet.
LEMMA CutIsNoPacket == Cut \notin Packets
  BY ConnAssumption DEF Cut, Packets

\* A stream without a fragment is whole, and so is the part before one.
LEMMA WholeOfPackets ==
  ASSUME NEW s \in Seq(Packets)
  PROVE  /\ ~EndsCut(s) /\ WholeOf(s) = s
         /\ WholeOf(s \o <<Cut>>) = s
<1>1. ~EndsCut(s)
  <2> SUFFICES ASSUME s # <<>> PROVE s[Len(s)] # Cut
    BY DEF EndsCut
  <2>1. Len(s) \in 1..Len(s)
    BY EmptySeq, LenProperties
  <2> QED BY <2>1, ElementOfSeq, CutIsNoPacket
<1>2. WholeOf(s \o <<Cut>>) = s
  <2> DEFINE t == s \o <<Cut>>
  <2>1. s \in Seq(Pieces) /\ <<Cut>> \in Seq(Pieces) /\ Len(<<Cut>>) = 1 /\ <<Cut>>[1] = Cut
    BY SeqMonotonic DEF Pieces
  <2>2. /\ t \in Seq(Pieces) /\ Len(s) \in Nat /\ Len(t) = Len(s) + 1
        /\ \A i \in 1..Len(s) + 1 : t[i] = IF i <= Len(s) THEN s[i] ELSE <<Cut>>[i - Len(s)]
    BY <2>1, ConcatProperties, LenProperties
  <2> HIDE DEF t
  <2>3. t # <<>> /\ t[Len(t)] = Cut
    BY <2>1, <2>2, EmptySeq
  <2>4. /\ SubSeq(t, 1, Len(s)) \in Seq(Pieces) /\ Len(SubSeq(t, 1, Len(s))) = Len(s)
        /\ \A i \in 1..Len(s) : SubSeq(t, 1, Len(s))[i] = s[i]
    <3>1. \A i \in 1..Len(s) : t[i] \in Pieces /\ t[i] = s[i]
      BY <2>1, <2>2, ElementOfSeq
    <3> QED BY <2>2, <3>1, SubSeqProperties
  <2>5. SubSeq(t, 1, Len(s)) = s
    BY <2>1, <2>4, SeqEqual
  <2> QED BY <2>2, <2>3, <2>5 DEF WholeOf, EndsCut, t
<1> QED BY <1>1, <1>2 DEF WholeOf

\* The reader takes the first packet of a stream whose rest is as it was.
LEMMA WholeTail ==
  ASSUME NEW s \in Seq(Pieces), WholeOf(s) \in Seq(Packets),
         s # <<>>, Head(s) # Cut
  PROVE  /\ Head(s) \in Packets
         /\ Tail(s) \in Seq(Pieces)
         /\ WholeOf(Tail(s)) \in Seq(Packets)
         /\ WholeOf(s) = <<Head(s)>> \o WholeOf(Tail(s))
         /\ EndsCut(Tail(s)) => EndsCut(s)
<1>1. /\ Head(s) \in Packets /\ Tail(s) \in Seq(Pieces) /\ Len(Tail(s)) = Len(s) - 1
      /\ \A i \in 1..Len(Tail(s)) : Tail(s)[i] = s[i + 1]
      /\ Len(s) \in Nat /\ Len(s) >= 1 /\ Head(s) = s[1]
  <2>1. Head(s) = s[1]
    BY DEF Head
  <2> QED BY <2>1, HeadTailProperties, LenProperties, EmptySeq DEF Pieces
<1>2. SubSeq(s, 1, Len(s)) = s /\ SubSeq(s, 2, Len(s)) = Tail(s)
  BY SubSeqFull, TailIsSubSeq
<1>3. EndsCut(s) => Len(s) >= 2
  BY <1>1 DEF EndsCut
<1>4. EndsCut(Tail(s)) <=> EndsCut(s)
  <2>1. CASE Len(s) = 1
    <3>1. Tail(s) = <<>>
      BY <1>1, <2>1, EmptySeq
    <3> QED BY <1>3, <2>1, <3>1 DEF EndsCut
  <2>2. CASE Len(s) # 1
    <3>1. Tail(s) # <<>> /\ Tail(s)[Len(Tail(s))] = s[Len(s)]
      <4>1. /\ Len(Tail(s)) \in 1..Len(Tail(s)) /\ Len(Tail(s)) + 1 = Len(s)
            /\ Len(Tail(s)) > 0
        BY <1>1, <2>2
      <4>2. Tail(s)[Len(Tail(s))] = s[Len(Tail(s)) + 1]
        BY <1>1, <4>1
      <4>3. Len(<<>>) = 0
        BY EmptySeq, Zenon
      <4>4. Len(Tail(s)) # 0
        BY <4>1
      <4>5. Tail(s) # <<>>
        BY <4>3, <4>4, Zenon
      <4> QED BY <4>1, <4>2, <4>5
    <3> QED BY <3>1 DEF EndsCut
  <2> QED BY <2>1, <2>2
<1>5. CASE ~EndsCut(s)
  <2>1. s \in Seq(Packets)
    BY <1>5 DEF WholeOf
  <2>2. Tail(s) \in Seq(Packets)
    BY <2>1, HeadTailProperties
  <2>3. s = <<s[1]>> \o SubSeq(s, 2, Len(s))
    BY <1>1, <1>2, SubSeqRecursiveFirst
  <2> QED BY <1>1, <1>2, <1>4, <1>5, <2>2, <2>3 DEF WholeOf
<1>6. CASE EndsCut(s)
  <2> DEFINE w == SubSeq(s, 1, Len(s) - 1)
             t == SubSeq(s, 2, Len(s) - 1)
  <2>1. w \in Seq(Packets)
    BY <1>6 DEF WholeOf
  <2>2. w = <<s[1]>> \o t
    BY <1>1, <1>3, <1>6, SubSeqRecursiveFirst
  <2>3. t \in Seq(Packets) /\ SubSeq(Tail(s), 1, Len(Tail(s)) - 1) = t
    <3>1. /\ Len(w) = Len(s) - 1
          /\ \A i \in 1..Len(s) - 1 : w[i] = s[i]
      <4>1. \A i \in 1..(Len(s) - 1) : s[i] \in Pieces
        BY <1>1, ElementOfSeq
      <4> QED BY <1>1, <1>3, <1>6, <4>1, SubSeqProperties, Z3
    <3>2. \A i \in 2..(Len(s) - 1) : s[i] \in Packets
      BY <1>1, <2>1, <3>1, ElementOfSeq
    <3>3. /\ t \in Seq(Packets) /\ Len(t) = Len(s) - 2
          /\ \A i \in 1..(Len(s) - 2) : t[i] = s[i + 1]
      <4>1. /\ t \in Seq(Packets) /\ Len(t) = IF 2 <= Len(s) - 1 THEN Len(s) - 1 - 2 + 1 ELSE 0
            /\ \A i \in 1 .. Len(s) - 1 - 2 + 1 : t[i] = s[2 + i - 1]
        BY <1>1, <3>2, SubSeqProperties
      <4> HIDE DEF t
      <4>2. /\ Len(s) - 1 - 2 + 1 = Len(s) - 2
            /\ (IF 2 <= Len(s) - 1 THEN Len(s) - 1 - 2 + 1 ELSE 0) = Len(s) - 2
        BY <1>1, <1>3, <1>6
      <4>3. \A i \in 1..(Len(s) - 2) : 2 + i - 1 = i + 1
        OBVIOUS
      <4> QED BY <4>1, <4>2, <4>3, Zenon
    <3>4. SubSeq(Tail(s), 1, Len(Tail(s)) - 1) = t
      <4> DEFINE u == SubSeq(Tail(s), 1, Len(Tail(s)) - 1)
      <4>1. \A i \in 1..(Len(Tail(s)) - 1) : Tail(s)[i] = s[i + 1] /\ Tail(s)[i] \in Packets
        BY <1>1, <3>2
      <4>2. /\ u \in Seq(Packets)
            /\ Len(u) = IF 1 <= Len(Tail(s)) - 1 THEN Len(Tail(s)) - 1 - 1 + 1 ELSE 0
            /\ \A i \in 1 .. Len(Tail(s)) - 1 - 1 + 1 : u[i] = Tail(s)[1 + i - 1]
        BY <1>1, <4>1, SubSeqProperties
      <4> HIDE DEF t, u
      <4>3. Len(u) = Len(t) /\ \A i \in 1..Len(u) : u[i] = t[i]
        <5>1. /\ Len(Tail(s)) - 1 - 1 + 1 = Len(s) - 2 /\ Len(Tail(s)) - 1 = Len(s) - 2
              /\ (IF 1 <= Len(Tail(s)) - 1 THEN Len(Tail(s)) - 1 - 1 + 1 ELSE 0) = Len(s) - 2
          BY <1>1, <1>3, <1>6
        <5>2. \A i \in 1..(Len(s) - 2) : 1 + i - 1 = i
          OBVIOUS
        <5>3. Len(u) = Len(s) - 2 /\ \A i \in 1..(Len(s) - 2) : u[i] = Tail(s)[i]
          BY <4>2, <5>1, <5>2, Zenon
        <5> QED BY <3>3, <4>1, <5>1, <5>3, Zenon
      <4> QED BY <3>3, <4>2, <4>3, SeqEqual DEF u
    <3> QED BY <3>3, <3>4
  <2> HIDE DEF t
  <2> QED BY <1>1, <1>4, <1>6, <2>2, <2>3 DEF WholeOf
<1> QED BY <1>5, <1>6

-------------------------------------------------------------------------------
(***************************************************************************)
(* Type correctness.                                                       *)
(***************************************************************************)

\* A client's step on a connection keeps the types of the connections.
LEMMA ConnTypeStep == TypeOK /\ (\E c \in Conns : ClientStep(c)) => ConnTypeOK'
<1> SUFFICES ASSUME TypeOK, NEW c \in Conns, ClientStep(c) PROVE ConnTypeOK'
  OBVIOUS
<1>1. /\ sock \in [Conns -> {"new", "checked", "open", "failed", "closed"}]
      /\ job \in [Jobs -> {"none", "running", "hung", "done"}]
      /\ listening \in BOOLEAN /\ backlog \in Seq(Conns)
      /\ peer \in [Conns -> {"none", "backlog", "accepted", "gone"}]
      /\ stream \in [Conns -> Seq(Pieces)]
      /\ written \in [Conns -> Seq(Packets)]
  BY DEF TypeOK, ConnTypeOK, Pieces
<1>2. ASSUME Check(c) \/ DialFails(c) PROVE ConnTypeOK'
  BY <1>2 DEF Check, DialFails, TypeOK, ConnTypeOK, linkVars
<1>3. ASSUME Dial(c) PROVE ConnTypeOK'
  <2>1. backlog' \in Seq(Conns)
    BY <1>1, <1>3, AppendProperties DEF Dial
  <2> QED BY <1>3, <2>1 DEF Dial, TypeOK, ConnTypeOK
<1>4. ASSUME NEW m \in Msgs, Write(c, m) PROVE ConnTypeOK'
  <2>1. Len(written[c]) \in Nat /\ Len(written[c]) < MaxWrites
    BY <1>1, <1>4, LenProperties DEF Write
  <2>2. Packet(c, m) \in Packets
    BY <2>1, ConnAssumption DEF Packet, Packets
  <2>3. Append(stream[c], Packet(c, m)) \in Seq(Pieces)
    BY <1>1, <2>2, AppendProperties DEF Pieces
  <2>4. Append(written[c], Packet(c, m)) \in Seq(Packets)
    BY <1>1, <2>2, AppendProperties
  <2>5. stream' \in [Conns -> Seq(Pieces)] /\ written' \in [Conns -> Seq(Packets)]
    BY <1>1, <1>4, <2>3, <2>4 DEF Write
  <2> QED BY <1>4, <2>5 DEF Write, TypeOK, ConnTypeOK, linkVars, Pieces
<1>5. ASSUME NEW m \in Msgs, WriteFails(c, m) PROVE ConnTypeOK'
  <2>1. PICK rest \in {<<>>, <<Cut>>} :
          stream' = [stream EXCEPT ![c] = IF Connected(c) THEN @ \o rest ELSE @]
    BY <1>5 DEF WriteFails, Remains
  <2>2. rest \in Seq(Pieces)
    <3>1. <<>> \in Seq(Pieces) /\ <<Cut>> \in Seq(Pieces)
      BY DEF Pieces
    <3> QED BY <3>1
  <2>3. stream[c] \o rest \in Seq(Pieces)
    BY <1>1, <2>2, ConcatProperties
  <2>4. stream' \in [Conns -> Seq(Pieces)]
    BY <1>1, <2>1, <2>3
  <2> QED BY <1>5, <2>4 DEF WriteFails, TypeOK, ConnTypeOK, linkVars, Pieces
<1>6. ASSUME CloseSend(c) PROVE ConnTypeOK'
  <2>1. job' \in [Jobs -> {"none", "running", "hung", "done"}]
    BY <1>1, <1>6 DEF CloseSend
  <2> QED BY <1>6, <2>1 DEF CloseSend, TypeOK, ConnTypeOK, linkVars
<1>7. ASSUME NEW n \in 1..MaxCloses, CloseReturns(<<c, n>>) \/ CloseHangs(<<c, n>>)
      PROVE  ConnTypeOK'
  <2>1. <<c, n>>[1] = c /\ job' \in [Jobs -> {"none", "running", "hung", "done"}]
    BY <1>1, <1>7 DEF CloseReturns, CloseHangs
  <2>2. sock' \in [Conns -> {"new", "checked", "open", "failed", "closed"}]
    BY <1>1, <1>7, <2>1 DEF CloseReturns, CloseHangs
  <2> QED BY <1>7, <2>1, <2>2 DEF CloseReturns, CloseHangs, TypeOK, ConnTypeOK, linkVars
<1> QED BY <1>2, <1>3, <1>4, <1>5, <1>6, <1>7 DEF ClientStep

\* A reader with something to pass on has decoded one record, no other has.
Decoded == \A c \in Conns : IF reader[c] = "put" THEN \E p \in Packets : decoded[c] = <<p>>
                            ELSE decoded[c] = <<>>

\* The server's steps keep the types of both sides.
LEMMA ServerTypeStep == TypeOK /\ Decoded /\ ServerStep => TypeOK'
<1> SUFFICES ASSUME TypeOK, Decoded, ServerStep PROVE TypeOK'
  OBVIOUS
<1>1. /\ backlog \in Seq(Conns)
      /\ peer \in [Conns -> {"none", "backlog", "accepted", "gone"}]
      /\ stream \in [Conns -> Seq(Pieces)]
      /\ written \in [Conns -> Seq(Packets)]
      /\ decoded \in [Conns -> Seq(Packets)] /\ received \in [Conns -> Seq(Packets)]
      /\ msgCh \in Seq(Conns \X Packets) /\ Len(msgCh) \in Nat
  BY LenProperties DEF TypeOK, ConnTypeOK, ServerTypeOK, Pieces
<1>2. ASSUME Listen PROVE TypeOK'
  BY <1>2 DEF Listen, TypeOK, ConnTypeOK, ServerTypeOK, readerVars
<1>3. ASSUME Accept PROVE TypeOK'
  <2>1. Head(backlog) \in Conns /\ backlog' \in Seq(Conns)
    BY <1>1, <1>3, HeadTailProperties DEF Accept
  <2> QED BY <1>3, <2>1 DEF Accept, TypeOK, ConnTypeOK, ServerTypeOK
<1>4. ASSUME StopListening PROVE TypeOK'
  <2>1. stream' \in [Conns -> Seq(Pieces)]
    BY <1>1, <1>4, EmptySeq DEF StopListening
  <2>2. peer' \in [Conns -> {"none", "backlog", "accepted", "gone"}]
    BY <1>1, <1>4 DEF StopListening
  <2>3. backlog' \in Seq(Conns) /\ listening' \in BOOLEAN
    BY <1>4, EmptySeq DEF StopListening
  <2> QED BY <1>4, <2>1, <2>2, <2>3
          DEF StopListening, TypeOK, ConnTypeOK, ServerTypeOK, readerVars, Pieces
<1>5. ASSUME NEW c \in Conns, Read(c) PROVE TypeOK'
  <2>1. Head(stream[c]) \in Packets /\ Tail(stream[c]) \in Seq(Pieces)
    BY <1>1, <1>5, HeadTailProperties DEF Read, Pieces
  <2>2. <<Head(stream[c])>> \in Seq(Packets) /\ <<>> \in Seq(Pieces)
    BY <2>1, EmptySeq
  <2>3. stream' \in [Conns -> Seq(Pieces)] /\ decoded' \in [Conns -> Seq(Packets)]
    BY <1>1, <1>5, <2>1, <2>2 DEF Read
  <2> QED BY <1>5, <2>3 DEF Read, TypeOK, ConnTypeOK, ServerTypeOK, Pieces
<1>6. ASSUME NEW c \in Conns, ReadFails(c) PROVE TypeOK'
  BY <1>6 DEF ReadFails, TypeOK, ConnTypeOK, ServerTypeOK, connVars, linkVars
<1>7. ASSUME NEW c \in Conns, Put(c) PROVE TypeOK'
  <2>1. PICK p \in Packets : decoded[c] = <<p>>
    BY <1>7 DEF Put, Decoded
  <2>2. msgCh' = Append(msgCh, <<c, p>>) /\ <<c, p>> \in Conns \X Packets
    BY <1>7, <2>1 DEF Put
  <2>3. msgCh' \in Seq(Conns \X Packets) /\ Len(msgCh') = Len(msgCh) + 1
    BY <1>1, <2>2, AppendProperties
  <2>4. Len(msgCh') <= MsgChCap
    BY <1>1, <1>7, <2>3 DEF Put, MsgChCap
  <2>5. decoded' \in [Conns -> Seq(Packets)] /\ reader' \in [Conns -> {"none", "decode", "put", "done"}]
    BY <1>1, <1>7, EmptySeq DEF Put, TypeOK, ServerTypeOK
  <2> QED BY <1>7, <2>3, <2>4, <2>5
          DEF Put, TypeOK, ConnTypeOK, ServerTypeOK, connVars, linkVars
<1>8. ASSUME Take PROVE TypeOK'
  <2>1. /\ Head(msgCh)[1] \in Conns /\ Head(msgCh)[2] \in Packets
        /\ msgCh' \in Seq(Conns \X Packets) /\ Len(msgCh') = Len(msgCh) - 1
    BY <1>1, <1>8, HeadTailProperties DEF Take
  <2>2. Append(received[Head(msgCh)[1]], Head(msgCh)[2]) \in Seq(Packets)
    BY <1>1, <2>1, AppendProperties
  <2>3. received' \in [Conns -> Seq(Packets)]
    BY <1>1, <1>8, <2>1, <2>2 DEF Take
  <2>4. Len(msgCh') <= MsgChCap
    BY <1>1, <2>1 DEF TypeOK, ServerTypeOK, MsgChCap
  <2> QED BY <1>8, <2>1, <2>3, <2>4
          DEF Take, TypeOK, ConnTypeOK, ServerTypeOK, connVars, linkVars
<1> QED BY <1>2, <1>3, <1>4, <1>5, <1>6, <1>7, <1>8 DEF ServerStep


-------------------------------------------------------------------------------
(***************************************************************************)
(* The ends of a connection.                                               *)
(***************************************************************************)

\* What the client's end says of the server's, and of the stream between them:
\* nothing was dialled, nothing written or closed; only a client that can still
\* write leaves no fragment.
EndsAgree ==
  \A c \in Conns :
    /\ peer[c] = "none" <=> sock[c] \in {"new", "checked"}
    /\ peer[c] = "none" => /\ \A n \in 1..MaxCloses : job[<<c, n>>] = "none"
                           /\ written[c] = <<>>
    /\ peer[c] \in {"none", "gone"} => stream[c] = <<>>
    /\ sock[c] = "open" => stream[c] \in Seq(Packets)
    /\ WholeOf(stream[c]) \in Seq(Packets)

\* What the server's end says of its reader: only an accepted connection has
\* one that runs, and a connection without a reader has brought nothing.
ReadersAgree ==
  \A c \in Conns :
    /\ peer[c] \in {"none", "backlog"} => reader[c] = "none"
    /\ peer[c] = "accepted" => reader[c] # "none"
    /\ peer[c] = "gone" => reader[c] # "decode" /\ reader[c] # "put"
    /\ reader[c] = "none" => received[c] = <<>> /\ InCh(c) = <<>>

\* A connection waits for the listener once.
BacklogIsOnce ==
  \A i \in DOMAIN backlog :
    /\ peer[backlog[i]] = "backlog"
    /\ \A j \in DOMAIN backlog : backlog[i] = backlog[j] => i = j

\* All of it.
Ends == Decoded /\ EndsAgree /\ ReadersAgree /\ BacklogIsOnce


\* The types the steps below need, of one connection.
LEMMA TypesOf ==
  ASSUME TypeOK
  PROVE  /\ backlog \in Seq(Conns) /\ msgCh \in Seq(Conns \X Packets)
         /\ Len(msgCh) \in Nat /\ Len(msgCh) <= 1 /\ (Len(msgCh) < 1 => msgCh = <<>>)
         /\ msgCh # <<>> => Tail(msgCh) = <<>>
         /\ \A c \in Conns : /\ stream[c] \in Seq(Pieces) /\ written[c] \in Seq(Packets)
                             /\ received[c] \in Seq(Packets) /\ decoded[c] \in Seq(Packets)
<1>1. /\ backlog \in Seq(Conns) /\ msgCh \in Seq(Conns \X Packets) /\ Len(msgCh) <= 1
      /\ \A c \in Conns : /\ stream[c] \in Seq(Pieces) /\ written[c] \in Seq(Packets)
                          /\ received[c] \in Seq(Packets) /\ decoded[c] \in Seq(Packets)
  BY DEF TypeOK, ConnTypeOK, ServerTypeOK, MsgChCap, Pieces
<1>2. msgCh # <<>> => Len(msgCh) \in Nat \ {0}
  BY <1>1, EmptySeq
<1>3. Len(msgCh) \in Nat
  BY <1>1, LenProperties
<1>4. msgCh # <<>> => Tail(msgCh) = <<>>
  <2> SUFFICES ASSUME msgCh # <<>> PROVE Tail(msgCh) = <<>>
    OBVIOUS
  <2>1. Tail(msgCh) \in Seq(Conns \X Packets) /\ Len(Tail(msgCh)) = Len(msgCh) - 1
    BY <1>1, HeadTailProperties
  <2>2. Tail(msgCh) # <<>> => Len(Tail(msgCh)) \in Nat \ {0}
    BY <2>1, EmptySeq
  <2> QED BY <1>1, <1>3, <2>1, <2>2
<1> QED BY <1>1, <1>2, <1>3, <1>4

\* A client's step concerns the ends of its connection and the stream.
LEMMA EndsClient ==
  ASSUME TypeOK, Ends, NEW c \in Conns, ClientStep(c), UNCHANGED <<up, readerVars>>
  PROVE  Ends'
<1>1. /\ sock \in [Conns -> {"new", "checked", "open", "failed", "closed"}]
      /\ job \in [Jobs -> {"none", "running", "hung", "done"}]
      /\ peer \in [Conns -> {"none", "backlog", "accepted", "gone"}]
      /\ stream \in [Conns -> Seq(Pieces)]
      /\ written \in [Conns -> Seq(Packets)]
  BY DEF TypeOK, ConnTypeOK, Pieces
<1>2. Decoded'
  BY DEF Ends, Decoded, readerVars
<1>3. ReadersAgree'
  <2>1. UNCHANGED <<reader, received, msgCh>>
    BY DEF readerVars
  <2>2. CASE peer' = peer
    BY <2>1, <2>2 DEF Ends, ReadersAgree, InCh
  <2>3. CASE peer' # peer
    <3>1. Dial(c)
      BY <2>3 DEF ClientStep, Check, DialFails, Write, WriteFails, CloseSend,
                  CloseReturns, CloseHangs, linkVars
    <3>2. peer' = [peer EXCEPT ![c] = "backlog"] /\ peer[c] = "none"
      BY <3>1 DEF Dial, Ends, EndsAgree
    <3> QED BY <1>1, <2>1, <3>2 DEF Ends, ReadersAgree, InCh
  <2> QED BY <2>2, <2>3
<1>4. BacklogIsOnce'
  <2>1. CASE peer' = peer /\ backlog' = backlog
    BY <2>1 DEF Ends, BacklogIsOnce
  <2>2. CASE ~(peer' = peer /\ backlog' = backlog)
    <3>1. Dial(c)
      BY <2>2 DEF ClientStep, Check, DialFails, Write, WriteFails, CloseSend,
                  CloseReturns, CloseHangs, linkVars
    <3>2. /\ peer' = [peer EXCEPT ![c] = "backlog"] /\ peer[c] = "none"
          /\ backlog' = Append(backlog, c)
      BY <3>1 DEF Dial, Ends, EndsAgree
    <3>3. /\ backlog \in Seq(Conns) /\ backlog' \in Seq(Conns)
          /\ Len(backlog) \in Nat /\ DOMAIN backlog = 1..Len(backlog)
          /\ DOMAIN backlog' = 1..(Len(backlog) + 1)
          /\ \A i \in 1..Len(backlog) : backlog'[i] = backlog[i] /\ backlog[i] \in Conns
          /\ backlog'[Len(backlog) + 1] = c
      BY <3>2, TypesOf, AppendProperties, LenProperties, ElementOfSeq
    <3>4. \A i \in 1..Len(backlog) : peer[backlog[i]] = "backlog" /\ backlog[i] # c
      BY <3>2, <3>3 DEF Ends, BacklogIsOnce
    <3>5. \A i \in DOMAIN backlog' : i \in 1..Len(backlog) \/ i = Len(backlog) + 1
      BY <3>3
    <3>6. \A i \in DOMAIN backlog' : peer'[backlog'[i]] = "backlog"
      BY <1>1, <3>2, <3>3, <3>4, <3>5
    <3>7. \A i, j \in DOMAIN backlog' : backlog'[i] = backlog'[j] => i = j
      BY <3>3, <3>4, <3>5 DEF Ends, BacklogIsOnce
    <3> QED BY <3>6, <3>7 DEF BacklogIsOnce
  <2> QED BY <2>1, <2>2
<1>5. EndsAgree'
  <2>1. ASSUME Check(c) \/ DialFails(c) PROVE EndsAgree'
    BY <1>1, <2>1 DEF Check, DialFails, linkVars, Ends, EndsAgree
  <2>2. ASSUME Dial(c) PROVE EndsAgree'
    <3>1. peer[c] = "none" /\ stream[c] = <<>> /\ <<>> \in Seq(Packets)
      BY <2>2, EmptySeq DEF Dial, Ends, EndsAgree
    <3> QED BY <1>1, <2>2, <3>1 DEF Dial, Ends, EndsAgree
  <2>3. ASSUME NEW m \in Msgs, Write(c, m) PROVE EndsAgree'
    <3>1. Len(written[c]) \in Nat /\ Len(written[c]) < MaxWrites
      BY <1>1, <2>3, LenProperties DEF Write
    <3>2. Packet(c, m) \in Packets
      BY <3>1, ConnAssumption DEF Packet, Packets
    <3>3. Append(stream[c], Packet(c, m)) \in Seq(Packets)
      BY <2>3, <3>2, AppendProperties DEF Write, Ends, EndsAgree
    <3>4. WholeOf(Append(stream[c], Packet(c, m))) \in Seq(Packets)
      BY <3>3, WholeOfPackets
    <3>5. /\ stream'[c] = Append(stream[c], Packet(c, m))
          /\ peer'[c] \notin {"none", "gone"} /\ sock'[c] = "open"
          /\ UNCHANGED <<sock, peer, job>>
          /\ \A d \in Conns : d # c => stream'[d] = stream[d] /\ written'[d] = written[d]
      BY <1>1, <2>3 DEF Write, Connected, linkVars
    <3> QED BY <3>3, <3>4, <3>5 DEF Ends, EndsAgree
  <2>4. ASSUME NEW m \in Msgs, WriteFails(c, m) PROVE EndsAgree'
    <3>1. PICK rest \in {<<>>, <<Cut>>} :
            stream' = [stream EXCEPT ![c] = IF Connected(c) THEN @ \o rest ELSE @]
      BY <2>4 DEF WriteFails, Remains
    <3>2. stream[c] \in Seq(Packets)
      BY <2>4 DEF WriteFails, Ends, EndsAgree
    <3>3. stream[c] \o <<>> = stream[c]
      BY <3>2, ConcatEmptySeq
    <3>4. WholeOf(stream[c]) = stream[c] /\ WholeOf(stream[c] \o <<Cut>>) = stream[c]
      BY <3>2, WholeOfPackets
    <3>5. /\ WholeOf(stream'[c]) \in Seq(Packets)
          /\ ~Connected(c) => stream'[c] = stream[c]
          /\ \A d \in Conns : d # c => stream'[d] = stream[d]
      BY <1>1, <3>1, <3>2, <3>3, <3>4
    <3>6. /\ sock[c] = "open" /\ sock'[c] = "failed" /\ UNCHANGED <<job, peer, written>>
          /\ \A d \in Conns : d # c => sock'[d] = sock[d]
      BY <1>1, <2>4 DEF WriteFails, linkVars
    <3> QED BY <1>1, <3>5, <3>6 DEF Ends, EndsAgree, Connected
  <2>5. ASSUME CloseSend(c) PROVE EndsAgree'
    <3>1. /\ peer[c] # "none" /\ UNCHANGED <<sock, peer, stream, written>>
      BY <2>5 DEF CloseSend, linkVars, Ends, EndsAgree
    <3>2. \A d \in Conns, n \in 1..MaxCloses : d # c => job'[<<d, n>>] = job[<<d, n>>]
      BY <1>1, <2>5 DEF CloseSend, Jobs
    <3> QED BY <3>1, <3>2 DEF Ends, EndsAgree
  <2>6. ASSUME NEW n \in 1..MaxCloses, CloseReturns(<<c, n>>) \/ CloseHangs(<<c, n>>)
        PROVE  EndsAgree'
    <3>1. /\ job[<<c, n>>] = "running" /\ UNCHANGED <<peer, stream, written>>
          /\ sock' = sock \/ sock' = [sock EXCEPT ![c] = "closed"]
      BY <2>6 DEF CloseReturns, CloseHangs, linkVars
    <3>2. peer[c] # "none"
      BY <3>1 DEF Ends, EndsAgree
    <3>3. \A d \in Conns, k \in 1..MaxCloses : d # c => job'[<<d, k>>] = job[<<d, k>>]
      BY <1>1, <2>6 DEF CloseReturns, CloseHangs, Jobs
    <3>4. /\ sock[c] \notin {"new", "checked"} /\ sock'[c] \notin {"new", "checked"}
          /\ sock'[c] = "open" => sock[c] = "open"
          /\ \A d \in Conns : d # c => sock'[d] = sock[d]
      BY <1>1, <3>1, <3>2 DEF Ends, EndsAgree
    <3> QED BY <3>1, <3>2, <3>3, <3>4 DEF Ends, EndsAgree
  <2> QED BY <2>1, <2>2, <2>3, <2>4, <2>5, <2>6 DEF ClientStep
<1> QED BY <1>2, <1>3, <1>4, <1>5 DEF Ends


\* The server's steps concern one connection each, but for the end of the
\* listener.
LEMMA EndsServer == TypeOK /\ Ends /\ ServerStep => Ends'
<1> SUFFICES ASSUME TypeOK, Ends, ServerStep PROVE Ends'
  OBVIOUS
<1>1. /\ peer \in [Conns -> {"none", "backlog", "accepted", "gone"}]
      /\ reader \in [Conns -> {"none", "decode", "put", "done"}]
      /\ stream \in [Conns -> Seq(Pieces)]
      /\ decoded \in [Conns -> Seq(Packets)] /\ received \in [Conns -> Seq(Packets)]
  BY DEF TypeOK, ConnTypeOK, ServerTypeOK, Pieces
<1>2. ASSUME Listen PROVE Ends'
  BY <1>2 DEF Listen, readerVars, Ends, Decoded, EndsAgree, ReadersAgree, BacklogIsOnce, InCh
<1>3. ASSUME Accept PROVE Ends'
  <2> DEFINE c == Head(backlog)
  <2>1. /\ backlog \in Seq(Conns) /\ backlog # <<>> /\ c \in Conns
        /\ backlog' \in Seq(Conns) /\ Len(backlog') = Len(backlog) - 1
        /\ DOMAIN backlog = 1..Len(backlog) /\ DOMAIN backlog' = 1..Len(backlog')
        /\ \A i \in 1..Len(backlog') : backlog'[i] = backlog[i + 1]
        /\ Len(backlog) \in Nat \ {0} /\ c = backlog[1]
    <3>1. Head(backlog) = backlog[1]
      BY DEF Head
    <3> QED BY <1>3, <3>1, TypesOf, HeadTailProperties, LenProperties, EmptySeq DEF Accept
  <2> HIDE DEF c
  <2>2. 1 \in DOMAIN backlog /\ \A i \in DOMAIN backlog' : i + 1 \in DOMAIN backlog /\ i + 1 # 1
    BY <2>1
  <2>3. peer[c] = "backlog" /\ \A i \in DOMAIN backlog' : backlog'[i] # c
    BY <2>1, <2>2 DEF Ends, BacklogIsOnce
  <2>4. /\ peer' = [peer EXCEPT ![c] = "accepted"]
        /\ reader' = [reader EXCEPT ![c] = "decode"]
        /\ UNCHANGED <<sock, job, stream, written, decoded, msgCh, received>>
    BY <1>3 DEF Accept, c
  <2>5. Decoded'
    <3>1. reader[c] = "none"
      BY <2>1, <2>3 DEF Ends, ReadersAgree
    <3> QED BY <1>1, <2>1, <2>4, <3>1 DEF Ends, Decoded
  <2>6. EndsAgree'
    BY <1>1, <2>1, <2>3, <2>4 DEF Ends, EndsAgree
  <2>7. ReadersAgree'
    BY <1>1, <2>1, <2>3, <2>4 DEF Ends, ReadersAgree, InCh
  <2>8. BacklogIsOnce'
    <3>0. \A i \in DOMAIN backlog' : backlog'[i] \in Conns
      BY <2>1, ElementOfSeq
    <3>1. \A i \in DOMAIN backlog' : peer'[backlog'[i]] = "backlog"
      BY <1>1, <2>1, <2>2, <2>3, <2>4, <3>0 DEF Ends, BacklogIsOnce
    <3>2. \A i, j \in DOMAIN backlog' : backlog'[i] = backlog'[j] => i + 1 = j + 1
      BY <2>1, <2>2 DEF Ends, BacklogIsOnce
    <3>3. \A i, j \in DOMAIN backlog' : i + 1 = j + 1 => i = j
      BY <2>1
    <3> QED BY <3>1, <3>2, <3>3 DEF BacklogIsOnce
  <2> QED BY <2>5, <2>6, <2>7, <2>8 DEF Ends
<1>4. ASSUME StopListening PROVE Ends'
  <2>1. /\ \A c \in Conns : IF peer[c] = "backlog"
                            THEN peer'[c] = "gone" /\ stream'[c] = <<>>
                            ELSE peer'[c] = peer[c] /\ stream'[c] = stream[c]
        /\ backlog' = <<>>
        /\ UNCHANGED <<sock, job, written, reader, decoded, msgCh, received>>
    BY <1>1, <1>4 DEF StopListening, readerVars, Orphans
  <2>2. <<>> \in Seq(Packets) /\ WholeOf(<<>>) = <<>>
    BY WholeOfPackets, EmptySeq
  <2>3. EndsAgree'
    BY <2>1, <2>2 DEF Ends, EndsAgree
  <2>4. ReadersAgree'
    BY <2>1 DEF Ends, ReadersAgree, InCh
  <2>5. BacklogIsOnce'
    BY <2>1 DEF BacklogIsOnce
  <2> QED BY <2>1, <2>3, <2>4, <2>5 DEF Ends, Decoded
<1>5. ASSUME NEW c \in Conns, Read(c) PROVE Ends'
  <2> DEFINE s == stream[c]
  <2>1. /\ s \in Seq(Pieces) /\ WholeOf(s) \in Seq(Packets) /\ s # <<>> /\ Head(s) # Cut
        /\ sock[c] = "open" => s \in Seq(Packets)
    BY <1>1, <1>5 DEF Read, Ends, EndsAgree
  <2>2. /\ Head(s) \in Packets /\ WholeOf(Tail(s)) \in Seq(Packets)
        /\ sock[c] = "open" => Tail(s) \in Seq(Packets)
    BY <2>1, WholeTail, HeadTailProperties
  <2>3. <<>> \in Seq(Packets) /\ WholeOf(<<>>) = <<>>
    BY WholeOfPackets, EmptySeq
  <2>4. peer[c] = "accepted"
    BY <1>1, <1>5, <2>1 DEF Read, Ends, EndsAgree, ReadersAgree
  <2>5. /\ UNCHANGED <<sock, job, backlog, written, msgCh, received>>
        /\ \A d \in Conns : d # c => /\ peer'[d] = peer[d] /\ reader'[d] = reader[d]
                                     /\ stream'[d] = stream[d] /\ decoded'[d] = decoded[d]
        /\ \/ /\ reader'[c] = "done" /\ peer'[c] = "gone" /\ stream'[c] = <<>>
              /\ decoded'[c] = decoded[c]
           \/ /\ reader'[c] = "put" /\ peer'[c] = peer[c] /\ stream'[c] = Tail(s)
              /\ decoded'[c] = <<Head(s)>>
        /\ reader[c] = "decode"
    BY <1>1, <1>5 DEF Read
  <2> HIDE DEF s
  <2>6. Decoded'
    BY <2>2, <2>5 DEF Ends, Decoded
  <2>7. EndsAgree'
    BY <2>2, <2>3, <2>4, <2>5 DEF Ends, EndsAgree
  <2>8. ReadersAgree'
    BY <2>4, <2>5 DEF Ends, ReadersAgree, InCh
  <2>9. BacklogIsOnce'
    <3>1. \A i \in DOMAIN backlog : backlog[i] \in Conns
      BY TypesOf, ElementOfSeq, LenProperties
    <3>2. \A i \in DOMAIN backlog : backlog[i] # c
      BY <2>4 DEF Ends, BacklogIsOnce
    <3> QED BY <2>5, <3>1, <3>2 DEF Ends, BacklogIsOnce
  <2> QED BY <2>6, <2>7, <2>8, <2>9 DEF Ends
<1>6. ASSUME NEW c \in Conns, ReadFails(c) PROVE Ends'
  <2>1. /\ reader[c] = "decode" /\ reader'[c] = "done"
        /\ \A d \in Conns : d # c => reader'[d] = reader[d]
        /\ UNCHANGED <<sock, job, backlog, peer, stream, written, decoded, msgCh, received>>
    BY <1>1, <1>6 DEF ReadFails, connVars, linkVars
  <2> QED BY <2>1 DEF Ends, Decoded, EndsAgree, ReadersAgree, BacklogIsOnce, InCh
<1>7. ASSUME NEW c \in Conns, Put(c) PROVE Ends'
  <2>1. PICK p \in Packets : decoded[c] = <<p>>
    BY <1>7 DEF Put, Ends, Decoded
  <2>2. /\ reader[c] = "put" /\ reader'[c] = "decode" /\ decoded'[c] = <<>>
        /\ \A d \in Conns : d # c => reader'[d] = reader[d] /\ decoded'[d] = decoded[d]
        /\ UNCHANGED <<sock, job, backlog, peer, stream, written, received>>
        /\ msgCh' = <<<<c, p>>>>
    <3>1. msgCh = <<>>
      BY <1>7, TypesOf DEF Put, MsgChCap
    <3> QED BY <1>1, <1>7, <2>1, <3>1 DEF Put, connVars, linkVars
  <2>3. \A d \in Conns : d # c => InCh(d)' = <<>>
    BY <2>2 DEF InCh
  <2>4. ReadersAgree'
    BY <1>1, <2>2, <2>3 DEF Ends, ReadersAgree
  <2>5. Decoded' /\ EndsAgree' /\ BacklogIsOnce'
    BY <2>2 DEF Ends, Decoded, EndsAgree, BacklogIsOnce
  <2> QED BY <2>4, <2>5 DEF Ends
<1>8. ASSUME Take PROVE Ends'
  <2> DEFINE c == Head(msgCh)[1]
  <2>1. /\ msgCh # <<>> /\ msgCh' = Tail(msgCh)
        /\ c \in Conns /\ \A d \in Conns : d # c => received'[d] = received[d]
        /\ UNCHANGED <<sock, job, backlog, peer, stream, written, reader, decoded>>
    <3>1. Head(msgCh) \in Conns \X Packets
      BY <1>8, TypesOf, HeadTailProperties DEF Take
    <3> QED BY <1>1, <1>8, <3>1 DEF Take, connVars, linkVars
  <2>2. msgCh' = <<>>
    BY <2>1, TypesOf
  <2>3. reader[c] # "none"
    <3>1. InCh(c) # <<>>
      BY <2>1 DEF InCh
    <3> QED BY <2>1, <3>1 DEF Ends, ReadersAgree
  <2> HIDE DEF c
  <2>4. ReadersAgree'
    BY <1>1, <2>1, <2>2, <2>3 DEF Ends, ReadersAgree, InCh
  <2>5. Decoded' /\ EndsAgree' /\ BacklogIsOnce'
    BY <2>1 DEF Ends, Decoded, EndsAgree, BacklogIsOnce
  <2> QED BY <2>4, <2>5 DEF Ends
<1> QED BY <1>2, <1>3, <1>4, <1>5, <1>6, <1>7, <1>8 DEF ServerStep


\* Nothing is there before the server is made and a connection tried.
LEMMA ServerInitHolds == Init => TypeOK /\ Ends /\ InOrder
<1> SUFFICES ASSUME Init PROVE TypeOK /\ Ends /\ InOrder
  OBVIOUS
<1>1. /\ <<>> \in Seq(Packets) /\ <<>> \in Seq(Pieces) /\ <<>> \in Seq(Conns)
      /\ <<>> \in Seq(Conns \X Packets) /\ Len(<<>>) = 0 /\ DOMAIN <<>> = {}
  BY EmptySeq
<1>2. WholeOf(<<>>) = <<>>
  BY <1>1, WholeOfPackets
<1>3. TypeOK
  <2>1. ConnTypeOK
    BY <1>1 DEF Init, ConnInit, ConnTypeOK, Pieces
  <2>2. msgCh \in Seq(Conns \X Packets) /\ Len(msgCh) <= MsgChCap
    BY <1>1 DEF Init, ServerInit, MsgChCap
  <2>3. /\ up \in BOOLEAN /\ reader \in [Conns -> {"none", "decode", "put", "done"}]
        /\ decoded \in [Conns -> Seq(Packets)] /\ received \in [Conns -> Seq(Packets)]
    BY <1>1 DEF Init, ServerInit
  <2> QED BY <2>1, <2>2, <2>3 DEF TypeOK, ServerTypeOK
<1>4. Ends
  <2>1. Decoded
    BY DEF Init, ConnInit, ServerInit, Decoded
  <2>2. EndsAgree
    BY <1>1, <1>2, ConnAssumption DEF Init, ConnInit, ServerInit, EndsAgree, Jobs
  <2>3. ReadersAgree
    BY DEF Init, ConnInit, ServerInit, ReadersAgree, InCh
  <2>4. BacklogIsOnce
    BY <1>1 DEF Init, ConnInit, ServerInit, BacklogIsOnce
  <2> QED BY <2>1, <2>2, <2>3, <2>4 DEF Ends
<1>5. InOrder
  <2> SUFFICES ASSUME NEW c \in Conns
               PROVE  Passed(c) = <<>> /\ Whole(c) = <<>> /\ written[c] = <<>> /\ peer[c] # "gone"
    BY <1>1, ConcatEmptySeq DEF InOrder
  <2>1. received[c] = <<>> /\ InCh(c) = <<>> /\ decoded[c] = <<>>
    BY DEF Init, ServerInit, InCh
  <2> QED BY <1>1, <1>2, <2>1, ConcatEmptySeq DEF Init, ConnInit, Passed, Whole
<1> QED BY <1>3, <1>4, <1>5

\* A step is the server's or the client's.
LEMMA EndsStep == TypeOK /\ Ends /\ [Next]_vars => (TypeOK /\ Ends)'
<1> SUFFICES ASSUME TypeOK, Ends, [Next]_vars PROVE (TypeOK /\ Ends)'
  OBVIOUS
<1>1. ASSUME ServerStep PROVE (TypeOK /\ Ends)'
  BY <1>1, ServerTypeStep, EndsServer DEF Ends
<1>2. ASSUME ConnStep PROVE (TypeOK /\ Ends)'
  <2>1. ConnTypeOK'
    BY <1>2, ConnTypeStep DEF ConnStep
  <2>2. ServerTypeOK'
    BY <1>2 DEF ConnStep, readerVars, TypeOK, ServerTypeOK
  <2>3. Ends'
    BY <1>2, EndsClient DEF ConnStep
  <2> QED BY <2>1, <2>2, <2>3 DEF TypeOK
<1>3. CASE UNCHANGED vars
  BY <1>3 DEF vars, connVars, linkVars, readerVars, TypeOK, ConnTypeOK, ServerTypeOK,
              Ends, Decoded, EndsAgree, ReadersAgree, BacklogIsOnce, InCh
<1> QED BY <1>1, <1>2, <1>3 DEF Next

\* The types and the ends, together in every state.
LEMMA EndsAlways == Spec => [](TypeOK /\ Ends)
  BY ServerInitHolds, EndsStep, PTL DEF Spec

\* Sockets, streams, the channel and what was taken from it keep their types;
\* msgCh never holds more than its capacity.
THEOREM TypeCorrect == Spec => []TypeOK
  BY EndsAlways, PTL


-------------------------------------------------------------------------------
(***************************************************************************)
(* The order on each connection.                                           *)
(***************************************************************************)

\* Nothing that was passed on on connection c asks for a reset, and what was
\* written to it is what InOrder says.
InOrderOn(c) ==
  /\ \A i \in DOMAIN Passed(c) : ~AsksReset(Passed(c)[i])
  /\ CASE peer[c] # "gone" -> written[c] = Passed(c) \o Whole(c)
       [] peer[c] = "gone" /\ reader[c] = "none" -> Passed(c) = <<>>
       [] OTHER -> LET n == Len(Passed(c))
                   IN  /\ n < Len(written[c])
                       /\ Passed(c) = SubSeq(written[c], 1, n)
                       /\ AsksReset(written[c][n + 1])

\* The parts of what was passed on are sequences of packets.
LEMMA PassedType ==
  ASSUME TypeOK, NEW c \in Conns
  PROVE  InCh(c) \in Seq(Packets) /\ Passed(c) \in Seq(Packets)
<1>1. received[c] \in Seq(Packets) /\ decoded[c] \in Seq(Packets)
  BY TypesOf
<1>2. InCh(c) \in Seq(Packets)
  <2>1. CASE msgCh = <<>>
    BY <2>1, EmptySeq DEF InCh
  <2>2. CASE msgCh # <<>>
    <3>1. Head(msgCh) \in Conns \X Packets
      BY <2>2, TypesOf, HeadTailProperties
    <3>2. <<>> \in Seq(Packets) /\ <<Head(msgCh)[2]>> \in Seq(Packets)
      BY <3>1, EmptySeq
    <3> QED BY <3>2 DEF InCh
  <2> QED BY <2>1, <2>2
<1>3. received[c] \o InCh(c) \in Seq(Packets)
  BY <1>1, <1>2, ConcatProperties
<1> QED BY <1>1, <1>2, <1>3, ConcatProperties DEF Passed

\* Put moves a record from the reader to the channel, Take from there to the
\* user: both leave what was passed on as it was.
LEMMA PassedOn ==
  ASSUME TypeOK, Ends, Take \/ \E d \in Conns : Put(d), NEW c \in Conns
  PROVE  Passed(c)' = Passed(c)
<1>1. /\ received \in [Conns -> Seq(Packets)] /\ decoded \in [Conns -> Seq(Packets)]
      /\ <<>> \in Seq(Packets)
      /\ \A s \in Seq(Packets) : s \o <<>> = s
  BY EmptySeq, ConcatEmptySeq DEF TypeOK, ServerTypeOK
<1>2. ASSUME NEW d \in Conns, Put(d) PROVE Passed(c)' = Passed(c)
  <2>1. PICK p \in Packets : decoded[d] = <<p>>
    BY <1>2 DEF Put, Ends, Decoded
  <2>2. msgCh = <<>>
    BY <1>2, TypesOf DEF Put, MsgChCap
  <2>3. /\ msgCh' = <<<<d, p>>>> /\ received' = received
        /\ decoded' = [decoded EXCEPT ![d] = <<>>]
    BY <1>2, <2>1, <2>2 DEF Put
  <2>4. InCh(c) = <<>> /\ InCh(c)' = IF c = d THEN <<p>> ELSE <<>>
    BY <2>2, <2>3 DEF InCh
  <2>5. CASE c # d
    BY <1>1, <2>3, <2>4, <2>5 DEF Passed
  <2>6. CASE c = d
    <3>1. <<p>> \in Seq(Packets) /\ received[c] \in Seq(Packets)
      BY <1>1
    <3>2. received[c] \o <<p>> \in Seq(Packets)
      BY <3>1, ConcatProperties
    <3>3. Passed(c)' = (received[c] \o <<p>>) \o <<>>
      BY <1>1, <2>3, <2>4, <2>6 DEF Passed
    <3>4. Passed(c) = (received[c] \o <<>>) \o <<p>>
      BY <2>1, <2>4, <2>6 DEF Passed
    <3> QED BY <1>1, <3>1, <3>2, <3>3, <3>4, Zenon
  <2> QED BY <2>5, <2>6
<1>3. ASSUME Take PROVE Passed(c)' = Passed(c)
  <2>1. PICK d \in Conns, p \in Packets : Head(msgCh) = <<d, p>>
    BY <1>3, TypesOf, HeadTailProperties DEF Take
  <2>2. /\ msgCh # <<>> /\ msgCh' = <<>> /\ decoded' = decoded
        /\ received' = [received EXCEPT ![d] = Append(@, p)]
    <3>1. Head(msgCh)[1] = d /\ Head(msgCh)[2] = p /\ Tail(msgCh) = <<>>
      BY <1>3, <2>1, TypesOf DEF Take
    <3> QED BY <1>3, <3>1 DEF Take
  <2>3. InCh(c)' = <<>> /\ InCh(c) = IF c = d THEN <<p>> ELSE <<>>
    BY <2>1, <2>2 DEF InCh
  <2>4. CASE c # d
    BY <1>1, <2>2, <2>3, <2>4 DEF Passed
  <2>5. CASE c = d
    <3>1. received[c] \in Seq(Packets) /\ Append(received[c], p) \in Seq(Packets)
      BY <1>1, AppendProperties
    <3>2. Append(received[c], p) = received[c] \o <<p>>
      BY <3>1, AppendIsConcat
    <3>3. Passed(c)' = (Append(received[c], p) \o <<>>) \o decoded[c]
      BY <1>1, <2>2, <2>3, <2>5 DEF Passed
    <3>4. Passed(c) = (received[c] \o <<p>>) \o decoded[c]
      BY <2>3, <2>5 DEF Passed
    <3> QED BY <1>1, <3>1, <3>2, <3>3, <3>4, Zenon
  <2> QED BY <2>4, <2>5
<1> QED BY <1>2, <1>3


\* Concatenation is associative on packets.
LEMMA Associative ==
  \A a, b, d \in Seq(Packets) : (a \o b) \o d = a \o (b \o d)
  BY ConcatAssociative

\* A write that returned nil comes last of all; nothing that was passed on
\* changes.
LEMMA WriteInOrder ==
  ASSUME TypeOK, Ends, NEW c \in Conns, NEW m \in Msgs, Write(c, m),
         UNCHANGED readerVars, InOrderOn(c)
  PROVE  InOrderOn(c)'
<1> DEFINE p == Packet(c, m)
<1>1. /\ stream[c] \in Seq(Packets) /\ peer[c] \in {"backlog", "accepted"} /\ peer' = peer
      /\ stream'[c] = Append(stream[c], p) /\ written'[c] = Append(written[c], p)
      /\ Passed(c)' = Passed(c) /\ written[c] \in Seq(Packets) /\ Passed(c) \in Seq(Packets)
  <2>1. Passed(c)' = Passed(c)
    BY DEF readerVars, Passed, InCh
  <2> QED BY <2>1, PassedType DEF Write, Connected, Ends, EndsAgree, linkVars, TypeOK, ConnTypeOK
<1>2. p \in Packets
  <2>1. Len(written[c]) \in Nat /\ Len(written[c]) < MaxWrites
    BY <1>1, LenProperties DEF Write
  <2> QED BY <2>1, ConnAssumption DEF Packet, Packets
<1> HIDE DEF p
<1>3. Whole(c) = stream[c] /\ Whole(c)' = Append(stream[c], p)
  <2>1. Append(stream[c], p) \in Seq(Packets)
    BY <1>1, <1>2, AppendProperties
  <2> QED BY <1>1, <2>1, WholeOfPackets DEF Whole
<1>4. written[c] = Passed(c) \o stream[c] /\ \A i \in DOMAIN Passed(c) : ~AsksReset(Passed(c)[i])
  BY <1>1, <1>3 DEF InOrderOn
<1>5. written'[c] = Passed(c) \o Append(stream[c], p)
  <2>1. /\ Append(written[c], p) = written[c] \o <<p>>
        /\ Append(stream[c], p) = stream[c] \o <<p>> /\ <<p>> \in Seq(Packets)
    BY <1>1, <1>2, AppendIsConcat
  <2>2. (Passed(c) \o stream[c]) \o <<p>> = Passed(c) \o (stream[c] \o <<p>>)
    BY <1>1, <2>1, Associative, Zenon
  <2> QED BY <1>1, <1>4, <2>1, <2>2, Zenon
<1> QED BY <1>1, <1>3, <1>4, <1>5 DEF InOrderOn

\* What the reader decodes comes next after what it passed on; a record that
\* asks for a reset comes after that, and with it everything ends.
LEMMA ReadInOrder ==
  ASSUME TypeOK, Ends, NEW c \in Conns, Read(c), InOrderOn(c)
  PROVE  InOrderOn(c)'
<1> DEFINE s == stream[c]
           h == Head(s)
           w == WholeOf(Tail(s))
           pre == received[c] \o InCh(c)
<1>1. /\ s \in Seq(Pieces) /\ WholeOf(s) \in Seq(Packets) /\ s # <<>> /\ h # Cut
      /\ peer[c] = "accepted" /\ decoded[c] = <<>>
  <2>1. stream[c] # <<>> /\ reader[c] = "decode" /\ peer[c] \in {"none", "backlog", "accepted", "gone"}
    BY DEF Read, TypeOK, ConnTypeOK
  <2> QED BY <2>1, TypesOf DEF Read, Ends, Decoded, EndsAgree, ReadersAgree
<1>2. /\ h \in Packets /\ w \in Seq(Packets) /\ Whole(c) = <<h>> \o w /\ <<h>> \in Seq(Packets)
  BY <1>1, WholeTail DEF Whole
<1>3. /\ pre \in Seq(Packets) /\ Passed(c) = pre
      /\ received[c] \in Seq(Packets) /\ InCh(c) \in Seq(Packets)
      /\ InCh(c)' = InCh(c) /\ received' = received /\ written' = written
  <2>1. received[c] \in Seq(Packets) /\ InCh(c) \in Seq(Packets)
    BY TypesOf, PassedType
  <2>2. pre \in Seq(Packets)
    BY <2>1, ConcatProperties
  <2>3. pre \o <<>> = pre
    BY <2>2, ConcatEmptySeq
  <2>4. Passed(c) = pre \o <<>>
    BY <1>1 DEF Passed
  <2> QED BY <2>1, <2>2, <2>3, <2>4 DEF Read, InCh
<1>4. written[c] = pre \o (<<h>> \o w) /\ \A i \in DOMAIN pre : ~AsksReset(pre[i])
  BY <1>1, <1>2, <1>3 DEF InOrderOn
<1>5. written[c] = (pre \o <<h>>) \o w
  <2> HIDE DEF pre, h, w
  <2> QED BY <1>2, <1>3, <1>4, Associative
<1>6. /\ pre \o <<h>> \in Seq(Packets) /\ Len(pre) \in Nat
      /\ DOMAIN pre = 1..Len(pre) /\ DOMAIN (pre \o <<h>>) = 1..(Len(pre) + 1)
      /\ \A i \in 1..Len(pre) : (pre \o <<h>>)[i] = pre[i]
      /\ (pre \o <<h>>)[Len(pre) + 1] = h
  <2> HIDE DEF pre, h
  <2>1. pre \o <<h>> = Append(pre, h)
    BY <1>2, <1>3, AppendIsConcat
  <2> QED BY <1>2, <1>3, <2>1, AppendProperties, LenProperties
<1>7. CASE AsksReset(h)
  <2>1. peer'[c] = "gone" /\ reader'[c] = "done" /\ decoded'[c] = <<>>
    BY <1>1, <1>7 DEF Read, TypeOK, ConnTypeOK, ServerTypeOK
  <2>2. Passed(c)' = pre
    <3>1. pre \o <<>> = pre
      BY <1>3, ConcatEmptySeq
    <3> QED BY <1>3, <2>1, <3>1 DEF Passed
  <2> HIDE DEF pre, h, w
  <2>3. /\ pre = SubSeq(written[c], 1, Len(pre)) /\ written[c][Len(pre) + 1] = h
        /\ Len(pre) < Len(written[c])
    <3> DEFINE t == <<h>> \o w
    <3>1. /\ t \in Seq(Packets) /\ Len(<<h>>) = 1 /\ <<h>>[1] = h
          /\ Len(t) = 1 + Len(w) /\ Len(w) \in Nat
      BY <1>2, ConcatProperties, LenProperties
    <3>2. t[1] = h
      BY <1>2, <3>1, ConcatProperties
    <3> HIDE DEF t
    <3>3. /\ written[c] = pre \o t /\ Len(pre) \in Nat
          /\ Len(written[c]) = Len(pre) + Len(t)
          /\ \A i \in 1..Len(pre) + Len(t) :
               written[c][i] = IF i <= Len(pre) THEN pre[i] ELSE t[i - Len(pre)]
      BY <1>3, <1>4, <1>6, <3>1, ConcatProperties DEF t
    <3>4. \A i \in 1..Len(pre) : written[c][i] = pre[i] /\ written[c][i] \in Packets
      BY <1>3, <3>1, <3>3, ElementOfSeq
    <3>5. /\ SubSeq(written[c], 1, Len(pre)) \in Seq(Packets)
          /\ Len(SubSeq(written[c], 1, Len(pre))) = Len(pre)
          /\ \A i \in 1..Len(pre) : SubSeq(written[c], 1, Len(pre))[i] = pre[i]
      BY <3>3, <3>4, SubSeqProperties
    <3>6. pre = SubSeq(written[c], 1, Len(pre))
      BY <1>3, <3>5, SeqEqual
    <3>7. \A l, k \in Nat : l < l + (1 + k)
      OBVIOUS
    <3>8. Len(pre) < Len(written[c])
      BY <3>1, <3>3, <3>7
    <3> QED BY <3>1, <3>2, <3>3, <3>6, <3>8
  <2> QED BY <1>3, <1>4, <1>7, <2>1, <2>2, <2>3 DEF InOrderOn
<1>8. CASE ~AsksReset(h)
  <2>1. /\ peer'[c] = "accepted" /\ decoded'[c] = <<h>> /\ stream'[c] = Tail(s)
    BY <1>1, <1>8 DEF Read, TypeOK, ConnTypeOK, ServerTypeOK
  <2>2. Passed(c)' = pre \o <<h>> /\ Whole(c)' = w
    BY <1>3, <2>1 DEF Passed, Whole
  <2> HIDE DEF pre, h, w
  <2>3. \A i \in DOMAIN (pre \o <<h>>) : ~AsksReset((pre \o <<h>>)[i])
    <3>1. \A i \in 1..(Len(pre) + 1) : i \in 1..Len(pre) \/ i = Len(pre) + 1
      BY <1>6
    <3> QED BY <1>4, <1>6, <1>8, <3>1
  <2> QED BY <1>3, <1>5, <2>1, <2>2, <2>3 DEF InOrderOn
<1> QED BY <1>7, <1>8


\* What the other steps leave alone on a connection: what was passed on, what
\* is whole in flight, what was written, and which case of InOrder applies.
LEMMA OthersInOrder ==
  ASSUME NEW c \in Conns, InOrderOn(c),
         Passed(c)' = Passed(c), written'[c] = written[c],
         \/ peer[c] = "gone" /\ peer'[c] = "gone"
         \/ peer[c] # "gone" /\ peer'[c] # "gone" /\ Whole(c)' = Whole(c)
         \/ peer[c] # "gone" /\ peer'[c] = "gone" /\ reader'[c] = "none" /\ Passed(c) = <<>>,
         peer[c] = "gone" => reader'[c] = reader[c]
  PROVE  InOrderOn(c)'
<1>1. CASE peer[c] = "gone" /\ peer'[c] = "gone"
  BY <1>1 DEF InOrderOn
<1>2. CASE peer[c] # "gone" /\ peer'[c] # "gone" /\ Whole(c)' = Whole(c)
  BY <1>2 DEF InOrderOn
<1>3. CASE peer[c] # "gone" /\ peer'[c] = "gone" /\ reader'[c] = "none" /\ Passed(c) = <<>>
  BY <1>3 DEF InOrderOn
<1> QED BY <1>1, <1>2, <1>3

\* The client's steps on a connection.
LEMMA InOrderClient ==
  ASSUME TypeOK, Ends, InOrder, NEW d \in Conns, ClientStep(d), UNCHANGED <<up, readerVars>>
  PROVE  InOrder'
<1> SUFFICES ASSUME NEW c \in Conns PROVE InOrderOn(c)'
  BY DEF InOrder, InOrderOn
<1>1. /\ InOrderOn(c) /\ UNCHANGED <<reader, received, decoded, msgCh>>
      /\ Passed(c)' = Passed(c)
  BY DEF InOrder, InOrderOn, readerVars, Passed, InCh
<1>2. /\ peer \in [Conns -> {"none", "backlog", "accepted", "gone"}]
      /\ stream \in [Conns -> Seq(Pieces)] /\ written \in [Conns -> Seq(Packets)]
  BY DEF TypeOK, ConnTypeOK, Pieces
<1>3. ASSUME NEW m \in Msgs, Write(d, m) PROVE InOrderOn(c)'
  <2>1. CASE c = d
    BY <1>1, <1>3, <2>1, WriteInOrder DEF readerVars
  <2>2. CASE c # d
    <3>1. peer' = peer /\ stream'[c] = stream[c] /\ written'[c] = written[c]
      BY <1>2, <1>3, <2>2 DEF Write, linkVars
    <3> QED BY <1>1, <3>1, OthersInOrder DEF Whole
  <2> QED BY <2>1, <2>2
<1>4. ASSUME NEW m \in Msgs, WriteFails(d, m) PROVE InOrderOn(c)'
  <2>1. PICK rest \in {<<>>, <<Cut>>} :
          stream' = [stream EXCEPT ![d] = IF Connected(d) THEN @ \o rest ELSE @]
    BY <1>4 DEF WriteFails, Remains
  <2>2. stream[d] \in Seq(Packets)
    BY <1>4 DEF WriteFails, Ends, EndsAgree
  <2>3. /\ stream[d] \o <<>> = stream[d]
        /\ WholeOf(stream[d]) = stream[d] /\ WholeOf(stream[d] \o <<Cut>>) = stream[d]
    BY <2>2, ConcatEmptySeq, WholeOfPackets
  <2>4. Whole(c)' = Whole(c)
    BY <1>2, <2>1, <2>3 DEF Whole
  <2>5. peer' = peer /\ written' = written
    BY <1>4 DEF WriteFails, linkVars
  <2> QED BY <1>1, <2>4, <2>5, OthersInOrder
<1>5. ASSUME Dial(d) PROVE InOrderOn(c)'
  <2>1. /\ peer[d] = "none" /\ peer' = [peer EXCEPT ![d] = "backlog"]
        /\ UNCHANGED <<stream, written>>
    BY <1>5 DEF Dial, Ends, EndsAgree
  <2>2. (peer'[c] = "gone") <=> (peer[c] = "gone")
    BY <1>2, <2>1
  <2> QED BY <1>1, <2>1, <2>2, OthersInOrder DEF Whole
<1>6. CASE UNCHANGED <<peer, stream, written>>
  BY <1>1, <1>6, OthersInOrder DEF Whole
<1> QED BY <1>3, <1>4, <1>5, <1>6
        DEF ClientStep, Check, DialFails, CloseSend, CloseReturns, CloseHangs, linkVars

\* The server's steps.
LEMMA InOrderServer == TypeOK /\ Ends /\ InOrder /\ ServerStep => InOrder'
<1> SUFFICES ASSUME TypeOK, Ends, InOrder, ServerStep, NEW c \in Conns PROVE InOrderOn(c)'
  BY DEF InOrder, InOrderOn
<1>1. /\ InOrderOn(c)
      /\ peer \in [Conns -> {"none", "backlog", "accepted", "gone"}]
      /\ reader \in [Conns -> {"none", "decode", "put", "done"}]
      /\ stream \in [Conns -> Seq(Pieces)] /\ decoded \in [Conns -> Seq(Packets)]
  BY DEF InOrder, InOrderOn, TypeOK, ConnTypeOK, ServerTypeOK, Pieces
<1>2. ASSUME Listen PROVE InOrderOn(c)'
  <2>1. UNCHANGED <<peer, stream, written, readerVars>>
    BY <1>2 DEF Listen
  <2> QED BY <1>1, <2>1, OthersInOrder DEF readerVars, Passed, InCh, Whole
<1>3. ASSUME Accept PROVE InOrderOn(c)'
  <2>1. /\ UNCHANGED <<stream, written, decoded, msgCh, received>>
        /\ peer' = [peer EXCEPT ![Head(backlog)] = "accepted"]
        /\ reader' = [reader EXCEPT ![Head(backlog)] = "decode"]
    BY <1>3 DEF Accept
  <2>2. peer[Head(backlog)] = "backlog"
    <3>1. backlog \in Seq(Conns) /\ backlog # <<>> /\ Head(backlog) = backlog[1]
      BY <1>3, TypesOf DEF Accept, Head
    <3>2. 1 \in DOMAIN backlog
      BY <3>1, LenProperties, EmptySeq
    <3> QED BY <3>1, <3>2 DEF Ends, BacklogIsOnce
  <2>3. ((peer'[c] = "gone") <=> (peer[c] = "gone")) /\ (peer[c] = "gone" => reader'[c] = reader[c])
    BY <1>1, <2>1, <2>2
  <2>4. Passed(c)' = Passed(c) /\ Whole(c)' = Whole(c)
    BY <2>1 DEF Passed, InCh, Whole
  <2> QED BY <1>1, <2>1, <2>3, <2>4, OthersInOrder
<1>4. ASSUME StopListening PROVE InOrderOn(c)'
  <2>1. /\ UNCHANGED <<written, reader, decoded, msgCh, received>>
        /\ IF peer[c] = "backlog" THEN peer'[c] = "gone"
           ELSE peer'[c] = peer[c] /\ stream'[c] = stream[c]
    BY <1>1, <1>4 DEF StopListening, readerVars, Orphans
  <2>2. Passed(c)' = Passed(c)
    BY <2>1 DEF Passed, InCh
  <2>3. peer[c] = "backlog" => Passed(c) = <<>> /\ reader[c] = "none"
    <3> SUFFICES ASSUME peer[c] = "backlog" PROVE Passed(c) = <<>> /\ reader[c] = "none"
      OBVIOUS
    <3>1. reader[c] = "none" /\ received[c] = <<>> /\ InCh(c) = <<>> /\ decoded[c] = <<>>
      BY DEF Ends, ReadersAgree, Decoded
    <3> QED BY <3>1, ConcatEmptySeq, EmptySeq DEF Passed
  <2> QED BY <1>1, <2>1, <2>2, <2>3, OthersInOrder DEF Whole
<1>5. ASSUME NEW d \in Conns, Read(d) PROVE InOrderOn(c)'
  <2>1. CASE c = d
    BY <1>1, <1>5, <2>1, ReadInOrder
  <2>2. CASE c # d
    <3>1. /\ UNCHANGED <<written, received, msgCh>> /\ peer'[c] = peer[c]
          /\ reader'[c] = reader[c] /\ stream'[c] = stream[c] /\ decoded'[c] = decoded[c]
      BY <1>1, <1>5, <2>2 DEF Read
    <3>2. Passed(c)' = Passed(c) /\ Whole(c)' = Whole(c)
      BY <3>1 DEF Passed, InCh, Whole
    <3> QED BY <1>1, <3>1, <3>2, OthersInOrder
  <2> QED BY <2>1, <2>2
<1>6. ASSUME NEW d \in Conns, ReadFails(d) PROVE InOrderOn(c)'
  <2>1. /\ UNCHANGED <<peer, stream, written, decoded, msgCh, received>>
        /\ reader[d] = "decode" /\ reader' = [reader EXCEPT ![d] = "done"]
    BY <1>6 DEF ReadFails, connVars, linkVars
  <2>2. peer[c] = "gone" => reader'[c] = reader[c]
    BY <1>1, <2>1 DEF Ends, ReadersAgree
  <2> QED BY <1>1, <2>1, <2>2, OthersInOrder DEF Passed, InCh, Whole
<1>7. ASSUME Take \/ \E d \in Conns : Put(d) PROVE InOrderOn(c)'
  <2>1. Passed(c)' = Passed(c)
    BY <1>7, PassedOn
  <2>2. UNCHANGED <<peer, stream, written>>
    BY <1>7 DEF Take, Put, connVars, linkVars
  <2>3. peer[c] = "gone" => reader'[c] = reader[c]
    BY <1>1, <1>7 DEF Take, Put, Ends, ReadersAgree
  <2> QED BY <1>1, <2>1, <2>2, <2>3, OthersInOrder DEF Whole
<1> QED BY <1>2, <1>3, <1>4, <1>5, <1>6, <1>7 DEF ServerStep

\* What was written to a connection is received in order and completely, up to
\* the record that made the server reset it, whichever readers compete.
THEOREM InOrderAlways == Spec => []InOrder
<1>1. TypeOK /\ Ends /\ InOrder /\ [Next]_vars => InOrder'
  <2> SUFFICES ASSUME TypeOK, Ends, InOrder, [Next]_vars PROVE InOrder'
    OBVIOUS
  <2>1. CASE ServerStep
    BY <2>1, InOrderServer
  <2>2. CASE ConnStep
    BY <2>2, InOrderClient DEF ConnStep
  <2>3. CASE UNCHANGED vars
    BY <2>3 DEF vars, connVars, linkVars, readerVars, InOrder, Passed, InCh, Whole
  <2> QED BY <2>1, <2>2, <2>3 DEF Next
<1> QED BY <1>1, ServerInitHolds, EndsAlways, PTL DEF Spec

===============================================================================
