---------------------------- MODULE RelayProofs ----------------------------
(***************************************************************************)
(* Relay for streams and prefixes of any length: what arrives is what was  *)
(* sent, and the relay returns only when one direction is complete.        *)
(***************************************************************************)
EXTENDS Relay, TLAPS

(* Which chunks have been read from the client, and where they are. *)
Collected ==
  /\ phase \in {"classify", "dial", "prefix"} => toServer = <<>> /\ Len(buf) = client.read
  /\ phase = "classify" => Len(buf) < MaxHello
  /\ phase = "copy" => Len(toServer) = client.read
  /\ phase = "mitm" => \/ Len(toServer) <= Len(buf) /\ Len(buf) = client.read
                       \/ Len(toServer) >= Len(buf) /\ Len(toServer) = client.read
  /\ Len(toServer) <= client.read

(* A direction has ended when all of it was read and nothing can follow. *)
Finished ==
  /\ Len(toClient) = server.read
  /\ ended # {} => phase \in {"copy", "closed"}
  /\ phase = "closed" /\ ~failed => ended # {}
  /\ "up" \in ended => AtEOF(client) /\ Len(toServer) = client.read
  /\ "down" \in ended => AtEOF(server)

IInv == TypeOK /\ Collected /\ Finished /\ InOrder(buf) /\ ByteForByte

-----------------------------------------------------------------------------
(* A stream goes on with its next chunk. *)
LEMMA AppendNext ==
  ASSUME NEW s \in Stream, InOrder(s), NEW n \in 1..MaxSend, n = Len(s) + 1
  PROVE  Append(s, n) \in Stream /\ InOrder(Append(s, n)) /\ Len(Append(s, n)) = Len(s) + 1
  BY DEF Stream, InOrder

LEMMA EmptyStream == <<>> \in Stream /\ InOrder(<<>>) /\ Len(<<>>) = 0
  BY DEF Stream, InOrder

LEMMA ReadsNext ==
  ASSUME NEW e \in Endpoint, e.read <= e.sent, Pending(e)
  PROVE  /\ [e EXCEPT !.read = @ + 1] \in Endpoint
         /\ [e EXCEPT !.read = @ + 1].read = e.read + 1
         /\ [e EXCEPT !.read = @ + 1].sent = e.sent
         /\ e.read + 1 <= e.sent /\ e.read + 1 \in 1..MaxSend
         /\ ~AtEOF(e)
  BY BoundsAssumption DEF Endpoint, Pending, AtEOF

LEMMA InitIInv == Init => IInv
  <1> SUFFICES ASSUME Init PROVE IInv  OBVIOUS
  <1> USE BoundsAssumption
  <1>1. /\ client \in Endpoint /\ client.sent = 0 /\ client.read = 0
        /\ server \in Endpoint /\ server.sent = 0 /\ server.read = 0
    BY DEF Init, Endpoint
  <1>2. TypeOK
    <2>1. Len(buf) <= MaxHello /\ Len(toServer) <= client.sent /\ Len(toClient) <= server.sent
      BY <1>1, EmptyStream DEF Init
    <2>2. client.read <= client.sent /\ server.read <= server.sent  BY <1>1
    <2> QED BY <1>1, <2>1, <2>2, EmptyStream DEF Init, TypeOK
  <1>3. Collected /\ Finished  BY <1>1, EmptyStream DEF Init, Collected, Finished
  <1> QED BY <1>2, <1>3, EmptyStream DEF Init, IInv, ByteForByte

LEMMA SendsInv ==
  ASSUME IInv, ClientSends \/ ClientFinishes \/ ServerSends \/ ServerFinishes
  PROVE  IInv'
  <1> USE BoundsAssumption
  <1>1. CASE ClientSends
    <2>1. /\ client' \in Endpoint /\ client'.sent = client.sent + 1 /\ client'.read = client.read
          /\ ~AtEOF(client)
      BY <1>1 DEF IInv, TypeOK, ClientSends, CanSend, Endpoint, AtEOF
    <2>2. client.sent \in Nat /\ client.read \in Nat /\ Len(toServer) \in Nat
      BY DEF IInv, TypeOK, Endpoint, Stream
    <2>3. TypeOK'  BY <1>1, <2>1, <2>2 DEF IInv, TypeOK, ClientSends
    <2> QED BY <1>1, <2>1, <2>3 DEF IInv, Collected, Finished, ByteForByte, InOrder, ClientSends, AtEOF
  <1>2. CASE ClientFinishes
    <2>1. client' \in Endpoint /\ client'.sent = client.sent /\ client'.read = client.read
          /\ ~AtEOF(client)
      BY <1>2 DEF IInv, TypeOK, ClientFinishes, Endpoint, AtEOF
    <2>2. TypeOK'  BY <1>2, <2>1 DEF IInv, TypeOK, ClientFinishes
    <2> QED BY <1>2, <2>1, <2>2 DEF IInv, Collected, Finished, ByteForByte, InOrder, ClientFinishes, AtEOF
  <1>3. CASE ServerSends
    <2>1. /\ server' \in Endpoint /\ server'.sent = server.sent + 1 /\ server'.read = server.read
          /\ ~AtEOF(server)
      BY <1>3 DEF IInv, TypeOK, ServerSends, CanSend, Endpoint, AtEOF
    <2>2. server.sent \in Nat /\ server.read \in Nat /\ Len(toClient) \in Nat
      BY DEF IInv, TypeOK, Endpoint, Stream
    <2>3. TypeOK'  BY <1>3, <2>1, <2>2 DEF IInv, TypeOK, ServerSends
    <2> QED BY <1>3, <2>1, <2>3 DEF IInv, Collected, Finished, ByteForByte, InOrder, ServerSends, AtEOF
  <1>4. CASE ServerFinishes
    <2>1. server' \in Endpoint /\ server'.sent = server.sent /\ server'.read = server.read
          /\ ~AtEOF(server)
      BY <1>4 DEF IInv, TypeOK, ServerFinishes, Endpoint, AtEOF
    <2>2. TypeOK'  BY <1>4, <2>1 DEF IInv, TypeOK, ServerFinishes
    <2> QED BY <1>4, <2>1, <2>2 DEF IInv, Collected, Finished, ByteForByte, InOrder, ServerFinishes, AtEOF
  <1> QED BY <1>1, <1>2, <1>3, <1>4

LEMMA ReadAndClassifyInv == IInv /\ ReadAndClassify => IInv'
  <1> SUFFICES ASSUME IInv, ReadAndClassify PROVE IInv'  OBVIOUS
  <1>1. /\ client' \in Endpoint /\ client'.read = client.read + 1 /\ client'.sent = client.sent
        /\ client.read + 1 <= client.sent /\ client.read + 1 \in 1..MaxSend
    BY ReadsNext DEF IInv, TypeOK, ReadAndClassify
  <1>2. Len(buf) = client.read /\ Len(buf) < MaxHello /\ toServer = <<>> /\ Len(buf) \in Nat
    BY DEF IInv, TypeOK, Collected, ReadAndClassify, Stream
  <1>3. buf' \in Stream /\ InOrder(buf') /\ Len(buf') = Len(buf) + 1
    BY <1>1, <1>2, AppendNext DEF IInv, TypeOK, ReadAndClassify
  <1>4. /\ phase' \in {"mitm", "dial", "classify"}
        /\ phase' = "classify" => ~(Len(buf) + 1 >= MaxHello)
    BY DEF ReadAndClassify, Decision, IInv, TypeOK
  <1>5. MaxHello \in Nat  BY BoundsAssumption
  <1>6. TypeOK'
    BY <1>1, <1>2, <1>3, <1>4, <1>5, EmptyStream DEF IInv, TypeOK, ReadAndClassify, Endpoint
  <1>7. Collected'
    BY <1>1, <1>2, <1>3, <1>4, <1>5, EmptyStream DEF Collected, ReadAndClassify
  <1>8. Finished'
    BY <1>4 DEF IInv, Finished, ReadAndClassify
  <1> QED BY <1>3, <1>6, <1>7, <1>8 DEF IInv, ByteForByte, ReadAndClassify

(* A step of the goroutine that moves no byte. *)
LEMMA MovesInv ==
  ASSUME IInv, ReadFails \/ Fails \/ Dial \/ RelayReturns
  PROVE  IInv'
  <1>1. UNCHANGED <<hello, buf, client, server, toServer, toClient, ended>>
    BY DEF ReadFails, Fails, Dial, RelayReturns
  <1>2. TypeOK'  BY <1>1 DEF IInv, TypeOK, ReadFails, Fails, Dial, RelayReturns
  <1>3. Collected'  BY <1>1 DEF IInv, Collected, ReadFails, Fails, Dial, RelayReturns
  <1>4. Finished'  BY <1>1 DEF IInv, Finished, AtEOF, ReadFails, Fails, Dial, RelayReturns
  <1> QED BY <1>1, <1>2, <1>3, <1>4 DEF IInv, ByteForByte, InOrder

LEMMA ServeMITMInv == IInv /\ ServeMITM => IInv'
  <1> SUFFICES ASSUME IInv, ServeMITM PROVE IInv'  OBVIOUS
  <1>0. /\ Len(buf) \in Nat /\ Len(toServer) \in Nat /\ client.read \in Nat
        /\ client.read \in 0..MaxSend
        /\ phase = "mitm" /\ ended = {}
    BY DEF IInv, TypeOK, Stream, Endpoint, ServeMITM, Finished
  <1>1. CASE Len(toServer) < Len(buf)
    <2>1. toServer' = Append(toServer, buf[Len(toServer) + 1]) /\ UNCHANGED client
      BY <1>0, <1>1 DEF ServeMITM
    <2>2. Len(toServer) + 1 \in DOMAIN buf
      BY <1>0, <1>1 DEF IInv, TypeOK, Stream
    <2>3. client.read = Len(buf)  BY <1>0, <1>1 DEF IInv, Collected
    <2>4. buf[Len(toServer) + 1] = Len(toServer) + 1 /\ Len(toServer) + 1 \in 1..MaxSend
      <3>1. \A i \in DOMAIN buf : buf[i] = i  BY DEF IInv, InOrder
      <3>2. Len(toServer) + 1 \in 1..MaxSend  BY <1>0, <1>1, <2>3, BoundsAssumption
      <3> QED BY <2>2, <3>1, <3>2
    <2>5. toServer' \in Stream /\ InOrder(toServer') /\ Len(toServer') = Len(toServer) + 1
      BY <2>1, <2>4, AppendNext DEF IInv, TypeOK, ByteForByte
    <2>6. Len(toServer) + 1 <= client.sent
      <3>1. client.read <= client.sent /\ client.sent \in Nat  BY DEF IInv, TypeOK, Endpoint
      <3> QED BY <1>0, <1>1, <2>3, <3>1
    <2>7. TypeOK'  BY <2>1, <2>5, <2>6 DEF IInv, TypeOK, ServeMITM
    <2>8. Collected'  BY <1>0, <1>1, <2>1, <2>5, <2>3 DEF Collected, ServeMITM
    <2> QED BY <1>0, <2>1, <2>5, <2>8, <2>7 DEF IInv, Finished, ByteForByte, InOrder, ServeMITM
  <1>2. CASE Len(toServer) >= Len(buf)
    <2>1. /\ Pending(client) /\ toServer' = Append(toServer, client.read + 1)
          /\ client' = [client EXCEPT !.read = @ + 1]
      BY <1>0, <1>2 DEF ServeMITM
    <2>2. /\ client' \in Endpoint /\ client'.read = client.read + 1 /\ client'.sent = client.sent
          /\ client.read + 1 <= client.sent /\ client.read + 1 \in 1..MaxSend
      BY <2>1, ReadsNext DEF IInv, TypeOK
    <2>3. client.read = Len(toServer)  BY <1>0, <1>2 DEF IInv, Collected
    <2>4. toServer' \in Stream /\ InOrder(toServer') /\ Len(toServer') = Len(toServer) + 1
      BY <2>1, <2>2, <2>3, AppendNext DEF IInv, TypeOK, ByteForByte
    <2>5. TypeOK'  BY <1>0, <2>2, <2>3, <2>4 DEF IInv, TypeOK, ServeMITM
    <2>6. Collected'  BY <1>0, <1>2, <2>2, <2>3, <2>4 DEF Collected, ServeMITM
    <2> QED BY <1>0, <2>4, <2>5, <2>6 DEF IInv, Finished, ByteForByte, InOrder, ServeMITM
  <1> QED BY <1>0, <1>1, <1>2

LEMMA WritePrefixInv == IInv /\ WritePrefix => IInv'
  <1> SUFFICES ASSUME IInv, WritePrefix PROVE IInv'  OBVIOUS
  <1>1. toServer = <<>> /\ Len(buf) = client.read /\ ended = {} /\ buf \in Stream
    BY DEF IInv, TypeOK, Collected, Finished, WritePrefix
  <1>2. toServer' = buf  BY <1>1 DEF WritePrefix, Stream
  <1>3. TypeOK'  BY <1>1, <1>2 DEF IInv, TypeOK, WritePrefix
  <1>4. Collected'  BY <1>1, <1>2 DEF IInv, TypeOK, Endpoint, Collected, WritePrefix
  <1> QED BY <1>1, <1>2, <1>3, <1>4 DEF IInv, Finished, ByteForByte, InOrder, WritePrefix

LEMMA CopyUpInv == IInv /\ CopyUp => IInv'
  <1> SUFFICES ASSUME IInv, CopyUp PROVE IInv'  OBVIOUS
  <1>1. /\ client' \in Endpoint /\ client'.read = client.read + 1 /\ client'.sent = client.sent
        /\ client.read + 1 <= client.sent /\ client.read + 1 \in 1..MaxSend /\ ~AtEOF(client)
    BY ReadsNext DEF IInv, TypeOK, CopyUp
  <1>2. client.read = Len(toServer) /\ Len(toServer) \in Nat
    BY DEF IInv, TypeOK, Stream, Collected, CopyUp
  <1>3. toServer' \in Stream /\ InOrder(toServer') /\ Len(toServer') = Len(toServer) + 1
    BY <1>1, <1>2, AppendNext DEF IInv, TypeOK, ByteForByte, CopyUp
  <1>4. TypeOK'  BY <1>1, <1>2, <1>3 DEF IInv, TypeOK, CopyUp
  <1>5. Collected'  BY <1>1, <1>2, <1>3 DEF Collected, CopyUp
  <1>6. Finished'  BY <1>1 DEF IInv, Finished, AtEOF, CopyUp
  <1> QED BY <1>3, <1>4, <1>5, <1>6 DEF IInv, ByteForByte, InOrder, CopyUp

LEMMA CopyDownInv == IInv /\ CopyDown => IInv'
  <1> SUFFICES ASSUME IInv, CopyDown PROVE IInv'  OBVIOUS
  <1>1. /\ server' \in Endpoint /\ server'.read = server.read + 1 /\ server'.sent = server.sent
        /\ server.read + 1 <= server.sent /\ server.read + 1 \in 1..MaxSend /\ ~AtEOF(server)
    BY ReadsNext DEF IInv, TypeOK, CopyDown
  <1>2. server.read = Len(toClient) /\ Len(toClient) \in Nat
    BY DEF IInv, TypeOK, Stream, Finished
  <1>3. toClient' \in Stream /\ InOrder(toClient') /\ Len(toClient') = Len(toClient) + 1
    BY <1>1, <1>2, AppendNext DEF IInv, TypeOK, ByteForByte, CopyDown
  <1>4. TypeOK'  BY <1>1, <1>2, <1>3 DEF IInv, TypeOK, CopyDown
  <1>5. Collected'  BY DEF IInv, Collected, CopyDown
  <1>6. Finished'  BY <1>1, <1>2, <1>3 DEF IInv, Finished, AtEOF, CopyDown
  <1> QED BY <1>3, <1>4, <1>5, <1>6 DEF IInv, ByteForByte, InOrder, CopyDown

LEMMA CopyEndsInv == IInv /\ CopyEnds => IInv'
  <1> SUFFICES ASSUME IInv, CopyEnds PROVE IInv'  OBVIOUS
  <1>1. /\ phase = "copy" /\ UNCHANGED <<hello, phase, buf, client, server, toServer, toClient, failed>>
        /\ ended' \subseteq {"up", "down"}
        /\ "up" \in ended' => "up" \in ended \/ AtEOF(client)
        /\ "down" \in ended' => "down" \in ended \/ AtEOF(server)
    BY DEF IInv, TypeOK, CopyEnds, Ends
  <1>2. TypeOK'  BY <1>1 DEF IInv, TypeOK
  <1>3. Collected'  BY <1>1 DEF IInv, Collected
  <1>4. Finished'  BY <1>1 DEF IInv, Finished, Collected, AtEOF
  <1> QED BY <1>1, <1>2, <1>3, <1>4 DEF IInv, ByteForByte, InOrder

LEMMA NextIInv == IInv /\ [Next]_vars => IInv'
  <1>1. IInv /\ UNCHANGED vars => IInv'
    BY DEF IInv, TypeOK, Collected, Finished, AtEOF, ByteForByte, InOrder, vars
  <1> QED BY <1>1, SendsInv, ReadAndClassifyInv, MovesInv, ServeMITMInv, WritePrefixInv, CopyUpInv,
             CopyDownInv, CopyEndsInv DEF Next

LEMMA Invariance == Spec => []IInv
  BY InitIInv, NextIInv, PTL DEF Spec

(* readAndClassify never collects more than maxClientHello, nothing is     *)
(* delivered that was not sent, and no stream runs ahead of its reader.    *)
THEOREM TypeCorrect == Spec => []TypeOK
  <1>1. IInv => TypeOK  BY DEF IInv
  <1> QED BY <1>1, Invariance, PTL

(* Buffered prefix, interception or copying: wherever the classifier       *)
(* decides and however the reads fall, the far end sees the bytes sent, in *)
(* order, none twice and none left out, for streams of any length.         *)
THEOREM StreamsIntact == Spec => []ByteForByte
  <1>1. IInv => ByteForByte  BY DEF IInv
  <1> QED BY <1>1, Invariance, PTL

(* relayPrefixed: a direction is reported as ended only when every byte    *)
(* sent in it has been forwarded, and stays complete after that; a close   *)
(* without an error therefore leaves at least one direction complete.      *)
THEOREM EndsComplete == Spec => []EndedDirectionComplete
  <1>1. IInv => EndedDirectionComplete
    BY DEF IInv, Finished, EndedDirectionComplete, AtEOF
  <1> QED BY <1>1, Invariance, PTL
=============================================================================
