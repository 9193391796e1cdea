-------------------------- MODULE FeedHandlerProofs --------------------------
(***************************************************************************)
(* Proofs about FeedHandler for streams of any length, batches of any size *)
(* and any assignment of messages to tokens.                               *)
(***************************************************************************)
EXTENDS FeedHandler, SequenceTheorems, TLAPS

\* What appending an event does to the emitted sequence.
LEMMA EmitOne ==
  ASSUME NEW es \in Seq(Seqs), NEW s \in Seqs
  PROVE  /\ Append(es, s) \in Seq(Seqs)
         /\ DOMAIN Append(es, s) = 1..(Len(es) + 1)
         /\ DOMAIN es = 1..Len(es)
         /\ Len(es) \in Nat
         /\ Append(es, s)[Len(es) + 1] = s
         /\ \A i \in 1..Len(es) : Append(es, s)[i] = es[i] /\ es[i] \in Seqs
         /\ Append(es, s) # <<>>
         /\ es = <<>> => Append(es, s)[1] = s
         /\ es # <<>> => 1 \in 1..Len(es)
<1>1. Append(es, s) \in Seq(Seqs) /\ Append(es, s) # <<>> /\ Len(Append(es, s)) = Len(es) + 1
  BY AppendProperties
<1>2. \A i \in 1..Len(es) : Append(es, s)[i] = es[i]
  BY AppendProperties
<1>3. Append(es, s)[Len(es) + 1] = s
  BY AppendProperties
<1>4. Len(es) \in Nat /\ DOMAIN es = 1..Len(es) /\ \A i \in 1..Len(es) : es[i] \in Seqs
  BY LenProperties, ElementOfSeq
<1>5. DOMAIN Append(es, s) = 1..(Len(es) + 1)
  BY <1>1, LenProperties
<1>6. (es = <<>>) = (Len(es) = 0)
  BY EmptySeq
<1> QED
  BY <1>1, <1>2, <1>3, <1>4, <1>5, <1>6

\* A stream nobody has received satisfies the invariant.
LEMMA FeedInit == Init => FeedInv
<1> SUFFICES ASSUME Init PROVE FeedInv
  OBVIOUS
<1>1. emitted \in Seq(Seqs) /\ DOMAIN emitted = {}
  BY EmptySeq, LenProperties DEF Init
<1>2. TypeOK
  <2>1. 0 \in 0..(MaxSeq + 1) /\ 0 \in Nat
    BY FeedAssumption
  <2> QED
    BY <1>1, <2>1, ZenonT(60) DEF Init, TypeOK
<1>3. InOrder /\ EmittedBelowNext /\ GapIsMissing
  BY <1>1, FeedAssumption DEF Init, InOrder, EmittedBelowNext, GapIsMissing, Emitted
<1>4. GapBehindNext /\ NoneBeforeFirst /\ CompleteSinceGap
  BY DEF Init, GapBehindNext, NoneBeforeFirst, CompleteSinceGap
<1> QED
  BY <1>2, <1>3, <1>4 DEF Init, FeedInv

\* Every arrival, iteration of on_packet() and clear_retransmit() preserves it.
LEMMA FeedStep == FeedInv /\ [Next]_feedVars => FeedInv'
<1> SUFFICES ASSUME FeedInv, [Next]_feedVars PROVE FeedInv'
  OBVIOUS
<1> USE FeedAssumption
<1>1. ASSUME NEW first \in Seqs, NEW count \in 0..MaxBatch, first + count <= MaxSeq + 1,
             OnDuplicatePacket(first, count)
      PROVE  FeedInv'
  BY <1>1 DEF OnDuplicatePacket, FeedInv, TypeOK, Seqs, EmittedBelowNext, GapBehindNext,
     NoneBeforeFirst, InOrder, CompleteSinceGap, GapIsMissing, Emitted
<1>2. ASSUME NEW first \in Seqs, NEW count \in 0..MaxBatch, first + count <= MaxSeq + 1,
             NEW parsed \in 0..count, OnPacket(first, count, parsed)
      PROVE  FeedInv'
  BY <1>2 DEF OnPacket, stats, FeedInv, TypeOK, Seqs, EmittedBelowNext, GapBehindNext,
     NoneBeforeFirst, InOrder, CompleteSinceGap, GapIsMissing, Emitted
<1>3. CASE OnDuplicate
  BY <1>3 DEF OnDuplicate, FeedInv, TypeOK, Seqs, EmittedBelowNext, GapBehindNext,
     NoneBeforeFirst, InOrder, CompleteSinceGap, GapIsMissing, Emitted
<1>4. CASE OnMessage
  <2>0. seq \in Seqs /\ seq + 1 \in 0..(MaxSeq + 1) /\ emitted \in Seq(Seqs)
    BY <1>4 DEF OnMessage, FeedInv, TypeOK, Seqs, NoneBeforeFirst
  <2> DEFINE beat == kind[seq] = Heartbeat
  <2>1. TypeOK' /\ (seq <= end)' /\ (seq < end => seq \in Seqs)'
    <3>1. (emitted \in Seq(Seqs))'
      BY <1>4, <2>0, EmitOne DEF OnMessage
    <3>2. (nextSeq \in 0..(MaxSeq + 1) /\ seq \in 0..(MaxSeq + 1) /\ end \in 0..(MaxSeq + 1))'
      BY <1>4, <2>0 DEF OnMessage, FeedInv, TypeOK
    <3>3. (gaps \in Nat /\ gapLo \in 0..(MaxSeq + 1) /\ gapHi \in 0..(MaxSeq + 1))'
      BY <1>4, <2>0 DEF OnMessage, FeedInv, TypeOK, Seqs
    <3>4. (retransmit \in BOOLEAN)'
      BY <1>4, ZenonT(60) DEF OnMessage, FeedInv, TypeOK
    <3>5. (kind \in [Seqs -> Tokens \cup {Heartbeat}] /\ duplicates \subseteq Seqs)'
      BY <1>4 DEF OnMessage, FeedInv, TypeOK
    <3>6. (seq <= end)' /\ (seq < end => seq \in Seqs)'
      BY <1>4, <2>0 DEF OnMessage, FeedInv, TypeOK, Seqs
    <3> QED
      BY <3>1, <3>2, <3>3, <3>4, <3>5, <3>6 DEF TypeOK
  <2>2. GapBehindNext' /\ (nextSeq # 0)' /\ nextSeq <= seq
    BY <1>4, <2>0 DEF OnMessage, IsGap, FeedInv, TypeOK, Seqs, GapBehindNext
  <2>3. EmittedBelowNext' /\ InOrder' /\ NoneBeforeFirst'
    <3>1. CASE beat
      BY <1>4, <2>0, <2>2, <3>1, EmitOne, SMTT(60) DEF OnMessage, FeedInv, TypeOK, Seqs,
         EmittedBelowNext, InOrder, NoneBeforeFirst
    <3>2. CASE ~ beat
      BY <1>4, <2>0, <2>2, <3>2, EmitOne, SMTT(60) DEF OnMessage, FeedInv, TypeOK, Seqs,
         EmittedBelowNext, InOrder, NoneBeforeFirst
    <3> QED
      BY <3>1, <3>2
  <2>4. \A s \in Seqs : Emitted(s)' <=> Emitted(s) \/ (s = seq /\ ~ beat)
    BY <1>4, <2>0, EmitOne, SMTT(60) DEF OnMessage, Emitted, Seqs
  <2>5. GapIsMissing'
    BY <1>4, <2>0, <2>2, <2>4, SMTT(60) DEF OnMessage, IsGap, FeedInv, TypeOK, Seqs, GapIsMissing,
       EmittedBelowNext, GapBehindNext, Emitted
  <2>6. CompleteSinceGap'
    BY <1>4, <2>0, <2>2, <2>4, EmitOne, SMTT(60) DEF OnMessage, IsGap, FeedInv, TypeOK, Seqs,
       CompleteSinceGap, NoneBeforeFirst
  <2> QED
    BY <2>1, <2>2, <2>3, <2>5, <2>6 DEF FeedInv
<1>5. CASE ClearRetransmit
  BY <1>5 DEF ClearRetransmit, FeedInv, TypeOK, Seqs, EmittedBelowNext, GapBehindNext,
     NoneBeforeFirst, InOrder, CompleteSinceGap, GapIsMissing, Emitted
<1>6. CASE UNCHANGED feedVars
  BY <1>6 DEF feedVars, stats, FeedInv, TypeOK, Seqs, EmittedBelowNext, GapBehindNext,
     NoneBeforeFirst, InOrder, CompleteSinceGap, GapIsMissing, Emitted
<1> QED
  BY <1>1, <1>2, <1>3, <1>4, <1>5, <1>6 DEF Next, Arrive

\* The invariant holds in every reachable state of on_packet().
THEOREM FeedInvariant == Spec => []FeedInv
BY FeedInit, FeedStep, PTL DEF Spec

\* on_packet() emits every event at most once and in the order of the stream.
THEOREM EmitsInOrder == Spec => []InOrder
<1>1. FeedInv => InOrder
  BY DEF FeedInv
<1> QED
  BY <1>1, FeedInvariant, PTL

\* No event is lost that is not before or inside the last gap reported.
THEOREM NoSilentLoss == Spec => []CompleteSinceGap
<1>1. FeedInv => CompleteSinceGap
  BY DEF FeedInv
<1> QED
  BY <1>1, FeedInvariant, PTL

\* The range recorded for retransmission contains nothing already delivered.
THEOREM GapRangeMissing == Spec => []GapIsMissing
<1>1. FeedInv => GapIsMissing
  BY DEF FeedInv
<1> QED
  BY <1>1, FeedInvariant, PTL
==============================================================================
