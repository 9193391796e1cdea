----------------------------- MODULE FeedHandler -----------------------------
(***************************************************************************)
(* FeedHandler::on_packet() of src/src/feed_handler/feed_handler.hpp for   *)
(* one stream (streams_ is indexed by stream id and streams do not         *)
(* interact).  The two multicast sources carry the same numbered messages; *)
(* on_packet() ignores which source a packet is from, so the network is: a *)
(* packet, any run of consecutive messages of the stream, arrives any      *)
(* number of times, in any order, or never, and any tail of it may fail to *)
(* parse.  on_packet() is one action per iteration of its loop, because    *)
(* emit() hands the event to another thread.                               *)
(*                                                                         *)
(* `duplicates' is the set of the messages counted, not their number; the  *)
(* statistics packets and malformed_ are left out.                         *)
(***************************************************************************)
EXTENDS Integers, Sequences

CONSTANTS
  Tokens,      \* instruments of the stream
  Heartbeat,   \* the kind of a message that is about no instrument
  MaxSeq,      \* messages of the stream
  MaxBatch     \* bound on msg_count

ASSUME FeedAssumption ==
  /\ MaxSeq \in Nat /\ MaxBatch \in Nat
  /\ Heartbeat \notin Tokens

VARIABLES
  kind,               \* what each message of the stream is about, fixed
  nextSeq,            \* StreamStats.next_seq; 0 before the first message
  duplicates,         \* messages counted in StreamStats.duplicates
  gaps, gapLo, gapHi, \* StreamStats.gaps, last_gap_lo, last_gap_hi
  retransmit,         \* StreamStats.needs_retransmit
  seq, end,           \* on_packet(): the next message of the packet, and the end
                      \* of those that parse; seq = end outside a call
  emitted             \* sequence numbers of the events given to emit()

stats == <<nextSeq, duplicates, gaps, gapLo, gapHi, retransmit>>
feedVars == <<kind, stats, seq, end, emitted>>

Seqs == 1..MaxSeq

TypeOK ==
  /\ kind \in [Seqs -> Tokens \cup {Heartbeat}]
  /\ nextSeq \in 0..(MaxSeq + 1)
  /\ duplicates \subseteq Seqs
  /\ gaps \in Nat /\ gapLo \in 0..(MaxSeq + 1) /\ gapHi \in 0..(MaxSeq + 1)
  /\ retransmit \in BOOLEAN
  /\ seq \in 0..(MaxSeq + 1) /\ end \in 0..(MaxSeq + 1)
  /\ emitted \in Seq(Seqs)

Init ==
  /\ kind \in [Seqs -> Tokens \cup {Heartbeat}]
  /\ nextSeq = 0
  /\ duplicates = {}
  /\ gaps = 0 /\ gapLo = 0 /\ gapHi = 0
  /\ retransmit = FALSE
  /\ seq = 0 /\ end = 0
  /\ emitted = <<>>

------------------------------------------------------------------------------
\* "Whole packet already consumed from the other source?"
Consumed(first, count) == nextSeq # 0 /\ first + count <= nextSeq

OnDuplicatePacket(first, count) ==
  /\ seq = end
  /\ Consumed(first, count)
  /\ duplicates' = duplicates \cup first..(first + count - 1)
  /\ UNCHANGED <<kind, nextSeq, gaps, gapLo, gapHi, retransmit, seq, end, emitted>>

\* A packet to decode, of which the first `parsed' messages are well-formed.
OnPacket(first, count, parsed) ==
  /\ seq = end
  /\ ~ Consumed(first, count)
  /\ seq' = first
  /\ end' = first + parsed
  /\ UNCHANGED <<kind, stats, emitted>>

\* An iteration whose message is "Already delivered by the other source".
OnDuplicate ==
  /\ seq < end
  /\ nextSeq # 0 /\ seq < nextSeq
  /\ duplicates' = duplicates \cup {seq}
  /\ seq' = seq + 1
  /\ UNCHANGED <<kind, nextSeq, gaps, gapLo, gapHi, retransmit, end, emitted>>

\* Mutant of IsGap: a single missing message is no gap.
IsGapLenient == nextSeq # 0 /\ seq > nextSeq + 1

IsGap == nextSeq # 0 /\ seq > nextSeq

\* Mutant of OnMessage: messages behind next_seq are accepted too.
OnMessageLate ==
  /\ seq < end
  /\ IF IsGap
     THEN gaps' = gaps + 1 /\ gapLo' = nextSeq /\ gapHi' = seq /\ retransmit' = TRUE
     ELSE UNCHANGED <<gaps, gapLo, gapHi, retransmit>>
  /\ nextSeq' = seq + 1
  /\ emitted' = IF kind[seq] = Heartbeat THEN emitted ELSE Append(emitted, seq)
  /\ seq' = seq + 1
  /\ UNCHANGED <<kind, duplicates, end>>

\* Mutant of OnMessage: last_gap_hi includes the message that arrived.
OnMessageWideGap ==
  /\ seq < end
  /\ nextSeq = 0 \/ seq >= nextSeq
  /\ IF IsGap
     THEN gaps' = gaps + 1 /\ gapLo' = nextSeq /\ gapHi' = seq + 1 /\ retransmit' = TRUE
     ELSE UNCHANGED <<gaps, gapLo, gapHi, retransmit>>
  /\ nextSeq' = seq + 1
  /\ emitted' = IF kind[seq] = Heartbeat THEN emitted ELSE Append(emitted, seq)
  /\ seq' = seq + 1
  /\ UNCHANGED <<kind, duplicates, end>>

\* An iteration whose message is new, perhaps ahead of the expected one.
OnMessage ==
  /\ seq < end
  /\ nextSeq = 0 \/ seq >= nextSeq
  /\ IF IsGap
     THEN gaps' = gaps + 1 /\ gapLo' = nextSeq /\ gapHi' = seq /\ retransmit' = TRUE
     ELSE UNCHANGED <<gaps, gapLo, gapHi, retransmit>>
  /\ nextSeq' = seq + 1
  /\ emitted' = IF kind[seq] = Heartbeat THEN emitted ELSE Append(emitted, seq)
  /\ seq' = seq + 1
  /\ UNCHANGED <<kind, duplicates, end>>

ClearRetransmit ==
  /\ seq = end
  /\ retransmit' = FALSE
  /\ UNCHANGED <<kind, nextSeq, duplicates, gaps, gapLo, gapHi, seq, end, emitted>>

\* The packets that can arrive.
Arrive ==
  \E first \in Seqs : \E count \in 0..MaxBatch :
    /\ first + count <= MaxSeq + 1
    /\ \/ OnDuplicatePacket(first, count)
       \/ \E parsed \in 0..count : OnPacket(first, count, parsed)

Next == Arrive \/ OnDuplicate \/ OnMessage \/ ClearRetransmit

Spec == Init /\ [][Next]_feedVars

------------------------------------------------------------------------------
Emitted(s) == \E i \in DOMAIN emitted : emitted[i] = s

\* on_packet() "emits decoded MarketEvents in order" and each at most once,
\* however packets of the two sources are lost, repeated, delayed and reordered.
InOrder == \A i, j \in DOMAIN emitted : i < j => emitted[i] < emitted[j]

\* Nothing is lost silently: every event since the last reported gap, or since
\* the first event when none was reported, up to next_seq has been emitted.
CompleteSinceGap ==
  LET from == IF gaps = 0 THEN emitted[1] ELSE gapHi
  IN (gaps # 0 \/ emitted # <<>>) =>
       \A s \in Seqs : from <= s /\ s < nextSeq /\ kind[s] # Heartbeat => Emitted(s)

\* The range recorded for retransmission, [last_gap_lo, last_gap_hi), is really
\* missing: it holds no event that has been emitted.
GapIsMissing == \A s \in Seqs : gapLo <= s /\ s < gapHi => ~ Emitted(s)

------------------------------------------------------------------------------
\* The inductive strengthening.
EmittedBelowNext == \A i \in DOMAIN emitted : emitted[i] < nextSeq

GapBehindNext == gapLo <= gapHi /\ gapHi <= nextSeq

NoneBeforeFirst == nextSeq = 0 => emitted = <<>> /\ gaps = 0

FeedInv ==
  /\ TypeOK /\ seq <= end /\ (seq < end => seq \in Seqs)
  /\ EmittedBelowNext /\ GapBehindNext /\ NoneBeforeFirst
  /\ InOrder /\ CompleteSinceGap /\ GapIsMissing
==============================================================================
