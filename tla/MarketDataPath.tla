--------------------------- MODULE MarketDataPath ----------------------------
(***************************************************************************)
(* The market data path: the gateway thread runs FeedHandler::on_packet()  *)
(* and pushes what it emits into the EventQueue ring (src/src/gateway/     *)
(* market_data_gateway.hpp), the order book thread pops it and routes it   *)
(* to the book of its token (src/src/order_book/book_manager.hpp).  The    *)
(* ring is the bounded FIFO that RingBuffer is shown to be.                *)
(*                                                                         *)
(* Message s is an add of order number s, at one price, or a Snap Quote.   *)
(***************************************************************************)
EXTENDS FeedHandler, FiniteSets

CONSTANTS
  Kinds,        \* what messages of this stream are about: tokens, Heartbeat
  Watched,      \* tokens given to add_token()
  QueueSize     \* capacity of EventQueue

ASSUME PathAssumption == Watched \subseteq Tokens /\ QueueSize \in Nat \ {0}

VARIABLES
  snaps,        \* the messages that are Snap Quotes, fixed
  queue,        \* EventQueue
  dropped,      \* dropped_
  books,        \* slots_: token -> book
  since         \* token -> message that seeded its book, or the first it applied

pathVars == <<feedVars, snaps, queue, dropped, books, since>>

Book == INSTANCE OrderBook WITH
          OrderNos <- Seqs, Prices <- {1}, Qtys <- {1}, Ticks <- {0}, MaxLevels <- 1,
          TableSize <- MaxSeq + 1, MaxCount <- MaxSeq, book <- books

PathInit ==
  /\ Init
  /\ kind \in [Seqs -> Kinds]
  /\ snaps \in SUBSET {s \in Seqs : kind[s] # Heartbeat}
  /\ queue = <<>>
  /\ dropped = 0
  /\ books = [t \in Watched |-> Book!NewBook(0)]
  /\ since = [t \in Watched |-> 0]

\* DrainSource(): the emit callback pushes the event, or counts it as dropped.
Push(s) ==
  IF Len(queue) < QueueSize
  THEN queue' = Append(queue, s) /\ UNCHANGED dropped
  ELSE dropped' = dropped + 1 /\ UNCHANGED queue

\* DrainSource(): a step of on_packet() on the gateway thread.
Gateway ==
  /\ \/ (Arrive \/ OnDuplicate \/ ClearRetransmit) /\ UNCHANGED <<queue, dropped>>
     \/ /\ OnMessage
        /\ IF emitted' = emitted THEN UNCHANGED <<queue, dropped>> ELSE Push(seq)
  /\ UNCHANGED <<snaps, books, since>>

Event(s) ==
  IF s \in snaps
  THEN Book!Snap(s, [price |-> 1, qty |-> 1], [price |-> 1, qty |-> 0])
  ELSE Book!Add(s, s, "buy", 1, 1)

\* pop() on the order book thread, then BookManager::route().
Route ==
  /\ queue # <<>>
  /\ queue' = Tail(queue)
  /\ LET s == Head(queue)
         t == kind[s]
     IN IF t \in Watched
        THEN /\ books' = [books EXCEPT ![t] = Book!apply_event(@, Event(s))[1]]
             /\ since' = [since EXCEPT ![t] = IF s \in snaps \/ books[t].expected = 0 THEN s ELSE @]
        ELSE UNCHANGED <<books, since>>
  /\ UNCHANGED <<feedVars, snaps, dropped>>

PathNext == Gateway \/ Route

PathSpec == PathInit /\ [][PathNext]_pathVars

\* The order book thread keeps polling the ring.
FairPathSpec == PathSpec /\ WF_pathVars(Route)

------------------------------------------------------------------------------
\* End to end, a book that is not stale has every add from the message that
\* seeded it (or that it joined at) to the last it applied: a message lost by both
\* sources, cut off in a packet, late, or dropped at a full ring cannot be followed
\* by another without the book going stale (order_book.hpp:62-74).
BookComplete ==
  \A t \in Watched :
    ~ books[t].stale =>
      DOMAIN books[t].orders =
        {s \in Seqs \ snaps : kind[s] = t /\ since[t] <= s /\ s < books[t].expected}

\* Nothing was lost: no gap in the stream, no event dropped.
NothingLost == gaps = 0 /\ dropped = 0

\* The "Per-token sequence-gap detection" (order_book.hpp:61) detects gaps: a book
\* does not count one when no message was lost.
NoFalseGap == NothingLost => \A t \in Watched : books[t].gaps = 0

\* "A Snap Quote can still re-seed" (order_book.hpp:67): a stale book recovers once
\* a Snap Quote of its token is in the ring, whatever happened before it.
ReseedRecovers ==
  \A t \in Watched, s \in Seqs :
    books[t].stale /\ s \in snaps /\ kind[s] = t /\ (\E i \in DOMAIN queue : queue[i] = s)
      ~> ~ books[t].stale
==============================================================================
