------------------------------ MODULE NnfSession -------------------------------
(***************************************************************************)
(* src/src/session/nnf_session.hpp on the connection of                    *)
(* src/src/gateway/order_gateway.hpp.  The session's methods are operators *)
(* on its record.  The code that calls them, and the exchange, are         *)
(* external: the caller logs in, sends, beats, signs off and reconnects as *)
(* the methods' comments and tests/test_nnf_session.cpp do.  It encodes a  *)
(* message, sends it and notes it in three steps, with replies, the end of *)
(* the connection and the clock between them, and no promise of when: it   *)
(* may tell the session of a lost connection late or never.  What a        *)
(* message says is left out.                                               *)
(***************************************************************************)
EXTENDS Integers, Sequences, FiniteSets

CONSTANTS
  HeartbeatInterval, ReconnectWindow,  \* kHeartbeatIntervalNs, kReconnectWindowNs
  Wrap,                                \* 2^64, of Timestamp
  FirstSeqs,                           \* sequence numbers a sign on may be given
  MaxTime,                             \* bound on the clock
  MaxSends,                            \* bound on out_seq_
  MaxFlight                            \* bound on the messages in flight

ASSUME SessionAssumption ==
  /\ {HeartbeatInterval, ReconnectWindow, MaxTime, MaxSends, MaxFlight} \subseteq Nat \ {0}
  /\ FirstSeqs \subseteq Nat /\ Wrap \in Nat /\ MaxTime < Wrap

VARIABLES
  sess,                \* state_, out_seq_, last_send_ns_, disconnect_ns_
  now,
  hand,                \* the caller's message: none, encoded (its kind), or sent
                       \* and to be noted ("note")
  link,                \* "open": connected_ of the gateway; "lost": found broken,
                       \* the session not told; "none"
  up,                  \* is the connection still open at the exchange?
  toX, fromX,          \* in flight, by kind of message
  onX, seqX            \* the exchange: signed on?  next sequence number

wireVars == <<up, toX, fromX, onX, seqX>>
vars == <<sess, now, hand, link, wireVars>>

------------------------------------------------------------------------------
NewSession == [state |-> "Disconnected", out_seq |-> 0, last_send |-> 0, disconnect |-> 0]

start_login(s, t) == [s EXCEPT !.state = "SignOnSent", !.last_send = t]

\* Mutant of on_sign_on_response: the old numbering goes on.
SignOnKeepsSeq(s, ok, seq) ==
  [s EXCEPT !.state = IF ok THEN "Ready" ELSE "Disconnected"]

on_sign_on_response(s, ok, seq) ==
  IF ok THEN [s EXCEPT !.state = "Ready", !.out_seq = seq]
        ELSE [s EXCEPT !.state = "Disconnected"]

start_logout(s, t) == [s EXCEPT !.state = "SignOffSent", !.last_send = t]

on_sign_off_response(s) == [s EXCEPT !.state = "Closed"]

on_disconnect(s, t) == [s EXCEPT !.state = "Disconnected", !.disconnect = t]

\* Unsigned: huge after the clock was stepped back.
Elapsed(t, from) == (t - from) % Wrap

should_reconnect(s, t) ==
  /\ s.state = "Disconnected" /\ s.disconnect # 0
  /\ Elapsed(t, s.disconnect) <= ReconnectWindow

should_heartbeat(s, t) ==
  s.state = "Ready" /\ Elapsed(t, s.last_send) >= HeartbeatInterval

make_heartbeat(s, t) == [s EXCEPT !.last_send = t]

note_send(s, t) == [s EXCEPT !.last_send = t, !.out_seq = @ + 1]

------------------------------------------------------------------------------
Init ==
  /\ sess = NewSession /\ now = 1 /\ hand = "none"
  /\ link = "none" /\ up = FALSE
  /\ toX = <<>> /\ fromX = <<>>
  /\ onX = FALSE /\ seqX = 0

\* connect() or adopt(), for the first login or within the window; what was in
\* flight on the old connection is gone.
Connect ==
  /\ link # "open" /\ hand = "none"
  /\ sess = NewSession \/ should_reconnect(sess, now)
  /\ link' = "open" /\ up' = TRUE
  /\ toX' = <<>> /\ fromX' = <<>> /\ onX' = FALSE
  /\ UNCHANGED <<sess, now, hand, seqX>>

\* A message of kind k is encoded, which leaves the session as s.
Encode(k, s) ==
  /\ hand = "none"
  /\ hand' = k /\ sess' = s
  /\ UNCHANGED <<now, link, wireVars>>

\* The first login, or one after a drop or a refusal.
Login ==
  /\ sess.state = "Disconnected" /\ link = "open"
  /\ Encode("signon", start_login(sess, now))

\* Application messages are encoded by the order manager.
EncodeApplication ==
  sess.state = "Ready" /\ sess.out_seq < MaxSends /\ Encode("app", sess)

Heartbeat == should_heartbeat(sess, now) /\ Encode("heartbeat", make_heartbeat(sess, now))

Logout == sess.state = "Ready" /\ Encode("signoff", start_logout(sess, now))

\* OrderGateway::send_order(): it may fail at any time, and may still take a
\* message for a connection that has ended.
send_order ==
  /\ hand \notin {"none", "note"}
  /\ \/ /\ Len(toX) < MaxFlight
        /\ toX' = IF up /\ link = "open" THEN Append(toX, hand) ELSE toX
        /\ hand' = IF hand = "app" THEN "note" ELSE "none"
        /\ UNCHANGED link
     \/ /\ link' = IF link = "open" THEN "lost" ELSE link
        /\ hand' = "none"
        /\ UNCHANGED toX
  /\ UNCHANGED <<sess, now, up, fromX, onX, seqX>>

\* "Call after sending any application message".
NoteSend ==
  /\ hand = "note"
  /\ hand' = "none" /\ sess' = note_send(sess, now)
  /\ UNCHANGED <<now, link, wireVars>>

\* poll_response() finds a reply, and the session handles it.
PollReply ==
  /\ link = "open" /\ fromX # <<>>
  /\ LET r == Head(fromX)
     IN sess' = IF r.kind = "signoff" THEN on_sign_off_response(sess)
                                      ELSE on_sign_on_response(sess, r.ok, r.seq)
  /\ fromX' = Tail(fromX)
  /\ UNCHANGED <<now, hand, link, up, toX, onX, seqX>>

\* poll_response() reads the end of the stream.  (An error or nothing to read
\* changes nothing.)
PollClosed ==
  /\ link = "open" /\ fromX = <<>> /\ ~ up
  /\ link' = "lost"
  /\ UNCHANGED <<sess, now, hand, wireVars>>

\* The caller sees connected() false and tells the session.
TellDisconnect ==
  /\ link = "lost"
  /\ link' = "none" /\ sess' = on_disconnect(sess, now)
  /\ UNCHANGED <<now, hand, wireVars>>

\* The exchange takes a message; a sign on starts a numbering or is refused.
XTake ==
  /\ toX # <<>>
  /\ toX' = Tail(toX)
  /\ \/ /\ Head(toX) = "signon"
        /\ \E ok \in BOOLEAN, seq \in FirstSeqs :
             /\ onX' = ok
             /\ seqX' = IF ok THEN seq ELSE seqX
             /\ fromX' = Append(fromX, [kind |-> "signon", ok |-> ok, seq |-> seq])
     \/ /\ Head(toX) = "app"
        /\ seqX' = seqX + 1
        /\ UNCHANGED <<fromX, onX>>
     \/ /\ Head(toX) = "signoff"
        /\ onX' = FALSE
        /\ fromX' = Append(fromX, [kind |-> "signoff"])
        /\ UNCHANGED seqX
     \/ /\ Head(toX) = "heartbeat"
        /\ UNCHANGED <<fromX, onX, seqX>>
  /\ UNCHANGED <<sess, now, hand, link, up>>

\* The connection ends: closed by the exchange, or reset.
Drop ==
  /\ up
  /\ up' = FALSE /\ onX' = FALSE /\ toX' = <<>>
  /\ fromX' \in {fromX, <<>>}
  /\ UNCHANGED <<sess, now, hand, link, seqX>>

\* CLOCK_REALTIME: time passes, or is set.
Clock ==
  /\ now' \in 1..MaxTime
  /\ UNCHANGED <<sess, hand, link, wireVars>>

Next ==
  \/ Connect \/ Login \/ EncodeApplication \/ Heartbeat \/ Logout
  \/ send_order \/ NoteSend \/ PollReply \/ PollClosed \/ TellDisconnect
  \/ XTake \/ Drop \/ Clock

Spec == Init /\ [][Next]_vars

------------------------------------------------------------------------------
\* The application messages of a queue.
Apps(q) == Cardinality({i \in DOMAIN q : q[i] = "app"})

\* A session that is ready on an open connection has been accepted on that very
\* connection, and the number of its next message is the one the exchange
\* expects once it has taken what is in flight, whether or not note_send() has
\* been called: across reconnects, refused logins, failed sends, lost messages and
\* heartbeats, which are not numbered.
SequenceAgrees ==
  sess.state = "Ready" /\ link = "open" /\ up =>
    onX /\ sess.out_seq + (IF hand = "note" THEN 1 ELSE 0) = seqX + Apps(toX)
==============================================================================
