--------------------------- MODULE NnfSessionProofs ----------------------------
(***************************************************************************)
(* The numbering of the session, for every bound and every first number.   *)
(***************************************************************************)
EXTENDS NnfSession, FiniteSetTheorems, FunctionTheorems, SequenceTheorems, TLAPS

States == {"Disconnected", "SignOnSent", "Ready", "SignOffSent", "Closed"}
Kind == {"signon", "app", "heartbeat", "signoff"}
Signed(ok, seq) == [kind |-> "signon", ok |-> ok, seq |-> seq]
SignedOff == [kind |-> "signoff"]
Reply == {Signed(ok, seq) : ok \in BOOLEAN, seq \in Nat} \cup {SignedOff}

Session == [state : States, out_seq : Nat, last_send : Nat, disconnect : Nat]

SessionTypes ==
  /\ sess \in Session /\ now \in Nat /\ seqX \in Nat
  /\ hand \in Kind \cup {"none", "note"}
  /\ toX \in Seq(Kind) /\ fromX \in Seq(Reply)

\* The sign on of this connection is to be sent, to be taken, or answered.
LoggingIn ==
  \/ hand = "signon" /\ toX = <<>> /\ fromX = <<>>
  \/ hand = "none" /\ toX = <<"signon">> /\ fromX = <<>>
  \/ /\ hand = "none" /\ toX = <<>>
     /\ \E ok \in BOOLEAN, seq \in Nat :
          fromX = <<Signed(ok, seq)>> /\ (ok => onX /\ seqX = seq)

\* No sign on is left over, and the numbers agree.
Numbered ==
  /\ onX /\ fromX = <<>> /\ hand \in {"none", "app", "heartbeat", "note"}
  /\ \A i \in DOMAIN toX : toX[i] \in {"app", "heartbeat"}
  /\ sess.out_seq + (IF hand = "note" THEN 1 ELSE 0) = seqX + Apps(toX)

\* After a sign off no sign on is under way that could make the session ready.
SigningOff ==
  /\ hand # "signon"
  /\ \A i \in DOMAIN toX : toX[i] # "signon"
  /\ \A i \in DOMAIN fromX : fromX[i] = SignedOff

\* What is under way on a connection that both ends believe in.
OnLink ==
  link = "open" /\ up =>
    /\ sess.state = "Disconnected" => hand = "none" /\ toX = <<>> /\ fromX = <<>>
    /\ sess.state = "SignOnSent" => LoggingIn
    /\ sess.state = "Ready" => Numbered
    /\ sess.state \in {"SignOffSent", "Closed"} => SigningOff

SessionInv == SessionTypes /\ OnLink

------------------------------------------------------------------------------
\* The messages of a queue are finitely many.
LEMMA AppsFinite ==
  ASSUME NEW q \in Seq(Kind)
  PROVE  IsFiniteSet({i \in DOMAIN q : q[i] = "app"}) /\ Apps(q) \in Nat
<1>1. IsFiniteSet(1..Len(q)) /\ DOMAIN q = 1..Len(q)
  BY FS_Interval
<1>2. {i \in DOMAIN q : q[i] = "app"} \in SUBSET (1..Len(q))
  BY <1>1
<1>3. IsFiniteSet({i \in DOMAIN q : q[i] = "app"})
  BY <1>1, <1>2, FS_Subset
<1> QED BY <1>3, FS_CardinalityType DEF Apps

LEMMA AppsEmpty == Apps(<<>>) = 0
<1>1. {i \in DOMAIN <<>> : <<>>[i] = "app"} = {}
  OBVIOUS
<1> QED BY <1>1, FS_EmptySet DEF Apps

LEMMA AppsAppend ==
  ASSUME NEW q \in Seq(Kind), NEW k \in Kind
  PROVE  Apps(Append(q, k)) = Apps(q) + (IF k = "app" THEN 1 ELSE 0)
<1> DEFINE S == {i \in DOMAIN q : q[i] = "app"}
           T == {i \in DOMAIN Append(q, k) : Append(q, k)[i] = "app"}
           n == Len(q) + 1
<1>1. /\ DOMAIN q = 1..Len(q) /\ DOMAIN Append(q, k) = 1..n /\ Len(q) \in Nat
      /\ \A i \in 1..Len(q) : Append(q, k)[i] = q[i]
      /\ Append(q, k)[n] = k
  OBVIOUS
<1>2. T = IF k = "app" THEN S \cup {n} ELSE S
  BY <1>1
<1>3. n \notin S
  BY <1>1
<1>4. IsFiniteSet(S) /\ Cardinality(S) \in Nat
  BY AppsFinite DEF Apps
<1>5. Cardinality(S \cup {n}) = Cardinality(S) + 1
  <2> HIDE DEF S, n
  <2> QED BY <1>3, <1>4, FS_AddElement
<1>6. Cardinality(T) = Cardinality(S) + (IF k = "app" THEN 1 ELSE 0)
  <2> HIDE DEF S, T, n
  <2> QED BY <1>2, <1>4, <1>5
<1> QED BY <1>6 DEF Apps

LEMMA AppsTail ==
  ASSUME NEW q \in Seq(Kind), q # <<>>
  PROVE  Apps(q) = Apps(Tail(q)) + (IF Head(q) = "app" THEN 1 ELSE 0)
<1> DEFINE S == {i \in DOMAIN q : q[i] = "app"}
           T == {i \in DOMAIN Tail(q) : Tail(q)[i] = "app"}
           R == S \ {1}
           f == [i \in T |-> i + 1]
<1>1. /\ DOMAIN q = 1..Len(q) /\ Len(q) \in Nat \ {0} /\ Tail(q) \in Seq(Kind)
      /\ DOMAIN Tail(q) = 1..(Len(q) - 1)
      /\ \A i \in 1..(Len(q) - 1) : Tail(q)[i] = q[i + 1]
      /\ Head(q) = q[1]
  OBVIOUS
<1>2. f \in [T -> R]
  BY <1>1
<1>3. \A a, b \in T : f[a] = f[b] => a = b
  BY <1>1
<1>4. \A r \in R : \E t \in T : f[t] = r
  <2> SUFFICES ASSUME NEW r \in R PROVE \E t \in T : f[t] = r
    OBVIOUS
  <2>1. r - 1 \in T /\ (r - 1) + 1 = r
    BY <1>1
  <2>2. f[r - 1] = r
    BY <2>1
  <2> QED BY <2>1, <2>2
<1>5. IsFiniteSet(T) /\ IsFiniteSet(S) /\ Cardinality(T) \in Nat /\ Cardinality(S) \in Nat
  BY <1>1, AppsFinite DEF Apps
<1>6. 1 \in S <=> Head(q) = "app"
  BY <1>1
<1> HIDE DEF S, T, f
<1>7. f \in Bijection(T, R)
  BY <1>2, <1>3, <1>4, Fun_IsBij
<1>8. ExistsBijection(T, R)
  BY <1>7, Fun_ExistsBij
<1>9. Cardinality(R) = Cardinality(T)
  BY <1>5, <1>8, FS_Bijection
<1>10. Cardinality(R) = IF 1 \in S THEN Cardinality(S) - 1 ELSE Cardinality(S)
  BY <1>5, FS_RemoveElement
<1>11. Cardinality(S) = Cardinality(T) + (IF Head(q) = "app" THEN 1 ELSE 0)
  BY <1>5, <1>6, <1>9, <1>10
<1> QED BY <1>11 DEF Apps, S, T

------------------------------------------------------------------------------
\* The session's methods keep its type; only two of them touch the number.
LEMMA Methods ==
  ASSUME NEW s \in Session, NEW t \in Nat
  PROVE  /\ start_login(s, t) \in Session /\ start_login(s, t).state = "SignOnSent"
         /\ start_logout(s, t) \in Session /\ start_logout(s, t).state = "SignOffSent"
         /\ make_heartbeat(s, t) \in Session /\ make_heartbeat(s, t).state = s.state
         /\ make_heartbeat(s, t).out_seq = s.out_seq
         /\ note_send(s, t) \in Session /\ note_send(s, t).state = s.state
         /\ note_send(s, t).out_seq = s.out_seq + 1
         /\ on_disconnect(s, t) \in Session /\ on_disconnect(s, t).state = "Disconnected"
         /\ on_sign_off_response(s) \in Session /\ on_sign_off_response(s).state = "Closed"
<1>1. start_login(s, t) \in Session /\ start_login(s, t).state = "SignOnSent"
  BY DEF Session, States, start_login
<1>2. start_logout(s, t) \in Session /\ start_logout(s, t).state = "SignOffSent"
  BY DEF Session, States, start_logout
<1>3. /\ make_heartbeat(s, t) \in Session /\ make_heartbeat(s, t).state = s.state
      /\ make_heartbeat(s, t).out_seq = s.out_seq
  BY DEF Session, States, make_heartbeat
<1>4. /\ note_send(s, t) \in Session /\ note_send(s, t).state = s.state
      /\ note_send(s, t).out_seq = s.out_seq + 1
  <2> DEFINE n == s.out_seq + 1
  <2>1. n \in Nat /\ note_send(s, t) = [s EXCEPT !.last_send = t, !.out_seq = n]
    BY DEF Session, note_send
  <2> HIDE DEF n
  <2>2. /\ note_send(s, t) \in Session /\ note_send(s, t).state = s.state
        /\ note_send(s, t).out_seq = n
    BY <2>1 DEF Session
  <2> QED BY <2>2 DEF n
<1>5. on_disconnect(s, t) \in Session /\ on_disconnect(s, t).state = "Disconnected"
  BY DEF Session, States, on_disconnect
<1>6. on_sign_off_response(s) \in Session /\ on_sign_off_response(s).state = "Closed"
  BY DEF Session, States, on_sign_off_response
<1> QED BY <1>1, <1>2, <1>3, <1>4, <1>5, <1>6

LEMMA SignOnResponse ==
  ASSUME NEW s \in Session, NEW ok \in BOOLEAN, NEW seq \in Nat
  PROVE  /\ on_sign_on_response(s, ok, seq) \in Session
         /\ ok => /\ on_sign_on_response(s, ok, seq).state = "Ready"
                  /\ on_sign_on_response(s, ok, seq).out_seq = seq
         /\ ~ ok => on_sign_on_response(s, ok, seq).state = "Disconnected"
  BY DEF Session, States, on_sign_on_response

\* A reply is one of the two.
LEMMA ReplyKinds ==
  ASSUME NEW r \in Reply
  PROVE  \/ r = SignedOff /\ r.kind = "signoff"
         \/ \E ok \in BOOLEAN, seq \in Nat :
              r = Signed(ok, seq) /\ r.kind = "signon" /\ r.ok = ok /\ r.seq = seq
  BY DEF Reply, Signed, SignedOff

------------------------------------------------------------------------------
\* The caller's steps: encoding, sending and noting a message.
LEMMA CallerStep ==
  ASSUME SessionInv, \/ Login \/ EncodeApplication \/ Heartbeat \/ Logout \/ NoteSend
  PROVE  SessionInv'
<1>0. /\ sess \in Session /\ now \in Nat /\ now' = now /\ seqX \in Nat
      /\ toX \in Seq(Kind) /\ fromX \in Seq(Reply)
      /\ UNCHANGED <<link, up, toX, fromX, onX, seqX>>
  BY DEF SessionInv, SessionTypes, Login, EncodeApplication, Heartbeat, Logout, NoteSend, Encode, wireVars
<1>1. CASE Login
  <2>1. /\ sess' \in Session /\ sess'.state = "SignOnSent" /\ hand' = "signon"
        /\ sess.state = "Disconnected"
    BY <1>0, <1>1, Methods DEF Login, Encode
  <2> QED BY <1>0, <2>1 DEF SessionInv, SessionTypes, OnLink, LoggingIn, Kind
<1>2. CASE EncodeApplication
  <2>1. sess' = sess /\ hand' = "app" /\ hand = "none" /\ sess.state = "Ready"
    BY <1>2 DEF EncodeApplication, Encode
  <2> QED BY <1>0, <2>1 DEF SessionInv, SessionTypes, OnLink, Numbered, Apps, Kind
<1>3. CASE Heartbeat
  <2>1. /\ sess' \in Session /\ sess'.state = "Ready" /\ sess'.out_seq = sess.out_seq
        /\ hand' = "heartbeat" /\ hand = "none" /\ sess.state = "Ready"
    BY <1>0, <1>3, Methods DEF Heartbeat, Encode, should_heartbeat
  <2> QED BY <1>0, <2>1 DEF SessionInv, SessionTypes, OnLink, Numbered, Apps, Kind
<1>4. CASE Logout
  <2>1. /\ sess' \in Session /\ sess'.state = "SignOffSent"
        /\ hand' = "signoff" /\ hand = "none" /\ sess.state = "Ready"
    BY <1>0, <1>4, Methods DEF Logout, Encode
  <2>2. Numbered => SigningOff'
    BY <1>0, <2>1 DEF Numbered, SigningOff
  <2> QED BY <1>0, <2>1, <2>2 DEF SessionInv, SessionTypes, OnLink, Kind
<1>5. CASE NoteSend
  <2>1. /\ sess' \in Session /\ sess'.state = sess.state /\ sess'.out_seq = sess.out_seq + 1
        /\ hand' = "none" /\ hand = "note"
    BY <1>0, <1>5, Methods DEF NoteSend
  <2>2. Numbered => Numbered'
    <3>1. sess.out_seq \in Nat /\ Apps(toX)' = Apps(toX)
      BY <1>0 DEF Session, Apps
    <3> QED BY <1>0, <2>1, <3>1 DEF Numbered
  <2>3. SigningOff => SigningOff'
    BY <1>0, <2>1 DEF SigningOff
  <2> QED BY <1>0, <2>1, <2>2, <2>3 DEF SessionInv, SessionTypes, OnLink, LoggingIn
<1> QED BY <1>1, <1>2, <1>3, <1>4, <1>5

LEMMA SendStep ==
  ASSUME SessionInv, send_order
  PROVE  SessionInv'
<1>0. /\ sess \in Session /\ now \in Nat /\ now' = now /\ seqX \in Nat
      /\ toX \in Seq(Kind) /\ fromX \in Seq(Reply)
      /\ hand \in Kind /\ UNCHANGED <<sess, up, fromX, onX, seqX>>
  BY DEF SessionInv, SessionTypes, send_order
<1>1. CASE link' # "open" \/ ~ up
  <2>1. toX' \in Seq(Kind) /\ hand' \in {"none", "note"}
    <3>1. hand' \in {"none", "note"} /\ (toX' = toX \/ toX' = Append(toX, hand))
      BY DEF send_order
    <3> QED BY <1>0, <3>1
  <2> QED BY <1>0, <1>1, <2>1 DEF SessionInv, SessionTypes, OnLink
<1>2. CASE link' = "open" /\ up
  <2>1. /\ link = "open" /\ toX' = Append(toX, hand)
        /\ hand' = IF hand = "app" THEN "note" ELSE "none"
    BY <1>2 DEF send_order
  <2>2. /\ toX' \in Seq(Kind) /\ DOMAIN toX' = 1..(Len(toX) + 1) /\ DOMAIN toX = 1..Len(toX)
        /\ \A i \in 1..Len(toX) : toX'[i] = toX[i]
        /\ toX'[Len(toX) + 1] = hand /\ Len(toX) \in Nat
    BY <1>0, <2>1
  <2>3. \A i \in DOMAIN toX' : i \in DOMAIN toX \/ i = Len(toX) + 1
    BY <2>2
  <2>4. LoggingIn => LoggingIn'
    <3>1. LoggingIn => hand = "signon" /\ toX = <<>> /\ fromX = <<>>
      BY <1>0 DEF LoggingIn, Kind
    <3>2. Append(<<>>, "signon") = <<"signon">>
      OBVIOUS
    <3> QED BY <1>0, <2>1, <3>1, <3>2 DEF LoggingIn
  <2>5. Numbered => Numbered'
    <3>1. sess.out_seq \in Nat /\ Apps(toX)' = Apps(Append(toX, hand)) /\ Apps(toX) \in Nat
      BY <1>0, <2>1, AppsFinite DEF Session, Apps
    <3>2. Apps(toX)' = Apps(toX) + (IF hand = "app" THEN 1 ELSE 0)
      BY <1>0, <3>1, AppsAppend
    <3>3. Numbered => hand \in {"app", "heartbeat"}
      BY <1>0 DEF Numbered, Kind
    <3>4. Numbered => sess'.out_seq + (IF hand' = "note" THEN 1 ELSE 0) = seqX' + Apps(toX)'
      BY <1>0, <2>1, <3>1, <3>2, <3>3 DEF Numbered
    <3>5. Numbered => \A i \in DOMAIN toX' : toX'[i] \in {"app", "heartbeat"}
      BY <2>2, <2>3, <3>3 DEF Numbered
    <3> QED BY <1>0, <2>1, <3>4, <3>5 DEF Numbered
  <2>6. SigningOff => SigningOff'
    BY <1>0, <2>1, <2>2, <2>3 DEF SigningOff
  <2>7. hand' \in {"none", "note"}
    BY <2>1
  <2>8. hand # "none"
    BY DEF send_order
  <2> QED BY <1>0, <1>2, <2>1, <2>2, <2>4, <2>5, <2>6, <2>7, <2>8
        DEF SessionInv, SessionTypes, OnLink
<1> QED BY <1>1, <1>2

\* A reply is handled.
LEMMA ReplyStep ==
  ASSUME SessionInv, PollReply
  PROVE  SessionInv'
<1> DEFINE r == Head(fromX)
<1>0. /\ sess \in Session /\ now \in Nat /\ now' = now /\ seqX \in Nat
      /\ toX \in Seq(Kind) /\ fromX \in Seq(Reply)
      /\ UNCHANGED <<hand, link, up, toX, onX, seqX>> /\ fromX # <<>> /\ fromX' = Tail(fromX)
      /\ link = "open"
  BY DEF SessionInv, SessionTypes, PollReply
<1>1. /\ r \in Reply /\ Tail(fromX) \in Seq(Reply) /\ r = fromX[1] /\ 1 \in DOMAIN fromX
      /\ \A i \in DOMAIN Tail(fromX) : i + 1 \in DOMAIN fromX /\ Tail(fromX)[i] = fromX[i + 1]
  BY <1>0
<1>2. sess' = IF r.kind = "signoff" THEN on_sign_off_response(sess)
                                    ELSE on_sign_on_response(sess, r.ok, r.seq)
  BY DEF PollReply
<1>3. up => sess.state = "SignOnSent" \/ sess.state \in {"SignOffSent", "Closed"}
  BY <1>0 DEF SessionInv, OnLink, Numbered, Session, States
<1> HIDE DEF r
<1>4. sess' \in Session
  <2>1. CASE r.kind = "signoff"
    BY <1>0, <1>2, <2>1, Methods
  <2>2. CASE r.kind # "signoff"
    <3>1. r.ok \in BOOLEAN /\ r.seq \in Nat
      BY <1>1, <2>2, ReplyKinds
    <3> QED BY <1>0, <1>2, <2>2, <3>1, SignOnResponse
  <2> QED BY <2>1, <2>2
<1>5. CASE ~ up
  BY <1>0, <1>1, <1>4, <1>5 DEF SessionInv, SessionTypes, OnLink
<1>6. CASE up /\ sess.state = "SignOnSent"
  <2>1. LoggingIn
    BY <1>0, <1>6 DEF SessionInv, OnLink
  <2>2. PICK ok \in BOOLEAN, seq \in Nat :
          /\ hand = "none" /\ toX = <<>> /\ fromX = <<Signed(ok, seq)>>
          /\ ok => onX /\ seqX = seq
    BY <1>0, <2>1 DEF LoggingIn
  <2>3. r = Signed(ok, seq) /\ fromX' = <<>>
    BY <1>0, <2>2 DEF r
  <2>4. r.kind = "signon" /\ r.ok = ok /\ r.seq = seq
    BY <2>3 DEF Signed
  <2>5. sess' = on_sign_on_response(sess, ok, seq)
    BY <1>2, <2>4
  <2>6. CASE ok
    <3>1. sess'.state = "Ready" /\ sess'.out_seq = seq
      BY <1>0, <2>5, <2>6, SignOnResponse
    <3>2. Apps(toX') = 0 /\ DOMAIN toX' = {}
      BY <1>0, <2>2, AppsEmpty
    <3>3. Numbered'
      BY <1>0, <2>2, <2>3, <2>6, <3>1, <3>2 DEF Numbered, Apps
    <3> QED BY <1>0, <1>1, <1>4, <3>1, <3>3 DEF SessionInv, SessionTypes, OnLink
  <2>7. CASE ~ ok
    <3>1. sess'.state = "Disconnected"
      BY <1>0, <2>5, <2>7, SignOnResponse
    <3> QED BY <1>0, <1>1, <1>4, <2>2, <2>3, <3>1 DEF SessionInv, SessionTypes, OnLink
  <2> QED BY <2>6, <2>7
<1>7. CASE up /\ sess.state \in {"SignOffSent", "Closed"}
  <2>1. SigningOff
    BY <1>0, <1>7 DEF SessionInv, OnLink
  <2>2. r.kind = "signoff"
    BY <1>1, <2>1 DEF SigningOff, SignedOff
  <2>3. sess'.state = "Closed"
    BY <1>0, <1>2, <2>2, Methods
  <2>4. SigningOff'
    BY <1>0, <1>1, <2>1 DEF SigningOff
  <2> QED BY <1>0, <1>1, <1>4, <2>3, <2>4 DEF SessionInv, SessionTypes, OnLink
<1> QED BY <1>3, <1>5, <1>6, <1>7

\* The exchange takes a message.
LEMMA TakeStep ==
  ASSUME SessionInv, XTake
  PROVE  SessionInv'
<1>0. /\ sess \in Session /\ now \in Nat /\ seqX \in Nat
      /\ toX \in Seq(Kind) /\ fromX \in Seq(Reply)
      /\ UNCHANGED <<sess, now, hand, link, up>> /\ toX # <<>> /\ toX' = Tail(toX)
  BY DEF SessionInv, SessionTypes, XTake
<1>1. /\ Tail(toX) \in Seq(Kind) /\ Head(toX) = toX[1] /\ 1 \in DOMAIN toX
      /\ \A i \in DOMAIN Tail(toX) : i + 1 \in DOMAIN toX /\ Tail(toX)[i] = toX[i + 1]
  BY <1>0
<1>2. Apps(toX) = Apps(toX') + (IF Head(toX) = "app" THEN 1 ELSE 0) /\ Apps(toX') \in Nat
  BY <1>0, <1>1, AppsTail, AppsFinite
<1>3. CASE Head(toX) = "signon"
  <2>1. PICK ok \in BOOLEAN, seq \in FirstSeqs :
          /\ onX' = ok /\ seqX' = IF ok THEN seq ELSE seqX
          /\ fromX' = Append(fromX, Signed(ok, seq))
    BY <1>3 DEF XTake, Signed
  <2>2. seq \in Nat /\ Signed(ok, seq) \in Reply
    BY SessionAssumption DEF Reply
  <2>3. seqX' \in Nat /\ fromX' \in Seq(Reply)
    BY <1>0, <2>1, <2>2
  <2>4. LoggingIn => LoggingIn'
    <3>1. LoggingIn => hand = "none" /\ toX = <<"signon">> /\ fromX = <<>>
      BY <1>0 DEF LoggingIn
    <3>2. LoggingIn => toX' = <<>> /\ fromX' = <<Signed(ok, seq)>>
      BY <1>0, <2>1, <3>1
    <3> QED BY <1>0, <2>1, <2>2, <3>1, <3>2 DEF LoggingIn
  <2>5. ~ Numbered /\ ~ SigningOff
    BY <1>1, <1>3 DEF Numbered, SigningOff
  <2> QED BY <1>0, <1>1, <2>3, <2>4, <2>5 DEF SessionInv, SessionTypes, OnLink
<1>4. CASE Head(toX) # "signon"
  <2>1. ~ LoggingIn
    BY <1>0, <1>4 DEF LoggingIn
  <2>2. \/ Head(toX) = "app" /\ seqX' = seqX + 1 /\ UNCHANGED <<fromX, onX>>
        \/ /\ Head(toX) = "signoff" /\ onX' = FALSE /\ seqX' = seqX
           /\ fromX' = Append(fromX, SignedOff)
        \/ Head(toX) = "heartbeat" /\ UNCHANGED <<fromX, onX, seqX>>
    BY <1>4 DEF XTake, SignedOff
  <2>3. SignedOff \in Reply
    BY DEF Reply
  <2>4. seqX' \in Nat /\ fromX' \in Seq(Reply)
    <3>1. Append(fromX, SignedOff) \in Seq(Reply) /\ seqX + 1 \in Nat
      BY <1>0, <2>3
    <3>2. /\ seqX' = seqX + 1 \/ seqX' = seqX
          /\ fromX' = fromX \/ fromX' = Append(fromX, SignedOff)
      BY <2>2
    <3> QED BY <1>0, <3>1, <3>2
  <2>5. Numbered => Numbered'
    <3>1. Numbered => Head(toX) \in {"app", "heartbeat"}
      BY <1>1 DEF Numbered
    <3>2. Numbered => \A i \in DOMAIN toX' : toX'[i] \in {"app", "heartbeat"}
      BY <1>0, <1>1 DEF Numbered
    <3>3. sess.out_seq \in Nat /\ Apps(toX)' = Apps(toX')
      BY <1>0 DEF Session, Apps
    <3>4. Numbered => sess.out_seq + (IF hand = "note" THEN 1 ELSE 0) = seqX' + Apps(toX')
      <4>1. Head(toX) = "app" => seqX' = seqX + 1 /\ Apps(toX) = Apps(toX') + 1
        BY <1>2, <2>2
      <4>2. Head(toX) = "heartbeat" => seqX' = seqX /\ Apps(toX) = Apps(toX')
        BY <1>2, <2>2
      <4>3. Numbered => sess.out_seq + (IF hand = "note" THEN 1 ELSE 0) = seqX + Apps(toX)
        BY DEF Numbered
      <4>4. seqX + Apps(toX) = seqX' + Apps(toX') \/ Head(toX) \notin {"app", "heartbeat"}
        BY <1>0, <1>2, <4>1, <4>2
      <4> QED BY <3>1, <4>3, <4>4
    <3> QED BY <1>0, <2>2, <3>1, <3>2, <3>3, <3>4 DEF Numbered
  <2>6. SigningOff => SigningOff'
    <3>1. SigningOff => \A i \in DOMAIN toX' : toX'[i] # "signon"
      BY <1>0, <1>1 DEF SigningOff
    <3>2. SigningOff => \A i \in DOMAIN fromX' : fromX'[i] = SignedOff
      <4>1. CASE fromX' = fromX
        BY <4>1 DEF SigningOff
      <4>2. CASE fromX' = Append(fromX, SignedOff)
        BY <1>0, <4>2 DEF SigningOff
      <4> QED BY <2>2, <4>1, <4>2
    <3> QED BY <1>0, <3>1, <3>2 DEF SigningOff
  <2> QED BY <1>0, <1>1, <2>1, <2>4, <2>5, <2>6 DEF SessionInv, SessionTypes, OnLink
<1> QED BY <1>3, <1>4

LEMMA SessionStep == SessionInv /\ [Next]_vars => SessionInv'
<1> SUFFICES ASSUME SessionInv, [Next]_vars PROVE SessionInv'
  OBVIOUS
<1>0. SessionTypes
  BY DEF SessionInv
<1>1. CASE Connect
  <2>1. sess.state = "Disconnected" /\ hand = "none"
    BY <1>1 DEF Connect, NewSession, should_reconnect
  <2>2. <<>> \in Seq(Kind) /\ <<>> \in Seq(Reply)
    OBVIOUS
  <2> QED BY <1>0, <1>1, <2>1, <2>2 DEF Connect, SessionInv, SessionTypes, OnLink
<1>2. CASE Login \/ EncodeApplication \/ Heartbeat \/ Logout \/ NoteSend
  BY <1>2, CallerStep
<1>3. CASE send_order
  BY <1>3, SendStep
<1>4. CASE PollReply
  BY <1>4, ReplyStep
<1>5. CASE PollClosed
  BY <1>0, <1>5 DEF PollClosed, wireVars, SessionInv, SessionTypes, OnLink
<1>6. CASE TellDisconnect
  <2>1. sess' \in Session
    BY <1>0, <1>6, Methods DEF TellDisconnect, SessionTypes
  <2> QED BY <1>0, <1>6, <2>1 DEF TellDisconnect, wireVars, SessionInv, SessionTypes, OnLink
<1>7. CASE XTake
  BY <1>7, TakeStep
<1>8. CASE Drop
  <2>1. toX' \in Seq(Kind) /\ fromX' \in Seq(Reply) /\ ~ up'
    <3>1. toX' = <<>> /\ (fromX' = fromX \/ fromX' = <<>>) /\ ~ up'
      BY <1>8 DEF Drop
    <3>2. <<>> \in Seq(Kind) /\ <<>> \in Seq(Reply)
      OBVIOUS
    <3>3. fromX \in Seq(Reply)
      BY <1>0 DEF SessionTypes
    <3> QED BY <3>1, <3>2, <3>3
  <2> QED BY <1>0, <1>8, <2>1 DEF Drop, SessionInv, SessionTypes, OnLink
<1>9. CASE Clock \/ UNCHANGED vars
  <2>1. now' \in Nat
    BY <1>0, <1>9 DEF Clock, vars, SessionTypes
  <2>2. UNCHANGED <<sess, hand, link, up, toX, fromX, onX, seqX>>
    BY <1>9 DEF Clock, vars, wireVars
  <2> QED BY <1>0, <2>1, <2>2
        DEF SessionInv, SessionTypes, OnLink, LoggingIn, Numbered, SigningOff, Apps
<1> QED
  BY <1>1, <1>2, <1>3, <1>4, <1>5, <1>6, <1>7, <1>8, <1>9 DEF Next

\* on_sign_on_response(), note_send() and make_heartbeat() keep the session's
\* number in step with the exchange, for every choice of first numbers and any
\* number of logins, messages, failed sends, drops and clock steps.
THEOREM NumberingAgrees == Spec => []SequenceAgrees
<1>1. Init => SessionInv
  <2>1. <<>> \in Seq(Kind) /\ <<>> \in Seq(Reply)
    OBVIOUS
  <2> QED BY <2>1 DEF Init, NewSession, SessionInv, SessionTypes, OnLink, Session, States
<1>2. SessionInv => SequenceAgrees
  BY DEF SessionInv, OnLink, Numbered, SequenceAgrees
<1> QED BY <1>1, <1>2, SessionStep, PTL DEF Spec
==============================================================================
