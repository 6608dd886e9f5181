----------------------------- MODULE MailProofs -----------------------------
(***************************************************************************)
(* Proofs about the mail services: a session stays in step with its client *)
(* and stores what the client sent, and the store keeps what was answered, *)
(* drops what was deleted and has the bytes of all it lists.               *)
(***************************************************************************)
EXTENDS Mail, FiniteSetTheorems, TLAPS

WireLines == [dots : Nat, rest : Nat, crlf : BOOLEAN]
Drafts == Seq(WireLines)
Bodies == Seq(Nat \X Nat)
Recipients == Seq(Nat)
Envelopes == [open : BOOLEAN, txn : Nat, to : Recipients]
SessionStates ==
    [pc : {"closed", "ready", "data", "plain", "user", "pass", "receive", "append", "emit"},
     greeted : BOOLEAN, authed : BOOLEAN, crlfSeen : BOOLEAN, lastCrlf : BOOLEAN,
     envelope : Envelopes, txns : Nat, raw : Bodies, oversized : BOOLEAN, id : Nat]
ClientStates == [crlf : BOOLEAN, draft : Drafts, left : Drafts, gone : BOOLEAN]
Entries == [id : Nat, body : Bodies, txn : Nat, to : Recipients, deleted : BOOLEAN]

\* What a client may put in a message: without CRLF it has none to send, and it ends its last line
\* as it ends its commands.
WellEnded(draft, crlf) ==
    /\ crlf = TRUE \/ \A i \in 1..Len(draft) : draft[i].crlf = FALSE
    /\ draft # <<>> => draft[Len(draft)].crlf = crlf

\* How many lines of its message the server has read, and how the last thing it read ended.
Sent(cl) == Len(cl.draft) + 1 - Len(cl.left)
EndedBefore(cl) == IF Sent(cl) = 0 THEN cl.crlf ELSE cl.draft[Sent(cl)].crlf
Holds(raw, cl, n) == Len(raw) = n /\ \A i \in 1..n : raw[i] = Unstuffed(Wire(cl.draft, cl.crlf)[i])

\* In the middle of a message the server has read a prefix of what the client sends.
MidMessage(s, cl) ==
    /\ WellEnded(cl.draft, cl.crlf)
    /\ Len(cl.left) \in 1..Len(cl.draft) + 1
    /\ \A i \in 1..Len(cl.left) : cl.left[i] = Wire(cl.draft, cl.crlf)[Sent(cl) + i]
    /\ s.lastCrlf = EndedBefore(cl)
    /\ s.crlfSeen = cl.crlf
    /\ s.oversized = FALSE => Holds(s.raw, cl, Sent(cl))

OneEnvelope(envelope) ==
    /\ \A i \in 1..Len(envelope.to) : envelope.to[i] = envelope.txn

Receiving == {"receive", "append", "emit"}
\* The session a server keeps and the client at its other end.
InSessionInv(s, cl) ==
    /\ s \in SessionStates /\ cl \in ClientStates
    /\ OneEnvelope(s.envelope)
    /\ s.pc \in {"data"} \cup Receiving => s.envelope.open = TRUE /\ s.envelope.to # <<>>
    /\ s.pc # "data" => cl.left = <<>>
    /\ cl.gone = TRUE => cl.crlf = FALSE /\ s.pc \notin {"data", "plain", "user", "pass"}
    /\ cl.gone = FALSE /\ s.crlfSeen = TRUE => cl.crlf = TRUE
    /\ s.pc = "data" => MidMessage(s, cl)
    /\ s.pc \in Receiving /\ cl.gone = FALSE => Holds(s.raw, cl, Len(cl.draft))
-----------------------------------------------------------------------------
(* Lines. *)

LEMMA WireOf ==
  ASSUME NEW draft \in Drafts, NEW crlf \in BOOLEAN
  PROVE  /\ Wire(draft, crlf) \in Drafts
         /\ Len(Wire(draft, crlf)) = Len(draft) + 1
<1> DEFINE w == Wire(draft, crlf)
<1>1. Len(draft) \in Nat
  BY DEF Drafts
<1>2. ASSUME NEW i \in 1..Len(draft) + 1
      PROVE  w[i] \in WireLines
  <2>1. CASE i > Len(draft)
    <3>1. w[i] = [dots |-> 1, rest |-> 0, crlf |-> crlf]
      BY <2>1 DEF Wire, Line
    <3> QED
      BY <3>1 DEF WireLines
  <2>2. CASE ~(i > Len(draft))
    <3>1. i \in 1..Len(draft) /\ draft[i] \in WireLines
      BY <2>2, <1>1 DEF Drafts
    <3>2. [draft[i] EXCEPT !.dots = @ + 1] \in WireLines
      BY <3>1 DEF WireLines
    <3> QED
      BY <2>2, <3>1, <3>2 DEF Wire
  <2> QED
    BY <2>1, <2>2
<1>3. w = [i \in 1..Len(draft) + 1 |-> w[i]]
  BY DEF Wire
<1> HIDE DEF w
<1>4. w \in Seq(WireLines) /\ Len(w) = Len(draft) + 1
  BY <1>1, <1>2, <1>3
<1> QED
  BY <1>4 DEF w, Drafts

LEMMA Counting ==
  ASSUME NEW d \in Nat, NEW l \in Nat
  PROVE  /\ d + 1 - l = d => l = 1
         /\ d + 1 - l < d => l > 1
         /\ l >= 1 /\ l <= d + 1 => /\ d + 1 - l \in 0..d
                                    /\ d + 1 - (l - 1) = d + 1 - l + 1
OBVIOUS

LEMMA UnstuffedIsText ==
  ASSUME NEW line \in WireLines
  PROVE  Unstuffed(line) \in Nat \X Nat
BY DEF WireLines, Unstuffed, StartsDotDot, Text

\* The terminator of a client's message ends it.
LEMMA TerminatorEnds ==
  ASSUME NEW s, NEW cl \in ClientStates, MidMessage(s, cl), Sent(cl) = Len(cl.draft)
  PROVE  Terminates(s, cl.left[1])
<1>0. Len(cl.draft) \in Nat /\ Len(cl.left) \in Nat /\ cl.draft \in Drafts /\ cl.crlf \in BOOLEAN
  BY DEF ClientStates, Drafts
<1>1. Len(cl.left) = 1
  BY <1>0, Counting DEF Sent
<1>2. cl.left[1] = Wire(cl.draft, cl.crlf)[Len(cl.draft) + 1]
  BY <1>0, <1>1 DEF MidMessage
<1>3. cl.left[1] = [dots |-> 1, rest |-> 0, crlf |-> cl.crlf]
  BY <1>0, <1>2 DEF Wire, Line
<1>4. s.lastCrlf = cl.crlf
  <2>1. CASE Len(cl.draft) = 0
    BY <2>1 DEF MidMessage, EndedBefore
  <2>2. CASE Len(cl.draft) > 0
    <3>1. cl.draft # <<>>
      BY <2>2, <1>0
    <3> QED
      BY <2>2, <3>1, <1>0 DEF MidMessage, EndedBefore, WellEnded
  <2> QED
    BY <2>1, <2>2, <1>0
<1>5. s.crlfSeen = cl.crlf
  BY DEF MidMessage
<1> QED
  BY <1>0, <1>3, <1>4, <1>5 DEF Terminates, Text

\* No line of the message itself does.
LEMMA ContentGoesOn ==
  ASSUME NEW s, NEW cl \in ClientStates, MidMessage(s, cl), Sent(cl) < Len(cl.draft)
  PROVE  ~Terminates(s, cl.left[1])
<1> DEFINE p == Sent(cl) + 1
<1>1. /\ Len(cl.draft) \in Nat /\ cl.draft \in Drafts /\ cl.crlf \in BOOLEAN
      /\ Sent(cl) \in 0..Len(cl.draft) /\ Len(cl.left) >= 1 /\ Len(cl.left) \in Nat
  BY DEF ClientStates, Drafts, Sent, MidMessage
<1>2. cl.left[1] = Wire(cl.draft, cl.crlf)[p] /\ p \in 1..Len(cl.draft)
  BY <1>1 DEF MidMessage
<1>3. cl.draft[p] \in WireLines
  BY <1>1, <1>2 DEF Drafts
<1>4. CASE p = 1 \/ cl.draft[p - 1].crlf = cl.crlf
  <2>1. CASE cl.draft[p].dots > 0
    <3>1. cl.left[1] = [cl.draft[p] EXCEPT !.dots = @ + 1]
      BY <1>2, <1>1, <1>4, <2>1 DEF Wire
    <3>2. cl.left[1].dots = cl.draft[p].dots + 1 /\ cl.draft[p].dots \in Nat
      BY <3>1, <1>3 DEF WireLines
    <3> QED
      BY <3>2, <2>1 DEF Terminates, Text
  <2>2. CASE ~(cl.draft[p].dots > 0)
    <3>1. cl.left[1] = cl.draft[p]
      BY <1>2, <1>1, <2>2 DEF Wire
    <3>2. cl.left[1].dots = 0
      BY <3>1, <2>2, <1>3 DEF WireLines
    <3> QED
      BY <3>2 DEF Terminates, Text
  <2> QED
    BY <2>1, <2>2
<1>5. CASE ~(p = 1 \/ cl.draft[p - 1].crlf = cl.crlf)
  <2>1. s.lastCrlf = cl.draft[p - 1].crlf /\ p - 1 \in 1..Len(cl.draft)
    BY <1>1, <1>2, <1>5 DEF MidMessage, EndedBefore
  <2>2. cl.draft[p - 1] \in WireLines /\ cl.draft[p - 1].crlf \in BOOLEAN
    <3>1. cl.draft[p - 1] \in WireLines
      BY <2>1, <1>1 DEF Drafts
    <3> QED
      BY <3>1 DEF WireLines
  <2>3. cl.crlf = TRUE
    BY <1>1, <2>1, <1>5 DEF MidMessage, WellEnded
  <2>4. s.lastCrlf = FALSE /\ s.crlfSeen = TRUE
    BY <2>1, <2>2, <2>3, <1>5 DEF MidMessage
  <2> QED
    BY <2>4 DEF Terminates
<1> QED
  BY <1>4, <1>5

-----------------------------------------------------------------------------
(* What a line of the message does to its session. *)

LEMMA ClientTypes ==
  ASSUME NEW cl \in ClientStates
  PROVE  /\ cl.draft \in Drafts /\ Len(cl.draft) \in Nat
         /\ cl.left \in Drafts /\ Len(cl.left) \in Nat
         /\ cl.crlf \in BOOLEAN /\ cl.gone \in BOOLEAN
BY DEF ClientStates, Drafts

\* The client once its next line is sent.
Advanced(cl) == [cl EXCEPT !.left = Tail(@)]

LEMMA AdvancedClient ==
  ASSUME NEW cl \in ClientStates, NEW s, MidMessage(s, cl)
  PROVE  /\ Advanced(cl) \in ClientStates
         /\ Advanced(cl).draft = cl.draft /\ Advanced(cl).crlf = cl.crlf /\ Advanced(cl).gone = cl.gone
         /\ Advanced(cl).left = Tail(cl.left)
         /\ Len(Advanced(cl).left) = Len(cl.left) - 1
         /\ Sent(Advanced(cl)) = Sent(cl) + 1
         /\ Sent(cl) \in 0..Len(cl.draft)
         /\ \A i \in 1..Len(Advanced(cl).left) : Advanced(cl).left[i] = cl.left[i + 1]
         /\ cl.left[1] = Head(cl.left) /\ cl.left[1] \in WireLines
         /\ cl.left[1] = Wire(cl.draft, cl.crlf)[Sent(cl) + 1]
<1>1. /\ cl.draft \in Drafts /\ Len(cl.draft) \in Nat
      /\ cl.left \in Drafts /\ Len(cl.left) \in Nat
  BY ClientTypes
<1>2. Len(cl.left) >= 1 /\ Len(cl.left) <= Len(cl.draft) + 1 /\ cl.left # <<>>
  BY <1>1 DEF MidMessage
<1>3. /\ Tail(cl.left) \in Drafts /\ Len(Tail(cl.left)) = Len(cl.left) - 1
      /\ \A i \in 1..Len(Tail(cl.left)) : Tail(cl.left)[i] = cl.left[i + 1]
  BY <1>1, <1>2 DEF Drafts
<1>4. /\ Advanced(cl).draft = cl.draft /\ Advanced(cl).crlf = cl.crlf /\ Advanced(cl).gone = cl.gone
      /\ Advanced(cl).left = Tail(cl.left) /\ Advanced(cl) \in ClientStates
  BY <1>3 DEF Advanced, ClientStates
<1>5. cl.left[1] = Head(cl.left) /\ cl.left[1] \in WireLines
  BY <1>1, <1>2 DEF Drafts
<1>6. cl.left[1] = Wire(cl.draft, cl.crlf)[Sent(cl) + 1]
  BY <1>1, <1>2 DEF MidMessage
<1>7. Sent(Advanced(cl)) = Sent(cl) + 1 /\ Sent(cl) \in 0..Len(cl.draft)
  <2>1. /\ Sent(Advanced(cl)) = Len(cl.draft) + 1 - (Len(cl.left) - 1)
        /\ Sent(cl) = Len(cl.draft) + 1 - Len(cl.left)
    BY <1>3, <1>4 DEF Sent
  <2>2. /\ Len(cl.draft) + 1 - Len(cl.left) \in 0..Len(cl.draft)
        /\ Len(cl.draft) + 1 - (Len(cl.left) - 1) = Len(cl.draft) + 1 - Len(cl.left) + 1
    BY <1>1, <1>2, Counting
  <2> QED
    BY ONLY <2>1, <2>2, Zenon
<1> QED
  BY <1>3, <1>4, <1>5, <1>6, <1>7

\* How the line just sent ended.
LEMMA EndingSent ==
  ASSUME NEW cl \in ClientStates, NEW s, MidMessage(s, cl), Sent(cl) < Len(cl.draft)
  PROVE  /\ cl.left[1].crlf = cl.draft[Sent(cl) + 1].crlf
         /\ (s.crlfSeen \/ cl.left[1].crlf) = cl.crlf
<1>1. /\ cl.draft \in Drafts /\ Len(cl.draft) \in Nat /\ cl.crlf \in BOOLEAN
  BY ClientTypes
<1>2. /\ Sent(cl) \in 0..Len(cl.draft) /\ cl.left[1] = Wire(cl.draft, cl.crlf)[Sent(cl) + 1]
  BY AdvancedClient
<1> DEFINE d == cl.draft[Sent(cl) + 1]
<1>3. Sent(cl) + 1 \in 1..Len(cl.draft) /\ d \in WireLines
  BY <1>1, <1>2 DEF Drafts
<1>4. cl.left[1] = d \/ cl.left[1] = [d EXCEPT !.dots = @ + 1]
  BY <1>1, <1>2, <1>3 DEF Wire
<1>5. cl.left[1].crlf = d.crlf /\ d.crlf \in BOOLEAN
  BY <1>3, <1>4 DEF WireLines
<1>6. s.crlfSeen = cl.crlf
  BY DEF MidMessage
<1>7. cl.crlf = FALSE => d.crlf = FALSE
  BY <1>3, <1>1 DEF MidMessage, WellEnded
<1> QED
  BY <1>1, <1>5, <1>6, <1>7

\* The session that has seen how a line ends: the record, field by field.
HeardLine(s, line) == [s EXCEPT !.lastCrlf = line.crlf, !.crlfSeen = @ \/ line.crlf]

LEMMA ReadFields ==
  ASSUME NEW s \in SessionStates, NEW line \in WireLines
  PROVE  /\ HeardLine(s, line) \in SessionStates
         /\ Stored(HeardLine(s, line), line) \in SessionStates
<1> DEFINE t == HeardLine(s, line)
<1>1. t \in SessionStates
  BY DEF HeardLine, SessionStates, WireLines
<1> HIDE DEF t
<1>2. Unstuffed(line) \in Nat \X Nat
  BY UnstuffedIsText
<1>3. t.raw \in Bodies
  BY <1>1 DEF SessionStates
<1>4. Append(t.raw, Unstuffed(line)) \in Bodies
  BY <1>2, <1>3 DEF Bodies
<1>5. [t EXCEPT !.oversized = TRUE] \in SessionStates
  BY <1>1 DEF SessionStates
<1>6. [t EXCEPT !.raw = Append(@, Unstuffed(line))] \in SessionStates
  BY <1>1, <1>4 DEF SessionStates
<1>7. Stored(t, line) \in SessionStates
  BY <1>1, <1>5, <1>6 DEF Stored
<1> QED
  BY <1>1, <1>7 DEF t

LEMMA ReadKeeps ==
  ASSUME NEW s \in SessionStates, NEW line, NEW t, t = HeardLine(s, line)
  PROVE  /\ t.lastCrlf = line.crlf /\ t.crlfSeen = (s.crlfSeen \/ line.crlf)
         /\ t.pc = s.pc /\ t.envelope = s.envelope /\ t.raw = s.raw /\ t.oversized = s.oversized /\ t.id = s.id
BY DEF HeardLine, SessionStates

LEMMA StoredKeeps ==
  ASSUME NEW s \in SessionStates, NEW line, NEW t, t = Stored(s, line)
  PROVE  /\ t.lastCrlf = s.lastCrlf /\ t.crlfSeen = s.crlfSeen
         /\ t.pc = s.pc /\ t.envelope = s.envelope
         /\ t.oversized = FALSE => s.oversized = FALSE /\ t.raw = Append(s.raw, Unstuffed(line))
<1>1. CASE s.oversized = TRUE
  BY <1>1 DEF Stored
<1>2. CASE s.oversized = FALSE
  <2>1. CASE t = [s EXCEPT !.oversized = TRUE]
    BY <2>1 DEF SessionStates
  <2>2. CASE t = [s EXCEPT !.raw = Append(@, Unstuffed(line))]
    BY <2>2, <1>2 DEF SessionStates
  <2> QED
    BY <2>1, <2>2, <1>2 DEF Stored
<1> QED
  BY <1>1, <1>2 DEF SessionStates

\* A line of the message leaves the session in the middle of it.
LEMMA ContentStored ==
  ASSUME NEW s \in SessionStates, NEW cl \in ClientStates, MidMessage(s, cl), Sent(cl) < Len(cl.draft),
         NEW t, t = LineRead(s, cl.left[1])
  PROVE  /\ t \in SessionStates /\ t.pc = s.pc /\ t.envelope = s.envelope
         /\ t.crlfSeen = s.crlfSeen
         /\ MidMessage(t, Advanced(cl))
<1> DEFINE line == cl.left[1]
           h == HeardLine(s, line)
           next == Advanced(cl)
<1>1. /\ cl.draft \in Drafts /\ Len(cl.draft) \in Nat /\ cl.crlf \in BOOLEAN
      /\ cl.left \in Drafts /\ Len(cl.left) \in Nat
  BY ClientTypes
<1>2. /\ line \in WireLines
      /\ line = Wire(cl.draft, cl.crlf)[Sent(cl) + 1]
      /\ Sent(cl) \in 0..Len(cl.draft)
      /\ next \in ClientStates
      /\ next.draft = cl.draft /\ next.crlf = cl.crlf
      /\ Len(next.left) = Len(cl.left) - 1 /\ Sent(next) = Sent(cl) + 1
      /\ \A i \in 1..Len(next.left) : next.left[i] = cl.left[i + 1]
  BY AdvancedClient
<1>3. ~Terminates(s, line)
  BY ContentGoesOn
<1>4. t = Stored(h, line)
  BY <1>3 DEF LineRead, HeardLine
<1>5. h \in SessionStates /\ Stored(h, line) \in SessionStates
  BY <1>2, ReadFields
<1>6. /\ h.lastCrlf = line.crlf /\ h.crlfSeen = (s.crlfSeen \/ line.crlf)
      /\ h.pc = s.pc /\ h.envelope = s.envelope /\ h.raw = s.raw /\ h.oversized = s.oversized
  BY <1>2, ReadKeeps
<1>7. line.crlf = cl.draft[Sent(cl) + 1].crlf /\ (s.crlfSeen \/ line.crlf) = cl.crlf
  BY EndingSent
<1> HIDE DEF h, line, next
<1>8. /\ t.lastCrlf = h.lastCrlf /\ t.crlfSeen = h.crlfSeen /\ t.pc = h.pc /\ t.envelope = h.envelope
      /\ t.oversized = FALSE => h.oversized = FALSE /\ t.raw = Append(h.raw, Unstuffed(line))
  BY ONLY <1>4, <1>5, StoredKeeps
<1>9. WellEnded(next.draft, next.crlf) /\ Len(next.left) \in 1..Len(next.draft) + 1
  <2>1. Len(cl.left) > 1 /\ Len(cl.left) <= Len(cl.draft) + 1
    <3>1. Len(cl.draft) + 1 - Len(cl.left) < Len(cl.draft)
      BY DEF Sent
    <3>2. Len(cl.left) > 1
      BY <3>1, <1>1, Counting
    <3> QED
      BY <3>2, <1>1 DEF MidMessage
  <2> QED
    BY <2>1, <1>1, <1>2 DEF MidMessage
<1>10. ASSUME NEW i \in 1..Len(next.left)
       PROVE  next.left[i] = Wire(next.draft, next.crlf)[Sent(next) + i]
  <2>1. i + 1 \in 1..Len(cl.left) /\ next.left[i] = cl.left[i + 1]
    BY <1>1, <1>2
  <2>2. cl.left[i + 1] = Wire(cl.draft, cl.crlf)[Sent(cl) + (i + 1)]
    BY <2>1 DEF MidMessage
  <2>3. Sent(cl) + (i + 1) = Sent(next) + i
    BY <1>2, <1>1
  <2> QED
    BY <2>1, <2>2, <2>3, <1>2
<1>11. t.lastCrlf = EndedBefore(next)
  <2>1. Sent(next) # 0
    BY <1>2
  <2> QED
    BY <2>1, <1>2, <1>6, <1>7, <1>8 DEF EndedBefore
<1>12. t.crlfSeen = next.crlf /\ t.crlfSeen = s.crlfSeen
  BY <1>2, <1>6, <1>7, <1>8 DEF MidMessage
<1>13. ASSUME t.oversized = FALSE
       PROVE  Holds(t.raw, next, Sent(next))
  <2>1. s.oversized = FALSE /\ t.raw = Append(s.raw, Unstuffed(line))
    BY <1>13, <1>6, <1>8
  <2>2. Len(s.raw) = Sent(cl) /\ \A i \in 1..Sent(cl) : s.raw[i] = Unstuffed(Wire(cl.draft, cl.crlf)[i])
    BY <2>1 DEF MidMessage, Holds
  <2>3. s.raw \in Bodies /\ Unstuffed(line) \in Nat \X Nat
    BY <1>2, UnstuffedIsText DEF SessionStates
  <2>4. /\ Len(t.raw) = Sent(cl) + 1 /\ t.raw[Sent(cl) + 1] = Unstuffed(line)
        /\ \A i \in 1..Sent(cl) : t.raw[i] = s.raw[i]
    BY <2>1, <2>2, <2>3 DEF Bodies
  <2>5. ASSUME NEW i \in 1..Sent(next)
        PROVE  t.raw[i] = Unstuffed(Wire(next.draft, next.crlf)[i])
    <3>1. CASE i = Sent(cl) + 1
      BY <3>1, <2>4, <1>2
    <3>2. CASE i \in 1..Sent(cl)
      BY <3>2, <2>4, <2>2, <1>2
    <3> QED
      BY <3>1, <3>2, <1>2
  <2> QED
    BY <2>4, <2>5, <1>2 DEF Holds
<1>14. t \in SessionStates /\ t.pc = s.pc /\ t.envelope = s.envelope
  BY <1>4, <1>5, <1>6, <1>8
<1>15. MidMessage(t, next)
  BY <1>9, <1>10, <1>11, <1>12, <1>13 DEF MidMessage
<1> QED
  BY <1>12, <1>14, <1>15 DEF next

LEMMA ResetFields ==
  ASSUME NEW s \in SessionStates
  PROVE  /\ ResetEnvelope(s) \in SessionStates
         /\ ResetEnvelope(s).pc = s.pc /\ ResetEnvelope(s).crlfSeen = s.crlfSeen
         /\ ResetEnvelope(s).envelope = NoEnvelope /\ ResetEnvelope(s).id = s.id
<1>1. <<>> \in Recipients /\ <<>> \in Bodies
  BY DEF Recipients, Bodies
<1>2. NoEnvelope \in Envelopes
  BY <1>1 DEF NoEnvelope, Envelopes
<1> QED
  BY <1>1, <1>2 DEF ResetEnvelope, SessionStates

LEMMA EmptyEnvelope == OneEnvelope(NoEnvelope)
<1>1. NoEnvelope.to = <<>>
  BY DEF NoEnvelope
<1> QED
  BY <1>1 DEF OneEnvelope

\* The terminator ends the message: it is received, or dropped for its size.
LEMMA TerminatorRead ==
  ASSUME NEW s \in SessionStates, NEW cl \in ClientStates, MidMessage(s, cl), Sent(cl) = Len(cl.draft),
         NEW t, t = LineRead(s, cl.left[1])
  PROVE  /\ t \in SessionStates
         /\ t.crlfSeen = s.crlfSeen
         /\ \/ t.pc = "ready" /\ t.envelope = NoEnvelope
            \/ t.pc = "receive" /\ t.envelope = s.envelope /\ t.raw = s.raw /\ s.oversized = FALSE
<1> DEFINE line == cl.left[1]
           h == HeardLine(s, line)
<1>1. Terminates(s, line) /\ line \in WireLines
  BY TerminatorEnds, AdvancedClient
<1>2. h \in SessionStates
  BY <1>1, ReadFields
<1>3. /\ h.crlfSeen = (s.crlfSeen \/ line.crlf)
      /\ h.pc = s.pc /\ h.envelope = s.envelope /\ h.raw = s.raw /\ h.oversized = s.oversized
  BY <1>1, ReadKeeps
<1>4. (s.crlfSeen \/ line.crlf) = s.crlfSeen
  <2>1. line = Wire(cl.draft, cl.crlf)[Len(cl.draft) + 1]
    BY AdvancedClient
  <2>2. Len(cl.draft) \in Nat /\ cl.crlf \in BOOLEAN
    BY ClientTypes
  <2>3. line.crlf = cl.crlf
    BY <2>1, <2>2 DEF Wire, Line
  <2> QED
    BY <2>2, <2>3 DEF MidMessage
<1> HIDE DEF h
<1>5. CASE s.oversized = TRUE
  <2>1. t = [ResetEnvelope(h) EXCEPT !.pc = "ready"]
    BY <1>1, <1>5 DEF LineRead, h, HeardLine
  <2>2. ResetEnvelope(h) \in SessionStates /\ ResetEnvelope(h).crlfSeen = h.crlfSeen /\ ResetEnvelope(h).envelope = NoEnvelope
    BY <1>2, ResetFields
  <2>3. t \in SessionStates /\ t.pc = "ready" /\ t.crlfSeen = h.crlfSeen /\ t.envelope = NoEnvelope
    BY <2>1, <2>2 DEF SessionStates
  <2> QED
    BY <2>3, <1>3, <1>4
<1>6. CASE s.oversized = FALSE
  <2>1. t = [h EXCEPT !.pc = "receive"]
    BY <1>1, <1>6 DEF LineRead, h, HeardLine
  <2>2. t \in SessionStates /\ t.pc = "receive" /\ t.crlfSeen = h.crlfSeen /\ t.envelope = h.envelope /\ t.raw = h.raw
    BY <2>1, <1>2 DEF SessionStates
  <2> QED
    BY <2>2, <1>3, <1>4, <1>6
<1> QED
  BY <1>5, <1>6 DEF SessionStates

-----------------------------------------------------------------------------
(* The session and its client, operation by operation. *)

LEMMA EmptySequences == <<>> \in Recipients /\ <<>> \in Bodies /\ <<>> \in Drafts
BY DEF Recipients, Bodies, Drafts

LEMMA FreshSession ==
  /\ Fresh \in SessionStates /\ Closed \in SessionStates
  /\ Fresh.pc = "ready" /\ Fresh.crlfSeen = FALSE /\ Fresh.envelope = NoEnvelope
  /\ Closed.pc = "closed" /\ Closed.crlfSeen = FALSE /\ Closed.envelope = NoEnvelope
<1>1. NoEnvelope \in Envelopes
  BY EmptySequences DEF NoEnvelope, Envelopes
<1> HIDE DEF NoEnvelope
<1>2. /\ Fresh \in SessionStates
      /\ Fresh.pc = "ready" /\ Fresh.crlfSeen = FALSE /\ Fresh.envelope = NoEnvelope
  BY <1>1, EmptySequences DEF Fresh, SessionStates
<1>3. Closed \in SessionStates /\ Closed.pc = "closed" /\ Closed.crlfSeen = FALSE /\ Closed.envelope = NoEnvelope
  BY <1>2 DEF Closed, SessionStates
<1> QED
  BY <1>2, <1>3

LEMMA QuietClient ==
  ASSUME NEW crlf \in BOOLEAN
  PROVE  /\ Quiet \in ClientStates /\ Quiet.left = <<>> /\ Quiet.gone = FALSE
         /\ [Quiet EXCEPT !.crlf = crlf] \in ClientStates
         /\ [Quiet EXCEPT !.crlf = crlf].left = <<>> /\ [Quiet EXCEPT !.crlf = crlf].gone = FALSE
         /\ [Quiet EXCEPT !.crlf = FALSE, !.gone = TRUE] \in ClientStates
         /\ [Quiet EXCEPT !.crlf = FALSE, !.gone = TRUE].left = <<>>
         /\ [Quiet EXCEPT !.crlf = FALSE, !.gone = TRUE].gone = TRUE
         /\ [Quiet EXCEPT !.crlf = FALSE, !.gone = TRUE].crlf = FALSE
<1>1. Quiet \in ClientStates /\ Quiet.left = <<>> /\ Quiet.gone = FALSE
  BY EmptySequences DEF Quiet, ClientStates
<1> QED
  BY <1>1 DEF ClientStates

\* Outside of a message there is little to say.
LEMMA Outside ==
  ASSUME NEW s \in SessionStates, NEW cl \in ClientStates, OneEnvelope(s.envelope),
         s.pc \notin {"data"} \cup Receiving, cl.left = <<>>,
         cl.gone = TRUE => cl.crlf = FALSE /\ s.pc \notin {"plain", "user", "pass"},
         cl.gone = FALSE /\ s.crlfSeen = TRUE => cl.crlf = TRUE
  PROVE  InSessionInv(s, cl)
BY DEF InSessionInv

LEMMA ConnectedInv ==
  ASSUME NEW crlf \in BOOLEAN
  PROVE  /\ InSessionInv(Fresh, [Quiet EXCEPT !.crlf = crlf])
         /\ InSessionInv(Closed, Quiet)
<1> DEFINE q == [Quiet EXCEPT !.crlf = crlf]
<1>1. q \in ClientStates /\ q.left = <<>> /\ q.gone = FALSE /\ Quiet \in ClientStates /\ Quiet.left = <<>> /\ Quiet.gone = FALSE
  BY QuietClient
<1> HIDE DEF q
<1>2. InSessionInv(Fresh, q)
  BY <1>1, FreshSession, EmptyEnvelope, Outside DEF Receiving
<1>3. InSessionInv(Closed, Quiet)
  BY <1>1, FreshSession, EmptyEnvelope, Outside DEF Receiving
<1> QED
  BY <1>2, <1>3 DEF q

\* A command that stays outside of a message: what it leaves of the session.
Commanded(s, cl, t) ==
    /\ t \in SessionStates /\ t.pc \in {"ready", "plain", "user", "pass"}
    /\ t.crlfSeen = (s.crlfSeen \/ cl.crlf)
    /\ OneEnvelope(t.envelope)

LEMMA CommandInv ==
  ASSUME NEW s, NEW cl, InSessionInv(s, cl), s.pc # "data", cl.gone = FALSE, NEW t, Commanded(s, cl, t)
  PROVE  InSessionInv(t, cl)
<1>1. cl \in ClientStates /\ cl.left = <<>> /\ s \in SessionStates
  BY DEF InSessionInv
<1>2. s.crlfSeen = TRUE => cl.crlf = TRUE
  BY DEF InSessionInv
<1>3. s.crlfSeen \in BOOLEAN /\ cl.crlf \in BOOLEAN
  BY <1>1 DEF SessionStates, ClientStates
<1>4. t.crlfSeen = TRUE => cl.crlf = TRUE
  BY <1>2, <1>3 DEF Commanded
<1> QED
  BY <1>1, <1>4, Outside DEF Commanded, Receiving

\* The session that has heard a command.
HeardFrom(s, cl) == [s EXCEPT !.lastCrlf = cl.crlf, !.crlfSeen = @ \/ cl.crlf]

LEMMA HeardFields ==
  ASSUME NEW s, NEW cl, InSessionInv(s, cl), NEW h, h = HeardFrom(s, cl)
  PROVE  /\ h \in SessionStates /\ h.pc = s.pc /\ h.envelope = s.envelope
         /\ h.lastCrlf = cl.crlf /\ h.crlfSeen = (s.crlfSeen \/ cl.crlf)
         /\ OneEnvelope(h.envelope) /\ h.txns \in Nat /\ h.envelope \in Envelopes
<1>1. s \in SessionStates /\ cl.crlf \in BOOLEAN /\ OneEnvelope(s.envelope)
  BY DEF InSessionInv, ClientStates
<1>2. /\ h \in SessionStates /\ h.pc = s.pc /\ h.envelope = s.envelope
      /\ h.lastCrlf = cl.crlf /\ h.crlfSeen = (s.crlfSeen \/ cl.crlf)
  BY <1>1 DEF HeardFrom, SessionStates
<1> QED
  BY <1>1, <1>2 DEF SessionStates

LEMMA HeloFields ==
  ASSUME NEW s, NEW cl, NEW h \in SessionStates, h.crlfSeen = (s.crlfSeen \/ cl.crlf), h.pc = "ready",
         OneEnvelope(h.envelope)
  PROVE  /\ Commanded(s, cl, h)
         /\ Commanded(s, cl, ResetEnvelope(h))
         /\ Commanded(s, cl, [ResetEnvelope(h) EXCEPT !.greeted = TRUE])
<1> DEFINE r == ResetEnvelope(h)
<1>1. r \in SessionStates /\ r.pc = "ready" /\ r.crlfSeen = h.crlfSeen /\ r.envelope = NoEnvelope
  BY ResetFields
<1> HIDE DEF r
<1> DEFINE g == [r EXCEPT !.greeted = TRUE]
<1>2. g \in SessionStates /\ g.pc = "ready" /\ g.crlfSeen = h.crlfSeen /\ g.envelope = NoEnvelope
  BY <1>1 DEF SessionStates
<1> HIDE DEF g
<1>3. Commanded(s, cl, h)
  BY DEF Commanded
<1>4. Commanded(s, cl, r)
  BY <1>1, EmptyEnvelope DEF Commanded
<1>5. Commanded(s, cl, g)
  BY <1>2, EmptyEnvelope DEF Commanded
<1> QED
  BY <1>3, <1>4, <1>5 DEF g, r

LEMMA MailFields ==
  ASSUME NEW s, NEW cl, NEW h \in SessionStates, h.crlfSeen = (s.crlfSeen \/ cl.crlf), h.pc = "ready"
  PROVE  Commanded(s, cl, MailStarted(h))
<1> DEFINE n == h.txns + 1
           e == [open |-> TRUE, txn |-> n, to |-> <<>>]
           t == [h EXCEPT !.envelope = e, !.txns = n]
<1>1. n \in Nat
  <2>1. h.txns \in Nat
    BY DEF SessionStates
  <2> QED
    BY <2>1
<1>0. MailStarted(h) = t
  BY DEF MailStarted
<1> HIDE DEF n
<1>2. e \in Envelopes /\ OneEnvelope(e)
  <2>1. e \in Envelopes /\ e.to = <<>>
    BY <1>1, EmptySequences DEF Envelopes
  <2> QED
    BY <2>1 DEF OneEnvelope
<1> HIDE DEF e
<1>3. t \in SessionStates /\ t.pc = "ready" /\ t.crlfSeen = h.crlfSeen /\ t.envelope = e
  BY <1>1, <1>2 DEF SessionStates
<1> HIDE DEF t
<1>4. Commanded(s, cl, t)
  BY <1>2, <1>3 DEF Commanded
<1> QED
  BY <1>4, <1>0

LEMMA RcptFields ==
  ASSUME NEW s, NEW cl, NEW h \in SessionStates, h.crlfSeen = (s.crlfSeen \/ cl.crlf), h.pc = "ready",
         OneEnvelope(h.envelope), h.envelope \in Envelopes
  PROVE  Commanded(s, cl, [h EXCEPT !.envelope.to = Append(@, h.envelope.txn)])
<1> DEFINE e == [h.envelope EXCEPT !.to = Append(@, h.envelope.txn)]
           t == [h EXCEPT !.envelope = e]
<1>1. h.envelope.txn \in Nat /\ h.envelope.to \in Recipients
  BY DEF Envelopes
<1>2. Append(h.envelope.to, h.envelope.txn) \in Recipients
  BY <1>1 DEF Recipients
<1>3. e \in Envelopes /\ e.to = Append(h.envelope.to, h.envelope.txn) /\ e.txn = h.envelope.txn
  BY <1>2 DEF Envelopes
<1> HIDE DEF e
<1>4. OneEnvelope(e)
  <2>1. /\ Len(e.to) = Len(h.envelope.to) + 1 /\ Len(h.envelope.to) \in Nat
        /\ e.to[Len(h.envelope.to) + 1] = h.envelope.txn
        /\ \A i \in 1..Len(h.envelope.to) : e.to[i] = h.envelope.to[i]
    BY <1>1, <1>3 DEF Recipients
  <2>2. ASSUME NEW i \in 1..Len(e.to)
        PROVE  e.to[i] = e.txn
    <3>1. CASE i = Len(h.envelope.to) + 1
      BY <3>1, <2>1, <1>3
    <3>2. CASE i \in 1..Len(h.envelope.to)
      BY <3>2, <2>1, <1>3 DEF OneEnvelope
    <3> QED
      BY <3>1, <3>2, <2>1
  <2> QED
    BY <2>2 DEF OneEnvelope
<1>5. t \in SessionStates /\ t.pc = "ready" /\ t.crlfSeen = h.crlfSeen /\ t.envelope = e
  BY <1>3 DEF SessionStates
<1>6. [h EXCEPT !.envelope.to = Append(@, h.envelope.txn)] = t
  BY DEF e, SessionStates
<1> HIDE DEF t
<1>7. Commanded(s, cl, t)
  BY <1>4, <1>5 DEF Commanded
<1> QED
  BY <1>6, <1>7

LEMMA AuthFields ==
  ASSUME NEW s, NEW cl, NEW h \in SessionStates, h.crlfSeen = (s.crlfSeen \/ cl.crlf), OneEnvelope(h.envelope),
         NEW pc \in {"ready", "plain", "user", "pass"}, NEW authed \in BOOLEAN
  PROVE  /\ Commanded(s, cl, [h EXCEPT !.pc = pc])
         /\ Commanded(s, cl, [h EXCEPT !.pc = pc, !.authed = authed])
<1> DEFINE t == [h EXCEPT !.pc = pc]
           u == [h EXCEPT !.pc = pc, !.authed = authed]
<1>1. t \in SessionStates /\ t.pc = pc /\ t.crlfSeen = h.crlfSeen /\ t.envelope = h.envelope
  BY DEF SessionStates
<1>2. u \in SessionStates /\ u.pc = pc /\ u.crlfSeen = h.crlfSeen /\ u.envelope = h.envelope
  BY DEF SessionStates
<1> HIDE DEF t, u
<1>3. Commanded(s, cl, t) /\ Commanded(s, cl, u)
  BY <1>1, <1>2 DEF Commanded
<1> QED
  BY <1>3 DEF t, u

\* DATA starts a message.
LEMMA DataInv ==
  ASSUME NEW s, NEW cl, InSessionInv(s, cl), s.pc = "ready", cl.gone = FALSE,
         s.envelope.open = TRUE, s.envelope.to # <<>>,
         NEW draft \in Drafts, WellEnded(draft, cl.crlf)
  PROVE  InSessionInv([HeardFrom(s, cl) EXCEPT !.pc = "data", !.raw = <<>>, !.oversized = FALSE],
                      [cl EXCEPT !.draft = draft, !.left = Wire(draft, cl.crlf)])
<1> DEFINE h == HeardFrom(s, cl)
           t == [h EXCEPT !.pc = "data", !.raw = <<>>, !.oversized = FALSE]
           k == [cl EXCEPT !.draft = draft, !.left = Wire(draft, cl.crlf)]
<1>1. cl \in ClientStates /\ s \in SessionStates /\ cl.crlf \in BOOLEAN
  BY DEF InSessionInv, ClientStates
<1>2. Wire(draft, cl.crlf) \in Drafts /\ Len(Wire(draft, cl.crlf)) = Len(draft) + 1
  BY <1>1, WireOf
<1>3. /\ k \in ClientStates /\ k.draft = draft /\ k.left = Wire(draft, cl.crlf)
      /\ k.crlf = cl.crlf /\ k.gone = FALSE
  BY <1>1, <1>2 DEF ClientStates
<1>4. /\ h \in SessionStates /\ h.envelope = s.envelope /\ OneEnvelope(h.envelope)
      /\ h.lastCrlf = cl.crlf /\ h.crlfSeen = (s.crlfSeen \/ cl.crlf)
  BY HeardFields
<1> HIDE DEF h, k
<1>5. /\ t \in SessionStates /\ t.pc = "data" /\ t.raw = <<>> /\ t.oversized = FALSE
      /\ t.envelope = s.envelope /\ t.lastCrlf = cl.crlf /\ t.crlfSeen = h.crlfSeen
  BY <1>4, EmptySequences DEF SessionStates
<1> HIDE DEF t
<1>6. t.crlfSeen = cl.crlf
  <2>1. s.crlfSeen = TRUE => cl.crlf = TRUE
    BY DEF InSessionInv
  <2>2. s.crlfSeen \in BOOLEAN
    BY <1>1 DEF SessionStates
  <2> QED
    BY <2>1, <2>2, <1>1, <1>4, <1>5
<1>7. Len(draft) \in Nat /\ Len(k.left) = Len(draft) + 1 /\ Sent(k) = 0
  <2>1. Len(draft) \in Nat
    BY DEF Drafts
  <2>2. Len(k.left) = Len(draft) + 1
    BY <1>2, <1>3
  <2>3. Sent(k) = Len(draft) + 1 - (Len(draft) + 1)
    BY <2>2, <1>3 DEF Sent
  <2> QED
    BY <2>1, <2>2, <2>3
<1>8. MidMessage(t, k)
  <2>1. \A i \in 1..Len(k.left) : k.left[i] = Wire(k.draft, k.crlf)[Sent(k) + i]
    BY <1>3, <1>7
  <2>2. Holds(t.raw, k, Sent(k))
    BY <1>5, <1>7 DEF Holds
  <2>3. t.lastCrlf = EndedBefore(k)
    BY <1>3, <1>5, <1>7 DEF EndedBefore
  <2>4. WellEnded(k.draft, k.crlf) /\ Len(k.left) \in 1..Len(k.draft) + 1 /\ t.crlfSeen = k.crlf
    BY <1>3, <1>6, <1>7
  <2> QED
    BY <2>1, <2>2, <2>3, <2>4 DEF MidMessage
<1>9. InSessionInv(t, k)
  BY <1>3, <1>4, <1>5, <1>6, <1>8 DEF InSessionInv, Receiving
<1> QED
  BY <1>9 DEF t, h, k

\* A line of a message, its terminator included.
LEMMA DataLineInv ==
  ASSUME NEW s, NEW cl, InSessionInv(s, cl), s.pc = "data", NEW t, t = LineRead(s, Head(cl.left))
  PROVE  InSessionInv(t, Advanced(cl)) /\ t.pc \in {"ready", "data", "receive"}
<1> DEFINE k == Advanced(cl)
<1>1. s \in SessionStates /\ cl \in ClientStates /\ MidMessage(s, cl) /\ OneEnvelope(s.envelope)
  BY DEF InSessionInv
<1>2. s.envelope.open = TRUE /\ s.envelope.to # <<>>
  BY DEF InSessionInv
<1>3. cl.gone \in BOOLEAN /\ cl.gone # TRUE
  BY <1>1, ClientTypes DEF InSessionInv
<1>4. s.crlfSeen = TRUE => cl.crlf = TRUE
  BY <1>1 DEF MidMessage
<1>5. /\ k \in ClientStates /\ k.draft = cl.draft /\ k.crlf = cl.crlf /\ k.gone = FALSE
      /\ k.left = Tail(cl.left) /\ Len(k.left) = Len(cl.left) - 1 /\ Sent(cl) \in 0..Len(cl.draft)
      /\ Head(cl.left) = cl.left[1]
  BY <1>1, <1>3, AdvancedClient
<1>6. t = LineRead(s, cl.left[1])
  BY <1>5
<1> HIDE DEF k
<1>7. CASE Sent(cl) < Len(cl.draft)
  <2>1. /\ t \in SessionStates /\ t.pc = "data" /\ t.envelope = s.envelope /\ t.crlfSeen = s.crlfSeen
        /\ MidMessage(t, k)
    BY <1>1, <1>6, <1>7, ContentStored DEF k
  <2> QED
    BY <2>1, <1>1, <1>2, <1>4, <1>5 DEF InSessionInv, Receiving, k
<1>8. CASE Sent(cl) = Len(cl.draft)
  <2>1. /\ t \in SessionStates /\ t.crlfSeen = s.crlfSeen
        /\ \/ t.pc = "ready" /\ t.envelope = NoEnvelope
           \/ t.pc = "receive" /\ t.envelope = s.envelope /\ t.raw = s.raw /\ s.oversized = FALSE
    BY <1>1, <1>6, <1>8, TerminatorRead
  <2>2. k.left = <<>>
    <3>1. Len(cl.draft) \in Nat /\ Len(cl.left) \in Nat
      BY <1>1, ClientTypes
    <3>2. Len(cl.left) = 1
      BY <3>1, <1>8, Counting DEF Sent
    <3>3. k.left \in Drafts
      BY <1>5, ClientTypes
    <3>4. Len(k.left) = 0
      BY <3>2, <1>5
    <3> QED
      BY <3>3, <3>4 DEF Drafts
  <2>3. CASE t.pc = "ready" /\ t.envelope = NoEnvelope
    BY <2>1, <2>2, <2>3, <1>4, <1>5, EmptyEnvelope, Outside DEF Receiving, k
  <2>4. CASE t.pc = "receive" /\ t.envelope = s.envelope /\ t.raw = s.raw /\ s.oversized = FALSE
    <3>1. Holds(s.raw, cl, Len(cl.draft))
      BY <2>4, <1>1, <1>8 DEF MidMessage
    <3>2. Holds(t.raw, k, Len(k.draft))
      BY <3>1, <2>4, <1>5 DEF Holds
    <3> QED
      BY <3>2, <2>1, <2>2, <2>4, <1>1, <1>2, <1>4, <1>5 DEF InSessionInv, Receiving, k
  <2> QED
    BY <2>1, <2>3, <2>4
<1> QED
  <2>1. Len(cl.draft) \in Nat
    BY <1>1, ClientTypes
  <2> QED
    BY <1>5, <1>7, <1>8, <2>1

\* Half a line before the connection ends: a message received, or a session that is over.
LEMMA CutLineFields ==
  ASSUME NEW s, NEW cl, InSessionInv(s, cl), s.pc = "data", NEW line \in WireLines,
         NEW t, t = LineRead(s, line), t.pc = "receive"
  PROVE  InSessionInv(t, [Quiet EXCEPT !.crlf = FALSE, !.gone = TRUE])
<1> DEFINE h == HeardLine(s, line)
           k == [Quiet EXCEPT !.crlf = FALSE, !.gone = TRUE]
<1>1. s \in SessionStates /\ OneEnvelope(s.envelope) /\ s.envelope.open = TRUE /\ s.envelope.to # <<>>
  BY DEF InSessionInv
<1>2. h \in SessionStates /\ Stored(h, line) \in SessionStates
  BY <1>1, ReadFields
<1>3. h.envelope = s.envelope /\ h.pc = "data"
  BY <1>1, ReadKeeps
<1>4. k \in ClientStates /\ k.left = <<>> /\ k.gone = TRUE /\ k.crlf = FALSE
  BY QuietClient
<1> HIDE DEF h, k
<1>5. t = Stored(h, line) \/ t = [ResetEnvelope(h) EXCEPT !.pc = "ready"] \/ t = [h EXCEPT !.pc = "receive"]
  BY DEF LineRead, h, HeardLine
<1>6. t # Stored(h, line)
  <2>1. t.pc # h.pc
    BY <1>3
  <2>2. ASSUME t = Stored(h, line)
        PROVE  t.pc = h.pc
    BY ONLY <2>2, <1>2, StoredKeeps
  <2> QED
    BY <2>1, <2>2
<1>7. t # [ResetEnvelope(h) EXCEPT !.pc = "ready"]
  <2>1. ResetEnvelope(h) \in SessionStates
    BY <1>2, ResetFields
  <2> QED
    BY <2>1 DEF SessionStates
<1>8. t = [h EXCEPT !.pc = "receive"]
  BY <1>5, <1>6, <1>7
<1>9. t \in SessionStates /\ t.envelope = s.envelope
  BY <1>8, <1>2, <1>3 DEF SessionStates
<1>10. InSessionInv(t, k)
  BY <1>1, <1>4, <1>9 DEF InSessionInv, Receiving
<1> QED
  BY <1>10 DEF k

LEMMA OverFields ==
  ASSUME NEW s, NEW cl, InSessionInv(s, cl), s.pc \in Receiving,
         NEW t, t = [ResetEnvelope(s) EXCEPT !.pc = "ready"]
  PROVE  /\ InSessionInv(t, cl) /\ InSessionInv(t, [cl EXCEPT !.left = <<>>])
         /\ t.pc = "ready"
<1>1. /\ s \in SessionStates /\ cl \in ClientStates /\ cl.left = <<>>
      /\ cl.gone = TRUE => cl.crlf = FALSE
      /\ cl.gone = FALSE /\ s.crlfSeen = TRUE => cl.crlf = TRUE
  BY DEF InSessionInv, Receiving
<1> DEFINE r == ResetEnvelope(s)
<1>2. r \in SessionStates /\ r.crlfSeen = s.crlfSeen /\ r.envelope = NoEnvelope
  BY <1>1, ResetFields
<1> HIDE DEF r
<1>3. t = [r EXCEPT !.pc = "ready"]
  BY DEF r
<1>4. t \in SessionStates /\ t.pc = "ready" /\ t.crlfSeen = s.crlfSeen /\ t.envelope = NoEnvelope
  BY <1>2, <1>3 DEF SessionStates
<1>5. InSessionInv(t, cl)
  BY <1>1, <1>4, EmptyEnvelope, Outside DEF Receiving
<1>6. [cl EXCEPT !.left = <<>>] = cl
  BY <1>1 DEF ClientStates
<1> QED
  BY <1>4, <1>5, <1>6

\* The session whose message has its bytes stored.
Filed(s, id) == [s EXCEPT !.pc = "append", !.id = id]

LEMMA FiledFields ==
  ASSUME NEW s, NEW cl, InSessionInv(s, cl), s.pc \in Receiving, NEW id \in Nat,
         NEW t, t = Filed(s, id)
  PROVE  InSessionInv(t, cl) /\ t.pc = "append" /\ t.id = id /\ t.raw = s.raw
<1>1. s \in SessionStates
  BY DEF InSessionInv
<1>2. /\ t \in SessionStates /\ t.pc = "append" /\ t.id = id /\ t.raw = s.raw
      /\ t.envelope = s.envelope /\ t.crlfSeen = s.crlfSeen
  BY <1>1 DEF SessionStates, Filed
<1>3. InSessionInv(t, cl)
  BY ONLY <1>2, InSessionInv(s, cl), s.pc \in Receiving DEF InSessionInv, Receiving
<1> QED
  BY <1>2, <1>3

LEMMA LoggedFields ==
  ASSUME NEW s, NEW cl, InSessionInv(s, cl), s.pc \in Receiving,
         NEW t, t = [s EXCEPT !.pc = "emit"]
  PROVE  /\ InSessionInv(t, cl) /\ t.pc = "emit" /\ t.id = s.id /\ t.raw = s.raw
         /\ t.envelope = s.envelope
<1>1. s \in SessionStates
  BY DEF InSessionInv
<1>2. /\ t \in SessionStates /\ t.pc = "emit" /\ t.id = s.id /\ t.raw = s.raw
      /\ t.envelope = s.envelope /\ t.crlfSeen = s.crlfSeen
  BY <1>1 DEF SessionStates
<1>3. InSessionInv(t, cl)
  BY ONLY <1>2, InSessionInv(s, cl), s.pc \in Receiving DEF InSessionInv, Receiving
<1> QED
  BY <1>2, <1>3

-----------------------------------------------------------------------------
(* All sessions, action by action. *)

SessionsInv ==
    /\ session = [c \in Clients |-> session[c]] /\ client = [c \in Clients |-> client[c]]
    /\ \A c \in Clients : InSessionInv(session[c], client[c])

\* A step of one session that is not about storing a message.
Moved(c) ==
    /\ SessionsInv'
    /\ \A d \in Clients : d # c => session'[d] = session[d]
    /\ session'[c].pc \notin {"append", "emit"}

LEMMA OneSession ==
  ASSUME SessionsInv, NEW c \in Clients, NEW t, NEW k, InSessionInv(t, k),
         session' = [session EXCEPT ![c] = t], client' = [client EXCEPT ![c] = k]
  PROVE  /\ SessionsInv' /\ session'[c] = t
         /\ \A d \in Clients : d # c => session'[d] = session[d]
<1>1. session' = [d \in Clients |-> IF d = c THEN t ELSE session[d]]
  BY DEF SessionsInv
<1>2. client' = [d \in Clients |-> IF d = c THEN k ELSE client[d]]
  BY DEF SessionsInv
<1> QED
  BY <1>1, <1>2 DEF SessionsInv

LEMMA SessionAlone ==
  ASSUME SessionsInv, NEW c \in Clients, NEW t, InSessionInv(t, client[c]),
         session' = [session EXCEPT ![c] = t], client' = client
  PROVE  /\ SessionsInv' /\ session'[c] = t
         /\ \A d \in Clients : d # c => session'[d] = session[d]
<1>1. client' = [client EXCEPT ![c] = client[c]]
  BY DEF SessionsInv
<1> QED
  BY <1>1, OneSession

LEMMA CommandMoves ==
  ASSUME SessionsInv, NEW c \in Clients, session[c].pc # "data", client[c].gone = FALSE,
         NEW t, Commanded(session[c], client[c], t), InSession(c, t)
  PROVE  Moved(c)
<1>1. InSessionInv(t, client[c])
  BY CommandInv DEF SessionsInv
<1>2. t.pc \notin {"append", "emit"}
  BY DEF Commanded
<1>3. session' = [session EXCEPT ![c] = t] /\ client' = client
  BY DEF InSession
<1> QED
  BY <1>1, <1>2, <1>3, SessionAlone DEF Moved

LEMMA ReadySession ==
  ASSUME SessionsInv, NEW c \in Clients, Ready(c)
  PROVE  /\ InSessionInv(session[c], client[c]) /\ session[c].pc = "ready" /\ client[c].gone = FALSE
         /\ Heard(c) = HeardFrom(session[c], client[c])
<1>1. InSessionInv(session[c], client[c])
  BY DEF SessionsInv
<1>2. client[c].gone \in BOOLEAN
  BY <1>1, ClientTypes DEF InSessionInv
<1> QED
  BY <1>1, <1>2 DEF Ready, Heard, HeardFrom

\* The commands.
LEMMA HeloMoves ==
  ASSUME SessionsInv, NEW c \in Clients, Helo(c) \/ Rset(c)
  PROVE  Moved(c)
<1> DEFINE s == session[c]  cl == client[c]  h == Heard(c)
<1>1. Ready(c)
  BY DEF Helo, Rset
<1>2. InSessionInv(s, cl) /\ s.pc = "ready" /\ cl.gone = FALSE /\ h = HeardFrom(s, cl)
  BY <1>1, ReadySession
<1> HIDE DEF s, cl, h
<1>3. /\ h \in SessionStates /\ h.pc = "ready" /\ h.crlfSeen = (s.crlfSeen \/ cl.crlf)
      /\ OneEnvelope(h.envelope)
  BY <1>2, HeardFields
<1>4. Commanded(s, cl, ResetEnvelope(h)) /\ Commanded(s, cl, [ResetEnvelope(h) EXCEPT !.greeted = TRUE])
  BY <1>3, HeloFields
<1>5. InSession(c, ResetEnvelope(h)) \/ InSession(c, [ResetEnvelope(h) EXCEPT !.greeted = TRUE])
  BY DEF Helo, Rset, h
<1>6. s.pc # "data"
  BY <1>2
<1> QED
  BY <1>2, <1>4, <1>5, <1>6, CommandMoves DEF s, cl

LEMMA MailMoves ==
  ASSUME SessionsInv, NEW c \in Clients, MailCommand(c)
  PROVE  Moved(c)
<1> DEFINE s == session[c]  cl == client[c]  h == Heard(c)
<1>1. Ready(c)
  BY DEF MailCommand
<1>2. InSessionInv(s, cl) /\ s.pc = "ready" /\ cl.gone = FALSE /\ h = HeardFrom(s, cl)
  BY <1>1, ReadySession
<1>5. InSession(c, ResetEnvelope(h)) \/ InSession(c, MailStarted(h))
  BY DEF MailCommand
<1> HIDE DEF s, cl, h
<1>3. /\ h \in SessionStates /\ h.pc = "ready" /\ h.crlfSeen = (s.crlfSeen \/ cl.crlf)
      /\ OneEnvelope(h.envelope)
  BY <1>2, HeardFields
<1>4. Commanded(s, cl, ResetEnvelope(h)) /\ Commanded(s, cl, MailStarted(h))
  BY <1>3, HeloFields, MailFields
<1>6. s.pc # "data"
  BY <1>2
<1> QED
  BY <1>2, <1>4, <1>5, <1>6, CommandMoves DEF s, cl

LEMMA RcptMoves ==
  ASSUME SessionsInv, NEW c \in Clients, Rcpt(c)
  PROVE  Moved(c)
<1> DEFINE s == session[c]  cl == client[c]  h == Heard(c)
           t == [h EXCEPT !.envelope.to = Append(@, h.envelope.txn)]
<1>1. Ready(c)
  BY DEF Rcpt
<1>2. InSessionInv(s, cl) /\ s.pc = "ready" /\ cl.gone = FALSE /\ h = HeardFrom(s, cl)
  BY <1>1, ReadySession
<1> HIDE DEF s, cl, h
<1>3. /\ h \in SessionStates /\ h.pc = "ready" /\ h.crlfSeen = (s.crlfSeen \/ cl.crlf)
      /\ OneEnvelope(h.envelope) /\ h.envelope \in Envelopes /\ h.envelope = s.envelope
  BY <1>2, HeardFields
<1>4. Commanded(s, cl, t)
  BY <1>3, RcptFields
<1>5. InSession(c, [h EXCEPT !.envelope.to = Append(@, s.envelope.txn)])
  BY DEF Rcpt, h, s
<1>6. InSession(c, t)
  BY <1>5, <1>3
<1>7. s.pc # "data"
  BY <1>2
<1> HIDE DEF t
<1> QED
  BY <1>2, <1>4, <1>6, <1>7, CommandMoves DEF s, cl

LEMMA AuthMoves ==
  ASSUME SessionsInv, NEW c \in Clients, Auth(c)
  PROVE  Moved(c)
<1> DEFINE s == session[c]  cl == client[c]  h == Heard(c)
<1>1. Ready(c)
  BY DEF Auth
<1>2. InSessionInv(s, cl) /\ s.pc = "ready" /\ cl.gone = FALSE /\ h = HeardFrom(s, cl)
  BY <1>1, ReadySession
<1> HIDE DEF s, cl, h
<1>3. /\ h \in SessionStates /\ h.pc = "ready" /\ h.crlfSeen = (s.crlfSeen \/ cl.crlf)
      /\ OneEnvelope(h.envelope)
  BY <1>2, HeardFields
<1>4. PICK pc \in {"plain", "user", "pass"} : InSession(c, [h EXCEPT !.pc = pc])
  BY DEF Auth, h
<1>5. Commanded(s, cl, [h EXCEPT !.pc = pc])
  BY <1>3, AuthFields
<1>6. s.pc # "data"
  BY <1>2
<1> QED
  BY <1>2, <1>4, <1>5, <1>6, CommandMoves DEF s, cl

\* A connection starts or ends.
LEMMA ConnectMoves ==
  ASSUME SessionsInv, NEW c \in Clients, workload \in Workloads, Connect(c)
  PROVE  Moved(c)
<1>1. PICK crlf \in BOOLEAN : client' = [client EXCEPT ![c] = [Quiet EXCEPT !.crlf = crlf]]
  BY WorkloadsAssumption DEF Connect
<1>2. session' = [session EXCEPT ![c] = Fresh]
  BY DEF Connect
<1>3. InSessionInv(Fresh, [Quiet EXCEPT !.crlf = crlf])
  BY ConnectedInv
<1>4. Fresh.pc \notin {"append", "emit"}
  BY FreshSession
<1> QED
  BY <1>1, <1>2, <1>3, <1>4, OneSession DEF Moved

LEMMA EndMoves ==
  ASSUME SessionsInv, NEW c \in Clients, EndSession(c)
  PROVE  Moved(c)
<1>1. InSessionInv(Closed, Quiet)
  BY ConnectedInv
<1>2. Closed.pc \notin {"append", "emit"}
  BY FreshSession
<1>3. session' = [session EXCEPT ![c] = Closed] /\ client' = [client EXCEPT ![c] = Quiet]
  BY DEF EndSession
<1> QED
  BY <1>1, <1>2, <1>3, OneSession DEF Moved

LEMMA AuthLineMoves ==
  ASSUME SessionsInv, NEW c \in Clients, AuthLine(c)
  PROVE  Moved(c)
<1> DEFINE s == session[c]  cl == client[c]  h == Heard(c)
<1>1. InSessionInv(s, cl) /\ s.pc \in {"plain", "user", "pass"} /\ h = HeardFrom(s, cl)
  BY DEF SessionsInv, AuthLine, Heard, HeardFrom
<1>2. cl.gone = FALSE
  <2>1. cl.gone \in BOOLEAN
    BY <1>1, ClientTypes DEF InSessionInv
  <2> QED
    BY <1>1, <2>1 DEF InSessionInv
<1>3. \/ \E pc \in {"ready", "pass"} : InSession(c, [h EXCEPT !.pc = pc])
      \/ \E right \in BOOLEAN :
            InSession(c, [h EXCEPT !.pc = "ready", !.authed = workload.auth # "strict" \/ right])
      \/ EndSession(c)
  BY DEF AuthLine
<1> HIDE DEF s, cl, h
<1>4. /\ h \in SessionStates /\ h.crlfSeen = (s.crlfSeen \/ cl.crlf) /\ OneEnvelope(h.envelope)
  BY <1>1, HeardFields
<1>5. s.pc # "data"
  BY <1>1
<1>6. ASSUME NEW pc \in {"ready", "pass"}, InSession(c, [h EXCEPT !.pc = pc])
      PROVE  Moved(c)
  <2>1. Commanded(s, cl, [h EXCEPT !.pc = pc])
    BY <1>4, AuthFields
  <2> QED
    BY <1>2, <1>5, <1>6, <2>1, CommandMoves DEF s, cl
<1>7. ASSUME NEW right \in BOOLEAN,
             InSession(c, [h EXCEPT !.pc = "ready", !.authed = workload.auth # "strict" \/ right])
      PROVE  Moved(c)
  <2> DEFINE authed == workload.auth # "strict" \/ right
  <2>1. authed \in BOOLEAN
    OBVIOUS
  <2>2. InSession(c, [h EXCEPT !.pc = "ready", !.authed = authed])
    BY <1>7
  <2> HIDE DEF authed
  <2>3. Commanded(s, cl, [h EXCEPT !.pc = "ready", !.authed = authed])
    BY <1>4, <2>1, AuthFields
  <2> QED
    BY <1>2, <1>5, <2>2, <2>3, CommandMoves DEF s, cl
<1>8. ASSUME EndSession(c)
      PROVE  Moved(c)
  BY <1>8, EndMoves
<1> QED
  BY <1>3, <1>6, <1>7, <1>8

\* A message: its start, its lines, its end.
LEMMA DataMoves ==
  ASSUME SessionsInv, NEW c \in Clients, workload \in Workloads, Data(c)
  PROVE  Moved(c)
<1> DEFINE s == session[c]  cl == client[c]
<1>1. Ready(c)
  BY DEF Data
<1>2. InSessionInv(s, cl) /\ s.pc = "ready" /\ cl.gone = FALSE /\ Heard(c) = HeardFrom(s, cl)
  BY <1>1, ReadySession
<1>3. PICK draft \in workload.drafts :
         /\ cl.crlf \/ \A i \in 1..Len(draft) : ~draft[i].crlf
         /\ draft # <<>> => Last(draft).crlf = cl.crlf
         /\ client' = [client EXCEPT ![c] = [cl EXCEPT !.draft = draft, !.left = Wire(draft, cl.crlf)]]
  BY DEF Data, SessionsInv
<1>4. session' = [session EXCEPT ![c] = [HeardFrom(s, cl) EXCEPT !.pc = "data", !.raw = <<>>, !.oversized = FALSE]]
  BY <1>2 DEF Data
<1>5. s.envelope.open = TRUE /\ s.envelope.to # <<>>
  <2>1. s.envelope.open \in BOOLEAN
    BY <1>2 DEF InSessionInv, SessionStates, Envelopes
  <2> QED
    BY <2>1 DEF Data, Complete
<1>6. draft \in Drafts
  BY WorkloadsAssumption DEF Drafts, WireLines
<1>7. WellEnded(draft, cl.crlf)
  <2>1. cl.crlf \in BOOLEAN
    BY <1>2, ClientTypes DEF InSessionInv
  <2>2. ASSUME NEW i \in 1..Len(draft)
        PROVE  draft[i].crlf \in BOOLEAN
    <3>1. draft[i] \in WireLines
      BY <1>6 DEF Drafts
    <3> QED
      BY <3>1 DEF WireLines
  <2> QED
    BY <2>1, <2>2, <1>3 DEF WellEnded, Last
<1> DEFINE t == [HeardFrom(s, cl) EXCEPT !.pc = "data", !.raw = <<>>, !.oversized = FALSE]
           k == [cl EXCEPT !.draft = draft, !.left = Wire(draft, cl.crlf)]
<1>8. InSessionInv(t, k)
  BY <1>2, <1>5, <1>6, <1>7, DataInv
<1>9. t.pc = "data"
  <2>1. HeardFrom(s, cl) \in SessionStates
    BY <1>2, HeardFields
  <2> QED
    BY <2>1 DEF SessionStates
<1>10. session' = [session EXCEPT ![c] = t] /\ client' = [client EXCEPT ![c] = k]
  BY <1>3, <1>4
<1> HIDE DEF s, cl, t, k
<1>11. SessionsInv' /\ session'[c] = t /\ \A d \in Clients : d # c => session'[d] = session[d]
  BY <1>8, <1>10, OneSession
<1> QED
  BY <1>9, <1>11 DEF Moved

LEMMA DataLineMoves ==
  ASSUME SessionsInv, NEW c \in Clients, DataLine(c)
  PROVE  Moved(c)
<1> DEFINE s == session[c]  cl == client[c]  t == LineRead(s, Head(cl.left))  k == Advanced(cl)
<1>1. InSessionInv(s, cl) /\ s.pc = "data"
  BY DEF SessionsInv, DataLine
<1>2. session' = [session EXCEPT ![c] = t] /\ client' = [client EXCEPT ![c] = k]
  BY DEF DataLine, SessionsInv, Advanced
<1>3. InSessionInv(t, k) /\ t.pc \in {"ready", "data", "receive"}
  BY <1>1, DataLineInv
<1> HIDE DEF s, cl, t, k
<1>4. SessionsInv' /\ session'[c] = t /\ \A d \in Clients : d # c => session'[d] = session[d]
  BY <1>2, <1>3, OneSession
<1> QED
  BY <1>3, <1>4 DEF Moved

LEMMA HangupMoves ==
  ASSUME SessionsInv, NEW c \in Clients, Hangup(c)
  PROVE  Moved(c)
BY EndMoves DEF Hangup

LEMMA CutLineMoves ==
  ASSUME SessionsInv, NEW c \in Clients, CutLine(c)
  PROVE  Moved(c)
<1> DEFINE s == session[c]  cl == client[c]  k == [Quiet EXCEPT !.crlf = FALSE, !.gone = TRUE]
<1>1. InSessionInv(s, cl) /\ s.pc = "data"
  BY DEF SessionsInv, CutLine
<1>2. cl.left[1] \in WireLines /\ Head(cl.left) = cl.left[1]
  BY <1>1, AdvancedClient DEF InSessionInv
<1>3. Head(cl.left).dots \in Nat
  BY <1>2 DEF WireLines
<1>4. PICK dots \in 1..Head(cl.left).dots :
         session' = [session EXCEPT ![c] =
             IF LineRead(s, Line(dots, 0, FALSE)).pc = "receive" THEN LineRead(s, Line(dots, 0, FALSE)) ELSE Closed]
  BY DEF CutLine, SessionsInv
<1> DEFINE line == Line(dots, 0, FALSE)  t == LineRead(s, line)
<1>5. line \in WireLines
  BY <1>3, <1>4 DEF Line, WireLines
<1>6. client' = [client EXCEPT ![c] = IF session'[c].pc = "closed" THEN Quiet ELSE k]
  BY DEF CutLine
<1>7. session' = [session EXCEPT ![c] = IF t.pc = "receive" THEN t ELSE Closed]
  BY <1>4
<1> HIDE DEF s, cl, k, line, t
<1>8. CASE t.pc = "receive"
  <2>1. InSessionInv(t, k)
    BY <1>1, <1>5, <1>8, CutLineFields DEF t, k
  <2>2. session' = [session EXCEPT ![c] = t]
    BY <1>7, <1>8
  <2>3. session'[c] = t
    BY <2>2 DEF SessionsInv
  <2>4. client' = [client EXCEPT ![c] = k]
    BY <1>6, <1>8, <2>3
  <2> QED
    BY <2>1, <2>2, <2>4, <1>8, OneSession DEF Moved
<1>9. CASE t.pc # "receive"
  <2>1. session' = [session EXCEPT ![c] = Closed]
    BY <1>7, <1>9
  <2>2. session'[c] = Closed /\ Closed.pc = "closed"
    BY <2>1, FreshSession DEF SessionsInv
  <2>3. client' = [client EXCEPT ![c] = Quiet]
    BY <1>6, <2>2
  <2> QED
    BY <2>1, <2>3, EndMoves DEF EndSession
<1> QED
  BY <1>8, <1>9

\* A message that is received: the transaction fails, is filed, is answered.
LEMMA FailedMoves ==
  ASSUME SessionsInv, NEW c \in Clients, session[c].pc \in Receiving, Failed(c)
  PROVE  Moved(c)
<1> DEFINE s == session[c]  cl == client[c]  t == [ResetEnvelope(s) EXCEPT !.pc = "ready"]  k == [cl EXCEPT !.left = <<>>]
<1>1. InSessionInv(t, k) /\ t.pc = "ready"
  BY OverFields DEF SessionsInv
<1>2. session' = [session EXCEPT ![c] = t] /\ client' = [client EXCEPT ![c] = k]
  BY DEF Failed, SessionsInv
<1> HIDE DEF s, cl, t, k
<1>3. SessionsInv' /\ session'[c] = t /\ \A d \in Clients : d # c => session'[d] = session[d]
  BY <1>1, <1>2, OneSession
<1> QED
  BY <1>1, <1>3 DEF Moved

LEMMA EmitMoves ==
  ASSUME SessionsInv, NEW c \in Clients, Emit(c)
  PROVE  Moved(c)
<1> DEFINE s == session[c]  t == [ResetEnvelope(s) EXCEPT !.pc = "ready"]
<1>1. InSessionInv(t, client[c]) /\ t.pc = "ready"
  BY OverFields DEF SessionsInv, Emit, Receiving
<1>2. session' = [session EXCEPT ![c] = t] /\ client' = client
  BY DEF Emit, SessionsInv
<1> HIDE DEF t
<1>3. SessionsInv' /\ session'[c] = t /\ \A d \in Clients : d # c => session'[d] = session[d]
  BY <1>1, <1>2, SessionAlone
<1> QED
  BY <1>1, <1>3 DEF Moved

LEMMA FiledMoves ==
  ASSUME SessionsInv, NEW c \in Clients, session[c].pc = "receive", NEW id \in Nat,
         session' = [session EXCEPT ![c] = [@ EXCEPT !.pc = "append", !.id = id]], client' = client
  PROVE  /\ SessionsInv' /\ \A d \in Clients : d # c => session'[d] = session[d]
         /\ session'[c].pc = "append" /\ session'[c].id = id /\ session'[c].raw = session[c].raw
<1> DEFINE t == Filed(session[c], id)
<1>0. InSessionInv(session[c], client[c]) /\ session[c].pc \in Receiving
  BY DEF SessionsInv, Receiving
<1>2. session' = [session EXCEPT ![c] = t] /\ t = Filed(session[c], id)
  BY DEF SessionsInv, Filed
<1> HIDE DEF t
<1>1. InSessionInv(t, client[c]) /\ t.pc = "append" /\ t.id = id /\ t.raw = session[c].raw
  BY <1>0, <1>2, FiledFields
<1>3. SessionsInv' /\ session'[c] = t /\ \A d \in Clients : d # c => session'[d] = session[d]
  BY <1>1, <1>2, SessionAlone
<1> QED
  BY <1>1, <1>3

LEMMA AppendedMoves ==
  ASSUME SessionsInv, NEW c \in Clients, session[c].pc = "append",
         session' = [session EXCEPT ![c].pc = "emit"], client' = client
  PROVE  /\ SessionsInv' /\ \A d \in Clients : d # c => session'[d] = session[d]
         /\ session'[c].pc = "emit" /\ session'[c].id = session[c].id /\ session'[c].raw = session[c].raw
         /\ session'[c].envelope = session[c].envelope
<1> DEFINE t == [session[c] EXCEPT !.pc = "emit"]
<1>1. /\ InSessionInv(t, client[c]) /\ t.pc = "emit" /\ t.id = session[c].id /\ t.raw = session[c].raw
      /\ t.envelope = session[c].envelope
  BY LoggedFields DEF SessionsInv, Receiving
<1>2. session' = [session EXCEPT ![c] = t]
  BY DEF SessionsInv
<1> HIDE DEF t
<1>3. SessionsInv' /\ session'[c] = t /\ \A d \in Clients : d # c => session'[d] = session[d]
  BY <1>1, <1>2, SessionAlone
<1> QED
  BY <1>1, <1>3

-----------------------------------------------------------------------------
(* The log. *)

\* What the log says of one message.
GoodEntry(e, n) ==
    /\ e \in Entries
    /\ e.id >= 1 /\ e.id < n
    /\ e.deleted = FALSE => e.to # <<>>
    /\ \A i \in 1..Len(e.to) : e.to[i] = e.txn

StoreInv ==
    /\ workload \in Workloads
    /\ nextId \in Nat /\ nextId >= 1 /\ nextId <= workload.messages + 1
    /\ log \in Seq(Entries) /\ Parsed \in Seq(Entries)
    /\ \A e \in Range(log) \cup Range(Parsed) : GoodEntry(e, nextId)
    /\ index = None \/ index = Parsed
    /\ \A e \in Alive(Parsed) : e.body \in blobs
    /\ AckedKept /\ DeletedStay
    /\ tail = None \/ tail.whole \in BOOLEAN

\* The messages on their way to the log, and those in it that are not answered yet.
FilingInv ==
    /\ \A c \in Clients : session[c].pc = "append" =>
          /\ session[c].id \in Nat /\ session[c].id >= 1 /\ session[c].id < nextId
          /\ session[c].id \notin gone \cup AliveIds(Parsed)
          /\ session[c].raw \in blobs
    /\ \A c, d \in Clients : session[c].pc = "append" /\ session[d].pc = "append" /\ c # d =>
          session[c].id # session[d].id
    /\ \A c \in Clients : session[c].pc = "emit" => session[c].id \in gone \/ Received(c) \in Alive(Parsed)
    /\ \A id \in gone : id \in Nat /\ id < nextId

IsReading(r) ==
    r = [pc |-> r.pc, ids |-> r.ids, at |-> r.at, start |-> r.start, limit |-> r.limit, query |-> r.query,
         total |-> r.total, items |-> r.items, began |-> r.began]
ReadingInv ==
    /\ reading = [r \in Readers |-> reading[r]]
    /\ \A r \in Readers :
          /\ IsReading(reading[r])
          /\ reading[r].pc = "raw" => reading[r].ids[1] \in gone \cup AliveIds(Parsed)
          /\ reading[r].pc = "read" /\ reading[r].items = <<>> => reading[r].ids[1] \in gone

LEMMA RangeIs ==
  ASSUME NEW S, NEW s \in Seq(S)
  PROVE  Range(s) = {s[i] : i \in 1..Len(s)}
BY DEF Range

LEMMA RangeAppend ==
  ASSUME NEW S, NEW s \in Seq(S), NEW e \in S
  PROVE  Append(s, e) \in Seq(S) /\ Range(Append(s, e)) = Range(s) \cup {e}
<1>1. /\ Append(s, e) \in Seq(S) /\ Len(Append(s, e)) = Len(s) + 1 /\ Len(s) \in Nat
      /\ \A i \in 1..Len(s) : Append(s, e)[i] = s[i]
      /\ Append(s, e)[Len(s) + 1] = e
  OBVIOUS
<1> DEFINE a == Append(s, e)
<1>2. Range(s) = {s[i] : i \in 1..Len(s)} /\ Range(a) = {a[i] : i \in 1..Len(a)}
  BY <1>1, RangeIs
<1> HIDE DEF a
<1>3. \A x \in Range(a) : x \in Range(s) \cup {e}
  BY <1>1, <1>2 DEF a
<1>4. \A x \in Range(s) : x \in Range(a)
  BY <1>1, <1>2 DEF a
<1>5. e \in Range(a)
  BY <1>1, <1>2 DEF a
<1> QED
  BY <1>1, <1>3, <1>4, <1>5 DEF a

LEMMA AliveAppend ==
  ASSUME NEW s \in Seq(Entries), NEW e \in Entries, e.deleted = FALSE
  PROVE  Alive(Append(s, e)) = Alive(s) \cup {e} /\ AliveIds(Append(s, e)) = AliveIds(s) \cup {e.id}
<1>1. Range(Append(s, e)) = Range(s) \cup {e}
  BY RangeAppend
<1>2. Alive(Append(s, e)) = Alive(s) \cup {e}
  BY <1>1 DEF Alive
<1> HIDE DEF Alive
<1> QED
  BY <1>2 DEF AliveIds

\* The entries left by a rewrite.
Buried(s, ids) == [i \in 1..Len(s) |-> IF s[i].id \in ids THEN Tombstone(s[i]) ELSE s[i]]

LEMMA RewrittenIs ==
  ASSUME NEW s \in Seq(Entries), NEW ids, NEW n \in Nat, \A e \in Range(s) : GoodEntry(e, n),
         NEW w, w = Buried(s, ids)
  PROVE  /\ w \in Seq(Entries)
         /\ \A e \in Range(w) : GoodEntry(e, n)
         /\ Alive(w) = {e \in Alive(s) : e.id \notin ids}
         /\ AliveIds(w) = AliveIds(s) \ ids
<1>1. Len(s) \in Nat /\ \A i \in 1..Len(s) : s[i] \in Entries /\ s[i] \in Range(s)
  BY RangeIs
<1>2. ASSUME NEW e, GoodEntry(e, n), NEW x, x = Tombstone(e)
      PROVE  GoodEntry(x, n) /\ x.deleted = TRUE
  <2>1. e \in Entries /\ e.id >= 1 /\ e.id < n
    BY <1>2 DEF GoodEntry
  <2>2. x \in Entries /\ x.id = e.id /\ x.deleted = TRUE /\ x.to = <<>>
    BY <2>1, <1>2, EmptySequences DEF Entries, Tombstone
  <2> QED
    BY <2>1, <2>2 DEF GoodEntry
<1>3. ASSUME NEW i \in 1..Len(s)
      PROVE  /\ GoodEntry(w[i], n) /\ w[i] \in Entries
             /\ s[i].id \in ids => w[i].deleted = TRUE
             /\ s[i].id \notin ids => w[i] = s[i]
  <2>1. GoodEntry(s[i], n)
    BY <1>1
  <2>2. w[i] = IF s[i].id \in ids THEN Tombstone(s[i]) ELSE s[i]
    BY DEF Buried
  <2>3. GoodEntry(w[i], n) /\ (s[i].id \in ids => w[i].deleted = TRUE)
    BY <2>1, <2>2, <1>2
  <2> QED
    BY <2>2, <2>3 DEF GoodEntry
<1>4. w \in Seq(Entries) /\ Len(w) = Len(s)
  <2> DEFINE m == Len(s)
  <2>1. w = [i \in 1..m |-> w[i]] /\ m \in Nat
    BY <1>1 DEF Buried
  <2>2. \A i \in 1..m : w[i] \in Entries
    BY <1>3
  <2> HIDE DEF m
  <2>3. w \in Seq(Entries) /\ Len(w) = m
    BY ONLY <2>1, <2>2
  <2> QED
    BY <2>3 DEF m
<1>5. Range(w) = {w[i] : i \in 1..Len(s)} /\ Range(s) = {s[i] : i \in 1..Len(s)}
  <2>1. Range(w) = {w[i] : i \in 1..Len(w)}
    BY ONLY <1>4, RangeIs
  <2>2. Range(s) = {s[i] : i \in 1..Len(s)}
    BY RangeIs
  <2> QED
    BY ONLY <2>1, <2>2, <1>4
<1>6. \A e \in Range(w) : GoodEntry(e, n)
  BY <1>3, <1>5
<1>7. ASSUME NEW e \in Alive(w)
      PROVE  e \in Alive(s) /\ e.id \notin ids
  <2>1. e \in Range(w) /\ e.deleted # TRUE
    BY <1>7 DEF Alive
  <2>2. PICK i \in 1..Len(s) : e = w[i]
    BY <2>1, <1>5
  <2>3. s[i].id \notin ids /\ e = s[i]
    BY <2>1, <2>2, <1>3
  <2> QED
    BY <2>1, <2>3, <1>1 DEF Alive
<1>8. ASSUME NEW e \in Alive(s), e.id \notin ids
      PROVE  e \in Alive(w)
  <2>1. PICK i \in 1..Len(s) : e = s[i]
    BY <1>5 DEF Alive
  <2>2. e = w[i]
    BY <2>1, <1>3, <1>8
  <2>3. e \in Range(w)
    BY <2>2, <1>5
  <2> QED
    BY <2>3 DEF Alive
<1>9. Alive(w) = {e \in Alive(s) : e.id \notin ids}
  BY <1>7, <1>8
<1>10. AliveIds(w) = AliveIds(s) \ ids
  BY <1>9 DEF AliveIds
<1> QED
  BY <1>4, <1>6, <1>9, <1>10

-----------------------------------------------------------------------------
(* The store, step by step. *)

\* A step that changes neither what the log says nor what is deleted.
StoreStays ==
    /\ Parsed' = Parsed /\ gone' = gone /\ workload' = workload
    /\ log' = log \/ log' = Parsed
    /\ index' = index \/ index' = None \/ index' = Parsed
    /\ tail' = None \/ tail'.whole \in BOOLEAN
    /\ \A b \in blobs : b \in blobs'
    /\ nextId' \in Nat /\ nextId <= nextId' /\ nextId' <= workload.messages + 1

SessionsStay == \A d \in Clients : session'[d] = session[d] \/ session'[d].pc \notin {"append", "emit"}

LEMMA LoadedIs ==
  ASSUME StoreInv
  PROVE  Loaded = Parsed
BY DEF StoreInv, Loaded

LEMMA StoreKept ==
  ASSUME StoreInv, StoreStays, AckedKept'
  PROVE  StoreInv'
<1>1. workload' \in Workloads /\ nextId' \in Nat /\ nextId' >= 1 /\ nextId' <= workload'.messages + 1
  BY DEF StoreInv, StoreStays
<1>2. log' \in Seq(Entries) /\ Parsed' \in Seq(Entries)
  BY DEF StoreInv, StoreStays
<1>3. ASSUME NEW e \in Range(log') \cup Range(Parsed')
      PROVE  GoodEntry(e, nextId')
  <2>1. e \in Range(log) \cup Range(Parsed)
    BY <1>3 DEF StoreStays
  <2>2. GoodEntry(e, nextId) /\ e.id \in Nat /\ nextId \in Nat
    BY <2>1 DEF StoreInv, GoodEntry, Entries
  <2>3. nextId <= nextId' /\ nextId' \in Nat
    BY DEF StoreStays
  <2> QED
    BY <2>2, <2>3 DEF GoodEntry
<1>4. index' = None \/ index' = Parsed'
  BY DEF StoreInv, StoreStays
<1>5. \A e \in Alive(Parsed') : e.body \in blobs'
  BY DEF StoreInv, StoreStays
<1>6. DeletedStay'
  BY DEF StoreInv, StoreStays, DeletedStay
<1>7. tail' = None \/ tail'.whole \in BOOLEAN
  BY DEF StoreStays
<1> QED
  BY <1>1, <1>2, <1>3, <1>4, <1>5, <1>6, <1>7 DEF StoreInv

LEMMA AckedStays ==
  ASSUME StoreInv, StoreStays, acked' = acked
  PROVE  AckedKept'
BY DEF StoreInv, StoreStays, AckedKept

LEMMA FilingKept ==
  ASSUME StoreInv, FilingInv, StoreStays, SessionsStay
  PROVE  FilingInv'
<1>1. nextId \in Nat /\ nextId' \in Nat /\ nextId <= nextId' /\ gone' = gone /\ Parsed' = Parsed
  BY DEF StoreInv, StoreStays
<1>2. ASSUME NEW c \in Clients, session'[c].pc = "append"
      PROVE  /\ session'[c].id \in Nat /\ session'[c].id >= 1 /\ session'[c].id < nextId'
             /\ session'[c].id \notin gone' \cup AliveIds(Parsed')
             /\ session'[c].raw \in blobs'
  <2>1. session'[c] = session[c] /\ session[c].pc = "append"
    BY <1>2 DEF SessionsStay
  <2>2. /\ session[c].id \in Nat /\ session[c].id >= 1 /\ session[c].id < nextId
        /\ session[c].id \notin gone \cup AliveIds(Parsed)
        /\ session[c].raw \in blobs
    BY <2>1 DEF FilingInv
  <2>3. session[c].raw \in blobs'
    BY <2>2 DEF StoreStays
  <2>4. session[c].id < nextId'
    BY <2>2, <1>1
  <2> QED
    BY <2>1, <2>2, <2>3, <2>4, <1>1
<1>3. ASSUME NEW c \in Clients, NEW d \in Clients, session'[c].pc = "append", session'[d].pc = "append", c # d
      PROVE  session'[c].id # session'[d].id
  <2>1. session'[c] = session[c] /\ session'[d] = session[d] /\ session[c].pc = "append" /\ session[d].pc = "append"
    BY <1>3 DEF SessionsStay
  <2> QED
    BY <2>1, <1>3 DEF FilingInv
<1>4. ASSUME NEW c \in Clients, session'[c].pc = "emit"
      PROVE  session'[c].id \in gone' \/ Received(c)' \in Alive(Parsed')
  <2>1. session'[c] = session[c] /\ session[c].pc = "emit"
    BY <1>4 DEF SessionsStay
  <2>2. Received(c)' = Received(c)
    BY <2>1 DEF Received
  <2> QED
    BY <2>1, <2>2, <1>1 DEF FilingInv
<1>5. ASSUME NEW id \in gone'
      PROVE  id \in Nat /\ id < nextId'
  <2>1. id \in Nat /\ id < nextId
    BY <1>1, <1>5 DEF FilingInv
  <2> QED
    BY <2>1, <1>1
<1> QED
  BY <1>2, <1>3, <1>4, <1>5 DEF FilingInv

\* What a reader may hope for is never taken back other than by a deletion.
LEMMA ReadingKept ==
  ASSUME ReadingInv, reading' = reading, \A id \in gone : id \in gone',
         \A id \in AliveIds(Parsed) : id \in gone' \cup AliveIds(Parsed')
  PROVE  ReadingInv'
BY DEF ReadingInv

StoreAll == SessionsInv /\ StoreInv /\ FilingInv /\ ReadingInv

\* A step of the sessions that leaves the store alone.
LEMMA SessionStep ==
  ASSUME StoreAll, NEW c \in Clients, Moved(c), StoreStays, reading' = reading, AckedKept'
  PROVE  StoreAll'
<1>1. SessionsStay
  BY DEF Moved, SessionsStay
<1>2. StoreInv' /\ FilingInv'
  BY <1>1, StoreKept, FilingKept DEF StoreAll
<1>3. \A id \in gone : id \in gone'
  BY DEF StoreStays
<1>4. \A id \in AliveIds(Parsed) : id \in gone' \cup AliveIds(Parsed')
  BY DEF StoreStays
<1>5. ReadingInv'
  BY <1>3, <1>4, ReadingKept DEF StoreAll
<1> QED
  BY <1>2, <1>5 DEF StoreAll, Moved

LEMMA StaysPut ==
  ASSUME StoreInv, UNCHANGED <<log, tail, blobs, nextId, gone, workload>>, index' = index \/ index' = None \/ index' = Parsed
  PROVE  StoreStays
<1>1. Parsed' = Parsed
  BY DEF Parsed
<1> QED
  BY <1>1 DEF StoreInv, StoreStays

\* Commands, lines and connections.
SessionAction(c) ==
    \/ Connect(c) \/ Helo(c) \/ MailCommand(c) \/ Rcpt(c) \/ Rset(c) \/ Data(c) \/ Auth(c) \/ AuthLine(c)
    \/ DataLine(c) \/ Hangup(c) \/ CutLine(c)

LEMMA SessionActionKeeps ==
  ASSUME StoreAll, NEW c \in Clients, SessionAction(c)
  PROVE  StoreAll' /\ Moved(c)
<1>1. UNCHANGED <<log, tail, index, blobs, reading, nextId, acked, gone, workload>>
  BY DEF SessionAction, Connect, Helo, MailCommand, Rcpt, Rset, Data, Auth, AuthLine, DataLine, Hangup, CutLine,
         InSession, storeVars
<1>2. SessionsInv /\ StoreInv /\ workload \in Workloads
  BY DEF StoreAll, StoreInv
<1>3. Moved(c)
  BY <1>2, ConnectMoves, HeloMoves, MailMoves, RcptMoves, DataMoves, AuthMoves, AuthLineMoves, DataLineMoves,
     HangupMoves, CutLineMoves DEF SessionAction
<1>4. StoreStays
  BY <1>1, <1>2, StaysPut
<1>5. AckedKept'
  BY <1>1, <1>2, <1>4, AckedStays
<1> QED
  BY <1>1, <1>3, <1>4, <1>5, SessionStep

\* The bytes are stored under a new id, or the transaction fails and the id is wasted.
LEMMA PutBlobKeeps ==
  ASSUME StoreAll, NEW c \in Clients, PutBlob(c)
  PROVE  StoreAll'
<1>1. /\ UNCHANGED <<log, tail, index, reading, acked, gone, workload>>
      /\ nextId' = nextId + 1 /\ nextId <= workload.messages /\ session[c].pc = "receive"
  BY DEF PutBlob
<1>2. /\ SessionsInv /\ StoreInv /\ FilingInv /\ ReadingInv /\ nextId \in Nat /\ workload.messages \in Nat
      /\ nextId' \in Nat /\ nextId <= nextId' /\ nextId' <= workload.messages + 1 /\ nextId >= 1
  <2>1. SessionsInv /\ StoreInv /\ FilingInv /\ ReadingInv /\ nextId \in Nat /\ workload \in Workloads /\ nextId >= 1
    BY DEF StoreAll, StoreInv
  <2>2. workload.messages \in Nat
    BY <2>1, WorkloadsAssumption
  <2> QED
    BY <2>1, <2>2, <1>1
<1>3. Parsed' = Parsed
  BY <1>1 DEF Parsed
<1>4. \A b \in blobs : b \in blobs'
  BY DEF PutBlob
<1>5. StoreStays
  BY <1>1, <1>2, <1>3, <1>4 DEF StoreStays, StoreInv
<1>6. AckedKept'
  BY <1>1, <1>2, <1>5, AckedStays
<1>7. CASE Failed(c)
  <2>1. Moved(c)
    BY <1>1, <1>2, <1>7, FailedMoves DEF Receiving
  <2> QED
    BY <2>1, <1>1, <1>5, <1>6, SessionStep
<1>8. CASE /\ blobs' = blobs \cup {session[c].raw}
           /\ session' = [session EXCEPT ![c] = [@ EXCEPT !.pc = "append", !.id = nextId]]
           /\ client' = client
  <2>1. /\ SessionsInv' /\ \A d \in Clients : d # c => session'[d] = session[d]
        /\ session'[c].pc = "append" /\ session'[c].id = nextId /\ session'[c].raw = session[c].raw
    BY <1>1, <1>2, <1>8, FiledMoves
  <2>2. StoreInv'
    BY <1>2, <1>5, <1>6, StoreKept
  <2>3. ReadingInv'
    BY <1>1, <1>2, <1>3, ReadingKept
  <2>4. nextId \notin gone' \cup AliveIds(Parsed')
    <3>1. nextId \notin gone
      BY <1>2 DEF FilingInv
    <3>2. ASSUME NEW e \in Alive(Parsed)
          PROVE  e.id # nextId
      <4>1. GoodEntry(e, nextId)
        BY <1>2 DEF Alive, StoreInv
      <4> QED
        BY <4>1, <1>2 DEF GoodEntry, Entries
    <3> QED
      BY <3>1, <3>2, <1>1, <1>3 DEF AliveIds
  <2>5. ASSUME NEW d \in Clients, d # c, session[d].pc = "append"
        PROVE  /\ session[d].id \in Nat /\ session[d].id >= 1 /\ session[d].id < nextId
               /\ session[d].id \notin gone' \cup AliveIds(Parsed')
               /\ session[d].raw \in blobs'
    BY <2>5, <1>1, <1>2, <1>3, <1>4 DEF FilingInv
  <2>6. FilingInv'
    <3>1. ASSUME NEW d \in Clients, session'[d].pc = "append"
          PROVE  /\ session'[d].id \in Nat /\ session'[d].id >= 1 /\ session'[d].id < nextId'
                 /\ session'[d].id \notin gone' \cup AliveIds(Parsed')
                 /\ session'[d].raw \in blobs'
      <4>1. CASE d = c
        BY <4>1, <2>1, <2>4, <1>1, <1>2, <1>8
      <4>2. CASE d # c
        <5>1. session'[d] = session[d] /\ session[d].pc = "append"
          BY <4>2, <3>1, <2>1
        <5>2. session[d].id < nextId'
          BY <5>1, <4>2, <2>5, <1>1, <1>2
        <5> QED
          BY <5>1, <5>2, <4>2, <2>5
      <4> QED
        BY <4>1, <4>2
    <3>2. ASSUME NEW d \in Clients, NEW e \in Clients, session'[d].pc = "append", session'[e].pc = "append", d # e
          PROVE  session'[d].id # session'[e].id
      <4>1. CASE d # c /\ e # c
        BY <4>1, <3>2, <2>1, <1>2 DEF FilingInv
      <4>2. CASE d = c
        <5>1. session'[e] = session[e] /\ session[e].pc = "append"
          BY <4>2, <3>2, <2>1
        <5> QED
          BY <5>1, <4>2, <3>2, <2>1, <2>5, <1>2
      <4>3. CASE e = c
        <5>1. session'[d] = session[d] /\ session[d].pc = "append"
          BY <4>3, <3>2, <2>1
        <5> QED
          BY <5>1, <4>3, <3>2, <2>1, <2>5, <1>2
      <4> QED
        BY <4>1, <4>2, <4>3
    <3>3. ASSUME NEW d \in Clients, session'[d].pc = "emit"
          PROVE  session'[d].id \in gone' \/ Received(d)' \in Alive(Parsed')
      <4>1. d # c /\ session'[d] = session[d] /\ session[d].pc = "emit"
        BY <3>3, <2>1
      <4>2. Received(d)' = Received(d)
        BY <4>1 DEF Received
      <4> QED
        BY <4>1, <4>2, <1>1, <1>2, <1>3 DEF FilingInv
    <3>4. ASSUME NEW id \in gone'
          PROVE  id \in Nat /\ id < nextId'
      <4>1. id \in Nat /\ id < nextId
        BY <3>4, <1>1, <1>2 DEF FilingInv
      <4> QED
        BY <4>1, <1>1, <1>2
    <3> QED
      BY <3>1, <3>2, <3>3, <3>4 DEF FilingInv
  <2> QED
    BY <2>1, <2>2, <2>3, <2>6 DEF StoreAll
<1> QED
  BY <1>7, <1>8 DEF PutBlob

\* The record of a message that is about to be logged.
LEMMA ReceivedGood ==
  ASSUME SessionsInv, FilingInv, NEW c \in Clients, session[c].pc = "append", NEW e, e = Received(c)
  PROVE  /\ GoodEntry(e, nextId) /\ e \in Entries /\ e.deleted = FALSE
         /\ e.id = session[c].id /\ e.body = session[c].raw
         /\ e.id \notin gone \cup AliveIds(Parsed) /\ e.body \in blobs
<1> DEFINE s == session[c]
<1>1. /\ s \in SessionStates /\ OneEnvelope(s.envelope) /\ s.envelope.to # <<>>
  BY DEF SessionsInv, InSessionInv, Receiving
<1>2. s.envelope \in Envelopes /\ s.raw \in Bodies /\ s.id \in Nat
  BY <1>1 DEF SessionStates
<1>3. s.envelope.txn \in Nat /\ s.envelope.to \in Recipients
  BY <1>2 DEF Envelopes
<1>4. s.id >= 1 /\ s.id < nextId /\ s.id \notin gone \cup AliveIds(Parsed) /\ s.raw \in blobs
  BY DEF FilingInv
<1>5. e = [id |-> s.id, body |-> s.raw, txn |-> s.envelope.txn, to |-> s.envelope.to, deleted |-> FALSE]
  BY DEF Received, Entry
<1> HIDE DEF s
<1>6. /\ e \in Entries /\ e.id = s.id /\ e.body = s.raw /\ e.txn = s.envelope.txn /\ e.to = s.envelope.to
      /\ e.deleted = FALSE
  BY <1>2, <1>3, <1>5 DEF Entries
<1>7. GoodEntry(e, nextId)
  BY ONLY <1>1, <1>4, <1>6 DEF GoodEntry, OneEnvelope
<1> QED
  BY <1>4, <1>6, <1>7 DEF s

\* One more line in the log.
LEMMA LogGrows ==
  ASSUME StoreInv, NEW e, GoodEntry(e, nextId), e \in Entries, e.deleted = FALSE, e.id \notin gone, e.body \in blobs,
         Parsed' = Append(Parsed, e), log' = Parsed \/ log' = Parsed', index' = None \/ index' = Parsed',
         tail' = None \/ tail'.whole \in BOOLEAN,
         UNCHANGED <<blobs, gone, workload, nextId, acked>>
  PROVE  /\ StoreInv'
         /\ Alive(Parsed') = Alive(Parsed) \cup {e}
         /\ AliveIds(Parsed') = AliveIds(Parsed) \cup {e.id}
<1>1. Parsed \in Seq(Entries)
  BY DEF StoreInv
<1>2. Parsed' \in Seq(Entries) /\ Range(Parsed') = Range(Parsed) \cup {e}
  BY <1>1, RangeAppend
<1>3. Alive(Parsed') = Alive(Parsed) \cup {e} /\ AliveIds(Parsed') = AliveIds(Parsed) \cup {e.id}
  BY <1>1, AliveAppend
<1>4. \A x \in Range(log') \cup Range(Parsed') : GoodEntry(x, nextId')
  BY <1>2 DEF StoreInv
<1>5. AckedKept'
  BY <1>3 DEF StoreInv, AckedKept
<1>6. DeletedStay'
  BY <1>3 DEF StoreInv, DeletedStay
<1>7. \A x \in Alive(Parsed') : x.body \in blobs'
  BY <1>3 DEF StoreInv
<1>8. log' \in Seq(Entries)
  BY <1>1, <1>2
<1>9. workload' \in Workloads /\ nextId' \in Nat /\ nextId' >= 1 /\ nextId' <= workload'.messages + 1
  BY DEF StoreInv
<1> QED
  BY <1>2, <1>3, <1>4, <1>5, <1>6, <1>7, <1>8, <1>9 DEF StoreInv

LEMMA AppendKeeps ==
  ASSUME StoreAll, NEW c \in Clients, AppendMessage(c)
  PROVE  StoreAll'
<1>1. /\ UNCHANGED <<blobs, reading, nextId, acked, gone, workload>> /\ tail' = None
      /\ session[c].pc = "append"
  BY DEF AppendMessage
<1>2. Parsed' = log'
  BY <1>1 DEF Parsed
<1>3. SessionsInv /\ StoreInv /\ FilingInv /\ ReadingInv
  BY DEF StoreAll
<1>4. CASE Failed(c) /\ log' = Repaired /\ UNCHANGED index
  <2>1. Moved(c)
    BY <1>1, <1>3, <1>4, FailedMoves DEF Receiving
  <2>2. StoreStays
    BY <1>1, <1>2, <1>3, <1>4 DEF StoreStays, StoreInv, Repaired
  <2>3. AckedKept'
    BY <1>1, <1>3, <2>2, AckedStays
  <2> QED
    BY <2>1, <2>2, <2>3, <1>1, SessionStep
<1>5. CASE /\ log' = Appended(Received(c)) /\ index' = IndexAfter(Received(c))
           /\ session' = [session EXCEPT ![c].pc = "emit"] /\ UNCHANGED client
  <2> DEFINE e == Received(c)
  <2>1. /\ SessionsInv' /\ \A d \in Clients : d # c => session'[d] = session[d]
        /\ session'[c].pc = "emit" /\ session'[c].id = session[c].id /\ session'[c].raw = session[c].raw
        /\ session'[c].envelope = session[c].envelope
    BY <1>1, <1>3, <1>5, AppendedMoves
  <2>2. Received(c)' = e
    BY <2>1 DEF Received
  <2>3. log' = Append(Parsed, e) /\ (index' = None \/ index' = Append(Parsed, e))
    BY <1>3, <1>5 DEF Appended, Repaired, IndexAfter, StoreInv
  <2>4. /\ GoodEntry(e, nextId) /\ e \in Entries /\ e.deleted = FALSE
        /\ e.id = session[c].id /\ e.body = session[c].raw
        /\ e.id \notin gone \cup AliveIds(Parsed) /\ e.body \in blobs
    BY <1>1, <1>3, ReceivedGood
  <2> HIDE DEF e
  <2>5. /\ StoreInv'
        /\ Alive(Parsed') = Alive(Parsed) \cup {e}
        /\ AliveIds(Parsed') = AliveIds(Parsed) \cup {e.id}
    BY <2>3, <2>4, <1>1, <1>2, <1>3, LogGrows
  <2>6. ReadingInv'
    BY <2>5, <1>1, <1>3, ReadingKept
  <2>7. FilingInv'
    <3>1. ASSUME NEW d \in Clients, session'[d].pc = "append"
          PROVE  /\ session'[d].id \in Nat /\ session'[d].id >= 1 /\ session'[d].id < nextId'
                 /\ session'[d].id \notin gone' \cup AliveIds(Parsed')
                 /\ session'[d].raw \in blobs'
      <4>1. d # c /\ session'[d] = session[d] /\ session[d].pc = "append"
        BY <3>1, <2>1
      <4>2. session[d].id # e.id
        BY <4>1, <2>4, <1>1, <1>3 DEF FilingInv
      <4>3. /\ session[d].id \in Nat /\ session[d].id >= 1 /\ session[d].id < nextId
            /\ session[d].id \notin gone \cup AliveIds(Parsed) /\ session[d].raw \in blobs
        BY <4>1, <1>3 DEF FilingInv
      <4> QED
        BY <4>1, <4>2, <4>3, <2>5, <1>1
    <3>2. ASSUME NEW d \in Clients, NEW f \in Clients, session'[d].pc = "append", session'[f].pc = "append", d # f
          PROVE  session'[d].id # session'[f].id
      <4>1. /\ session'[d] = session[d] /\ session[d].pc = "append"
            /\ session'[f] = session[f] /\ session[f].pc = "append"
        BY <3>2, <2>1
      <4> QED
        BY <4>1, <3>2, <1>3 DEF FilingInv
    <3>3. ASSUME NEW d \in Clients, session'[d].pc = "emit"
          PROVE  session'[d].id \in gone' \/ Received(d)' \in Alive(Parsed')
      <4>1. CASE d = c
        BY <4>1, <2>2, <2>5
      <4>2. CASE d # c
        <5>1. session'[d] = session[d] /\ session[d].pc = "emit"
          BY <4>2, <3>3, <2>1
        <5>2. Received(d)' = Received(d)
          BY <5>1 DEF Received
        <5> QED
          BY <5>1, <5>2, <2>5, <1>1, <1>3 DEF FilingInv
      <4> QED
        BY <4>1, <4>2
    <3>4. \A id \in gone' : id \in Nat /\ id < nextId'
      BY <1>1, <1>3 DEF FilingInv
    <3> QED
      BY <3>1, <3>2, <3>3, <3>4 DEF FilingInv
  <2> QED
    BY <2>1, <2>5, <2>6, <2>7 DEF StoreAll
<1> QED
  BY <1>4, <1>5 DEF AppendMessage

\* The answer: what is acknowledged is in the log.
LEMMA EmitKeeps ==
  ASSUME StoreAll, NEW c \in Clients, Emit(c)
  PROVE  StoreAll'
<1>1. UNCHANGED <<log, tail, index, blobs, reading, nextId, gone, workload>>
  BY DEF Emit, storeVars
<1>2. SessionsInv /\ StoreInv /\ FilingInv /\ session[c].pc = "emit" /\ acked' = acked \cup {Received(c)}
  BY DEF StoreAll, Emit
<1>3. StoreStays
  BY <1>1, <1>2, StaysPut
<1>4. Moved(c)
  BY <1>2, EmitMoves
<1>5. Received(c).id = session[c].id
  BY DEF Received, Entry
<1>6. AckedKept'
  <2>1. Received(c).id \in gone \/ Received(c) \in Alive(Parsed)
    BY <1>2, <1>5 DEF FilingInv
  <2>2. \A m \in acked : m.id \in gone \/ m \in Alive(Parsed)
    BY <1>2 DEF StoreInv, AckedKept
  <2>3. gone' = gone /\ Parsed' = Parsed
    BY <1>3 DEF StoreStays
  <2>4. \A m \in acked' : m.id \in gone' \/ m \in Alive(Parsed')
    BY <2>1, <2>2, <2>3, <1>2
  <2> QED
    BY <2>4 DEF AckedKept
<1> QED
  BY <1>1, <1>3, <1>4, <1>6, SessionStep

\* Deletions.
LEMMA RewriteKeeps ==
  ASSUME StoreAll, NEW ids, Rewrite(ids)
  PROVE  StoreAll' /\ UNCHANGED session
<1>1. /\ UNCHANGED <<session, client, reading, nextId, acked, workload, blobs>>
      /\ tail' = None /\ index' = log'
  BY DEF Rewrite, smtpVars, BlobsKept
<1>2. SessionsInv /\ StoreInv /\ FilingInv /\ ReadingInv
  BY DEF StoreAll
<1>3. Loaded = Parsed /\ Parsed' = log'
  BY <1>1, <1>2, LoadedIs DEF Parsed
<1>4. gone' = gone \cup (ids \cap AliveIds(Parsed))
  BY <1>3 DEF Rewrite
<1>5. log' = Buried(Parsed, ids)
  BY <1>3 DEF Rewrite, Rewritten, Buried
<1>6. /\ Parsed \in Seq(Entries) /\ nextId \in Nat /\ \A e \in Range(Parsed) : GoodEntry(e, nextId)
  BY <1>2 DEF StoreInv
<1>7. /\ log' \in Seq(Entries)
      /\ \A e \in Range(log') : GoodEntry(e, nextId)
      /\ Alive(log') = {e \in Alive(Parsed) : e.id \notin ids}
      /\ AliveIds(log') = AliveIds(Parsed) \ ids
  BY <1>5, <1>6, RewrittenIs
<1>8. AckedKept'
  <2>1. ASSUME NEW m \in acked
        PROVE  m.id \in gone' \/ m \in Alive(Parsed')
    <3>1. m.id \in gone \/ m \in Alive(Parsed)
      BY <1>2 DEF StoreInv, AckedKept
    <3>2. m \in Alive(Parsed) => m.id \in AliveIds(Parsed)
      BY DEF AliveIds
    <3> QED
      BY <3>1, <3>2, <1>3, <1>4, <1>7
  <2> QED
    BY <2>1, <1>1 DEF AckedKept
<1>9. DeletedStay'
  <2>1. gone \cap AliveIds(Parsed) = {}
    BY <1>2 DEF StoreInv, DeletedStay
  <2>2. gone' \cap AliveIds(Parsed') = {}
    BY <2>1, <1>3, <1>4, <1>7
  <2> QED
    BY <2>2 DEF DeletedStay
<1>10. \A e \in Alive(Parsed') : e.body \in blobs'
  BY <1>1, <1>2, <1>3, <1>7 DEF StoreInv
<1>11. workload' \in Workloads /\ nextId' \in Nat /\ nextId' >= 1 /\ nextId' <= workload'.messages + 1
  BY <1>1, <1>2 DEF StoreInv
<1>12. StoreInv'
  BY <1>1, <1>3, <1>7, <1>8, <1>9, <1>10, <1>11 DEF StoreInv
<1>13. ReadingInv'
  BY <1>1, <1>2, <1>3, <1>4, <1>7, ReadingKept
<1>14. SessionsInv'
  BY <1>1, <1>2 DEF SessionsInv
<1>15. FilingInv'
  <2>1. ASSUME NEW c \in Clients, session[c].pc = "append"
        PROVE  /\ session[c].id \in Nat /\ session[c].id >= 1 /\ session[c].id < nextId
               /\ session[c].id \notin gone' \cup AliveIds(Parsed') /\ session[c].raw \in blobs
    BY <2>1, <1>2, <1>3, <1>4, <1>7 DEF FilingInv
  <2>2. ASSUME NEW c \in Clients, session[c].pc = "emit"
        PROVE  session[c].id \in gone' \/ Received(c)' \in Alive(Parsed')
    <3>1. session[c].id \in gone \/ Received(c) \in Alive(Parsed)
      BY <2>2, <1>2 DEF FilingInv
    <3>2. Received(c)' = Received(c)
      BY <1>1 DEF Received
    <3>3. Received(c).id = session[c].id
      BY DEF Received, Entry
    <3>4. Received(c) \in Alive(Parsed) => session[c].id \in AliveIds(Parsed)
      BY <3>3 DEF AliveIds
    <3> QED
      BY <3>1, <3>2, <3>3, <3>4, <1>3, <1>4, <1>7
  <2>3. ASSUME NEW id \in gone'
        PROVE  id \in Nat /\ id < nextId
    <3>1. CASE id \in gone
      BY <3>1, <1>2 DEF FilingInv
    <3>2. CASE id \in AliveIds(Parsed)
      <4>1. PICK e \in Range(Parsed) : id = e.id
        BY <3>2 DEF AliveIds, Alive
      <4>2. GoodEntry(e, nextId)
        BY <4>1, <1>6
      <4> QED
        BY <4>1, <4>2 DEF GoodEntry, Entries
    <3> QED
      BY <3>1, <3>2, <2>3, <1>4
  <2>4. \A c, d \in Clients : session[c].pc = "append" /\ session[d].pc = "append" /\ c # d =>
          session[c].id # session[d].id
    BY <1>2 DEF FilingInv
  <2> QED
    BY <2>1, <2>2, <2>3, <2>4, <1>1 DEF FilingInv
<1> QED
  BY <1>1, <1>12, <1>13, <1>14, <1>15 DEF StoreAll

\* A step that leaves sessions and store alone.
LEMMA ElsewhereKeeps ==
  ASSUME StoreAll, UNCHANGED <<session, client, log, tail, blobs, nextId, acked, gone, workload>>,
         index' = index \/ index' = Parsed
  PROVE  SessionsInv' /\ StoreInv' /\ FilingInv' /\ StoreStays /\ (reading' = reading => ReadingInv')
<1>1. SessionsInv /\ StoreInv /\ FilingInv /\ ReadingInv
  BY DEF StoreAll
<1>2. StoreStays
  BY <1>1, StaysPut
<1>3. AckedKept'
  BY <1>1, <1>2, AckedStays
<1>4. StoreInv'
  BY <1>1, <1>2, <1>3, StoreKept
<1>5. SessionsStay
  BY DEF SessionsStay
<1>6. FilingInv'
  BY <1>1, <1>2, <1>5, FilingKept
<1>7. SessionsInv'
  BY <1>1 DEF SessionsInv
<1>8. reading' = reading => ReadingInv'
  BY <1>1, <1>2 DEF ReadingInv, StoreStays
<1> QED
  BY <1>2, <1>4, <1>6, <1>7, <1>8

LEMMA OneReader ==
  ASSUME ReadingInv, StoreStays, NEW r \in Readers, NEW v, reading' = [reading EXCEPT ![r] = v], IsReading(v),
         v.pc = "raw" => v.ids[1] \in gone \cup AliveIds(Parsed),
         v.pc = "read" /\ v.items = <<>> => v.ids[1] \in gone
  PROVE  ReadingInv'
<1>1. reading' = [q \in Readers |-> IF q = r THEN v ELSE reading[q]]
  BY DEF ReadingInv
<1>2. gone' = gone /\ Parsed' = Parsed
  BY DEF StoreStays
<1> HIDE DEF IsReading
<1> QED
  BY <1>1, <1>2 DEF ReadingInv

LEMMA IdleReader == IsReading(Idle) /\ Idle.pc = "idle"
BY DEF IsReading, Idle

\* The readers that the actions leave.
Listed(ids, start, limit, query, total, began) ==
    [Idle EXCEPT !.pc = "list", !.ids = ids, !.start = start, !.limit = limit, !.query = query,
                 !.total = total, !.began = began]
Raw(ids) == [Idle EXCEPT !.pc = "raw", !.ids = ids]
Advancing(s, at, total, items) == [s EXCEPT !.at = at, !.total = total, !.items = items]
Ended(s, total) == [s EXCEPT !.pc = "done", !.total = total]
Shown(s, items) == [s EXCEPT !.pc = "read", !.items = items]

LEMMA ListReader ==
  ASSUME NEW ids, NEW start, NEW limit, NEW query, NEW total, NEW began,
         NEW v, v = Listed(ids, start, limit, query, total, began)
  PROVE  IsReading(v) /\ v.pc = "list"
<1>1. v = [pc |-> "list", ids |-> ids, at |-> 1, start |-> start, limit |-> limit, query |-> query, total |-> total,
           items |-> <<>>, began |-> began]
  BY DEF Idle, Listed, Raw
<1> QED
  BY <1>1 DEF IsReading

LEMMA RawReader ==
  ASSUME NEW ids, NEW v, v = Raw(ids)
  PROVE  IsReading(v) /\ v.pc = "raw" /\ v.ids = ids
<1>1. v = [pc |-> "raw", ids |-> ids, at |-> 1, start |-> 0, limit |-> 0, query |-> None, total |-> 0,
           items |-> <<>>, began |-> {}]
  BY DEF Idle, Listed, Raw
<1> QED
  BY <1>1 DEF IsReading

LEMMA NextReader ==
  ASSUME NEW s, IsReading(s), NEW at, NEW total, NEW items,
         NEW v, v = Advancing(s, at, total, items)
  PROVE  IsReading(v) /\ v.pc = s.pc
<1>1. v.pc = s.pc
  BY DEF IsReading, Advancing, Ended, Shown
<1>2. IsReading(v)
  BY DEF IsReading, Advancing, Ended, Shown
<1> QED
  BY <1>1, <1>2

LEMMA DoneReader ==
  ASSUME NEW s, IsReading(s), NEW total, NEW v, v = Ended(s, total)
  PROVE  IsReading(v) /\ v.pc = "done"
<1>1. v.pc = "done"
  BY DEF IsReading, Advancing, Ended, Shown
<1>2. IsReading(v)
  BY DEF IsReading, Advancing, Ended, Shown
<1> QED
  BY <1>1, <1>2

LEMMA ReadReader ==
  ASSUME NEW s, IsReading(s), NEW items, NEW v, v = Shown(s, items)
  PROVE  IsReading(v) /\ v.pc = "read" /\ v.items = items /\ v.ids = s.ids
<1>1. v.pc = "read" /\ v.items = items /\ v.ids = s.ids
  BY DEF IsReading, Advancing, Ended, Shown
<1>2. IsReading(v)
  BY DEF IsReading, Advancing, Ended, Shown
<1> QED
  BY <1>1, <1>2

\* The lists and the reads.
LEMMA ReaderKeeps ==
  ASSUME StoreAll, NEW r \in Readers,
         BeginList(r) \/ ListNext(r) \/ EndList(r) \/ ForgetList(r) \/ BeginRead(r) \/ EndRead(r)
  PROVE  StoreAll'
<1>1. SessionsInv /\ StoreInv /\ FilingInv /\ ReadingInv /\ Loaded = Parsed
  BY LoadedIs DEF StoreAll
<1>2. /\ UNCHANGED <<session, client, log, tail, blobs, nextId, acked, gone, workload>>
      /\ index' = index \/ index' = Parsed
  BY <1>1 DEF BeginList, ListNext, EndList, ForgetList, BeginRead, EndRead, smtpVars, storeVars
<1>3. SessionsInv' /\ StoreInv' /\ FilingInv' /\ StoreStays
  BY <1>2, ElsewhereKeeps
<1> DEFINE s == reading[r]
<1>4. reading = [q \in Readers |-> reading[q]] /\ IsReading(s)
  BY <1>1 DEF ReadingInv
<1> HIDE DEF IsReading
<1> SUFFICES ReadingInv'
  BY <1>3 DEF StoreAll
<1>5. CASE BeginList(r)
  <2>1. PICK start \in 0..1, query \in {None} \cup workload.queries :
           reading' = [reading EXCEPT ![r] =
             [Idle EXCEPT !.pc = "list", !.ids = NewestFirst(Loaded), !.start = start, !.limit = workload.page,
                          !.query = query, !.total = IF query = None THEN Cardinality(AliveIds(Loaded)) ELSE 0,
                          !.began = AliveIds(Loaded)]]
    BY <1>5 DEF BeginList
  <2> DEFINE ids == NewestFirst(Loaded)
             limit == workload.page
             total == IF query = None THEN Cardinality(AliveIds(Loaded)) ELSE 0
             began == AliveIds(Loaded)
             v == Listed(ids, start, limit, query, total, began)
  <2>3. reading' = [reading EXCEPT ![r] = v]
    BY <2>1 DEF Listed
  <2> HIDE DEF ids, limit, total, began
  <2>2. IsReading(v) /\ v.pc = "list"
    BY ListReader
  <2> HIDE DEF v
  <2> QED
    BY <2>2, <2>3, <1>1, <1>3, OneReader
<1>6. CASE ListNext(r)
  <2> DEFINE id == s.ids[s.at]
             wanted == s.query # None \/ OnPage(s, s.at - 1)
             found == wanted /\ id \in AliveIds(Loaded)
             hit == found /\ (s.query = None \/ Matches(Find(Loaded, id), s.query))
             position == IF s.query = None THEN s.at - 1 ELSE s.total
             at == s.at + 1
             total == IF hit /\ s.query # None THEN s.total + 1 ELSE s.total
             items == IF hit /\ OnPage(s, position) THEN Append(s.items, id) ELSE s.items
             v == Advancing(s, at, total, items)
  <2>1. reading' = [reading EXCEPT ![r] = v] /\ s.pc = "list"
    BY <1>6 DEF ListNext, Advancing
  <2> HIDE DEF at, total, items
  <2>2. IsReading(v) /\ v.pc = s.pc
    BY <1>4, NextReader
  <2> HIDE DEF v
  <2> QED
    BY <2>1, <2>2, <1>1, <1>3, OneReader
<1>7. CASE EndList(r)
  <2>0. PICK total : reading' = [reading EXCEPT ![r] = Ended(s, total)]
    BY <1>7 DEF EndList, Ended
  <2> DEFINE v == Ended(s, total)
  <2>1. reading' = [reading EXCEPT ![r] = v]
    BY <2>0
  <2>2. IsReading(v) /\ v.pc = "done"
    BY <1>4, DoneReader
  <2> HIDE DEF v
  <2> QED
    BY <2>1, <2>2, <1>1, <1>3, OneReader
<1>8. CASE ForgetList(r)
  <2>1. reading' = [reading EXCEPT ![r] = Idle]
    BY <1>8 DEF ForgetList
  <2> QED
    BY <2>1, <1>1, <1>3, IdleReader, OneReader
<1>9. CASE BeginRead(r)
  <2>1. PICK id \in AliveIds(Loaded) : reading' = [reading EXCEPT ![r] = [Idle EXCEPT !.pc = "raw", !.ids = <<id>>]]
    BY <1>9 DEF BeginRead
  <2> DEFINE ids == <<id>>
             v == Raw(ids)
  <2>3. reading' = [reading EXCEPT ![r] = v]
    BY <2>1 DEF Raw
  <2>2. IsReading(v) /\ v.pc = "raw" /\ v.ids = <<id>>
    BY RawReader
  <2> HIDE DEF v
  <2>4. v.ids[1] \in AliveIds(Parsed)
    BY <2>2, <1>1
  <2> QED
    BY <2>2, <2>3, <2>4, <1>1, <1>3, OneReader
<1>10. CASE EndRead(r)
  <2> DEFINE items == RawOf(s.ids[1])
             v == Shown(s, items)
  <2>1. reading' = [reading EXCEPT ![r] = v] /\ s.pc = "raw"
    BY <1>4, <1>10 DEF EndRead, Shown
  <2> HIDE DEF items
  <2>2. IsReading(v) /\ v.pc = "read" /\ v.items = items /\ v.ids = s.ids
    BY <1>4, ReadReader
  <2> HIDE DEF v
  <2>3. ASSUME items = <<>>
        PROVE  s.ids[1] \in gone
    <3> DEFINE id == s.ids[1]
    <3>1. id \in gone \cup AliveIds(Parsed)
      BY <2>1, <1>1 DEF ReadingInv
    <3>2. ASSUME id \in AliveIds(Parsed)
          PROVE  FALSE
      <4>1. \E e \in Alive(Parsed) : e.id = id
        BY <3>2 DEF AliveIds
      <4>2. Find(Parsed, id) \in Alive(Parsed)
        BY <4>1 DEF Find
      <4>3. Find(Parsed, id).body \in blobs
        BY <4>2, <1>1 DEF StoreInv
      <4>4. items = <<id>>
        BY <4>3, <3>2, <1>1 DEF items, RawOf
      <4> QED
        BY <4>4, <2>3
    <3> QED
      BY <3>1, <3>2
  <2> QED
    BY <2>1, <2>2, <2>3, <1>1, <1>3, OneReader
<1> QED
  BY <1>5, <1>6, <1>7, <1>8, <1>9, <1>10

\* The event streams.
StreamAction ==
    \/ \E s \in Streams : Subscribe(s) \/ Unsubscribe(s) \/ StreamRecv(s)
    \/ TakeEvent \/ Recheck \/ Announce

LEMMA StreamActionKeeps ==
  ASSUME StoreAll, StreamAction
  PROVE  StoreAll' /\ session' = session
<1>1. Loaded = Parsed
  BY LoadedIs DEF StoreAll
<1>2. /\ UNCHANGED <<session, client, log, tail, blobs, nextId, acked, gone, workload, reading>>
      /\ index' = index \/ index' = Parsed
  BY <1>1 DEF StreamAction, Subscribe, Unsubscribe, StreamRecv, TakeEvent, Recheck, Announce, smtpVars, storeVars
<1>3. SessionsInv' /\ StoreInv' /\ FilingInv' /\ ReadingInv'
  BY <1>2, ElsewhereKeeps
<1> QED
  BY <1>2, <1>3 DEF StoreAll

\* The process goes down.
LEMMA NobodyConnected ==
  ASSUME session' = [c \in Clients |-> Closed], client' = [c \in Clients |-> Quiet], reading' = [r \in Readers |-> Idle]
  PROVE  SessionsInv' /\ SessionsStay /\ ReadingInv'
<1>1. InSessionInv(Closed, Quiet)
  BY ConnectedInv
<1>2. SessionsInv'
  BY <1>1 DEF SessionsInv
<1>3. SessionsStay
  BY FreshSession DEF SessionsStay
<1>4. ReadingInv'
  BY IdleReader DEF ReadingInv
<1> QED
  BY <1>2, <1>3, <1>4

LEMMA DownKeeps ==
  ASSUME StoreAll, Down, StoreStays
  PROVE  StoreAll'
<1>1. SessionsInv' /\ SessionsStay /\ ReadingInv'
  BY NobodyConnected DEF Down
<1>2. StoreInv /\ FilingInv /\ acked' = acked
  BY DEF StoreAll, Down
<1>3. StoreInv' /\ FilingInv'
  BY <1>1, <1>2, AckedStays, StoreKept, FilingKept
<1> QED
  BY <1>1, <1>3 DEF StoreAll

\* A crash may leave part of a line, or all of it but its newline.
LEMMA CrashKeeps ==
  ASSUME StoreAll, Crash
  PROVE  StoreAll'
<1>1. /\ Down /\ UNCHANGED <<nextId, acked, gone, workload>> /\ index' = None
      /\ session' = [c \in Clients |-> Closed] /\ client' = [c \in Clients |-> Quiet]
      /\ reading' = [r \in Readers |-> Idle]
  BY DEF Crash, Down
<1>2. SessionsInv /\ StoreInv /\ FilingInv
  BY DEF StoreAll
<1>3. CASE UNCHANGED <<log, tail, blobs>>
  <2>1. StoreStays
    BY <1>1, <1>2, <1>3, StaysPut
  <2> QED
    BY <2>1, <1>1, DownKeeps
<1>4. ASSUME NEW c \in Clients, NEW whole \in BOOLEAN, session[c].pc = "append",
             log' = Repaired, tail' = [entry |-> Received(c), whole |-> whole], blobs' = blobs
      PROVE  StoreAll'
  <2> DEFINE e == Received(c)
  <2>1. tail'.whole = whole /\ tail'.entry = e /\ log' = Parsed
    BY <1>4 DEF Repaired
  <2> HIDE DEF e
  <2>2. CASE tail' = None \/ whole = FALSE
    <3>1. Parsed' = Parsed
      BY <2>1, <2>2 DEF Parsed
    <3>2. StoreStays
      BY <3>1, <2>1, <1>1, <1>2, <1>4 DEF StoreStays, StoreInv
    <3> QED
      BY <3>2, <1>1, DownKeeps
  <2>3. CASE tail' # None /\ whole = TRUE
    <3>1. Parsed' = Append(Parsed, e)
      BY <2>1, <2>3 DEF Parsed
    <3>2. /\ GoodEntry(e, nextId) /\ e \in Entries /\ e.deleted = FALSE
          /\ e.id \notin gone \cup AliveIds(Parsed) /\ e.body \in blobs
      BY <1>2, <1>4, ReceivedGood DEF e
    <3>3. tail'.whole \in BOOLEAN
      BY <2>1
    <3>4. StoreInv'
      BY <3>1, <3>2, <3>3, <2>1, <1>1, <1>2, <1>4, LogGrows
    <3>5. SessionsInv' /\ ReadingInv'
      BY <1>1, NobodyConnected
    <3>6. FilingInv'
      <4>1. \A d \in Clients : session'[d].pc = "closed"
        BY <1>1, FreshSession
      <4>2. \A id \in gone' : id \in Nat /\ id < nextId'
        BY <1>1, <1>2 DEF FilingInv
      <4> QED
        BY <4>1, <4>2 DEF FilingInv
    <3> QED
      BY <3>4, <3>5, <3>6 DEF StoreAll
  <2> QED
    BY <2>2, <2>3
<1> QED
  BY <1>3, <1>4 DEF Crash

\* A shutdown; ephemeral storage starts over.
LEMMA ShutdownKeeps ==
  ASSUME StoreAll, Shutdown
  PROVE  StoreAll'
<1>1. StoreInv /\ FilingInv
  BY DEF StoreAll
<1>2. CASE Down /\ UNCHANGED <<log, tail, blobs>>
  <2>1. StoreStays
    BY <1>1, <1>2, StaysPut DEF Down
  <2> QED
    BY <2>1, <1>2, DownKeeps
<1>3. CASE /\ log' = <<>> /\ tail' = None /\ blobs' = {} /\ acked' = {} /\ gone' = {}
           /\ session' = [c \in Clients |-> Closed] /\ client' = [c \in Clients |-> Quiet]
           /\ index' = None /\ reading' = [r \in Readers |-> Idle]
           /\ UNCHANGED <<nextId, workload>>
  <2>1. SessionsInv' /\ ReadingInv'
    BY <1>3, NobodyConnected
  <2>2. Parsed' = <<>>
    BY <1>3 DEF Parsed
  <2>3. <<>> \in Seq(Entries) /\ Len(<<>>) = 0
    OBVIOUS
  <2>4. Range(<<>>) = {}
    BY <2>3 DEF Range
  <2>5. Alive(Parsed') = {} /\ AliveIds(Parsed') = {}
    BY <2>2, <2>4 DEF Alive, AliveIds
  <2>6. AckedKept' /\ DeletedStay'
    BY <1>3 DEF AckedKept, DeletedStay
  <2>7. workload' \in Workloads /\ nextId' \in Nat /\ nextId' >= 1 /\ nextId' <= workload'.messages + 1
    BY <1>1, <1>3 DEF StoreInv
  <2>8. StoreInv'
    BY <1>3, <2>2, <2>3, <2>4, <2>5, <2>6, <2>7 DEF StoreInv
  <2>9. FilingInv'
    <3>1. \A d \in Clients : session'[d].pc = "closed"
      BY <1>3, FreshSession
    <3> QED
      BY <3>1, <1>3 DEF FilingInv
  <2> QED
    BY <2>1, <2>8, <2>9 DEF StoreAll
<1> QED
  BY <1>2, <1>3 DEF Shutdown

LEMMA StartKeeps ==
  ASSUME StoreAll, Start
  PROVE  StoreAll' /\ session' = session
<1>1. StoreInv /\ FilingInv /\ SessionsInv /\ ReadingInv
  BY DEF StoreAll
<1>2. /\ UNCHANGED <<session, client, log, tail, blobs, reading, nextId, acked, gone, workload>>
      /\ index' = None \/ index' = Parsed
  BY DEF Start, smtpVars
<1>3. StoreStays
  BY <1>1, <1>2, StaysPut
<1>4. StoreInv'
  BY <1>1, <1>2, <1>3, AckedStays, StoreKept
<1>5. SessionsStay
  BY <1>2 DEF SessionsStay
<1>6. FilingInv'
  BY <1>1, <1>3, <1>5, FilingKept
<1>7. SessionsInv'
  BY <1>1, <1>2 DEF SessionsInv
<1>8. ReadingInv'
  BY <1>1, <1>2, <1>3 DEF ReadingInv, StoreStays
<1> QED
  BY <1>2, <1>4, <1>6, <1>7, <1>8 DEF StoreAll
-----------------------------------------------------------------------------
(* The slots of sessions and streams. *)

IsStream(st) ==
    st = [open |-> st.open, buffer |-> st.buffer, lagged |-> st.lagged, seen |-> st.seen, from |-> st.from]
SlotsInv ==
    /\ IsFiniteSet(Sessions) /\ Cardinality(Sessions) <= MaxSessions
    /\ streams = [s \in Streams |-> streams[s]] /\ \A s \in Streams : IsStream(streams[s])
    /\ IsFiniteSet(Open) /\ Cardinality(Open) <= MaxStreams

LEMMA Fewer ==
  ASSUME NEW A, NEW B, IsFiniteSet(A), NEW n \in Nat, Cardinality(A) <= n, \A x \in B : x \in A
  PROVE  IsFiniteSet(B) /\ Cardinality(B) <= n
<1>1. B \in SUBSET A
  OBVIOUS
<1>2. IsFiniteSet(B) /\ Cardinality(B) <= Cardinality(A)
  BY <1>1, FS_Subset
<1>3. Cardinality(A) \in Nat /\ Cardinality(B) \in Nat
  BY <1>2, FS_CardinalityType
<1> QED
  BY <1>2, <1>3

LEMMA OneMore ==
  ASSUME NEW A, NEW B, NEW a, IsFiniteSet(A), NEW n \in Nat, Cardinality(A) < n, \A x \in B : x \in A \/ x = a
  PROVE  IsFiniteSet(B) /\ Cardinality(B) <= n
<1>1. Cardinality(A) \in Nat
  BY FS_CardinalityType
<1>2. IsFiniteSet(A \cup {a}) /\ (Cardinality(A \cup {a}) = Cardinality(A) \/ Cardinality(A \cup {a}) = Cardinality(A) + 1)
  BY FS_AddElement
<1>3. Cardinality(A \cup {a}) <= n
  BY <1>1, <1>2
<1>4. \A x \in B : x \in A \cup {a}
  OBVIOUS
<1> QED
  BY <1>2, <1>3, <1>4, Fewer

\* Nobody connects but by Connect.
LEMMA SessionSlots ==
  ASSUME IsFiniteSet(Sessions), Cardinality(Sessions) <= MaxSessions,
         \A d \in Clients : session'[d].pc # "closed" => session[d].pc # "closed"
  PROVE  IsFiniteSet(Sessions') /\ Cardinality(Sessions') <= MaxSessions
<1>1. \A x \in Sessions' : x \in Sessions
  BY DEF Sessions
<1>2. MaxSessions \in Nat
  BY MailAssumption
<1> HIDE DEF Sessions
<1> QED
  BY <1>1, <1>2, Fewer

LEMMA ConnectSlots ==
  ASSUME SlotsInv, SessionsInv, NEW c \in Clients, Moved(c), Connect(c)
  PROVE  IsFiniteSet(Sessions') /\ Cardinality(Sessions') <= MaxSessions
<1>1. Cardinality(Sessions) < MaxSessions /\ IsFiniteSet(Sessions)
  BY DEF Connect, SlotsInv
<1>2. \A x \in Sessions' : x \in Sessions \/ x = c
  BY DEF Sessions, Moved
<1>3. MaxSessions \in Nat
  BY MailAssumption
<1> HIDE DEF Sessions
<1> QED
  BY <1>1, <1>2, <1>3, OneMore

LEMMA StreamSlots ==
  ASSUME SlotsInv, streams' = streams
  PROVE  /\ streams' = [s \in Streams |-> streams'[s]] /\ \A s \in Streams : IsStream(streams'[s])
         /\ IsFiniteSet(Open') /\ Cardinality(Open') <= MaxStreams
<1>1. Open' = Open
  BY DEF Open
<1> HIDE DEF IsStream
<1> QED
  BY <1>1 DEF SlotsInv

LEMMA NoStreamIs == IsStream(NoStream) /\ NoStream.open = FALSE
BY DEF IsStream, NoStream

LEMMA AllStreamsEnd ==
  ASSUME streams' = [s \in Streams |-> NoStream]
  PROVE  /\ streams' = [s \in Streams |-> streams'[s]] /\ \A s \in Streams : IsStream(streams'[s])
         /\ IsFiniteSet(Open') /\ Cardinality(Open') <= MaxStreams
<1>1. \A s \in Streams : streams'[s] = NoStream
  OBVIOUS
<1>2. Open' = {}
  BY <1>1, NoStreamIs DEF Open
<1>3. IsFiniteSet({}) /\ Cardinality({}) = 0 /\ MaxStreams \in Nat
  BY FS_EmptySet, MailAssumption
<1> HIDE DEF IsStream
<1> QED
  BY <1>1, <1>2, <1>3, NoStreamIs

LEMMA SubscribedIs ==
  ASSUME NEW from, NEW x, x = [NoStream EXCEPT !.open = TRUE, !.from = from]
  PROVE  IsStream(x)
<1>1. x = [open |-> TRUE, buffer |-> <<>>, lagged |-> FALSE, seen |-> <<>>, from |-> from]
  BY DEF NoStream
<1> QED
  BY <1>1 DEF IsStream

LEMMA OfferedIs ==
  ASSUME NEW st, IsStream(st), NEW id, NEW x, x = Offered(st, id)
  PROVE  IsStream(x) /\ x.open = st.open
<1>1. ASSUME NEW b, NEW y, y = [st EXCEPT !.buffer = b]
      PROVE  IsStream(y) /\ y.open = st.open
  BY <1>1 DEF IsStream
<1>2. ASSUME NEW b, NEW l, NEW y, y = [st EXCEPT !.buffer = b, !.lagged = l]
      PROVE  IsStream(y) /\ y.open = st.open
  BY <1>2 DEF IsStream
<1> DEFINE a == Append(st.buffer, id)
           b == Append(Tail(st.buffer), id)
<1>3. x = [st EXCEPT !.buffer = a] \/ x = [st EXCEPT !.buffer = b, !.lagged = TRUE]
  BY DEF Offered
<1> HIDE DEF IsStream, a, b
<1>4. CASE x = [st EXCEPT !.buffer = a]
  BY ONLY <1>1, <1>4
<1>5. CASE x = [st EXCEPT !.buffer = b, !.lagged = TRUE]
  BY ONLY <1>2, <1>5
<1> QED
  BY <1>3, <1>4, <1>5

LEMMA DeliveredIs ==
  ASSUME NEW st, IsStream(st), NEW x, x = Delivered(st)
  PROVE  IsStream(x) /\ (x.open = st.open \/ x.open = FALSE)
<1>1. ASSUME NEW b, NEW l, NEW y, y = [st EXCEPT !.seen = l, !.buffer = b]
      PROVE  IsStream(y) /\ y.open = st.open
  BY <1>1 DEF IsStream
<1>2. x = NoStream \/ x = [st EXCEPT !.seen = Append(st.seen, Head(st.buffer)), !.buffer = Tail(st.buffer)]
  BY DEF Delivered, IsStream
<1> HIDE DEF IsStream
<1> QED
  BY <1>1, <1>2, NoStreamIs

StreamsCounted ==
    /\ streams = [s \in Streams |-> streams[s]] /\ \A s \in Streams : IsStream(streams[s])
    /\ IsFiniteSet(Open) /\ Cardinality(Open) <= MaxStreams

LEMMA StreamStep ==
  ASSUME SlotsInv, StreamAction
  PROVE  StreamsCounted'
<1>1. /\ streams = [s \in Streams |-> streams[s]] /\ \A s \in Streams : IsStream(streams[s])
      /\ IsFiniteSet(Open) /\ Cardinality(Open) <= MaxStreams /\ MaxStreams \in Nat
  BY MailAssumption DEF SlotsInv
<1> HIDE DEF IsStream
<1>2. CASE streams' = streams
  <2>1. Open' = Open
    BY <1>2 DEF Open
  <2> QED
    BY <2>1, <1>1, <1>2 DEF StreamsCounted
<1>3. ASSUME NEW s \in Streams, Subscribe(s)
      PROVE  StreamsCounted'
  <2> DEFINE from == Len(announced)
             v == [NoStream EXCEPT !.open = TRUE, !.from = from]
  <2>2. streams' = [streams EXCEPT ![s] = v] /\ Cardinality(Open) < MaxStreams
    BY <1>3 DEF Subscribe
  <2> HIDE DEF from
  <2>0. v = [NoStream EXCEPT !.open = TRUE, !.from = from]
    OBVIOUS
  <2> HIDE DEF v
  <2>1. IsStream(v)
    BY <2>0, SubscribedIs
  <2>3. streams' = [x \in Streams |-> IF x = s THEN v ELSE streams[x]]
    BY <2>2, <1>1
  <2>4. \A x \in Open' : x \in Open \/ x = s
    BY <2>3 DEF Open
  <2>5. IsFiniteSet(Open') /\ Cardinality(Open') <= MaxStreams
    <3> HIDE DEF Open
    <3> QED
      BY <2>2, <2>4, <1>1, OneMore
  <2> QED
    BY <2>1, <2>3, <2>5, <1>1 DEF StreamsCounted
<1>4. ASSUME \A s \in Streams : IsStream(streams'[s]) /\ (streams'[s].open = streams[s].open \/ streams'[s].open = FALSE),
             streams' = [s \in Streams |-> streams'[s]]
      PROVE  StreamsCounted'
  <2>1. \A x \in Open' : x \in Open
    BY <1>4 DEF Open
  <2>2. IsFiniteSet(Open') /\ Cardinality(Open') <= MaxStreams
    <3> HIDE DEF Open
    <3> QED
      BY <2>1, <1>1, Fewer
  <2> QED
    BY <2>2, <1>4 DEF StreamsCounted
<1>5. ASSUME NEW s \in Streams, NEW v, streams' = [streams EXCEPT ![s] = v], IsStream(v),
             v.open = streams[s].open \/ v.open = FALSE
      PROVE  StreamsCounted'
  <2>1. streams' = [x \in Streams |-> IF x = s THEN v ELSE streams[x]]
    BY <1>5, <1>1
  <2> QED
    BY <2>1, <1>1, <1>4, <1>5
<1>6. ASSUME NEW s \in Streams, Unsubscribe(s)
      PROVE  StreamsCounted'
  BY <1>5, <1>6, NoStreamIs DEF Unsubscribe
<1>7. ASSUME NEW s \in Streams, StreamRecv(s)
      PROVE  StreamsCounted'
  <2> DEFINE v == Delivered(streams[s])
  <2>1. streams' = [streams EXCEPT ![s] = v]
    BY <1>1, <1>7 DEF StreamRecv
  <2>2. IsStream(v) /\ (v.open = streams[s].open \/ v.open = FALSE)
    BY <1>1, DeliveredIs
  <2> HIDE DEF v
  <2> QED
    BY <2>1, <2>2, <1>5
<1>8. CASE Announce
  <2>1. streams' = [s \in Streams |-> IF streams[s].open THEN Offered(streams[s], announcing.id) ELSE streams[s]]
    BY <1>8 DEF Announce
  <2>2. ASSUME NEW s \in Streams
        PROVE  IsStream(streams'[s]) /\ streams'[s].open = streams[s].open
    <3>1. streams'[s] = Offered(streams[s], announcing.id) \/ streams'[s] = streams[s]
      BY <2>1
    <3> QED
      BY <3>1, <1>1, OfferedIs
  <2>3. streams' = [s \in Streams |-> streams'[s]]
    BY <2>1
  <2> QED
    BY <2>2, <2>3, <1>4
<1>9. CASE TakeEvent \/ Recheck
  BY <1>2, <1>9 DEF TakeEvent, Recheck
<1> QED
  BY <1>3, <1>6, <1>7, <1>8, <1>9 DEF StreamAction
-----------------------------------------------------------------------------
(* The theorems. *)

MailInv == StoreAll /\ SlotsInv

LEMMA MailInit == Init => MailInv
<1> SUFFICES ASSUME Init
             PROVE  MailInv
  OBVIOUS
<1>1. /\ session = [c \in Clients |-> Closed] /\ client = [c \in Clients |-> Quiet]
      /\ log = <<>> /\ tail = None /\ index = None /\ blobs = {}
      /\ streams = [s \in Streams |-> NoStream] /\ reading = [r \in Readers |-> Idle]
      /\ nextId = 1 /\ acked = {} /\ gone = {} /\ workload \in Workloads
  BY DEF Init
<1>2. SessionsInv
  BY <1>1, ConnectedInv DEF SessionsInv
<1>3. \A c \in Clients : session[c].pc = "closed"
  BY <1>1, FreshSession
<1>4. Parsed = <<>>
  BY <1>1 DEF Parsed
<1>5. <<>> \in Seq(Entries) /\ Len(<<>>) = 0
  OBVIOUS
<1>6. Range(<<>>) = {}
  BY <1>5 DEF Range
<1>7. Alive(Parsed) = {} /\ AliveIds(Parsed) = {}
  BY <1>4, <1>6 DEF Alive, AliveIds
<1>8. AckedKept /\ DeletedStay
  BY <1>1 DEF AckedKept, DeletedStay
<1>9. workload.messages \in Nat
  BY <1>1, WorkloadsAssumption
<1>10. nextId \in Nat /\ nextId >= 1 /\ nextId <= workload.messages + 1
  BY <1>1, <1>9
<1>11. StoreInv
  BY <1>1, <1>4, <1>5, <1>6, <1>7, <1>8, <1>10 DEF StoreInv
<1>12. FilingInv
  BY <1>1, <1>3 DEF FilingInv
<1>13. ReadingInv
  BY <1>1, IdleReader DEF ReadingInv
<1>14. SlotsInv
  <2>1. Sessions = {}
    BY <1>3 DEF Sessions
  <2>2. \A s \in Streams : streams[s] = NoStream
    BY <1>1
  <2>3. Open = {}
    BY <2>2, NoStreamIs DEF Open
  <2>4. IsFiniteSet({}) /\ Cardinality({}) = 0 /\ MaxStreams \in Nat /\ MaxSessions \in Nat
    BY FS_EmptySet, MailAssumption
  <2>5. streams = [s \in Streams |-> streams[s]] /\ \A s \in Streams : IsStream(streams[s])
    BY <1>1, NoStreamIs
  <2> QED
    BY <2>1, <2>3, <2>4, <2>5 DEF SlotsInv
<1> QED
  BY <1>2, <1>11, <1>12, <1>13, <1>14 DEF MailInv, StoreAll

LEMMA MailNext == MailInv /\ [Next]_vars => MailInv'
<1> SUFFICES ASSUME MailInv, [Next]_vars
             PROVE  MailInv'
  OBVIOUS
<1>1. StoreAll /\ SlotsInv /\ SessionsInv
  BY DEF MailInv, StoreAll
<1>2. session = [c \in Clients |-> session[c]]
  BY <1>1 DEF SessionsInv
<1>3. IsFiniteSet(Sessions) /\ Cardinality(Sessions) <= MaxSessions
  BY <1>1 DEF SlotsInv
<1>4. ASSUME IsFiniteSet(Sessions'), Cardinality(Sessions') <= MaxSessions, StreamsCounted', StoreAll'
      PROVE  MailInv'
  BY <1>4 DEF MailInv, SlotsInv, StreamsCounted
<1>5. ASSUME streams' = streams
      PROVE  StreamsCounted'
  BY <1>1, <1>5, StreamSlots DEF StreamsCounted
<1>6. ASSUME \A d \in Clients : session'[d].pc # "closed" => session[d].pc # "closed"
      PROVE  IsFiniteSet(Sessions') /\ Cardinality(Sessions') <= MaxSessions
  BY <1>3, <1>6, SessionSlots
<1>7. ASSUME NEW c \in Clients, SessionAction(c)
      PROVE  MailInv'
  <2>1. StoreAll' /\ Moved(c)
    BY <1>1, <1>7, SessionActionKeeps
  <2>2. streams' = streams
    BY <1>7 DEF SessionAction, Connect, Helo, MailCommand, Rcpt, Rset, Data, Auth, AuthLine, DataLine, Hangup, CutLine,
         InSession, eventVars
  <2>3. CASE Connect(c)
    BY <2>1, <2>2, <2>3, <1>1, <1>4, <1>5, ConnectSlots
  <2>4. CASE session[c].pc # "closed"
    BY <2>1, <2>2, <2>4, <1>4, <1>5, <1>6 DEF Moved
  <2>5. Connect(c) \/ session[c].pc # "closed"
    BY <1>7 DEF SessionAction, Helo, MailCommand, Rcpt, Rset, Data, Auth, AuthLine, DataLine, Hangup, CutLine, Ready
  <2> QED
    BY <2>3, <2>4, <2>5
<1>8. ASSUME NEW c \in Clients, PutBlob(c) \/ AppendMessage(c) \/ Emit(c)
      PROVE  MailInv'
  <2>1. StoreAll'
    BY <1>1, <1>8, PutBlobKeeps, AppendKeeps, EmitKeeps
  <2>2. session[c].pc # "closed" /\ streams' = streams
    BY <1>8 DEF PutBlob, AppendMessage, Emit, eventVars
  <2>3. \A d \in Clients : d # c => session'[d] = session[d]
    BY <1>2, <1>8 DEF PutBlob, AppendMessage, Emit, Failed
  <2> QED
    BY <2>1, <2>2, <2>3, <1>4, <1>5, <1>6
<1>9. CASE Delete \/ DeleteAll
  <2>1. PICK ids : Rewrite(ids)
    BY <1>9 DEF Delete, DeleteAll
  <2>2. StoreAll' /\ session' = session /\ streams' = streams
    BY <2>1, <1>1, RewriteKeeps DEF Rewrite, eventVars
  <2> QED
    BY <2>2, <1>4, <1>5, <1>6
<1>10. ASSUME NEW r \in Readers,
              BeginList(r) \/ ListNext(r) \/ EndList(r) \/ ForgetList(r) \/ BeginRead(r) \/ EndRead(r)
       PROVE  MailInv'
  <2>1. StoreAll'
    BY <1>1, <1>10, ReaderKeeps
  <2>2. session' = session /\ streams' = streams
    BY <1>10 DEF BeginList, ListNext, EndList, ForgetList, BeginRead, EndRead, smtpVars, eventVars
  <2> QED
    BY <2>1, <2>2, <1>4, <1>5, <1>6
<1>11. CASE StreamAction
  <2>1. StoreAll' /\ session' = session
    BY <1>1, <1>11, StreamActionKeeps
  <2>2. StreamsCounted'
    BY <1>1, <1>11, StreamStep
  <2> QED
    BY <2>1, <2>2, <1>4, <1>6
<1>12. CASE Crash \/ Shutdown
  <2>1. StoreAll'
    BY <1>1, <1>12, CrashKeeps, ShutdownKeeps
  <2>2. session' = [c \in Clients |-> Closed] /\ streams' = [s \in Streams |-> NoStream]
    BY <1>12 DEF Crash, Shutdown, Down
  <2>3. StreamsCounted'
    BY <2>2, AllStreamsEnd DEF StreamsCounted
  <2>4. \A d \in Clients : session'[d].pc = "closed"
    BY <2>2, FreshSession
  <2> QED
    BY <2>1, <2>3, <2>4, <1>4, <1>6
<1>13. CASE Start
  <2>1. StoreAll' /\ session' = session /\ streams' = streams
    BY <1>1, <1>13, StartKeeps DEF Start, eventVars
  <2> QED
    BY <2>1, <1>4, <1>5, <1>6
<1>14. CASE UNCHANGED vars
  <2>1. /\ UNCHANGED <<session, client, log, tail, blobs, nextId, acked, gone, workload, reading, streams>>
        /\ index' = index
    BY <1>14 DEF vars
  <2>2. StoreAll'
    BY <2>1, <1>1, ElsewhereKeeps DEF StoreAll
  <2> QED
    BY <2>1, <2>2, <1>4, <1>5, <1>6
<1> QED
  BY <1>7, <1>8, <1>9, <1>10, <1>11, <1>12, <1>13, <1>14 DEF Next, SessionAction, StreamAction

\* The inductive invariant: sessions and their clients, the log and its index and blobs, messages on
\* their way into it, readers, and the slots of connections and streams (mail's smtp.rs, store.rs and
\* service.rs, mailbox's routes.rs and http.rs).
THEOREM MailInvariant == Spec => []MailInv
BY MailInit, MailNext, PTL DEF Spec

\* The store keeps what was answered, drops what was deleted, loads what the file says and has the
\* bytes of all it lists, for every set of clients and readers and every workload, crashes in the
\* middle of an append included (store.rs append, drop_torn_tail, rewrite; routes.rs read_raw).
THEOREM StoreIsSafe == Spec => []StoreSafe
<1>1. MailInv => StoreSafe
  <2> SUFFICES ASSUME MailInv
               PROVE  StoreSafe
    OBVIOUS
  <2>1. StoreInv /\ ReadingInv
    BY DEF MailInv, StoreAll
  <2>2. RawPresent
    BY <2>1 DEF StoreInv, ReadingInv, RawPresent
  <2> QED
    BY <2>1, <2>2 DEF StoreSafe, StoreInv, IndexFresh
<1> QED
  BY <1>1, MailInvariant, PTL

\* A CRLF client's message, read whole: what is left of the dots put in is what was written.
LEMMA BodyRead ==
  ASSUME NEW s, NEW cl, InSessionInv(s, cl), s.pc \in Receiving, cl.crlf = TRUE,
         \A i \in 1..Len(cl.draft) : cl.draft[i].crlf = TRUE
  PROVE  cl.left = <<>> /\ s.raw = [i \in 1..Len(cl.draft) |-> Text(cl.draft[i])]
<1>1. cl \in ClientStates /\ s \in SessionStates /\ cl.left = <<>>
  BY DEF InSessionInv, Receiving
<1>2. cl.draft \in Drafts /\ Len(cl.draft) \in Nat /\ cl.gone \in BOOLEAN
  BY <1>1, ClientTypes
<1>3. Holds(s.raw, cl, Len(cl.draft))
  BY <1>2 DEF InSessionInv
<1>4. ASSUME NEW i \in 1..Len(cl.draft)
      PROVE  s.raw[i] = Text(cl.draft[i])
  <2> DEFINE d == cl.draft[i]  w == Wire(cl.draft, cl.crlf)[i]
  <2>1. d \in WireLines /\ d.dots \in Nat
    <3>1. d \in WireLines
      BY <1>2 DEF Drafts
    <3> QED
      BY <3>1 DEF WireLines
  <2>2. s.raw[i] = Unstuffed(w)
    BY <1>3 DEF Holds
  <2>3. i = 1 \/ (i - 1 \in 1..Len(cl.draft) /\ cl.draft[i - 1].crlf = cl.crlf)
    <3>1. i = 1 \/ i - 1 \in 1..Len(cl.draft)
      BY <1>2
    <3> QED
      BY <3>1
  <2>4. CASE d.dots > 0
    <3>1. w = [d EXCEPT !.dots = @ + 1]
      BY <2>3, <2>4, <1>2 DEF Wire
    <3>2. w.dots = d.dots + 1 /\ w.rest = d.rest
      BY <3>1, <2>1 DEF WireLines
    <3> HIDE DEF d, w
    <3>3. Unstuffed(w) = Text(d)
      BY <3>2, <2>1, <2>4 DEF Unstuffed, StartsDotDot, Text
    <3> QED
      BY <3>3, <2>2 DEF d
  <2>5. CASE ~(d.dots > 0)
    <3>1. w = d
      BY <2>5, <1>2 DEF Wire
    <3> HIDE DEF d, w
    <3>2. Unstuffed(w) = Text(d)
      BY <3>1, <2>1, <2>5 DEF Unstuffed, StartsDotDot, Text
    <3> QED
      BY <3>2, <2>2 DEF d
  <2> QED
    BY <2>4, <2>5
<1>5. s.raw \in Seq(Nat \X Nat) /\ Len(s.raw) = Len(cl.draft)
  BY <1>1, <1>3 DEF SessionStates, Bodies, Holds
<1>6. s.raw = [i \in 1..Len(cl.draft) |-> s.raw[i]]
  BY <1>5
<1> QED
  BY <1>1, <1>4, <1>6

\* A session stays in step with its client, whatever dots and bare line feeds the message holds: no
\* line of it is read as a command, its lines arrive unstuffed and in order, and what is stored names
\* the recipients of one transaction only (smtp.rs handle_data and reset_envelope).
THEOREM SessionsAreSafe == Spec => []SessionsSafe
<1>1. MailInv => SessionsSafe
  <2> SUFFICES ASSUME MailInv
               PROVE  SessionsSafe
    OBVIOUS
  <2>1. SessionsInv /\ StoreInv /\ SlotsInv
    BY DEF MailInv, StoreAll
  <2>2. workload.messages \in Nat
    BY <2>1, WorkloadsAssumption DEF StoreInv
  <2>3. TypeOK
    <3>1. \A c \in Clients : session[c].pc \in {"closed", "ready", "data", "plain", "user", "pass", "receive", "append", "emit"}
      BY <2>1 DEF SessionsInv, InSessionInv, SessionStates
    <3>2. ASSUME NEW e \in Range(log)
          PROVE  e.id \in 1..workload.messages /\ (e.deleted \/ e.to # <<>>)
      <4>1. GoodEntry(e, nextId) /\ nextId \in Nat /\ nextId <= workload.messages + 1
        BY <2>1 DEF StoreInv
      <4>2. e.id \in Nat /\ e.deleted \in BOOLEAN /\ e.id >= 1 /\ e.id < nextId
        BY <4>1 DEF GoodEntry, Entries
      <4>3. e.deleted = FALSE => e.to # <<>>
        BY <4>1 DEF GoodEntry
      <4> QED
        BY <4>1, <4>2, <4>3, <2>2
    <3>3. nextId \in 1..workload.messages + 1
      BY <2>1, <2>2 DEF StoreInv
    <3> QED
      BY <3>1, <3>2, <3>3, <2>1 DEF TypeOK, StoreInv, SlotsInv
  <2>4. InStep
    <3>1. ASSUME NEW c \in Clients
          PROVE  /\ session[c].pc = "ready" => client[c].left = <<>>
                 /\ session[c].pc = "data" => client[c].left # <<>>
      <4>1. InSessionInv(session[c], client[c])
        BY <2>1 DEF SessionsInv
      <4>2. session[c].pc = "ready" => client[c].left = <<>>
        BY <4>1 DEF InSessionInv
      <4>3. session[c].pc = "data" => Len(client[c].left) \in 1..Len(client[c].draft) + 1
        BY <4>1 DEF InSessionInv, MidMessage
      <4>4. client[c] \in ClientStates /\ Len(client[c].draft) \in Nat
        BY <4>1, ClientTypes DEF InSessionInv
      <4> QED
        BY <4>2, <4>3, <4>4
    <3> QED
      BY <3>1 DEF InStep
  <2>5. BodyAsSent
    <3>1. ASSUME NEW c \in Clients, session[c].pc \in Receiving, client[c].crlf,
                 \A i \in 1..Len(client[c].draft) : client[c].draft[i].crlf
          PROVE  /\ client[c].left = <<>>
                 /\ session[c].raw = [i \in 1..Len(client[c].draft) |-> Text(client[c].draft[i])]
      <4>1. InSessionInv(session[c], client[c])
        BY <2>1 DEF SessionsInv
      <4>2. client[c] \in ClientStates
        BY <4>1 DEF InSessionInv
      <4>3. client[c].crlf = TRUE /\ client[c].draft \in Drafts
        BY <4>2, <3>1, ClientTypes
      <4>4. ASSUME NEW i \in 1..Len(client[c].draft)
            PROVE  client[c].draft[i].crlf = TRUE
        <5>1. client[c].draft[i] \in WireLines
          BY <4>3 DEF Drafts
        <5> QED
          BY <5>1, <3>1 DEF WireLines
      <4> QED
        BY <4>1, <4>3, <4>4, <3>1, BodyRead
    <3> QED
      BY <3>1 DEF BodyAsSent, Receiving
  <2>6. OneTransaction
    BY <2>1 DEF StoreInv, GoodEntry, OneTransaction
  <2> QED
    BY <2>3, <2>4, <2>5, <2>6 DEF SessionsSafe
<1> QED
  BY <1>1, MailInvariant, PTL

=============================================================================
