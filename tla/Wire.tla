-------------------------------- MODULE Wire --------------------------------
(***************************************************************************)
(* Transactions on a connection between the client library                 *)
(* (hotline/client.go) and the server (hotline/server.go): how they are    *)
(* encoded, written in pieces by several goroutines, cut out of the stream *)
(* again by a bufio.Scanner and decoded (hotline/transaction.go, field.go, *)
(* read_helper.go, handshake.go), and how a reply finds its request.       *)
(*                                                                         *)
(* The stream is a sequence of digits smaller than W, each of which stands *)
(* for two bytes: a field's length and the number of fields take one       *)
(* digit, the size of a transaction takes two.                             *)
(***************************************************************************)
EXTENDS Integers, Sequences, SequencesExt

CONSTANTS
    W,         \* 2^16: what a field's length is reduced by
    Chunk,     \* the buffer of io.Copy
    MaxToken,  \* bufio.MaxScanTokenSize
    Requests,  \* transactions that the client sends
    Pushes,    \* transactions that the server sends of its own accord
    Unanswered,\* types of requests that get no reply
    Pieces     \* bound: the pieces in which the handshake may arrive

HeaderLen == 5  \* tranHeaderLen: reply flag, type, number, size
FieldLen  == 2  \* minFieldLen: type and length

ASSUME SizeAssumption == /\ W \in Nat /\ Chunk \in Nat \ {0} /\ MaxToken \in Nat
                         /\ Chunk < MaxToken /\ MaxToken <= W /\ HeaderLen < MaxToken

Field       == [type: Nat, data: Seq(Nat)]
Transaction == [reply: {0, 1}, type: Nat, id: Nat, fields: Seq(Field)]

\* NewTransaction, not NewReply, makes what the server sends of its own accord.
ASSUME TransactionAssumption ==
    /\ Requests \cup Pushes \subseteq Transaction
    /\ \A t \in Pushes : t.reply = 0

\* NewTransaction draws a random number of 32 bits; two requests of the same
\* number are left out.
ASSUME IdAssumption == \A s, t \in Requests : s.id = t.id => s = t

Dirs == {"up", "down"}

VARIABLES
    phase,    \* of the connection
    sending,  \* goroutines in io.Copy: the transaction and what is left of it
    sent,     \* transactions that were given to io.Copy
    wire,     \* written and not read
    buf,      \* the buffer of each scanner
    got,      \* transactions decoded so far
    active,   \* activeTasks of the client: the requests waiting for a reply
    handled,  \* the requests to which a handler of the client got a reply
    order,    \* history: the transactions in the order of their first bytes
    torn      \* history: pieces of two of the server's transactions were mixed

vars == <<phase, sending, sent, wire, buf, got, active, handled, order, torn>>

-----------------------------------------------------------------------------
(* Encoding and decoding *)

\* NewField and Field.Read
EncodeField(f) == <<f.type, Len(f.data) % W>> \o f.data

\* Where each of the fields ends, counted from the first one.
FieldEnds(t) ==
    LET end[n \in 0 .. Len(t.fields)] ==
            IF n = 0 THEN 0 ELSE end[n - 1] + FieldLen + Len(t.fields[n].data)
    IN end

\* Transaction.Size, without the reduction to 32 bits: the number of fields and
\* the fields.
PayloadSize(t) == 1 + FieldEnds(t)[Len(t.fields)]

\* Transaction.Read
Encode(t) ==
    LET size == PayloadSize(t) % (W * W)
    IN <<t.reply, t.type, t.id, size \div W, size % W, Len(t.fields) % W>>
       \o FlattenSeq([i \in DOMAIN t.fields |-> EncodeField(t.fields[i])])

\* Mutant: a transaction is complete only when more has arrived.
TokenLenLate(data) ==
    IF Len(data) < HeaderLen THEN -1
    ELSE LET len == (HeaderLen + data[4] * W + data[5]) % (W * W)
         IN IF len >= Len(data) THEN -1 ELSE len

\* transactionScanner: the length of the transaction at the front, -1 if it is
\* not complete.  The sum is one of 32 bits.
TokenLen(data) ==
    IF Len(data) < HeaderLen THEN -1
    ELSE LET len == (HeaderLen + data[4] * W + data[5]) % (W * W)
         IN IF len > Len(data) THEN -1 ELSE len

\* FieldScanner, again and again: where the fields of a token start, until
\* there is no room for another one.
FieldStarts(p) ==
    LET Next1(i) == i + FieldLen + p[i + 1]
        Fits(i)  == i + 1 <= Len(p) /\ Next1(i) <= Len(p) + 1
        start[n \in 0 .. Len(p)] ==
            IF n = 0 THEN HeaderLen + 2
            ELSE IF start[n - 1] > 0 /\ Fits(start[n - 1]) THEN Next1(start[n - 1])
            ELSE 0
    IN start

\* Transaction.Write: the decoded transaction, or nothing if a field that the
\* header counts cannot be cut out.
Decode(p) ==
    LET start == FieldStarts(p)
        count == IF Len(p) > HeaderLen THEN p[HeaderLen + 1] ELSE 0
        Cut(i) == [type |-> p[start[i - 1]],
                   data |-> SubSeq(p, start[i - 1] + FieldLen, start[i] - 1)]
    IN IF Len(p) <= HeaderLen \/ (\E i \in 1 .. count : i > Len(p) \/ start[i] = 0)
       THEN <<>>
       ELSE <<[reply |-> p[1], type |-> p[2], id |-> p[3],
               fields |-> [i \in 1 .. count |-> Cut(i)]]>>

\* Nobody sends what 32 bits cannot count.
ASSUME CountAssumption == \A t \in Requests \cup Pushes : HeaderLen + PayloadSize(t) < W * W

-----------------------------------------------------------------------------
Init ==
    /\ phase = "hello"
    /\ sending = {} /\ sent = {}
    /\ wire = [d \in Dirs |-> <<>>] /\ buf = wire /\ got = wire /\ order = wire
    /\ active = {} /\ handled = {}
    /\ torn = FALSE

HelloLen == 6  \* handshakeSize

\* performHandshake: io.CopyN hands to handshake.Write what one read returned,
\* and Write refuses anything but the whole.
Handshake(n) ==
    /\ phase = "hello"
    /\ phase' = IF n = HelloLen THEN "open" ELSE "refused"
    /\ UNCHANGED <<sending, sent, wire, buf, got, active, handled, order, torn>>

-----------------------------------------------------------------------------
(* Writing *)

Start(d, t) == [dir |-> d, tran |-> t, rest |-> Encode(t), begun |-> FALSE]

Locked == \E s \in sending : s.dir = "up"

\* Mutant: the client keeps one request to match replies with.
SendOneTask(t) ==
    /\ phase = "open"
    /\ t \in Requests \ sent
    /\ ~Locked
    /\ active' = {t}
    /\ sending' = sending \cup {Start("up", t)}
    /\ sent' = sent \cup {t}
    /\ UNCHANGED <<phase, wire, buf, got, handled, order, torn>>

\* Client.Send, by the program or by keepalive, which holds mu until the end.
Send(t) ==
    /\ phase = "open"
    /\ t \in Requests \ sent
    /\ ~Locked
    /\ active' = active \cup {t}
    /\ sending' = sending \cup {Start("up", t)}
    /\ sent' = sent \cup {t}
    /\ UNCHANGED <<phase, wire, buf, got, handled, order, torn>>

\* processOutbox starts sendTransaction in a goroutine.
Push(t) ==
    /\ phase = "open"
    /\ t \in Pushes \ sent
    /\ sending' = sending \cup {Start("down", t)}
    /\ sent' = sent \cup {t}
    /\ UNCHANGED <<phase, wire, buf, got, active, handled, order, torn>>

\* One round of io.Copy: Transaction.Read fills the buffer (readFrom), and the
\* connection takes it as a whole.
WriteChunk(s) ==
    LET n    == IF Len(s.rest) < Chunk THEN Len(s.rest) ELSE Chunk
        left == SubSeq(s.rest, n + 1, Len(s.rest))
    IN /\ phase = "open"
       /\ s \in sending
       /\ wire' = [wire EXCEPT ![s.dir] = @ \o SubSeq(s.rest, 1, n)]
       /\ sending' = (sending \ {s}) \cup
                       (IF left = <<>> THEN {} ELSE {[s EXCEPT !.rest = left, !.begun = TRUE]})
       /\ order' = IF s.begun THEN order
                   ELSE [order EXCEPT ![s.dir] = Append(@, s.tran)]
       /\ torn' = (torn \/ \E r \in sending \ {s} :
                             r.dir = "down" /\ s.dir = "down" /\ r.begun)
       /\ UNCHANGED <<phase, sent, buf, got, active, handled>>

-----------------------------------------------------------------------------
(* Reading: bufio.Scanner, which reads only when its buffer holds no token *)

\* Mutant: the scanner is given a larger buffer.
LargerBuffer == 4 * MaxToken

Capacity == MaxToken

Receive(d, n) ==
    /\ phase = "open"
    /\ TokenLen(buf[d]) = -1
    /\ n <= Capacity - Len(buf[d])
    /\ buf' = [buf EXCEPT ![d] = @ \o SubSeq(wire[d], 1, n)]
    /\ wire' = [wire EXCEPT ![d] = SubSeq(@, n + 1, Len(@))]
    /\ UNCHANGED <<phase, sending, sent, got, active, handled, order, torn>>

\* ErrTooLong ends the loop, and with it the connection.
TooLong(d) ==
    /\ phase = "open"
    /\ TokenLen(buf[d]) = -1
    /\ Len(buf[d]) = Capacity
    /\ phase' = "closed"
    /\ UNCHANGED <<sending, sent, wire, buf, got, active, handled, order, torn>>

\* ClientConn.NewReply
NewReply(t) == [reply |-> 1, type |-> 0, id |-> t.id, fields |-> <<>>]

\* handleTransaction: the handler's reply goes to the outbox.
Serve(t) ==
    /\ IF t.reply = 0 /\ t.type \notin Unanswered
       THEN /\ sending' = sending \cup {Start("down", NewReply(t))}
            /\ sent' = sent \cup {NewReply(t)}
       ELSE UNCHANGED <<sending, sent>>
    /\ UNCHANGED <<active, handled>>

\* Client.HandleTransaction
HandleTransaction(t) ==
    /\ t.reply = 1 => ~Locked
    /\ LET orig == {r \in active : t.reply = 1 /\ r.id = t.id}
       IN active' = active \ orig /\ handled' = handled \cup orig
    /\ UNCHANGED <<sending, sent>>

\* Scan returns a token; what cannot be decoded ends the connection.
Take(d) ==
    LET len == TokenLen(buf[d])
        t   == Decode(SubSeq(buf[d], 1, len))
    IN /\ phase = "open"
       /\ len >= 0
       /\ buf' = [buf EXCEPT ![d] = SubSeq(@, len + 1, Len(@))]
       /\ got' = [got EXCEPT ![d] = @ \o t]
       /\ IF t = <<>>
          THEN phase' = "closed" /\ UNCHANGED <<sending, sent, active, handled>>
          ELSE /\ IF d = "up" THEN Serve(t[1]) ELSE HandleTransaction(t[1])
               /\ UNCHANGED phase
       /\ UNCHANGED <<wire, order, torn>>

-----------------------------------------------------------------------------
Progress ==
    \/ \E s \in sending : WriteChunk(s)
    \/ \E d \in Dirs : TooLong(d) \/ Take(d) \/ \E n \in 1 .. Len(wire[d]) : Receive(d, n)

Next ==
    \/ \E n \in Pieces : Handshake(n)
    \/ \E t \in Requests : Send(t)
    \/ \E t \in Pushes : Push(t)
    \/ Progress

\* What was written arrives and both sides go on reading.
Spec == Init /\ [][Next]_vars /\ WF_vars(Progress)

-----------------------------------------------------------------------------
(* Properties *)

\* However the stream is cut into pieces, what is decoded is what was written,
\* transaction by transaction, unless io.Copy calls of two of the server's
\* goroutines got mixed up.  A field that is too long for its length is never
\* taken for a shorter one, since the scanner gives up before.
ReceivedAsSent ==
    \A d \in Dirs : (d = "down" /\ torn) \/ IsPrefix(got[d], order[d])

\* No reply comes before its request is known: each one that was read has been
\* given to a handler, with the type of its request.
RepliesFindRequests ==
    torn \/ \A i \in DOMAIN got["down"] :
        got["down"][i].reply = 1 => \E r \in handled : r.id = got["down"][i].id

Fits(t) == HeaderLen + PayloadSize(t) <= MaxToken

\* Everything that was sent arrives, and no answered request stays in
\* activeTasks, if the handshake came in one piece, nothing is longer than the
\* scanner allows and nothing got mixed up.
AllArrive ==
    <>[](\/ phase \in {"hello", "refused"}
         \/ torn
         \/ \E t \in sent : ~Fits(t)
         \/ /\ sent = Range(got["up"]) \cup Range(got["down"])
            /\ \A r \in active : r.type \in Unanswered)
=============================================================================
