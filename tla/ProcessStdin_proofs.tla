------------------------- MODULE ProcessStdin_proofs -------------------------
(***************************************************************************)
(* What reaches the CLI on its stdin makes sense, for any number of calls, *)
(* streams and lines and pipes of any size: messages are whole and in      *)
(* order, and a request is answered once, by the daemon or by Desktop.     *)
(***************************************************************************)
EXTENDS ProcessStdin, SequenceTheorems, TLAPS

-----------------------------------------------------------------------------
(* The invariant.                                                          *)

\* A reader writes while it has a request, a call before it is answered, and
\* both in the middle of a message only while they hold lp.mu.
ControlInv ==
    /\ \A s \in Streams : write[s] = "none" <=> handling[s] = 0
    /\ \A c \in Calls :
        /\ call[c] = "none" => write[c] = "none"
        /\ call[c] = "ok" => write[c] = "written"
    /\ \A w \in Writers : write[w] \in {"first", "second"} <=> mu = w

\* Half a message is at the end of stdin exactly while its writer has another
\* half to write, unless the CLI is dead.
HalfInv ==
    /\ \A w \in Writers : write[w] = "second" =>
           Len(Sent) % 2 = 1 /\ Sent[Len(Sent)].of = Message(w)
    /\ cli # "dead" /\ Len(Sent) % 2 = 1 => \E w \in Writers : write[w] = "second"

\* Nothing of a call is in stdin before it holds lp.mu, all of it is when the
\* call has succeeded, and so it was for the calls before it.
CallInv ==
    \A c \in Calls :
        /\ write[c] \in {"none", "lock", "first"} => \A i \in DOMAIN Sent : Sent[i].of # c
        /\ write[c] = "written" => \E j \in DOMAIN Sent : Sent[j] = Piece(c, 2)
        /\ \A b \in after[c] : call[b] = "ok"

Ids(seq) == {seq[i].id : i \in DOMAIN seq}
Distinct(seq) == \A i, j \in DOMAIN seq : seq[i].id = seq[j].id => i = j

\* The CLI has written the line, or is about to, and no reader has read it.
Unread(id) == id \in Ids(blocked) \/ \E s \in Streams : id \in Ids(output[s])

\* A line is in one place.
LineInv ==
    /\ \A s \in Streams : Distinct(output[s]) /\ Ids(blocked) \cap Ids(output[s]) = {}
    /\ \A s, t \in Streams : s # t => Ids(output[s]) \cap Ids(output[t]) = {}

\* A request is unread, or with one reader, or has been passed on or answered.
PlaceInv ==
    /\ \A id \in 1..MaxLines : Unread(id) => id <= lines
    /\ \A s \in Streams : handling[s] # 0 =>
           /\ handling[s] <= lines /\ ~Unread(handling[s])
           /\ handling[s] \notin forwarded
           /\ \A t \in Streams \ {s} : handling[t] # handling[s]
    /\ \A id \in forwarded : id <= lines /\ ~Unread(id)
    /\ \A i \in DOMAIN Sent : Sent[i].of \in 1..MaxLines =>
           Sent[i].of <= lines /\ ~Unread(Sent[i].of)

\* A reader that has not written its answer, or could not, has left none.
AnswerInv ==
    \A s \in Streams :
        /\ write[s] \in {"lock", "first"} => \A i \in DOMAIN Sent : Sent[i].of # handling[s]
        /\ write[s] \in {"second", "failed"} => ~HasAnswer(handling[s])

IInv ==
    /\ TypeOK /\ ControlInv
    /\ Whole /\ HalfInv
    /\ InOrder /\ CallInv
    /\ LineInv /\ PlaceInv
    /\ OneAnswer /\ AnswerInv

-----------------------------------------------------------------------------
(* Pieces, lines and sequences of them.                                    *)

\* A piece is what it was made of.
LEMMA PieceIs ==
    ASSUME NEW m \in Calls \cup 1..MaxLines, NEW part \in 1..2
    PROVE  Piece(m, part) \in Pieces /\ Piece(m, part).of = m /\ Piece(m, part).part = part
BY DEF Piece, Pieces

LEMMA PieceHas ==
    ASSUME NEW p \in Pieces
    PROVE  /\ p.of \in Calls \cup 1..MaxLines /\ p.part \in 1..2
           /\ p = Piece(p.of, p.part)
BY DEF Piece, Pieces

\* A writer that has begun has a message.
LEMMA MessageIs ==
    ASSUME TypeOK, ControlInv, NEW w \in Writers, write[w] \in {"lock", "first", "second"}
    PROVE  /\ Message(w) \in Calls \cup 1..MaxLines
           /\ w \in Calls => Message(w) = w
           /\ w \in Streams => Message(w) = handling[w] /\ Message(w) \notin Calls
                               /\ Message(w) \in 1..MaxLines /\ w \notin Calls
<1>1. CASE w \in Calls
  BY <1>1, ConstantsAssumption DEF Message
<1>2. CASE w \in Streams
  BY <1>2, ConstantsAssumption DEF Message, TypeOK, ControlInv, Writers
<1>3. QED  BY <1>1, <1>2 DEF Writers

\* What is in stdin and what was read from it are one sequence.
LEMMA SentType == TypeOK => Sent \in Seq(Pieces) /\ Len(Sent) \in Nat /\ DOMAIN Sent = 1 .. Len(Sent)
BY ConcatProperties, LenProperties DEF TypeOK, Sent

\* A piece that is written comes behind the others.
LEMMA SentGrows ==
    ASSUME TypeOK, NEW p \in Pieces, stdin' = Append(stdin, p), received' = received
    PROVE  /\ Len(Sent') = Len(Sent) + 1 /\ DOMAIN Sent' = 1 .. Len(Sent) + 1
           /\ \A i \in 1 .. Len(Sent) : Sent'[i] = Sent[i]
           /\ Sent'[Len(Sent) + 1] = p
           /\ stdin' \in Seq(Pieces) /\ Len(stdin') = Len(stdin) + 1
<1>1. stdin \in Seq(Pieces) /\ received \in Seq(Pieces)
  BY DEF TypeOK
<1>2. Append(stdin, p) \in Seq(Pieces) /\ Len(Append(stdin, p)) = Len(stdin) + 1
  BY <1>1, AppendProperties
<1>3. <<p>> \in Seq(Pieces) /\ Append(stdin, p) = stdin \o <<p>>
  BY <1>1, AppendIsConcat
<1>4. received \o (stdin \o <<p>>) = (received \o stdin) \o <<p>>
  BY <1>1, <1>3, ConcatAssociative
<1>5. received \o stdin \in Seq(Pieces)
  BY <1>1, ConcatProperties
<1>6. Sent' = Append(Sent, p)
  BY <1>3, <1>4, <1>5, AppendIsConcat DEF Sent
<1>7. Sent \in Seq(Pieces)
  BY <1>5 DEF Sent
<1> HIDE DEF Sent
<1>8. Append(Sent, p) \in Seq(Pieces) /\ Len(Append(Sent, p)) = Len(Sent) + 1
      /\ (\A i \in 1 .. Len(Sent) : Append(Sent, p)[i] = Sent[i])
      /\ Append(Sent, p)[Len(Sent) + 1] = p
  BY <1>7, AppendProperties
<1>9. DOMAIN Append(Sent, p) = 1 .. Len(Append(Sent, p))
  BY <1>8, LenProperties
<1>10. QED  BY <1>2, <1>6, <1>8, <1>9

\* Reading moves a piece from the one to the other.
LEMMA SentIsRead ==
    ASSUME TypeOK, CliReads
    PROVE  /\ Sent' = Sent
           /\ stdin' \in Seq(Pieces) /\ received' \in Seq(Pieces) /\ Len(stdin') <= InCap
<1>1. stdin \in Seq(Pieces) /\ received \in Seq(Pieces) /\ stdin # <<>> /\ Len(stdin) <= InCap
  BY DEF TypeOK, CliReads
<1> DEFINE h == Head(stdin)
           t == Tail(stdin)
<1>2. h \in Pieces /\ t \in Seq(Pieces) /\ <<h>> \in Seq(Pieces) /\ Len(t) = Len(stdin) - 1
      /\ Len(stdin) \in Nat
  BY <1>1, HeadTailProperties
<1>3. <<h>> \o t = stdin
  BY <1>1, <1>2, HeadTailProperties
<1>4. received' = Append(received, h) /\ stdin' = t
  BY DEF CliReads
<1> HIDE DEF h, t
<1>5. Append(received, h) = received \o <<h>> /\ Append(received, h) \in Seq(Pieces)
  BY <1>1, <1>2, AppendIsConcat, AppendProperties
<1>6. (received \o <<h>>) \o t = received \o (<<h>> \o t)
  BY <1>1, <1>2, ConcatAssociative
<1>7. Sent' = Sent
  BY <1>3, <1>4, <1>5, <1>6 DEF Sent
<1>8. QED  BY <1>1, <1>2, <1>4, <1>5, <1>7, ConstantsAssumption

\* A line that is appended adds its id.
LEMMA AppendIds ==
    ASSUME NEW seq \in Seq(Line), NEW l \in Line
    PROVE  /\ Ids(Append(seq, l)) = Ids(seq) \cup {l.id}
           /\ Distinct(seq) /\ l.id \notin Ids(seq) => Distinct(Append(seq, l))
<1>1. /\ DOMAIN Append(seq, l) = 1 .. Len(seq) + 1 /\ DOMAIN seq = 1 .. Len(seq)
      /\ Len(seq) \in Nat
      /\ \A i \in 1 .. Len(seq) : Append(seq, l)[i] = seq[i]
      /\ Append(seq, l)[Len(seq) + 1] = l
  BY AppendProperties
<1>2. \A i : i \in 1 .. Len(seq) + 1 <=> i \in 1 .. Len(seq) \/ i = Len(seq) + 1
  BY <1>1
<1>3. Ids(Append(seq, l)) = Ids(seq) \cup {l.id}
  BY <1>1, <1>2 DEF Ids
<1>4. ASSUME Distinct(seq), l.id \notin Ids(seq)  PROVE Distinct(Append(seq, l))
  BY <1>1, <1>2, <1>4 DEF Distinct, Ids
<1>5. QED  BY <1>3, <1>4

\* A line that is taken off the front takes its id away.
LEMMA TailIds ==
    ASSUME NEW seq \in Seq(Line), seq # <<>>, Distinct(seq)
    PROVE  /\ Head(seq) \in Line /\ Tail(seq) \in Seq(Line)
           /\ Ids(Tail(seq)) = Ids(seq) \ {Head(seq).id} /\ Head(seq).id \in Ids(seq)
           /\ Distinct(Tail(seq))
<1>1. /\ Head(seq) \in Line /\ Tail(seq) \in Seq(Line)
      /\ DOMAIN Tail(seq) = 1 .. Len(seq) - 1 /\ DOMAIN seq = 1 .. Len(seq)
      /\ Len(seq) \in Nat \ {0}
      /\ \A i \in 1 .. Len(seq) - 1 : Tail(seq)[i] = seq[i + 1]
  BY HeadTailProperties, LenProperties, EmptySeq
<1>2. Head(seq) = seq[1]
  BY <1>1
<1>3. Distinct(Tail(seq))
  BY <1>1 DEF Distinct
<1>4. Head(seq).id \in Ids(seq)
  BY <1>1, <1>2 DEF Ids
<1>5. ASSUME NEW id \in Ids(Tail(seq))  PROVE id \in Ids(seq) /\ id # Head(seq).id
  <2>1. PICK i \in 1 .. Len(seq) - 1 : id = seq[i + 1].id
    BY <1>1, <1>5 DEF Ids
  <2>2. i + 1 \in 1 .. Len(seq) /\ i + 1 # 1 /\ 1 \in 1 .. Len(seq)
    BY <1>1
  <2>3. QED  BY <1>1, <1>2, <2>1, <2>2 DEF Ids, Distinct
<1>6. ASSUME NEW id \in Ids(seq), id # Head(seq).id  PROVE id \in Ids(Tail(seq))
  <2>1. PICK i \in 1 .. Len(seq) : id = seq[i].id
    BY <1>1, <1>6 DEF Ids
  <2>2. i # 1
    BY <1>2, <1>6, <2>1
  <2>3. i - 1 \in 1 .. Len(seq) - 1 /\ (i - 1) + 1 = i
    BY <1>1, <2>2
  <2>4. QED  BY <1>1, <2>1, <2>3 DEF Ids
<1>7. QED  BY <1>1, <1>3, <1>4, <1>5, <1>6

\* Ids of lines are numbers of lines.
LEMMA IdsType ==
    ASSUME NEW seq \in Seq(Line)
    PROVE  Ids(seq) \subseteq 1..MaxLines
<1>1. \A i \in DOMAIN seq : seq[i] \in Line
  BY ElementOfSeq, LenProperties
<1>2. \A l \in Line : l.id \in 1..MaxLines
  BY DEF Line
<1>3. QED  BY <1>1, <1>2 DEF Ids

-----------------------------------------------------------------------------
(* What steps leave alone.                                                 *)

\* A step that moves no line and no request keeps them in their places.
LEMMA PlacesStay ==
    ASSUME IInv, Sent' = Sent, UNCHANGED <<blocked, lines, output, handling, forwarded>>
    PROVE  LineInv' /\ PlaceInv' /\ OneAnswer'
<1>1. Ids(blocked)' = Ids(blocked) /\ \A s \in Streams : Ids(output[s])' = Ids(output[s])
  BY DEF Ids
<1>2. \A id : Unread(id)' <=> Unread(id)
  BY <1>1 DEF Unread
<1>3. LineInv'
  BY <1>1 DEF IInv, LineInv, Distinct
<1>4. PlaceInv'
  BY <1>2 DEF IInv, PlaceInv
<1>5. OneAnswer'
  BY DEF IInv, OneAnswer, HasAnswer
<1>6. QED  BY <1>3, <1>4, <1>5

\* A step that begins no call keeps the order of what was written.
LEMMA OrderStays ==
    ASSUME IInv, Sent' = Sent, UNCHANGED after
    PROVE  Whole' /\ InOrder'
BY DEF IInv, Whole, InOrder

\* Messages stay while no reader takes or settles a request.
LEMMA MessagesStay ==
    ASSUME UNCHANGED handling
    PROVE  \A w \in Writers : Message(w)' = Message(w)
BY DEF Message

LEMMA SentStays == UNCHANGED <<stdin, received>> => Sent' = Sent
BY DEF Sent

-----------------------------------------------------------------------------
(* Writers.                                                                *)

\* lp.mu is taken; nothing else happens.
LEMMA LockStep == ASSUME IInv, NEW w \in Writers, Lock(w)  PROVE IInv'
<1> USE DEF Lock, cliVars, readerVars, callVars
<1>1. Sent' = Sent  BY SentStays
<1>2. LineInv' /\ PlaceInv' /\ OneAnswer' /\ Whole' /\ InOrder'
  BY <1>1, PlacesStay, OrderStays
<1>3. write[w] = "lock" /\ mu = Nothing /\ mu' = w /\ write' = [write EXCEPT ![w] = "first"]
  OBVIOUS
<1>4. TypeOK'
  BY <1>3 DEF IInv, TypeOK
<1>5. \A x \in Writers : write'[x] = IF x = w THEN "first" ELSE write[x]
  BY <1>3 DEF IInv, TypeOK
<1>6. ControlInv'
  <2>1. \A s \in Streams : write'[s] = "none" <=> handling'[s] = 0
    BY <1>3, <1>5 DEF IInv, ControlInv, Writers
  <2>2. \A c \in Calls : /\ call'[c] = "none" => write'[c] = "none"
                         /\ call'[c] = "ok" => write'[c] = "written"
    BY <1>3, <1>5 DEF IInv, ControlInv, Writers
  <2>3. \A x \in Writers : write'[x] \in {"first", "second"} <=> mu' = x
    BY <1>3, <1>5, ConstantsAssumption DEF IInv, ControlInv, Writers, Nothing
  <2>4. QED  BY <2>1, <2>2, <2>3 DEF ControlInv
<1>7. \A x \in Writers : Message(x)' = Message(x)
  BY MessagesStay
<1>8. HalfInv'
  BY <1>1, <1>3, <1>5, <1>7 DEF IInv, HalfInv
<1>9. CallInv'
  BY <1>1, <1>3, <1>5 DEF IInv, CallInv, Writers
<1>10. AnswerInv'
  BY <1>1, <1>3, <1>5 DEF IInv, AnswerInv, HasAnswer, Writers
<1>11. QED  BY <1>2, <1>4, <1>6, <1>8, <1>9, <1>10 DEF IInv

\* A write to a dead CLI leaves what was written, for nobody to add to.
LEMMA BreaksStep == ASSUME IInv, NEW w \in Writers, WriteBreaks(w)  PROVE IInv'
<1> USE DEF WriteBreaks, cliVars, readerVars, callVars
<1>1. Sent' = Sent  BY SentStays
<1>2. LineInv' /\ PlaceInv' /\ OneAnswer' /\ Whole' /\ InOrder'
  BY <1>1, PlacesStay, OrderStays
<1>3. write[w] \in {"first", "second"} /\ cli = "dead" /\ cli' = "dead" /\ mu' = Nothing
      /\ write' = [write EXCEPT ![w] = "failed"]
  OBVIOUS
<1>4. TypeOK'
  BY <1>3 DEF IInv, TypeOK
<1>5. \A x \in Writers : write'[x] = IF x = w THEN "failed" ELSE write[x]
  BY <1>3 DEF IInv, TypeOK
<1>6. ControlInv'
  <2>1. \A s \in Streams : write'[s] = "none" <=> handling'[s] = 0
    BY <1>3, <1>5 DEF IInv, ControlInv, Writers
  <2>2. \A c \in Calls : /\ call'[c] = "none" => write'[c] = "none"
                         /\ call'[c] = "ok" => write'[c] = "written"
    BY <1>3, <1>5 DEF IInv, ControlInv, Writers
  <2>3. \A x \in Writers : write'[x] \in {"first", "second"} <=> mu' = x
    BY <1>3, <1>5, ConstantsAssumption DEF IInv, ControlInv, Writers, Nothing
  <2>4. QED  BY <2>1, <2>2, <2>3 DEF ControlInv
<1>7. \A x \in Writers : Message(x)' = Message(x)
  BY MessagesStay
<1>8. HalfInv'
  BY <1>1, <1>3, <1>5, <1>7 DEF IInv, HalfInv
<1>9. CallInv'
  BY <1>1, <1>3, <1>5 DEF IInv, CallInv, Writers
<1>10. AnswerInv'
  <2>1. ASSUME NEW s \in Streams, s = w  PROVE ~HasAnswer(handling[s])
    <3>1. handling[s] \in 1..MaxLines
      BY <1>3, <2>1 DEF IInv, TypeOK, ControlInv
    <3>2. CASE write[w] = "first"
      BY <2>1, <3>1, <3>2, PieceIs DEF IInv, AnswerInv, HasAnswer
    <3>3. QED  BY <1>3, <2>1, <3>2 DEF IInv, AnswerInv
  <2>2. QED  BY <1>1, <1>3, <1>5, <2>1 DEF IInv, AnswerInv, HasAnswer, Writers
<1>11. QED  BY <1>2, <1>4, <1>6, <1>8, <1>9, <1>10 DEF IInv

\* A piece is written.  The first comes behind whole messages, the second behind
\* its first, as nobody else has held lp.mu in between.
LEMMA WriteStep == ASSUME IInv, NEW w \in Writers, WritePiece(w)  PROVE IInv'
<1> DEFINE part == IF write[w] = "first" THEN 1 ELSE 2
           m == Message(w)
           n == Len(Sent)
           p == Piece(m, part)
           next == IF write[w] = "first" THEN "second" ELSE "written"
<1>1. /\ write[w] \in {"first", "second"} /\ cli # "dead" /\ Len(stdin) < InCap
      /\ stdin' = Append(stdin, p)
      /\ write' = [write EXCEPT ![w] = next]
      /\ mu' = IF write[w] = "first" THEN mu ELSE Nothing
      /\ UNCHANGED <<cli, blocked, lines, received, output, handling, ended, done, forwarded,
                     call, after>>
  BY DEF WritePiece, cliVars, readerVars, callVars
<1>2. /\ m \in Calls \cup 1..MaxLines
      /\ w \in Calls => m = w
      /\ w \in Streams => m = handling[w] /\ m \notin Calls /\ m \in 1..MaxLines /\ w \notin Calls
  BY <1>1, MessageIs DEF IInv
<1>3. part \in 1..2 /\ next \in {"second", "written"}
      /\ (part = 1 <=> write[w] = "first") /\ (next = "second" <=> write[w] = "first")
  BY <1>1
<1> HIDE DEF part, m, next
<1>4. p \in Pieces /\ p.of = m /\ p.part = part
  BY <1>2, <1>3, PieceIs
<1> HIDE DEF p
<1>5. /\ Len(Sent') = n + 1 /\ DOMAIN Sent' = 1 .. n + 1
      /\ \A i \in 1 .. n : Sent'[i] = Sent[i]
      /\ Sent'[n + 1] = p
      /\ stdin' \in Seq(Pieces) /\ Len(stdin') = Len(stdin) + 1
  BY <1>1, <1>4, SentGrows DEF IInv
<1>6. n \in Nat /\ DOMAIN Sent = 1 .. n /\ Sent \in Seq(Pieces)
  BY SentType DEF IInv
<1> HIDE DEF n
<1>7. \A i : i \in DOMAIN Sent' <=> i \in DOMAIN Sent \/ i = n + 1
  BY <1>5, <1>6
<1>8. n + 1 \notin DOMAIN Sent /\ \A i \in DOMAIN Sent : Sent'[i] = Sent[i] /\ i < n + 1
  BY <1>5, <1>6
<1>9. \A x \in Writers : write'[x] = IF x = w THEN next ELSE write[x]
  BY <1>1 DEF IInv, TypeOK
<1>10. \A x \in Writers : x # w => write[x] \notin {"first", "second"}
  BY <1>1 DEF IInv, ControlInv
<1>11. \A x \in Writers : Message(x)' = Message(x)
  BY <1>1, MessagesStay
<1>12. (write[w] = "second" => n % 2 = 1 /\ Sent[n].of = m /\ n \in DOMAIN Sent)
       /\ (write[w] = "first" => n % 2 # 1)
  <2>1. CASE write[w] = "second"
    <3>1. n % 2 = 1 /\ Sent[n].of = m
      BY <2>1 DEF IInv, HalfInv, n, m
    <3>2. n # 0
      BY <3>1
    <3>3. QED  BY <1>6, <2>1, <3>1, <3>2
  <2>2. CASE write[w] = "first"
    <3>1. ~\E x \in Writers : write[x] = "second"
      BY <1>10, <2>2
    <3>2. QED  BY <1>1, <2>2, <3>1 DEF IInv, HalfInv, n
  <2>3. QED  BY <1>1, <2>1, <2>2
<1>13. TypeOK'
  <2>1. Len(stdin') <= InCap
    BY <1>1, <1>5, ConstantsAssumption, LenProperties DEF IInv, TypeOK
  <2>2. write' \in [Writers -> {"none", "lock", "first", "second", "written", "failed"}]
    BY <1>1, <1>3 DEF IInv, TypeOK
  <2>3. mu' \in Writers \cup {Nothing}
    BY <1>1 DEF IInv, TypeOK
  <2>4. QED  BY <1>1, <1>5, <2>1, <2>2, <2>3 DEF IInv, TypeOK
<1>14. ControlInv'
  <2>1. \A s \in Streams : write'[s] = "none" <=> handling'[s] = 0
    BY <1>1, <1>3, <1>9 DEF IInv, ControlInv, Writers
  <2>2. \A c \in Calls : /\ call'[c] = "none" => write'[c] = "none"
                         /\ call'[c] = "ok" => write'[c] = "written"
    BY <1>1, <1>3, <1>9 DEF IInv, ControlInv, Writers
  <2>3. \A x \in Writers : write'[x] \in {"first", "second"} <=> mu' = x
    BY <1>1, <1>3, <1>9, <1>10, ConstantsAssumption DEF IInv, ControlInv, Writers, Nothing
  <2>4. QED  BY <2>1, <2>2, <2>3 DEF ControlInv
<1>15. (n + 1) % 2 = (IF n % 2 = 1 THEN 0 ELSE 1)
  BY <1>6
<1>16. Whole'
  <2>1. \A i \in DOMAIN Sent' : Sent'[i].part = IF i % 2 = 1 THEN 1 ELSE 2
    BY <1>1, <1>3, <1>4, <1>5, <1>7, <1>8, <1>12, <1>15 DEF IInv, Whole
  <2>2. ASSUME NEW i \in DOMAIN Sent', i % 2 = 0  PROVE Sent'[i].of = Sent'[i - 1].of
    <3>1. CASE i \in DOMAIN Sent
      <4>1. i \in 1 .. n /\ i # 1
        BY <1>6, <2>2, <3>1
      <4>2. i - 1 \in DOMAIN Sent
        BY <1>6, <4>1
      <4>3. Sent[i].of = Sent[i - 1].of
        BY <2>2, <3>1 DEF IInv, Whole
      <4>4. QED  BY <1>8, <3>1, <4>2, <4>3
    <3>2. CASE i = n + 1
      <4>1. write[w] = "second" /\ i - 1 = n
        BY <1>1, <1>6, <1>12, <1>15, <2>2, <3>2
      <4>2. QED  BY <1>4, <1>5, <1>8, <1>12, <3>2, <4>1
    <3>3. QED  BY <1>7, <3>1, <3>2
  <2>3. QED  BY <2>1, <2>2 DEF Whole
<1>17. HalfInv'
  <2>1. ASSUME NEW x \in Writers, write'[x] = "second"
        PROVE  Len(Sent') % 2 = 1 /\ Sent'[Len(Sent')].of = Message(x)'
    <3>1. x = w /\ write[w] = "first"
      BY <1>3, <1>9, <1>10, <2>1
    <3>2. QED  BY <1>4, <1>5, <1>11, <1>12, <1>15, <3>1 DEF m
  <2>2. ASSUME Len(Sent') % 2 = 1  PROVE \E x \in Writers : write'[x] = "second"
    <3>1. write[w] = "first"
      BY <1>1, <1>5, <1>12, <1>15, <2>2
    <3>2. QED  BY <1>3, <1>9, <3>1
  <2>3. QED  BY <2>1, <2>2 DEF HalfInv
<1>18. CallInv'
  <2> SUFFICES ASSUME NEW c \in Calls
               PROVE  /\ write'[c] \in {"none", "lock", "first"}
                         => \A i \in DOMAIN Sent' : Sent'[i].of # c
                      /\ write'[c] = "written" => \E j \in DOMAIN Sent' : Sent'[j] = Piece(c, 2)
                      /\ \A b \in after'[c] : call'[b] = "ok"
    BY DEF CallInv
  <2>1. /\ write[c] \in {"none", "lock", "first"} => \A i \in DOMAIN Sent : Sent[i].of # c
        /\ write[c] = "written" => \E j \in DOMAIN Sent : Sent[j] = Piece(c, 2)
        /\ \A b \in after[c] : call[b] = "ok"
    BY DEF IInv, CallInv
  <2>2. CASE c = w
    <3>1. write'[c] = "written" => Sent'[n + 1] = Piece(c, 2) /\ n + 1 \in DOMAIN Sent'
      BY <1>2, <1>3, <1>5, <1>7, <1>9, <2>2 DEF p
    <3>2. write'[c] \notin {"none", "lock", "first"}
      BY <1>3, <1>9, <2>2
    <3>3. QED  BY <1>1, <2>1, <3>1, <3>2
  <2>3. CASE c # w
    <3>1. write'[c] = write[c] /\ m # c
      BY <1>2, <1>9, <2>3 DEF Writers
    <3>2. QED  BY <1>1, <1>4, <1>5, <1>7, <1>8, <2>1, <3>1
  <2>4. QED  BY <2>2, <2>3
<1>19. InOrder'
  <2> SUFFICES ASSUME NEW c \in Calls, NEW i \in DOMAIN Sent', Sent'[i].of = c, NEW b \in after'[c]
               PROVE  \E j \in DOMAIN Sent' : j < i /\ Sent'[j] = Piece(b, 2)
    BY DEF InOrder
  <2>1. CASE i \in DOMAIN Sent
    <3>1. PICK j \in DOMAIN Sent : j < i /\ Sent[j] = Piece(b, 2)
      BY <1>1, <1>8, <2>1 DEF IInv, InOrder
    <3>2. QED  BY <1>7, <1>8, <3>1
  <2>2. CASE i = n + 1
    <3>1. b \in Calls /\ call[b] = "ok"
      BY <1>1 DEF IInv, TypeOK, CallInv
    <3>2. PICK j \in DOMAIN Sent : Sent[j] = Piece(b, 2)
      BY <3>1 DEF IInv, ControlInv, CallInv
    <3>3. QED  BY <1>7, <1>8, <2>2, <3>2
  <2>3. QED  BY <1>7, <2>1, <2>2
<1>20. Ids(blocked)' = Ids(blocked) /\ \A s \in Streams : Ids(output[s])' = Ids(output[s])
  BY <1>1 DEF Ids
<1>21. \A id : Unread(id)' <=> Unread(id)
  BY <1>20 DEF Unread
<1>22. LineInv'
  BY <1>1, <1>20 DEF IInv, LineInv, Distinct
<1>23. PlaceInv'
  <2>1. m \in 1..MaxLines => m <= lines /\ ~Unread(m)
    <3>1. ASSUME m \in 1..MaxLines  PROVE w \in Streams /\ m = handling[w] /\ handling[w] # 0
      BY <1>2, <3>1, ConstantsAssumption DEF Writers
    <3>2. QED  BY <3>1 DEF IInv, PlaceInv
  <2>2. \A i \in DOMAIN Sent' : Sent'[i].of \in 1..MaxLines =>
             Sent'[i].of <= lines' /\ ~Unread(Sent[i].of)'
    BY <1>1, <1>4, <1>5, <1>7, <1>8, <1>21, <2>1 DEF IInv, PlaceInv
  <2>3. /\ \A id \in 1..MaxLines : Unread(id)' => id <= lines'
        /\ \A id \in forwarded' : id <= lines' /\ ~Unread(id)'
    BY <1>1, <1>21 DEF IInv, PlaceInv
  <2>4. \A s \in Streams : handling'[s] # 0 =>
           /\ handling'[s] <= lines' /\ ~Unread(handling[s])'
           /\ handling'[s] \notin forwarded'
           /\ \A t \in Streams \ {s} : handling'[t] # handling'[s]
    BY <1>1, <1>21 DEF IInv, PlaceInv
  <2>5. QED  BY <2>2, <2>3, <2>4 DEF PlaceInv
<1>24. m \in 1..MaxLines => w \in Streams /\ m = handling[w] /\ handling[w] # 0
  BY <1>2, ConstantsAssumption DEF Writers
<1>25. m \in 1..MaxLines => \A i \in DOMAIN Sent : Sent[i] # p
  <2>1. CASE w \in Streams /\ write[w] = "first"
    BY <1>4, <1>24, <2>1 DEF IInv, AnswerInv
  <2>2. CASE w \in Streams /\ write[w] = "second"
    BY <1>2, <1>3, <2>2 DEF IInv, AnswerInv, HasAnswer, p
  <2>3. QED  BY <1>1, <1>24, <2>1, <2>2
<1>26. OneAnswer'
  <2>1. \A id \in forwarded' : ~HasAnswer(id)'
    <3> SUFFICES ASSUME NEW id \in forwarded, NEW i \in DOMAIN Sent', Sent'[i] = Piece(id, 2)
                 PROVE  FALSE
      BY <1>1 DEF HasAnswer
    <3>1. id \in 1..MaxLines
      BY DEF IInv, TypeOK
    <3>2. CASE i \in DOMAIN Sent
      BY <1>8, <3>2 DEF IInv, OneAnswer, HasAnswer
    <3>3. CASE i = n + 1
      <4>1. id = m
        BY <1>4, <1>5, <3>1, <3>3, PieceIs
      <4>2. QED  BY <1>24, <3>1, <4>1 DEF IInv, PlaceInv
    <3>4. QED  BY <1>7, <3>2, <3>3
  <2>2. ASSUME NEW i \in DOMAIN Sent', NEW j \in DOMAIN Sent',
               Sent'[i] = Sent'[j], Sent'[i].of \in 1..MaxLines
        PROVE  i = j
    <3>1. CASE i \in DOMAIN Sent /\ j \in DOMAIN Sent
      BY <1>8, <2>2, <3>1 DEF IInv, OneAnswer
    <3>2. CASE i = n + 1 /\ j \in DOMAIN Sent
      BY <1>4, <1>5, <1>8, <1>25, <2>2, <3>2
    <3>3. CASE j = n + 1 /\ i \in DOMAIN Sent
      BY <1>4, <1>5, <1>8, <1>25, <2>2, <3>3
    <3>4. QED  BY <1>7, <3>1, <3>2, <3>3
  <2>3. QED  BY <2>1, <2>2 DEF OneAnswer
<1>27. AnswerInv'
  <2> SUFFICES ASSUME NEW s \in Streams
               PROVE  /\ write'[s] \in {"lock", "first"}
                         => \A i \in DOMAIN Sent' : Sent'[i].of # handling'[s]
                      /\ write'[s] \in {"second", "failed"} => ~HasAnswer(handling[s])'
    BY DEF AnswerInv, HasAnswer
  <2>1. handling'[s] = handling[s] /\ s \in Writers
    BY <1>1 DEF Writers
  <2>2. CASE s = w
    <3>1. write'[s] \in {"second", "failed"} => write[w] = "first" /\ part = 1
      BY <1>3, <1>9, <2>1, <2>2
    <3>2. m = handling[s] /\ m \in 1..MaxLines
      BY <1>2, <2>2
    <3>3. write'[s] \in {"second", "failed"} => \A i \in DOMAIN Sent' : Sent'[i] # Piece(m, 2)
      <4> SUFFICES ASSUME write[w] = "first", part = 1, NEW i \in DOMAIN Sent',
                          Sent'[i] = Piece(m, 2)
                   PROVE  FALSE
        BY <3>1
      <4>1. Piece(m, 2).of = m /\ Piece(m, 2).part = 2
        BY <3>2, PieceIs
      <4>2. QED  BY <1>4, <1>5, <1>7, <1>8, <2>2, <3>2, <4>1 DEF IInv, AnswerInv
    <3>4. write'[s] \notin {"lock", "first"}
      BY <1>3, <1>9, <2>1, <2>2
    <3>5. QED  BY <2>1, <3>2, <3>3, <3>4 DEF HasAnswer
  <2>3. CASE s # w /\ handling[s] # 0
    <3>1. write'[s] = write[s] /\ m # handling[s]
      <4>1. CASE w \in Streams
        BY <1>2, <1>9, <2>1, <2>3, <4>1 DEF IInv, PlaceInv
      <4>2. CASE w \in Calls
        BY <1>2, <1>9, <2>1, <2>3, <4>2, ConstantsAssumption DEF IInv, TypeOK
      <4>3. QED  BY <4>1, <4>2 DEF Writers
    <3>2. handling[s] \in 1..MaxLines
      BY <2>3 DEF IInv, TypeOK
    <3>3. write[s] \in {"lock", "first"} => \A i \in DOMAIN Sent' : Sent'[i].of # handling[s]
      BY <1>4, <1>5, <1>7, <1>8, <3>1 DEF IInv, AnswerInv
    <3>4. p # Piece(handling[s], 2)
      BY <1>4, <3>1, <3>2, PieceIs
    <3>5. write[s] \in {"second", "failed"} =>
             \A i \in DOMAIN Sent' : Sent'[i] # Piece(handling[s], 2)
      BY <1>5, <1>7, <1>8, <3>4 DEF IInv, AnswerInv, HasAnswer
    <3>6. QED  BY <2>1, <3>1, <3>3, <3>5 DEF HasAnswer
  <2>4. CASE s # w /\ handling[s] = 0
    BY <1>9, <2>1, <2>4 DEF IInv, ControlInv
  <2>5. QED  BY <2>2, <2>3, <2>4
<1>28. QED
  BY <1>13, <1>14, <1>16, <1>17, <1>18, <1>19, <1>22, <1>23, <1>26, <1>27 DEF IInv

-----------------------------------------------------------------------------
(* Calls.                                                                  *)

\* A call begins: nothing of it is in stdin, so it is in order whatever it comes
\* after.
LEMMA CallStep == ASSUME IInv, NEW c \in Calls, writeStdin(c)  PROVE IInv'
<1> DEFINE to == IF done THEN "error" ELSE "waits"
           next == IF done THEN write[c] ELSE "lock"
<1>1. /\ call[c] = "none" /\ write[c] = "none" /\ c \in Writers
      /\ call' = [call EXCEPT ![c] = to]
      /\ after' = [after EXCEPT ![c] = Succeeded]
      /\ UNCHANGED <<cli, blocked, lines, stdin, received, mu, output, handling, ended, done,
                     forwarded>>
  BY DEF writeStdin, cliVars, readerVars, IInv, ControlInv, Writers
<1>2. write' = [write EXCEPT ![c] = next]
  BY DEF writeStdin, IInv, TypeOK
<1>3. to \in {"error", "waits"} /\ next \in {"none", "lock"}
  BY <1>1
<1> HIDE DEF to, next
<1>4. Sent' = Sent
  BY <1>1, SentStays
<1>5. LineInv' /\ PlaceInv' /\ OneAnswer' /\ Whole'
  BY <1>1, <1>4, PlacesStay DEF IInv, Whole
<1>6. \A x \in Writers : write'[x] = IF x = c THEN next ELSE write[x]
  BY <1>2 DEF IInv, TypeOK
<1>7. \A d \in Calls : /\ call'[d] = IF d = c THEN to ELSE call[d]
                       /\ after'[d] = IF d = c THEN Succeeded ELSE after[d]
  BY <1>1 DEF IInv, TypeOK
<1>8. \A d \in Calls : call[d] = "ok" => call'[d] = "ok"
  BY <1>1, <1>7
<1>9. Succeeded \subseteq Calls /\ \A b \in Succeeded : call[b] = "ok"
  BY DEF Succeeded
<1>10. TypeOK'
  BY <1>1, <1>2, <1>3, <1>9 DEF IInv, TypeOK
<1>11. ControlInv'
  <2>1. \A s \in Streams : write'[s] = "none" <=> handling'[s] = 0
    BY <1>1, <1>6, ConstantsAssumption DEF IInv, ControlInv, Writers
  <2>2. \A d \in Calls : /\ call'[d] = "none" => write'[d] = "none"
                         /\ call'[d] = "ok" => write'[d] = "written"
    BY <1>3, <1>6, <1>7 DEF IInv, ControlInv, Writers
  <2>3. \A x \in Writers : write'[x] \in {"first", "second"} <=> mu' = x
    BY <1>1, <1>3, <1>6 DEF IInv, ControlInv
  <2>4. QED  BY <2>1, <2>2, <2>3 DEF ControlInv
<1>12. \A x \in Writers : Message(x)' = Message(x)
  BY <1>1, MessagesStay
<1>13. HalfInv'
  BY <1>1, <1>3, <1>4, <1>6, <1>12 DEF IInv, HalfInv
<1>14. InOrder'
  BY <1>1, <1>4, <1>7 DEF IInv, InOrder, CallInv
<1>15. CallInv'
  <2> SUFFICES ASSUME NEW d \in Calls
               PROVE  /\ write'[d] \in {"none", "lock", "first"}
                         => \A i \in DOMAIN Sent : Sent[i].of # d
                      /\ write'[d] = "written" => \E j \in DOMAIN Sent : Sent[j] = Piece(d, 2)
                      /\ \A b \in after'[d] : call'[b] = "ok"
    BY <1>4 DEF CallInv
  <2>1. \A b \in after'[d] : call'[b] = "ok"
    BY <1>7, <1>8, <1>9 DEF IInv, CallInv, TypeOK
  <2>2. d \in Writers
    BY DEF Writers
  <2>3. QED  BY <1>1, <1>3, <1>6, <2>1, <2>2 DEF IInv, CallInv
<1>16. AnswerInv'
  <2>1. \A s \in Streams : s \in Writers /\ s # c
    BY ConstantsAssumption DEF Writers
  <2>2. QED  BY <1>1, <1>4, <1>6, <2>1 DEF IInv, AnswerInv, HasAnswer
<1>17. QED
  BY <1>5, <1>10, <1>11, <1>13, <1>14, <1>15, <1>16 DEF IInv

\* A call returns, and says that it succeeded only when its message is written.
LEMMA ReturnStep ==
    ASSUME IInv, NEW c \in Calls, NEW result \in {"ok", "error"}, Return(c, result),
           result = "ok" => write[c] = "written"
    PROVE  IInv'
<1>1. /\ call[c] = "waits" /\ call' = [call EXCEPT ![c] = result]
      /\ UNCHANGED <<cli, blocked, lines, stdin, received, mu, write, output, handling, ended,
                     done, forwarded, after>>
  BY DEF Return, cliVars, readerVars
<1>2. Sent' = Sent
  BY <1>1, SentStays
<1>3. LineInv' /\ PlaceInv' /\ OneAnswer' /\ Whole' /\ InOrder'
  BY <1>1, <1>2, PlacesStay, OrderStays
<1>4. \A d \in Calls : call'[d] = IF d = c THEN result ELSE call[d]
  BY <1>1 DEF IInv, TypeOK
<1>5. TypeOK'
  BY <1>1 DEF IInv, TypeOK
<1>6. ControlInv'
  BY <1>1, <1>4 DEF IInv, ControlInv
<1>7. HalfInv'
  BY <1>1, <1>2, MessagesStay DEF IInv, HalfInv
<1>8. CallInv'
  <2>1. \A d \in Calls : \A b \in after[d] : b \in Calls /\ call'[b] = "ok"
    BY <1>1, <1>4 DEF IInv, CallInv, TypeOK
  <2>2. QED  BY <1>1, <1>2, <2>1 DEF IInv, CallInv
<1>9. AnswerInv'
  BY <1>1, <1>2 DEF IInv, AnswerInv, HasAnswer
<1>10. QED  BY <1>3, <1>5, <1>6, <1>7, <1>8, <1>9 DEF IInv

-----------------------------------------------------------------------------
(* Readers.                                                                *)

\* A line is read.  A request that nobody had read has no answer yet.
LEMMA OutputStep == ASSUME IInv, NEW s \in Streams, streamOutput(s)  PROVE IInv'
<1> DEFINE l == Head(output[s])
           r == IF l.kind = "request" THEN l.id ELSE 0
           next == IF l.kind = "request" THEN "lock" ELSE "none"
<1>1. /\ handling[s] = 0 /\ write[s] = "none" /\ output[s] # <<>> /\ s \in Writers
      /\ output' = [output EXCEPT ![s] = Tail(@)]
      /\ UNCHANGED <<cli, blocked, lines, stdin, received, mu, ended, done, forwarded, call,
                     after>>
  BY DEF streamOutput, cliVars, callVars, IInv, ControlInv, Writers
<1>2. handling' = [handling EXCEPT ![s] = r] /\ write' = [write EXCEPT ![s] = next]
  BY <1>1 DEF streamOutput, IInv, TypeOK
<1>3. output[s] \in Seq(Line) /\ Distinct(output[s])
  BY DEF IInv, TypeOK, LineInv
<1>4. /\ l \in Line /\ Tail(output[s]) \in Seq(Line) /\ l.id \in Ids(output[s])
      /\ Ids(Tail(output[s])) = Ids(output[s]) \ {l.id} /\ Distinct(Tail(output[s]))
  BY <1>1, <1>3, TailIds
<1>5. l.id \in 1..MaxLines
  BY <1>4 DEF Line
<1>6. (r = l.id /\ next = "lock") \/ (r = 0 /\ next = "none")
  OBVIOUS
<1> DEFINE id == l.id
<1>7. id \in 1..MaxLines /\ id \in Ids(output[s]) /\ Ids(Tail(output[s])) = Ids(output[s]) \ {id}
      /\ ((r = id /\ next = "lock") \/ (r = 0 /\ next = "none"))
  BY <1>4, <1>5, <1>6
<1> HIDE DEF l, r, next, id
<1>8. Sent' = Sent
  BY <1>1, SentStays
<1>9. \A x \in Writers : write'[x] = IF x = s THEN next ELSE write[x]
  BY <1>2 DEF IInv, TypeOK
<1>10. \A t \in Streams : /\ handling'[t] = IF t = s THEN r ELSE handling[t]
                          /\ output'[t] = IF t = s THEN Tail(output[s]) ELSE output[t]
  BY <1>1, <1>2 DEF IInv, TypeOK
<1>11. TypeOK'
  <2>1. r \in 0..MaxLines /\ next \in {"none", "lock"}
    BY <1>7, ConstantsAssumption
  <2>2. QED  BY <1>1, <1>2, <1>4, <2>1 DEF IInv, TypeOK
<1>12. ControlInv'
  <2>1. \A t \in Streams : write'[t] = "none" <=> handling'[t] = 0
    BY <1>7, <1>9, <1>10, ConstantsAssumption DEF IInv, ControlInv, Writers
  <2>2. \A c \in Calls : write'[c] = write[c]
    BY <1>9, ConstantsAssumption DEF Writers
  <2>3. \A x \in Writers : write'[x] \in {"first", "second"} <=> mu' = x
    BY <1>1, <1>7, <1>9 DEF IInv, ControlInv
  <2>4. QED  BY <1>1, <2>1, <2>2, <2>3 DEF IInv, ControlInv
<1>13. Whole' /\ InOrder'
  BY <1>1, <1>8, OrderStays
<1>14. \A x \in Writers : write[x] = "second" => Message(x)' = Message(x)
  BY <1>1, <1>10 DEF Message, Writers
<1>15. HalfInv'
  BY <1>1, <1>7, <1>8, <1>9, <1>14 DEF IInv, HalfInv
<1>16. CallInv'
  <2>1. \A c \in Calls : write'[c] = write[c]
    BY <1>9, ConstantsAssumption DEF Writers
  <2>2. QED  BY <1>1, <1>8, <2>1 DEF IInv, CallInv
<1>17. Ids(blocked)' = Ids(blocked)
       /\ \A t \in Streams : Ids(output[t])' = IF t = s THEN Ids(output[s]) \ {id} ELSE Ids(output[t])
  <2>1. Ids(blocked)' = Ids(blocked)
    BY <1>1 DEF Ids
  <2>2. \A t \in Streams : Ids(output[t])' = Ids(output'[t])
    BY DEF Ids
  <2>3. Ids(output'[s]) = Ids(output[s]) \ {id}
    BY <1>7, <1>10
  <2>4. QED  BY <1>10, <2>1, <2>2, <2>3
<1>18. LineInv'
  <2>1. \A t \in Streams : Distinct(output[t])'
    <3> SUFFICES ASSUME NEW t \in Streams  PROVE Distinct(output'[t])
      BY DEF Distinct
    <3>1. QED  BY <1>4, <1>10 DEF IInv, LineInv
  <2>2. /\ \A t \in Streams : Ids(blocked)' \cap Ids(output[t])' = {}
        /\ \A t, u \in Streams : t # u => Ids(output[t])' \cap Ids(output[u])' = {}
    BY <1>17 DEF IInv, LineInv
  <2>3. QED  BY <2>1, <2>2 DEF LineInv
<1>19. \A k : Unread(k)' <=> Unread(k) /\ k # id
  <2>1. id \notin Ids(blocked) /\ \A t \in Streams \ {s} : id \notin Ids(output[t])
    BY <1>7 DEF IInv, LineInv
  <2>2. QED  BY <1>17, <2>1 DEF Unread
<1>20. Unread(id) /\ id <= lines
  BY <1>7 DEF Unread, IInv, PlaceInv
<1>21. PlaceInv'
  <2>1. \A k \in 1..MaxLines : Unread(k)' => k <= lines'
    BY <1>1, <1>19 DEF IInv, PlaceInv
  <2>2. \A k \in forwarded' : k <= lines' /\ ~Unread(k)'
    BY <1>1, <1>19 DEF IInv, PlaceInv
  <2>3. \A i \in DOMAIN Sent' : Sent'[i].of \in 1..MaxLines =>
             Sent'[i].of <= lines' /\ ~Unread(Sent[i].of)'
    BY <1>1, <1>8, <1>19 DEF IInv, PlaceInv
  <2>4. ASSUME NEW t \in Streams, handling'[t] # 0
        PROVE  /\ handling'[t] <= lines' /\ ~(Unread(handling[t])')
               /\ handling'[t] \notin forwarded'
               /\ \A u \in Streams \ {t} : handling'[u] # handling'[t]
    <3>1. Unread(handling[t])' <=> Unread(handling'[t]) /\ handling'[t] # id
      BY <1>19
    <3>2. CASE t = s
      <4>1. handling'[t] = id
        BY <1>7, <1>10, <2>4, <3>2
      <4>2. id \notin forwarded /\ \A u \in Streams : handling[u] # id
        BY <1>7, <1>20 DEF IInv, PlaceInv
      <4>3. QED  BY <1>1, <1>10, <1>20, <3>1, <3>2, <4>1, <4>2
    <3>3. CASE t # s
      <4>1. handling'[t] = handling[t]
        BY <1>10, <3>3
      <4>2. handling[t] # id /\ handling[t] # 0
        BY <1>20, <2>4, <4>1 DEF IInv, PlaceInv
      <4>3. \A u \in Streams \ {t} : handling'[u] # handling[t]
        BY <1>7, <1>10, <4>2 DEF IInv, PlaceInv
      <4>4. QED  BY <1>1, <2>4, <3>1, <4>1, <4>2, <4>3 DEF IInv, PlaceInv
    <3>4. QED  BY <3>2, <3>3
  <2>5. QED  BY <2>1, <2>2, <2>3, <2>4 DEF PlaceInv
<1>22. OneAnswer'
  BY <1>1, <1>8 DEF IInv, OneAnswer, HasAnswer
<1>23. AnswerInv'
  <2> SUFFICES ASSUME NEW t \in Streams
               PROVE  /\ write'[t] \in {"lock", "first"}
                         => \A i \in DOMAIN Sent : Sent[i].of # handling'[t]
                      /\ write'[t] \in {"second", "failed"} => ~(HasAnswer(handling[t])')
    BY <1>8 DEF AnswerInv
  <2>1. t \in Writers
    BY DEF Writers
  <2>2. CASE t = s
    <3>1. \A i \in DOMAIN Sent : Sent[i].of # id
      BY <1>7, <1>20 DEF IInv, PlaceInv
    <3>2. QED  BY <1>7, <1>9, <1>10, <2>1, <2>2, <3>1
  <2>3. CASE t # s
    <3>1. handling'[t] = handling[t] /\ write'[t] = write[t]
      BY <1>9, <1>10, <2>1, <2>3
    <3>2. QED  BY <1>8, <3>1 DEF IInv, AnswerInv, HasAnswer
  <2>4. QED  BY <2>2, <2>3
<1>24. QED
  BY <1>11, <1>12, <1>13, <1>15, <1>16, <1>18, <1>21, <1>22, <1>23 DEF IInv

\* A request is settled: passed on only when nothing of the answer's end is in
\* stdin, and nobody else has it.
LEMMA HandleStep == ASSUME IInv, NEW s \in Streams, HandlePresentFiles(s)  PROVE IInv'
<1> DEFINE r == handling[s]
<1>1. /\ r # 0 /\ write[s] \in {"written", "failed"} /\ s \in Writers
      /\ forwarded' = IF write[s] = "failed" THEN forwarded \cup {r} ELSE forwarded
      /\ handling' = [handling EXCEPT ![s] = 0]
      /\ write' = [write EXCEPT ![s] = "none"]
      /\ UNCHANGED <<cli, blocked, lines, stdin, received, mu, output, ended, done, call, after>>
  BY DEF HandlePresentFiles, cliVars, callVars, Writers
<1>2. r \in 1..MaxLines
  BY <1>1, ConstantsAssumption DEF IInv, TypeOK
<1>3. /\ r <= lines /\ ~Unread(r) /\ \A t \in Streams \ {s} : handling[t] # r
      /\ write[s] = "failed" => ~HasAnswer(r)
  BY <1>1 DEF IInv, PlaceInv, AnswerInv
<1>4. /\ forwarded \subseteq forwarded' /\ forwarded' \subseteq forwarded \cup {r}
      /\ write[s] # "failed" => forwarded' = forwarded
  BY <1>1
<1> HIDE DEF r
<1>5. Sent' = Sent
  BY <1>1, SentStays
<1>6. \A x \in Writers : write'[x] = IF x = s THEN "none" ELSE write[x]
  BY <1>1 DEF IInv, TypeOK
<1>7. \A t \in Streams : handling'[t] = IF t = s THEN 0 ELSE handling[t]
  BY <1>1 DEF IInv, TypeOK
<1>8. TypeOK'
  <2>1. forwarded' \subseteq 1..MaxLines
    BY <1>2, <1>4 DEF IInv, TypeOK
  <2>2. handling' \in [Streams -> 0..MaxLines]
    BY <1>1, ConstantsAssumption DEF IInv, TypeOK
  <2>3. QED  BY <1>1, <2>1, <2>2 DEF IInv, TypeOK
<1>9. ControlInv'
  <2>1. \A t \in Streams : write'[t] = "none" <=> handling'[t] = 0
    BY <1>6, <1>7 DEF IInv, ControlInv, Writers
  <2>2. \A c \in Calls : write'[c] = write[c]
    BY <1>6, ConstantsAssumption DEF Writers
  <2>3. \A x \in Writers : write'[x] \in {"first", "second"} <=> mu' = x
    BY <1>1, <1>6 DEF IInv, ControlInv
  <2>4. QED  BY <1>1, <2>1, <2>2, <2>3 DEF IInv, ControlInv
<1>10. Whole' /\ InOrder'
  BY <1>1, <1>5, OrderStays
<1>11. \A x \in Writers : x # s => Message(x)' = Message(x)
  BY <1>1, <1>7 DEF Message, Writers
<1>12. HalfInv'
  BY <1>1, <1>5, <1>6, <1>11 DEF IInv, HalfInv
<1>13. CallInv'
  <2>1. \A c \in Calls : write'[c] = write[c]
    BY <1>6, ConstantsAssumption DEF Writers
  <2>2. QED  BY <1>1, <1>5, <2>1 DEF IInv, CallInv
<1>14. Ids(blocked)' = Ids(blocked) /\ \A t \in Streams : Ids(output[t])' = Ids(output[t])
  BY <1>1 DEF Ids
<1>15. \A k : Unread(k)' <=> Unread(k)
  BY <1>14 DEF Unread
<1>16. LineInv'
  BY <1>1, <1>14 DEF IInv, LineInv, Distinct
<1>17. PlaceInv'
  <2>1. \A k \in 1..MaxLines : Unread(k)' => k <= lines'
    BY <1>1, <1>15 DEF IInv, PlaceInv
  <2>2. \A k \in forwarded' : k <= lines' /\ ~Unread(k)'
    BY <1>1, <1>3, <1>4, <1>15 DEF IInv, PlaceInv
  <2>3. \A i \in DOMAIN Sent' : Sent'[i].of \in 1..MaxLines =>
             Sent'[i].of <= lines' /\ ~Unread(Sent[i].of)'
    BY <1>1, <1>5, <1>15 DEF IInv, PlaceInv
  <2>4. ASSUME NEW t \in Streams, handling'[t] # 0
        PROVE  /\ handling'[t] <= lines' /\ ~(Unread(handling[t])')
               /\ handling'[t] \notin forwarded'
               /\ \A u \in Streams \ {t} : handling'[u] # handling'[t]
    <3>1. t # s /\ handling'[t] = handling[t] /\ handling[t] # 0 /\ handling[t] # r
      BY <1>3, <1>7, <2>4
    <3>2. /\ handling[t] <= lines /\ ~Unread(handling[t]) /\ handling[t] \notin forwarded
          /\ \A u \in Streams \ {t} : handling[u] # handling[t]
      BY <3>1 DEF IInv, PlaceInv
    <3>3. ~(Unread(handling[t])')
      BY <1>15, <3>1, <3>2
    <3>4. QED  BY <1>1, <1>4, <1>7, <3>1, <3>2, <3>3
  <2>5. QED  BY <2>1, <2>2, <2>3, <2>4 DEF PlaceInv
<1>18. OneAnswer'
  BY <1>3, <1>4, <1>5 DEF IInv, OneAnswer, HasAnswer
<1>19. AnswerInv'
  BY <1>5, <1>6, <1>7 DEF IInv, AnswerInv, HasAnswer, Writers
<1>20. QED
  BY <1>8, <1>9, <1>10, <1>12, <1>13, <1>16, <1>17, <1>18, <1>19 DEF IInv

-----------------------------------------------------------------------------
(* The CLI, and the end.                                                   *)

\* What no writer, reader or call does is not about them.
LEMMA QuietStep ==
    ASSUME IInv, Sent' = Sent, UNCHANGED <<mu, write, handling, forwarded, call, after>>,
           cli' # "dead" => cli # "dead"
    PROVE  ControlInv' /\ Whole' /\ HalfInv' /\ InOrder' /\ CallInv' /\ OneAnswer' /\ AnswerInv'
<1>1. Whole' /\ InOrder'
  BY OrderStays
<1>2. ControlInv'
  BY DEF IInv, ControlInv
<1>3. HalfInv'
  BY MessagesStay DEF IInv, HalfInv
<1>4. CallInv'
  BY DEF IInv, CallInv
<1>5. OneAnswer' /\ AnswerInv'
  BY DEF IInv, OneAnswer, AnswerInv, HasAnswer
<1>6. QED  BY <1>1, <1>2, <1>3, <1>4, <1>5

\* Requests keep their places while no other number becomes unread, or the next.
LEMMA PlacesKept ==
    ASSUME IInv, Sent' = Sent, UNCHANGED <<handling, forwarded>>,
           \/ lines' = lines /\ \A k : Unread(k)' => Unread(k)
           \/ lines' = lines + 1 /\ \A k : Unread(k)' => Unread(k) \/ k = lines + 1
    PROVE  PlaceInv'
<1>1. lines \in Nat /\ lines <= lines'
  BY DEF IInv, TypeOK
<1>2. ASSUME NEW k \in 1..MaxLines, k <= lines, ~Unread(k)
      PROVE  k <= lines' /\ ~Unread(k)'
  BY <1>1, <1>2
<1>3. \A k \in 1..MaxLines : Unread(k)' => k <= lines'
  BY <1>1 DEF IInv, PlaceInv
<1>4. \A k \in forwarded' : k <= lines' /\ ~Unread(k)'
  BY <1>2 DEF IInv, PlaceInv, TypeOK
<1>5. \A i \in DOMAIN Sent' : Sent'[i].of \in 1..MaxLines =>
           Sent'[i].of <= lines' /\ ~Unread(Sent[i].of)'
  BY <1>2 DEF IInv, PlaceInv
<1>6. ASSUME NEW s \in Streams, handling[s] # 0
      PROVE  /\ handling'[s] <= lines' /\ ~(Unread(handling[s])')
             /\ handling'[s] \notin forwarded'
             /\ \A t \in Streams \ {s} : handling'[t] # handling'[s]
  <2>1. handling[s] \in 1..MaxLines
    BY <1>6, ConstantsAssumption DEF IInv, TypeOK
  <2>2. QED  BY <1>2, <1>6, <2>1 DEF IInv, PlaceInv
<1>7. QED  BY <1>3, <1>4, <1>5, <1>6 DEF PlaceInv

\* The CLI reads a piece, or stops reading, or a reader or the process comes to
\* its end.
LEMMA StillStep ==
    ASSUME IInv, CliReads \/ CliHangs \/ ReportExit \/ \E s \in Streams : EndOfStream(s)
    PROVE  IInv'
<1> USE DEF cliVars, readerVars, callVars
<1>1. UNCHANGED <<blocked, lines, output, mu, write, handling, forwarded, call, after>>
      /\ (cli' # "dead" => cli # "dead")
  BY DEF CliReads, CliHangs, ReportExit, EndOfStream
<1>2. Sent' = Sent /\ TypeOK'
  <2>1. CASE CliReads
    BY <1>1, <2>1, SentIsRead DEF IInv, TypeOK, CliReads
  <2>2. CASE CliHangs \/ ReportExit \/ \E s \in Streams : EndOfStream(s)
    <3>1. UNCHANGED <<stdin, received>>
      BY <2>2 DEF CliHangs, ReportExit, EndOfStream
    <3>2. /\ cli' \in {"reads", "hangs", "dead"}
          /\ ended' \subseteq Streams /\ done' \in BOOLEAN
      BY <2>2 DEF IInv, TypeOK, CliHangs, ReportExit, EndOfStream
    <3>3. QED  BY <1>1, <3>1, <3>2, SentStays DEF IInv, TypeOK
  <2>3. QED  BY <2>1, <2>2
<1>3. LineInv' /\ PlaceInv'
  BY <1>1, <1>2, PlacesStay
<1>4. QED  BY <1>1, <1>2, <1>3, QuietStep DEF IInv

LEMMA NoIds == Ids(<<>>) = {}
BY DEF Ids

LEMMA OneId ==
    ASSUME NEW l \in Line
    PROVE  <<l>> \in Seq(Line) /\ Len(<<l>>) = 1 /\ Ids(<<l>>) = {l.id}
BY DEF Ids

\* The CLI dies, and what it was writing is lost.
LEMMA DiesStep == ASSUME IInv, CliDies  PROVE IInv'
<1>1. /\ cli' = "dead" /\ blocked' = <<>>
      /\ UNCHANGED <<lines, stdin, received, mu, write, output, handling, ended, done, forwarded,
                     call, after>>
  BY DEF CliDies, readerVars, callVars
<1>2. Sent' = Sent
  BY <1>1, SentStays
<1>3. TypeOK'
  BY <1>1, EmptySeq DEF IInv, TypeOK
<1>4. Ids(blocked)' = {} /\ \A s \in Streams : Ids(output[s])' = Ids(output[s])
  BY <1>1, NoIds DEF Ids
<1>5. LineInv'
  BY <1>1, <1>4 DEF IInv, LineInv, Distinct
<1>6. PlaceInv'
  BY <1>1, <1>2, <1>4, PlacesKept DEF Unread
<1>7. QED  BY <1>1, <1>2, <1>3, <1>5, <1>6, QuietStep DEF IInv

\* The CLI begins a line, with a number of its own.
LEMMA BeginsStep == ASSUME IInv, NEW s \in Streams, CliBegins(s)  PROVE IInv'
<1>1. /\ blocked = <<>> /\ lines < MaxLines /\ lines' = lines + 1
      /\ UNCHANGED <<cli, stdin, received, mu, write, output, handling, ended, done, forwarded,
                     call, after>>
  BY DEF CliBegins, readerVars, callVars
<1>2. PICK kind \in {"request", "other"} :
          blocked' = <<[stream |-> s, id |-> lines + 1, kind |-> kind]>>
  BY DEF CliBegins
<1> DEFINE l == [stream |-> s, id |-> lines + 1, kind |-> kind]
<1>3. lines \in Nat /\ lines + 1 \in 1..MaxLines
  BY <1>1, ConstantsAssumption DEF IInv, TypeOK
<1>4. l \in Line /\ l.id = lines + 1
  BY <1>3 DEF Line
<1>5. blocked' = <<l>>
  BY <1>2
<1> HIDE DEF l
<1>6. blocked' \in Seq(Line) /\ Len(blocked') <= 1 /\ Ids(blocked') = {lines + 1}
  BY <1>4, <1>5, OneId
<1>7. Sent' = Sent
  BY <1>1, SentStays
<1>8. TypeOK'
  BY <1>1, <1>3, <1>6 DEF IInv, TypeOK
<1>9. Ids(blocked)' = {lines + 1} /\ \A t \in Streams : Ids(output[t])' = Ids(output[t])
  BY <1>1, <1>6 DEF Ids
<1>10. ~Unread(lines + 1)
  BY <1>3 DEF IInv, PlaceInv
<1>11. LineInv'
  <2>1. \A t \in Streams : lines + 1 \notin Ids(output[t])
    BY <1>10 DEF Unread
  <2>2. QED  BY <1>1, <1>9, <2>1 DEF IInv, LineInv, Distinct
<1>12. \A k : Unread(k)' => Unread(k) \/ k = lines + 1
  BY <1>9 DEF Unread
<1>13. PlaceInv'
  BY <1>1, <1>7, <1>12, PlacesKept
<1>14. QED  BY <1>1, <1>7, <1>8, <1>11, <1>13, QuietStep DEF IInv

\* A line goes from the CLI to the pipe.
LEMMA WritesStep == ASSUME IInv, CliWrites  PROVE IInv'
<1> DEFINE l == Head(blocked)
           s == l.stream
<1>1. /\ blocked # <<>> /\ blocked' = <<>>
      /\ output' = [output EXCEPT ![s] = Append(@, l)]
      /\ UNCHANGED <<cli, lines, stdin, received, mu, write, handling, ended, done, forwarded,
                     call, after>>
  BY DEF CliWrites, callVars
<1>2. blocked \in Seq(Line) /\ Len(blocked) <= 1
  BY DEF IInv, TypeOK
<1>3. l \in Line /\ Ids(blocked) = {l.id}
  <2>1. Len(blocked) = 1 /\ DOMAIN blocked = {1} /\ blocked[1] \in Line
    <3>1. Len(blocked) \in Nat /\ DOMAIN blocked = 1 .. Len(blocked)
      BY <1>2, LenProperties
    <3>2. Len(blocked) # 0
      BY <1>1, <1>2, EmptySeq
    <3>3. Len(blocked) = 1 /\ DOMAIN blocked = {1}
      BY <1>2, <3>1, <3>2
    <3>4. QED  BY <1>2, <3>3, ElementOfSeq
  <2>2. l = blocked[1]
    BY <1>1, <1>2, HeadTailProperties
  <2>3. QED  BY <2>1, <2>2 DEF Ids
<1>4. s \in Streams /\ l.id \in 1..MaxLines
  BY <1>3 DEF Line
<1> HIDE DEF l, s
<1>5. \A t \in Streams : output[t] \in Seq(Line)
  BY DEF IInv, TypeOK
<1>6. \A t \in Streams : output'[t] = IF t = s THEN Append(output[s], l) ELSE output[t]
  BY <1>1 DEF IInv, TypeOK
<1>7. /\ Ids(Append(output[s], l)) = Ids(output[s]) \cup {l.id}
      /\ Distinct(output[s]) /\ l.id \notin Ids(output[s]) => Distinct(Append(output[s], l))
  BY <1>3, <1>4, <1>5, AppendIds
<1>8. \A t \in Streams : Distinct(output[t]) /\ l.id \notin Ids(output[t])
  BY <1>3 DEF IInv, LineInv
<1>9. Sent' = Sent
  BY <1>1, SentStays
<1>10. TypeOK'
  <2>1. Append(output[s], l) \in Seq(Line)
    BY <1>3, <1>4, <1>5, AppendProperties
  <2>2. output' \in [Streams -> Seq(Line)]
    BY <1>1, <2>1 DEF IInv, TypeOK
  <2>3. QED  BY <1>1, <2>2, EmptySeq DEF IInv, TypeOK
<1>11. Ids(blocked)' = {} /\ \A t \in Streams : Ids(output[t])' =
           IF t = s THEN Ids(output[t]) \cup {l.id} ELSE Ids(output[t])
  <2>1. Ids(blocked)' = {}
    BY <1>1, NoIds DEF Ids
  <2>2. \A t \in Streams : Ids(output[t])' = Ids(output'[t])
    BY DEF Ids
  <2>3. QED  BY <1>6, <1>7, <2>1, <2>2
<1>12. LineInv'
  <2>1. \A t \in Streams : Distinct(output[t])'
    <3> SUFFICES ASSUME NEW t \in Streams  PROVE Distinct(output'[t])
      BY DEF Distinct
    <3>1. QED  BY <1>4, <1>6, <1>7, <1>8
  <2>2. /\ \A t \in Streams : Ids(blocked)' \cap Ids(output[t])' = {}
        /\ \A t, u \in Streams : t # u => Ids(output[t])' \cap Ids(output[u])' = {}
    BY <1>8, <1>11 DEF IInv, LineInv
  <2>3. QED  BY <2>1, <2>2 DEF LineInv
<1>13. \A k : Unread(k)' => Unread(k)
  BY <1>3, <1>4, <1>11 DEF Unread
<1>14. PlaceInv'
  BY <1>1, <1>9, <1>13, PlacesKept
<1>15. QED  BY <1>1, <1>9, <1>10, <1>12, <1>14, QuietStep DEF IInv

-----------------------------------------------------------------------------
(* Theorems.                                                               *)

\* Nothing is written, read or called.
LEMMA InitHolds == Init => IInv
<1> SUFFICES ASSUME Init  PROVE IInv
  OBVIOUS
<1> USE DEF Init
<1>1. <<>> \o <<>> = <<>> /\ <<>> \in Seq(Pieces) /\ <<>> \in Seq(Line) /\ Len(<<>>) = 0
  BY EmptySeq
<1>2. Sent = <<>> /\ DOMAIN Sent = {} /\ Len(Sent) = 0
  BY <1>1 DEF Sent
<1>3. TypeOK
  <2>1. 0 \in 0..MaxLines /\ 0 <= InCap
    BY ConstantsAssumption
  <2>2. blocked \in Seq(Line) /\ Len(blocked) <= 1
    BY <1>1
  <2>3. stdin \in Seq(Pieces) /\ Len(stdin) <= InCap /\ received \in Seq(Pieces)
    BY <1>1, <2>1
  <2>4. output \in [Streams -> Seq(Line)]
    BY <1>1
  <2>5. /\ write \in [Writers -> {"none", "lock", "first", "second", "written", "failed"}]
        /\ handling \in [Streams -> 0..MaxLines]
        /\ call \in [Calls -> {"none", "waits", "ok", "error"}]
        /\ after \in [Calls -> SUBSET Calls]
    BY <2>1
  <2>6. QED  BY <2>1, <2>2, <2>3, <2>4, <2>5 DEF TypeOK, Nothing
<1>4. ControlInv
  BY ConstantsAssumption DEF ControlInv, Writers, Nothing
<1>5. Whole /\ InOrder /\ OneAnswer
  BY <1>2 DEF Whole, InOrder, OneAnswer
<1>6. HalfInv
  BY <1>2 DEF HalfInv
<1>7. CallInv
  BY <1>2 DEF CallInv, Writers
<1>8. AnswerInv
  BY DEF AnswerInv, Writers
<1>9. Ids(blocked) = {} /\ \A s \in Streams : Ids(output[s]) = {}
  BY NoIds
<1>10. \A id : ~Unread(id)
  BY <1>9 DEF Unread
<1>11. LineInv
  BY <1>9 DEF LineInv, Distinct
<1>12. PlaceInv
  BY <1>2, <1>10 DEF PlaceInv
<1>13. QED  BY <1>3, <1>4, <1>5, <1>6, <1>7, <1>8, <1>11, <1>12 DEF IInv

\* Steps that change nothing keep the invariant.
LEMMA Stutter == ASSUME IInv, UNCHANGED vars  PROVE IInv'
<1>1. Sent' = Sent /\ UNCHANGED <<mu, write, handling, forwarded, call, after, cli, blocked,
                                  lines, output, stdin, received, ended, done>>
  BY SentStays DEF vars
<1>2. TypeOK'
  BY <1>1 DEF IInv, TypeOK
<1>3. QED  BY <1>1, <1>2, PlacesStay, QuietStep DEF IInv

LEMMA NextKeeps == IInv /\ [Next]_vars => IInv'
<1> SUFFICES ASSUME IInv, [Next]_vars  PROVE IInv'
  OBVIOUS
<1>1. ASSUME NEW w \in Writers, Goroutine(w)  PROVE IInv'
  BY <1>1, LockStep, WriteStep, BreaksStep DEF Goroutine
<1>2. ASSUME NEW c \in Calls, writeStdin(c)  PROVE IInv'
  BY <1>2, CallStep
<1>3. ASSUME NEW c \in Calls, Answer(c)  PROVE IInv'
  BY <1>3, ReturnStep DEF Answer, Written, Failed, Exited, TimedOut
<1>4. ASSUME NEW s \in Streams, Reader(s)  PROVE IInv'
  BY <1>1, <1>4, OutputStep, HandleStep, StillStep DEF Reader, Writers
<1>5. ASSUME NEW s \in Streams, CliBegins(s)  PROVE IInv'
  BY <1>5, BeginsStep
<1>6. CASE CliWrites
  BY <1>6, WritesStep
<1>7. CASE CliReads \/ CliHangs \/ ReportExit
  BY <1>7, StillStep
<1>8. CASE CliDies
  BY <1>8, DiesStep
<1>9. CASE UNCHANGED vars
  BY <1>9, Stutter
<1>10. QED
  BY <1>1, <1>2, <1>3, <1>4, <1>5, <1>6, <1>7, <1>8, <1>9 DEF Next, Writers

\* The invariant of the two pipes: who may write, where half a message is, and
\* where each request is.
THEOREM Inductive == Spec => []IInv
<1>1. Init => IInv  BY InitHolds
<1>2. IInv /\ [Next]_vars => IInv'  BY NextKeeps
<1>3. QED  BY <1>1, <1>2, PTL DEF Spec

\* Every variable keeps its type, whatever the pipes hold.
THEOREM TypeCorrect == Spec => []TypeOK
<1>1. IInv => TypeOK  BY DEF IInv
<1>2. QED  BY <1>1, Inductive, PTL

\* What reaches the CLI makes sense to it (native/process.go): messages are whole
\* although two goroutines write them, a call comes behind those that had
\* succeeded although calls that timed out still write, and a present_files
\* request has one answer.
THEOREM StdinIsSound == Spec => []StdinMakesSense
<1>1. IInv => StdinMakesSense  BY DEF IInv, StdinMakesSense
<1>2. QED  BY <1>1, Inductive, PTL
=============================================================================
