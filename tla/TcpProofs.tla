------------------------------ MODULE TcpProofs ------------------------------
(***************************************************************************)
(* Proofs about the TCP sessions, for any number of sessions, any classes, *)
(* any frames and any size of a packet and of the buffer.                  *)
(***************************************************************************)
EXTENDS Tcp, SeqFilterProofs, FiniteSetTheorems, TLAPS

-----------------------------------------------------------------------------
(* What a parser does with one byte *)

At(state, cmd, left) == [state |-> state, cmd |-> cmd, left |-> left]

\* A parser of a session on port q.
States(q) == IF q = CONTROL THEN {-1, 0, 1, 2} ELSE 0..4
ParserOf(q) == {p \in Parser : p.state \in States(q) /\ Len(p.cmd) <= MAX_BUF}

\* Only the control port gives lines, only a node takes commands.
DeedOf(q) == IF q = CONTROL THEN {d \in Deed : d.op \in {"line", "list", "exit"}}
             ELSE {d \in Deed : d.op \in {"listen", "command", "overrun"}}
After(q) == [p : ParserOf(q), did : Seq(DeedOf(q))]

\* A deed with its fields.
LEMMA DoType ==
  ASSUME NEW op \in {"listen", "command", "line", "list", "exit", "overrun"}, NEW data \in Seq(Byte)
  PROVE  Do(op, data) \in Deed /\ Do(op, data).op = op /\ Do(op, data).data = data
BY DEF Do, Deed

\* The two parts of what parse returns.
LEMMA ThenFields ==
  ASSUME NEW p, NEW deeds
  PROVE  Then(p, deeds).p = p /\ Then(p, deeds).did = deeds
BY DEF Then

\* The fields of a parser.
LEMMA AtFields ==
  ASSUME NEW s, NEW c, NEW l
  PROVE  /\ At(s, c, l).state = s /\ At(s, c, l).cmd = c /\ At(s, c, l).left = l
         /\ NewParser = At(0, <<>>, 0)
BY DEF At, NewParser

\* A buffer within its size makes a parser.
LEMMA AtType ==
  ASSUME NEW q, NEW s \in States(q), NEW c \in Seq(Byte), NEW l \in Int, Len(c) <= MAX_BUF
  PROVE  At(s, c, l) \in ParserOf(q)
<1>1. s \in 0..4 \cup {-1}
  BY DEF States
<1>2. At(s, c, l) \in Parser
  BY <1>1 DEF At, Parser
<1> QED BY <1>2, AtFields DEF ParserOf

\* A parser and its deeds are a result.
LEMMA ThenType ==
  ASSUME NEW q, NEW p \in ParserOf(q), NEW deeds \in Seq(DeedOf(q))
  PROVE  Then(p, deeds) \in After(q)
BY DEF Then, After

\* A parser is the record of its fields.
LEMMA ParserFields ==
  ASSUME NEW q, NEW p \in ParserOf(q)
  PROVE  /\ p = At(p.state, p.cmd, p.left)
         /\ p.state \in States(q) /\ p.cmd \in Seq(Byte) /\ p.left \in Int
         /\ Len(p.cmd) \in Nat /\ Len(p.cmd) <= MAX_BUF
<1>1. p \in Parser
  BY DEF ParserOf
<1> QED BY <1>1 DEF ParserOf, Parser, At

\* The updates of a parser, as records.
LEMMA Updates ==
  ASSUME NEW t, NEW s, NEW c, NEW l, t = At(s, c, l), NEW x
  PROVE  /\ [t EXCEPT !.state = x] = At(x, c, l)
         /\ [t EXCEPT !.cmd = x] = At(s, x, l)
         /\ [t EXCEPT !.left = x] = At(s, c, x)
BY DEF At

\* After a command a parser is as it was in the beginning.
LEMMA IdleIsNew ==
  ASSUME NEW q, NEW p \in ParserOf(q)
  PROVE  /\ Idle(p) = NewParser
         /\ \A x : [Idle(p) EXCEPT !.state = x] = At(x, <<>>, 0)
<1> DEFINE t == [p EXCEPT !.state = 0]
           u == [t EXCEPT !.cmd = <<>>]
<1>1. t = At(0, p.cmd, p.left)
  BY ParserFields, Updates
<1> HIDE DEF t
<1>2. u = At(0, <<>>, p.left)
  BY <1>1, Updates
<1> HIDE DEF u
<1>3. [u EXCEPT !.left = 0] = NewParser
  BY <1>2, Updates, AtFields
<1>4. Idle(p) = NewParser
  BY <1>3 DEF t, u, Idle
<1>5. \A x : [NewParser EXCEPT !.state = x] = At(x, <<>>, 0)
  BY DEF NewParser, At
<1> QED BY <1>4, <1>5, Zenon

\* What tcp_parse does in each state.
LEMMA BeginStep ==
  ASSUME NEW q, NEW p \in ParserOf(q), p.state = 0, NEW b
  PROVE  /\ b = C => tcp_parse(p, b) = Then(At(1, p.cmd, p.left), <<>>)
         /\ b = B => tcp_parse(p, b) = Then(At(2, p.cmd, p.left), <<>>)
         /\ b = L => tcp_parse(p, b) = Then(p, <<Do("listen", <<>>)>>)
         /\ b \notin {B, C, L} => tcp_parse(p, b) = Then(p, <<>>)
<1>1. tcp_parse(p, b) = Begin(p, b)
  BY DEF tcp_parse
<1>0. C # B /\ C # L /\ B # L
  BY DEF B, C, L
<1>2. ASSUME b = C PROVE Begin(p, b) = Then([p EXCEPT !.state = 1], <<>>)
  <2>1. b # B /\ b # L
    BY <1>0, <1>2
  <2> QED BY <1>2, <2>1, Zenon DEF Begin
<1>3. ASSUME b = B PROVE Begin(p, b) = Then([p EXCEPT !.state = 2], <<>>)
  <2>1. b # C /\ b # L
    BY <1>0, <1>3
  <2> QED BY <1>3, <2>1, Zenon DEF Begin
<1>4. b = L => Begin(p, b) = Then(p, <<Do("listen", <<>>)>>)
  BY DEF Begin, B, C, L
<1>5. b \notin {B, C, L} => Begin(p, b) = Then(p, <<>>)
  BY DEF Begin
<1>6. [p EXCEPT !.state = 1] = At(1, p.cmd, p.left)
  BY ParserFields, Updates
<1>7. [p EXCEPT !.state = 2] = At(2, p.cmd, p.left)
  BY ParserFields, Updates
<1> QED BY <1>1, <1>2, <1>3, <1>4, <1>5, <1>6, <1>7, Zenon

\* A byte of a text: it ends, it is kept, or there is no room.
LEMMA TextStep ==
  ASSUME NEW q, NEW p \in ParserOf(q), p.state = 1, NEW b
  PROVE  /\ b \in Newline => tcp_parse(p, b) = Then(NewParser, <<Do("command", p.cmd)>>)
         /\ b \notin Newline /\ Len(p.cmd) + 1 < MAX_BUF
              => tcp_parse(p, b) = Then(At(1, Append(p.cmd, b), p.left), <<>>)
         /\ b \notin Newline /\ ~(Len(p.cmd) + 1 < MAX_BUF)
              => tcp_parse(p, b) = Then(At(4, <<>>, 0), <<>>)
<1>1. tcp_parse(p, b) = Text(p, b)
  BY DEF tcp_parse
<1>2. b \in Newline => Text(p, b) = Then(Idle(p), <<Do("command", p.cmd)>>)
  BY Zenon DEF Text
<1>3. b \notin Newline /\ Len(p.cmd) + 1 < MAX_BUF
        => Text(p, b) = Then([p EXCEPT !.cmd = Append(p.cmd, b)], <<>>)
  BY DEF Text
<1>4. b \notin Newline /\ ~(Len(p.cmd) + 1 < MAX_BUF)
        => Text(p, b) = Then([Idle(p) EXCEPT !.state = 4], <<>>)
  BY DEF Text
<1>5. Idle(p) = NewParser
  BY IdleIsNew, Zenon
<1>7. [Idle(p) EXCEPT !.state = 4] = At(4, <<>>, 0)
  BY IdleIsNew, Zenon
<1>6. [p EXCEPT !.cmd = Append(p.cmd, b)] = At(p.state, Append(p.cmd, b), p.left)
  <2>1. p = [state |-> p.state, cmd |-> p.cmd, left |-> p.left]
    BY ParserFields DEF At
  <2> QED BY <2>1 DEF At
<1> QED BY <1>1, <1>2, <1>3, <1>4, <1>5, <1>6, <1>7, Zenon

\* The length of a binary command, or one that is too large.
LEMMA LengthStep ==
  ASSUME NEW q, NEW p \in ParserOf(q), p.state = 2, NEW b
  PROVE  /\ b <= MAX_BUF => tcp_parse(p, b) = Then(At(3, p.cmd, b), <<>>)
         /\ ~(b <= MAX_BUF) => tcp_parse(p, b) = Then(NewParser, <<>>)
<1>1. tcp_parse(p, b) = Length(p, b)
  BY DEF tcp_parse
<1>2. b <= MAX_BUF => Length(p, b) = Then([p EXCEPT !.state = 3, !.left = b], <<>>)
  BY Zenon DEF Length
<1>3. ~(b <= MAX_BUF) => Length(p, b) = Then(Idle(p), <<>>)
  BY Zenon DEF Length
<1>4. Idle(p) = NewParser
  BY IdleIsNew, Zenon
<1>5. [p EXCEPT !.state = 3, !.left = b] = At(3, p.cmd, b)
  <2> DEFINE t == [p EXCEPT !.state = 3]
  <2>1. t = At(3, p.cmd, p.left)
    BY ParserFields, Updates
  <2> HIDE DEF t
  <2>2. [t EXCEPT !.left = b] = At(3, p.cmd, b)
    BY <2>1, Updates
  <2> QED BY <2>2 DEF t
<1> QED BY <1>1, <1>2, <1>3, <1>4, <1>5, Zenon

\* A byte of a binary command: overrun, the last one, or one more.
LEMMA BinaryStep ==
  ASSUME NEW q, NEW p \in ParserOf(q), p.state = 3, NEW b
  PROVE  /\ Len(p.cmd) = MAX_BUF => tcp_parse(p, b) = Then(p, <<Do("overrun", <<>>)>>)
         /\ Len(p.cmd) < MAX_BUF /\ p.left = 1
              => tcp_parse(p, b) = Then(NewParser, <<Do("command", Append(p.cmd, b))>>)
         /\ Len(p.cmd) < MAX_BUF /\ p.left # 1
              => tcp_parse(p, b) = Then(At(3, Append(p.cmd, b), p.left - 1), <<>>)
<1>1. tcp_parse(p, b) = Binary(p, b)
  BY DEF tcp_parse
<1>2. MAX_BUF \in Nat /\ Len(p.cmd) \in Nat
  BY ParserFields, TcpAssumption
<1>3. Len(p.cmd) = MAX_BUF => Binary(p, b) = Then(p, <<Do("overrun", <<>>)>>)
  BY <1>2 DEF Binary
<1>4. Len(p.cmd) < MAX_BUF /\ p.left = 1
        => Binary(p, b) = Then(Idle(p), <<Do("command", Append(p.cmd, b))>>)
  BY <1>2 DEF Binary
<1>5. Len(p.cmd) < MAX_BUF /\ p.left # 1
        => Binary(p, b) = Then([p EXCEPT !.cmd = Append(p.cmd, b), !.left = p.left - 1], <<>>)
  BY <1>2 DEF Binary
<1>6. Idle(p) = NewParser
  BY IdleIsNew, Zenon
<1>7. [p EXCEPT !.cmd = Append(p.cmd, b), !.left = p.left - 1]
        = At(p.state, Append(p.cmd, b), p.left - 1)
  <2> DEFINE t == [p EXCEPT !.cmd = Append(p.cmd, b)]
  <2>1. t = At(p.state, Append(p.cmd, b), p.left)
    <3>1. p = [state |-> p.state, cmd |-> p.cmd, left |-> p.left]
      BY ParserFields DEF At
    <3> QED BY <3>1 DEF At
  <2> HIDE DEF t
  <2>2. [t EXCEPT !.left = p.left - 1] = At(p.state, Append(p.cmd, b), p.left - 1)
    BY <2>1, Updates
  <2> QED BY <2>2 DEF t
<1> QED BY <1>1, <1>3, <1>4, <1>5, <1>6, <1>7, Zenon

\* What is skipped ends with the line.
LEMMA SkipStep ==
  ASSUME NEW q, NEW p \in ParserOf(q), NEW b
  PROVE  SkipLine(p, b) = IF b \in Newline THEN Then(NewParser, <<>>) ELSE Then(p, <<>>)
<1>1. Idle(p) = NewParser
  BY IdleIsNew, Zenon
<1> QED BY <1>1, Zenon DEF SkipLine

\* What cmdparser_parse does in each state.
LEMMA LineStep ==
  ASSUME NEW q, NEW p \in ParserOf(q), NEW b
  PROVE  /\ b \in Newline /\ p.cmd = Exit
              => Line(p, b) = Then(At(-1, <<>>, 0), <<cmdparser_cmd(p.cmd)>>)
         /\ b \in Newline /\ p.cmd # Exit
              => Line(p, b) = Then(At(0, <<>>, 0), <<cmdparser_cmd(p.cmd)>>)
         /\ b \notin Newline /\ b >= Space /\ Len(p.cmd) + 1 < MAX_BUF
              => Line(p, b) = Then(At(1, Append(p.cmd, b), p.left), <<>>)
         /\ b \notin Newline /\ ~(b >= Space /\ Len(p.cmd) + 1 < MAX_BUF)
              => Line(p, b) = Then(At(2, <<>>, 0), <<>>)
<1> DEFINE e == IF p.cmd = Exit THEN -1 ELSE 0
<1>1. b \in Newline => Line(p, b) = Then([Idle(p) EXCEPT !.state = e],
                                         <<cmdparser_cmd(p.cmd)>>)
  <2>1. b \in Newline => ~(b >= Space)
    BY DEF Newline, Space, LF, CR
  <2> QED BY <2>1, Zenon DEF Line
<1>2. b \notin Newline /\ b >= Space /\ Len(p.cmd) + 1 < MAX_BUF
        => Line(p, b) = Then([p EXCEPT !.state = 1, !.cmd = Append(p.cmd, b)], <<>>)
  BY DEF Line
<1>3. b \notin Newline /\ ~(b >= Space /\ Len(p.cmd) + 1 < MAX_BUF)
        => Line(p, b) = Then([Idle(p) EXCEPT !.state = 2], <<>>)
  BY DEF Line
<1>4. [Idle(p) EXCEPT !.state = e] = At(e, <<>>, 0)
  BY IdleIsNew, Zenon
<1>5. [Idle(p) EXCEPT !.state = 2] = At(2, <<>>, 0)
  BY IdleIsNew, Zenon
<1>6. [p EXCEPT !.state = 1, !.cmd = Append(p.cmd, b)] = At(1, Append(p.cmd, b), p.left)
  <2> DEFINE t == [p EXCEPT !.state = 1]
  <2>1. t = At(1, p.cmd, p.left)
    BY ParserFields, Updates
  <2> HIDE DEF t
  <2>2. [t EXCEPT !.cmd = Append(p.cmd, b)] = At(1, Append(p.cmd, b), p.left)
    BY <2>1 DEF At
  <2> QED BY <2>2 DEF t
<1>7. (p.cmd = Exit => e = -1) /\ (p.cmd # Exit => e = 0)
  OBVIOUS
<1> HIDE DEF e
<1> QED BY <1>1, <1>2, <1>3, <1>4, <1>5, <1>6, <1>7, Zenon

\* A byte leaves a parser, and it does what a session on this port may do.
LEMMA TcpParse ==
  ASSUME NEW q, q # CONTROL, NEW p \in ParserOf(q), NEW b \in Byte
  PROVE  parse(q, p, b) \in After(q)
<1>1. /\ p.state \in 0..4 /\ p.cmd \in Seq(Byte) /\ p.left \in Int /\ b \in Int
      /\ Len(p.cmd) \in Nat /\ Len(p.cmd) <= MAX_BUF /\ MAX_BUF \in Nat \ {0}
  <2>1. /\ p.state \in States(q) /\ p.cmd \in Seq(Byte) /\ p.left \in Int
        /\ Len(p.cmd) \in Nat /\ Len(p.cmd) <= MAX_BUF
    BY ParserFields, Zenon
  <2>2. States(q) = 0..4
    BY DEF States
  <2>3. MAX_BUF \in Nat \ {0}
    BY TcpAssumption
  <2>4. b \in Int
    BY DEF Byte
  <2> QED BY <2>1, <2>2, <2>3, <2>4, Zenon
<1>2. <<>> \in Seq(DeedOf(q)) /\ \A op \in {"listen", "command", "overrun"},
        data \in Seq(Byte) : <<Do(op, data)>> \in Seq(DeedOf(q))
  BY DoType DEF DeedOf
<1>3. /\ Append(p.cmd, b) \in Seq(Byte) /\ Len(Append(p.cmd, b)) = Len(p.cmd) + 1
      /\ <<>> \in Seq(Byte) /\ Len(<<>>) = 0
  BY <1>1
<1>4. \A s \in 0..4, c \in Seq(Byte), l \in Int :
        Len(c) <= MAX_BUF => At(s, c, l) \in ParserOf(q)
  <2>1. States(q) = 0..4
    BY DEF States
  <2> QED BY <2>1, AtType
<1>5. /\ NewParser \in ParserOf(q)
      /\ At(1, p.cmd, p.left) \in ParserOf(q) /\ At(2, p.cmd, p.left) \in ParserOf(q)
      /\ At(3, p.cmd, b) \in ParserOf(q) /\ At(4, <<>>, 0) \in ParserOf(q)
  <2>1. 0 \in 0..4 /\ 1 \in 0..4 /\ 2 \in 0..4 /\ 3 \in 0..4 /\ 4 \in 0..4 /\ 0 \in Int
    OBVIOUS
  <2>2. Len(<<>>) <= MAX_BUF
    BY <1>1, <1>3
  <2>3. At(0, <<>>, 0) \in ParserOf(q) /\ At(4, <<>>, 0) \in ParserOf(q)
    BY <1>3, <1>4, <2>1, <2>2, Zenon
  <2>4. /\ At(1, p.cmd, p.left) \in ParserOf(q) /\ At(2, p.cmd, p.left) \in ParserOf(q)
        /\ At(3, p.cmd, b) \in ParserOf(q)
    BY <1>1, <1>4, <2>1, Zenon
  <2> QED BY <2>3, <2>4, AtFields
<1>6. parse(q, p, b) = tcp_parse(p, b)
  BY DEF parse
<1>7. CASE p.state = 0
  <2>1. \/ tcp_parse(p, b) = Then(At(1, p.cmd, p.left), <<>>)
        \/ tcp_parse(p, b) = Then(At(2, p.cmd, p.left), <<>>)
        \/ tcp_parse(p, b) = Then(p, <<Do("listen", <<>>)>>)
        \/ tcp_parse(p, b) = Then(p, <<>>)
    BY <1>7, BeginStep
  <2>2. <<Do("listen", <<>>)>> \in Seq(DeedOf(q))
    BY <1>2, <1>3
  <2> QED BY <1>2, <1>5, <1>6, <2>1, <2>2, ThenType
<1>8. CASE p.state = 1
  <2>1. Len(p.cmd) + 1 < MAX_BUF => At(1, Append(p.cmd, b), p.left) \in ParserOf(q)
    <3>1. 1 \in 0..4 /\ (Len(p.cmd) + 1 < MAX_BUF => Len(Append(p.cmd, b)) <= MAX_BUF)
      BY <1>1, <1>3
    <3> QED BY <1>1, <1>3, <1>4, <3>1, Zenon
  <2> QED BY <1>1, <1>2, <1>5, <1>6, <1>8, <2>1, TextStep, ThenType
<1>9. CASE p.state = 2
  BY <1>2, <1>5, <1>6, <1>9, LengthStep, ThenType
<1>10. CASE p.state = 3
  <2>1. Len(p.cmd) < MAX_BUF => At(3, Append(p.cmd, b), p.left - 1) \in ParserOf(q)
    <3>1. 3 \in 0..4 /\ (Len(p.cmd) < MAX_BUF => Len(Append(p.cmd, b)) <= MAX_BUF)
      BY <1>1, <1>3
    <3>2. p.left - 1 \in Int
      BY <1>1
    <3> QED BY <1>1, <1>3, <1>4, <3>1, <3>2, Zenon
  <2>2. Len(p.cmd) = MAX_BUF \/ Len(p.cmd) < MAX_BUF
    BY <1>1
  <2>3. CASE Len(p.cmd) = MAX_BUF
    <3>1. tcp_parse(p, b) = Then(p, <<Do("overrun", <<>>)>>)
      BY <1>10, <2>3, BinaryStep
    <3> QED BY <1>2, <1>3, <1>6, <3>1, ThenType
  <2>4. CASE Len(p.cmd) < MAX_BUF /\ p.left = 1
    <3>1. tcp_parse(p, b) = Then(NewParser, <<Do("command", Append(p.cmd, b))>>)
      BY <1>10, <2>4, BinaryStep
    <3> QED BY <1>2, <1>3, <1>5, <1>6, <3>1, ThenType
  <2>5. CASE Len(p.cmd) < MAX_BUF /\ p.left # 1
    <3>1. tcp_parse(p, b) = Then(At(3, Append(p.cmd, b), p.left - 1), <<>>)
      BY <1>10, <2>5, BinaryStep
    <3> QED BY <1>2, <1>6, <2>1, <2>5, <3>1, ThenType
  <2> QED BY <2>2, <2>3, <2>4, <2>5
<1>11. CASE p.state = 4
  <2>1. tcp_parse(p, b) = SkipLine(p, b)
    BY <1>11 DEF tcp_parse
  <2> QED BY <1>2, <1>5, <1>6, <2>1, SkipStep, ThenType
<1> QED BY <1>1, <1>7, <1>8, <1>9, <1>10, <1>11

\* Each line on the control port has its deed.
LEMMA CommandType ==
  ASSUME NEW cmd \in Seq(Byte)
  PROVE  <<cmdparser_cmd(cmd)>> \in Seq(DeedOf(CONTROL))
<1>1. cmdparser_cmd(cmd) \in DeedOf(CONTROL)
  BY DoType DEF cmdparser_cmd, DeedOf
<1> QED BY <1>1

\* cmdparser_parse keeps the types.
LEMMA ControlParse ==
  ASSUME NEW p \in ParserOf(CONTROL), NEW b \in Byte
  PROVE  parse(CONTROL, p, b) \in After(CONTROL)
<1>1. /\ p.state \in {-1, 0, 1, 2} /\ p.cmd \in Seq(Byte) /\ p.left \in Int /\ b \in Int
      /\ Len(p.cmd) \in Nat /\ Len(p.cmd) <= MAX_BUF /\ MAX_BUF \in Nat \ {0}
  <2>1. /\ p.state \in States(CONTROL) /\ p.cmd \in Seq(Byte) /\ p.left \in Int
        /\ Len(p.cmd) \in Nat /\ Len(p.cmd) <= MAX_BUF
    BY ParserFields, Zenon
  <2>2. States(CONTROL) = {-1, 0, 1, 2}
    BY DEF States
  <2>3. MAX_BUF \in Nat \ {0}
    BY TcpAssumption
  <2>4. b \in Int
    BY DEF Byte
  <2> QED BY <2>1, <2>2, <2>3, <2>4, Zenon
<1>2. <<>> \in Seq(DeedOf(CONTROL)) /\ <<cmdparser_cmd(p.cmd)>> \in Seq(DeedOf(CONTROL))
  BY <1>1, CommandType
<1>3. /\ Append(p.cmd, b) \in Seq(Byte) /\ Len(Append(p.cmd, b)) = Len(p.cmd) + 1
      /\ <<>> \in Seq(Byte) /\ Len(<<>>) = 0
  BY <1>1
<1>4. \A s \in {-1, 0, 1, 2}, c \in Seq(Byte), l \in Int :
        Len(c) <= MAX_BUF => At(s, c, l) \in ParserOf(CONTROL)
  <2>1. States(CONTROL) = {-1, 0, 1, 2}
    BY DEF States
  <2> QED BY <2>1, AtType
<1>5. /\ NewParser \in ParserOf(CONTROL) /\ At(0, <<>>, 0) \in ParserOf(CONTROL)
      /\ At(-1, <<>>, 0) \in ParserOf(CONTROL) /\ At(2, <<>>, 0) \in ParserOf(CONTROL)
  <2>1. {-1, 0, 2} \subseteq {-1, 0, 1, 2} /\ 0 \in Int
    OBVIOUS
  <2>2. Len(<<>>) <= MAX_BUF
    BY <1>1, <1>3
  <2>3. \A s \in {-1, 0, 2} : At(s, <<>>, 0) \in ParserOf(CONTROL)
    BY <1>3, <1>4, <2>1, <2>2, Zenon
  <2> QED BY <2>3, AtFields
<1>6. Len(p.cmd) + 1 < MAX_BUF => At(1, Append(p.cmd, b), p.left) \in ParserOf(CONTROL)
  <2>1. 1 \in {-1, 0, 1, 2} /\ (Len(p.cmd) + 1 < MAX_BUF => Len(Append(p.cmd, b)) <= MAX_BUF)
    BY <1>1, <1>3
  <2> QED BY <1>1, <1>3, <1>4, <2>1, Zenon
<1>7. Line(p, b) \in After(CONTROL)
  BY <1>2, <1>5, <1>6, LineStep, ThenType
<1>8. Then(p, <<>>) \in After(CONTROL) /\ SkipLine(p, b) \in After(CONTROL)
  BY <1>2, <1>5, SkipStep, ThenType
<1>9. cmdparser_parse(p, b) \in {Then(p, <<>>), Line(p, b), SkipLine(p, b)}
  <2>1. CASE p.state = -1 \/ (p.state = 0 /\ b < Space)
    <3>1. cmdparser_parse(p, b) = Then(p, <<>>)
      <4>1. p.state # 2 /\ ~(p.state = 1 \/ (p.state = 0 /\ b >= Space))
        BY <1>1, <2>1 DEF Space
      <4> QED BY <2>1, <4>1, Zenon DEF cmdparser_parse
    <3> QED BY <3>1
  <2>2. CASE p.state = 1 \/ (p.state = 0 /\ ~(b < Space))
    <3>1. cmdparser_parse(p, b) = Line(p, b)
      BY <1>1, <2>2 DEF cmdparser_parse, Space
    <3> QED BY <3>1
  <2>3. CASE p.state = 2
    <3>1. cmdparser_parse(p, b) = SkipLine(p, b)
      BY <2>3 DEF cmdparser_parse
    <3> QED BY <3>1
  <2> QED BY <1>1, <2>1, <2>2, <2>3
<1> QED BY <1>7, <1>8, <1>9 DEF parse

\* Both parsers keep the types.
LEMMA ParseType ==
  ASSUME NEW q, NEW p \in ParserOf(q), NEW b \in Byte
  PROVE  parse(q, p, b) \in After(q)
BY TcpParse, ControlParse

\* One byte more keeps the types.
LEMMA OnwardType ==
  ASSUME NEW q, NEW r \in After(q), NEW b \in Byte
  PROVE  Onward(q, r, b) \in After(q)
<1> DEFINE t == parse(q, r.p, b)
<1>1. r.p \in ParserOf(q) /\ r.did \in Seq(DeedOf(q))
  BY DEF After
<1>2. t \in After(q)
  BY <1>1, ParseType
<1> HIDE DEF t
<1>3. r.did \o t.did \in Seq(DeedOf(q)) /\ t.p \in ParserOf(q)
  BY <1>1, <1>2 DEF After
<1>4. Then(t.p, r.did \o t.did) \in After(q)
  BY <1>3, ThenType
<1> QED BY <1>4 DEF Onward, t
-----------------------------------------------------------------------------
(* What a parser does with several bytes *)

\* The function Parsed is defined with.
ParsedBy(h, q, p, bytes) ==
  h = [j \in 0..Len(bytes) |-> IF j = 0 THEN Then(p, <<>>)
                               ELSE Onward(q, h[j - 1], bytes[j])]

\* A parser that did nothing yet.
LEMMA StartType ==
  ASSUME NEW q, NEW p \in ParserOf(q)
  PROVE  Then(p, <<>>) \in After(q)
<1>1. <<>> \in Seq(DeedOf(q))
  OBVIOUS
<1> QED BY <1>1, ThenType

\* The recursive function in Parsed exists: it is the value of its equation.
LEMMA ParsedDefined ==
  ASSUME NEW q, NEW p \in ParserOf(q), NEW bytes \in Seq(Byte)
  PROVE  \E h \in [0..Len(bytes) -> After(q)] :
           ParsedBy(h, q, p, bytes) /\ Parsed(q, p, bytes) = h[Len(bytes)]
<1> DEFINE n == Len(bytes)
           g == [j \in 1..n |-> [r \in After(q) |-> Onward(q, r, bytes[j])]]
           H == CHOOSE h : ParsedBy(h, q, p, bytes)
<1>1. n \in Nat /\ Then(p, <<>>) \in After(q)
  BY StartType
<1>2. g \in [1..n -> [After(q) -> After(q)]]
  <2>1. \A j \in 1..n : bytes[j] \in Byte
    OBVIOUS
  <2>2. \A j \in 1..n, r \in After(q) : Onward(q, r, bytes[j]) \in After(q)
    BY <2>1, OnwardType
  <2> QED BY <2>2
<1>3. PICK h \in [0..n -> After(q)] : FollowsSteps(h, n, Then(p, <<>>), g)
  <2> HIDE DEF g, n
  <2> QED BY <1>1, <1>2, RecursionUpTo
<1>4. ParsedBy(h, q, p, bytes)
  <2>1. \A j \in 1..n : j - 1 \in 0..n
    BY <1>1
  <2>2. \A j \in 1..n : h[j - 1] \in After(q)
    BY <2>1
  <2>3. \A j \in 1..n : h[j] = Onward(q, h[j - 1], bytes[j])
    BY <1>3, <2>2 DEF FollowsSteps
  <2>4. h = [j \in 0..n |-> h[j]]
    OBVIOUS
  <2>5. \A j \in 0..n : h[j] = IF j = 0 THEN Then(p, <<>>)
                               ELSE Onward(q, h[j - 1], bytes[j])
    <3>1. \A j \in 0..n : j # 0 => j \in 1..n
      BY <1>1
    <3>2. h[0] = Then(p, <<>>)
      BY <1>3 DEF FollowsSteps
    <3> HIDE DEF n
    <3> QED BY <2>3, <3>1, <3>2
  <2> QED BY <2>4, <2>5 DEF ParsedBy
<1>5. ParsedBy(H, q, p, bytes)
  BY <1>4
<1>6. Parsed(q, p, bytes) = H[n]
  BY DEF Parsed, ParsedBy
<1>7. H = h
  <2> HIDE DEF H
  <2> DEFINE T == {j \in 0..n : H[j] = h[j]}
  <2>1. 0 \in T
    BY <1>1, <1>4, <1>5 DEF ParsedBy
  <2>2. \A j \in 1..n : j - 1 \in T => j \in T
    <3> SUFFICES ASSUME NEW j \in 1..n, H[j - 1] = h[j - 1] PROVE H[j] = h[j]
      BY <1>1
    <3>1. j \in 0..n /\ j # 0
      BY <1>1
    <3>2. h[j] = Onward(q, h[j - 1], bytes[j])
      BY <1>4, <3>1 DEF ParsedBy
    <3>3. H[j] = Onward(q, H[j - 1], bytes[j])
      BY <1>5, <3>1 DEF ParsedBy
    <3> QED BY <3>2, <3>3
  <2>3. \A j \in 0..n : H[j] = h[j]
    <3> HIDE DEF T
    <3>1. 0..n \subseteq T
      BY <1>1, <2>1, <2>2, InductionUpTo
    <3> QED BY <3>1 DEF T
  <2> QED BY <1>4, <1>5, <2>3 DEF ParsedBy
<1> QED BY <1>3, <1>4, <1>6, <1>7

\* The result is a parser of the port and what a session on it may do.
LEMMA ParsedType ==
  ASSUME NEW q, NEW p \in ParserOf(q), NEW bytes \in Seq(Byte)
  PROVE  Parsed(q, p, bytes) \in After(q)
<1>1. PICK h \in [0..Len(bytes) -> After(q)] : Parsed(q, p, bytes) = h[Len(bytes)]
  BY ParsedDefined
<1> QED BY <1>1

\* Nothing is read, nothing happens.
LEMMA ParsedEmpty ==
  ASSUME NEW q, NEW p \in ParserOf(q)
  PROVE  Parsed(q, p, <<>>) = Then(p, <<>>)
<1>1. <<>> \in Seq(Byte) /\ Len(<<>>) = 0 /\ 0 \in 0..0
  OBVIOUS
<1>2. PICK h \in [0..0 -> After(q)] :
        ParsedBy(h, q, p, <<>>) /\ Parsed(q, p, <<>>) = h[0]
  BY <1>1, ParsedDefined
<1> QED BY <1>1, <1>2 DEF ParsedBy

\* One byte more is one step more.
LEMMA ParsedAppend ==
  ASSUME NEW q, NEW p \in ParserOf(q), NEW s \in Seq(Byte), NEW b \in Byte
  PROVE  Parsed(q, p, Append(s, b)) = Onward(q, Parsed(q, p, s), b)
<1> DEFINE t == Append(s, b)
           n == Len(s)
<1>1. /\ t \in Seq(Byte) /\ n \in Nat /\ Len(t) = n + 1 /\ t[n + 1] = b
      /\ \A j \in 1..n : t[j] = s[j]
  OBVIOUS
<1>2. PICK f \in [0..n -> After(q)] : ParsedBy(f, q, p, s) /\ Parsed(q, p, s) = f[n]
  BY ParsedDefined
<1> HIDE DEF t, n
<1>3. PICK h \in [0..Len(t) -> After(q)] :
        ParsedBy(h, q, p, t) /\ Parsed(q, p, t) = h[Len(t)]
  BY <1>1, ParsedDefined
<1> DEFINE T == {j \in 0..n : f[j] = h[j]}
<1>4. 0 \in T
  BY <1>1, <1>2, <1>3 DEF ParsedBy, n
<1>5. ASSUME NEW j \in 1..n, j - 1 \in T PROVE j \in T
  <2>1. j \in 0..n /\ j # 0 /\ j \in 0..Len(t) /\ t[j] = s[j]
    BY <1>1
  <2>2. f[j] = Onward(q, f[j - 1], s[j])
    BY <1>2, <2>1 DEF ParsedBy, n
  <2>3. h[j] = Onward(q, h[j - 1], t[j])
    BY <1>3, <2>1 DEF ParsedBy
  <2>4. f[j - 1] = h[j - 1]
    BY <1>5
  <2> QED BY <2>1, <2>2, <2>3, <2>4
<1>6. h[n] = f[n]
  <2> HIDE DEF T
  <2>1. 0..n \subseteq T
    BY <1>1, <1>4, <1>5, InductionUpTo
  <2> QED BY <1>1, <2>1 DEF T
<1>7. h[n + 1] = Onward(q, h[n], t[n + 1])
  <2>1. n + 1 \in 0..Len(t) /\ n + 1 # 0 /\ n + 1 - 1 = n
    BY <1>1
  <2>2. \A j \in 0..Len(t) : j # 0 => h[j] = Onward(q, h[j - 1], t[j])
    BY <1>3 DEF ParsedBy
  <2>3. PICK j \in 0..Len(t) : j = n + 1
    BY <2>1
  <2>4. h[j] = Onward(q, h[j - 1], t[j])
    <3>1. j # 0
      BY <1>1, <2>3
    <3> QED BY <2>2, <3>1, Zenon
  <2>5. j - 1 = n
    BY <1>1, <2>3
  <2> QED BY <2>3, <2>4, <2>5
<1> QED BY <1>1, <1>2, <1>3, <1>6, <1>7 DEF t

\* Whether the bytes come in one read or in two makes no difference.
LEMMA ParsedConcat ==
  ASSUME NEW q, NEW p \in ParserOf(q), NEW s \in Seq(Byte), NEW t \in Seq(Byte)
  PROVE  LET r == Parsed(q, p, s)  u == Parsed(q, r.p, t) IN
           Parsed(q, p, s \o t) = Then(u.p, r.did \o u.did)
<1> DEFINE r == Parsed(q, p, s)
<1>1. r \in After(q)
  BY ParsedType
<1> HIDE DEF r
<1>2. r.p \in ParserOf(q) /\ r.did \in Seq(DeedOf(q)) /\ r = Then(r.p, r.did)
  BY <1>1 DEF After, Then
<1> DEFINE U(v) == Parsed(q, r.p, v)
           T == {v \in Seq(Byte) : Parsed(q, p, s \o v) = Then(U(v).p, r.did \o U(v).did)}
<1>3. <<>> \in T
  <2>1. s \o <<>> = s /\ <<>> \in Seq(Byte) /\ r.did \o <<>> = r.did
    BY <1>2
  <2>2. U(<<>>).p = r.p /\ U(<<>>).did = <<>>
    BY <1>2, ParsedEmpty, ThenFields
  <2>3. Parsed(q, p, s \o <<>>) = Then(U(<<>>).p, r.did \o U(<<>>).did)
    <3> HIDE DEF U
    <3> QED BY <1>2, <2>1, <2>2 DEF r
  <2> QED BY <2>1, <2>3
<1>4. ASSUME NEW v \in Seq(Byte), NEW b \in Byte, v \in T PROVE Append(v, b) \in T
  <2> DEFINE x == U(v)
             y == parse(q, x.p, b)
  <2>1. s \o Append(v, b) = Append(s \o v, b) /\ s \o v \in Seq(Byte)
        /\ Append(v, b) \in Seq(Byte)
    OBVIOUS
  <2>2. x \in After(q)
    BY <1>2, ParsedType
  <2>3. x.p \in ParserOf(q) /\ x.did \in Seq(DeedOf(q))
    <3> HIDE DEF x
    <3> QED BY <2>2 DEF After
  <2>4. y \in After(q)
    BY <2>3, ParseType
  <2>5. y.did \in Seq(DeedOf(q))
    <3> HIDE DEF y
    <3> QED BY <2>4 DEF After
  <2>6. U(Append(v, b)) = Then(y.p, x.did \o y.did)
    BY <1>2, ParsedAppend DEF Onward
  <2>7. Parsed(q, p, Append(s \o v, b)) = Onward(q, Then(x.p, r.did \o x.did), b)
    BY <1>4, <2>1, ParsedAppend
  <2>8. Onward(q, Then(x.p, r.did \o x.did), b) = Then(y.p, (r.did \o x.did) \o y.did)
    BY ThenFields DEF Onward
  <2>9. (r.did \o x.did) \o y.did = r.did \o (x.did \o y.did)
    <3> HIDE DEF x, y
    <3>1. \A c, d, e \in Seq(DeedOf(q)) : (c \o d) \o e = c \o (d \o e)
      <4> DEFINE D == DeedOf(q)
      <4> HIDE DEF D
      <4>1. \A c, d, e \in Seq(D) : (c \o d) \o e = c \o (d \o e)
        BY ConcatAssociative
      <4> QED BY <4>1 DEF D
    <3> QED BY <1>2, <2>3, <2>5, <3>1, Zenon
  <2>10. U(Append(v, b)).p = y.p /\ U(Append(v, b)).did = x.did \o y.did
    <3> DEFINE w == U(Append(v, b))
    <3>1. w = [p |-> y.p, did |-> x.did \o y.did]
      BY <2>6 DEF Then
    <3> HIDE DEF x, y, w
    <3>2. w.p = y.p /\ w.did = x.did \o y.did
      BY <3>1
    <3> QED BY <3>2 DEF w
  <2>11. Parsed(q, p, s \o Append(v, b))
           = Then(U(Append(v, b)).p, r.did \o U(Append(v, b)).did)
    <3> HIDE DEF x, y, U
    <3> QED BY <2>1, <2>7, <2>8, <2>9, <2>10
  <2> QED BY <2>1, <2>11
<1>5. t \in T
  <2> HIDE DEF T
  <2> QED BY <1>3, <1>4, SeqInduction
<1> QED BY <1>5 DEF r
-----------------------------------------------------------------------------
(* The invariants *)

Asking(c) == life[c] # "none" /\ port[c] # CONTROL

\* A session has a stream from its start on and a parser of its port; nothing
\* was sent before.  It is closed when its parser wants it.  Only sessions of
\* the node ask something.
Sessions ==
  /\ SessionTypes
  /\ \A c \in Conns : nb[c] \in ParserOf(port[c])
  /\ \A c \in Conns : life[c] # "none" => out[c] \in Streams
  /\ \A c \in Conns : life[c] = "none" =>
       nb[c] = NewParser /\ frame[c] = NULL /\ unread[c] = <<>> /\ did[c] = <<>>
  /\ \A c \in Conns : life[c] = "open" => nb[c].state # -1
  /\ \A j \in DOMAIN queue : Asking(queue[j])
  /\ current # NULL => Asking(current)

\* Two stream objects do not overlap.
OneOwner == \A c, d \in Conns : Live(c) /\ Live(d) /\ out[c] = out[d] => c = d

\* What the parser still does with the bytes that were not read completes what
\* the frame means.
Understood(c) ==
  IF frame[c] = NULL
    THEN nb[c] = NewParser /\ unread[c] = <<>> /\ did[c] = <<>>
    ELSE LET r == Parsed(port[c], nb[c], unread[c]) IN
           /\ r.p = NewParser \/ r.p.state = -1
           /\ did[c] \o r.did = Meaning(frame[c])
Understanding == \A c \in Conns : life[c] = "open" /\ proper[c] => Understood(c)

\* No command is too long, and no empty table is listed.
FramesFit == \A c \in Conns : frame[c] # NULL =>
  /\ frame[c].kind \in {"text", "binary"} /\ port[c] # MGT
       => Len(frame[c].data) <= UB_PACKET_DATA
  /\ frame[c].kind = "line" /\ frame[c].data = ListNodes => discovered > 0

\* Who waits for a status is still connected.
Careful ==
  careful =>
    /\ crashed \in {"no", "reply", "service"}
    /\ \A c \in Conns : proper[c]
    /\ FramesFit
    /\ \A j \in DOMAIN queue : Live(queue[j])

\* Every session on the port of a class is a listener of it.
Listening ==
  \A c \in Conns : Live(c) /\ port[c] \in Index =>
    \E j \in DOMAIN listeners[port[c]] : listeners[port[c]][j] = out[c]

-----------------------------------------------------------------------------
(* Types *)

\* The bytes with a meaning are bytes.
LEMMA Marks == {B, C, L, LF, CR} \subseteq Byte
BY DEF B, C, L, LF, CR, Byte

\* What clients of a node send.
LEMMA NodeFrame ==
  ASSUME NEW f \in NodeFrames
  PROVE  /\ \/ f.kind = "text" /\ f.data \in Seq(Byte \ Newline)
            \/ f.kind = "binary" /\ f.data \in Seq(Byte) /\ f.len = Len(f.data)
               /\ f.len \in 1..MAX_BUF /\ f.len \in Byte
            \/ f.kind = "badlength" /\ f.data \in Seq(Byte) /\ f.len \in Byte
            \/ f.kind = "listen"
         /\ f.kind # "line"
BY FrameAssumption

\* What clients of the control port send.
LEMMA ControlFrame ==
  ASSUME NEW f \in ControlFrames
  PROVE  /\ f.kind = "line" /\ f.data \in Seq(Ascii \ Newline)
         /\ f.lead \in Seq(0..Space - 1 \ Newline)
         /\ f.data # <<>> => Head(f.data) >= Space
BY FrameAssumption

\* The sequences of some bytes are sequences of bytes.
LEMMA SubBytes ==
  ASSUME NEW S \in SUBSET Byte, NEW s \in Seq(S)
  PROVE  s \in Seq(Byte)
OBVIOUS

\* A text consists of bytes.
LEMMA TextData == ASSUME NEW s \in Seq(Byte \ Newline) PROVE s \in Seq(Byte)
<1>1. Byte \ Newline \in SUBSET Byte
  OBVIOUS
<1> QED BY <1>1, SubBytes, Zenon

\* A line consists of bytes.
LEMMA LineData ==
  /\ \A s \in Seq(Ascii \ Newline) : s \in Seq(Byte)
  /\ \A s \in Seq(0..Space - 1 \ Newline) : s \in Seq(Byte)
<1>1. Ascii \ Newline \in SUBSET Byte /\ (0..Space - 1 \ Newline) \in SUBSET Byte
  BY DEF Ascii, Byte, Space
<1> QED BY <1>1, SubBytes, Zenon

\* What a client sends are bytes.
LEMMA BytesType == ASSUME NEW f \in Frame PROVE Bytes(f) \in Seq(Byte)
<1>1. <<C>> \in Seq(Byte) /\ <<L>> \in Seq(Byte) /\ <<LF>> \in Seq(Byte)
      /\ <<CR, LF>> \in Seq(Byte)
  BY Marks
<1>2. \A s, t \in Seq(Byte) : s \o t \in Seq(Byte)
  OBVIOUS
<1>3. ASSUME f \in ControlFrames PROVE Bytes(f) \in Seq(Byte)
  <2>1. f.kind = "line" /\ f.data \in Seq(Byte) /\ f.lead \in Seq(Byte)
    BY <1>3, ControlFrame, LineData
  <2>2. Bytes(f) = f.lead \o f.data \o <<LF>>
    BY <2>1 DEF Bytes
  <2> QED BY <1>1, <1>2, <2>1, <2>2
<1>4. ASSUME f \in NodeFrames PROVE Bytes(f) \in Seq(Byte)
  <2>1. CASE f.kind = "text"
    <3>1. f.data \in Seq(Byte)
      BY <1>4, <2>1, NodeFrame, TextData
    <3>2. Bytes(f) = <<C>> \o f.data \o <<CR, LF>>
      BY <2>1 DEF Bytes
    <3> QED BY <1>1, <1>2, <3>1, <3>2
  <2>2. CASE f.kind \in {"binary", "badlength"}
    <3>1. f.data \in Seq(Byte) /\ f.len \in Byte
      BY <1>4, <2>2, NodeFrame
    <3>2. Bytes(f) = <<B, f.len>> \o f.data
      BY <2>2 DEF Bytes
    <3>3. <<B, f.len>> \in Seq(Byte)
      BY <3>1, Marks
    <3> QED BY <1>2, <3>1, <3>2, <3>3
  <2>3. CASE f.kind = "listen"
    BY <1>1, <2>3 DEF Bytes
  <2> QED BY <1>4, <2>1, <2>2, <2>3, NodeFrame
<1> QED BY <1>3, <1>4 DEF Frame

\* What a session on each port may do.
LEMMA DeedTypes ==
  ASSUME NEW q
  PROVE  /\ DeedOf(q) \subseteq Deed
         /\ \A s \in Seq(DeedOf(q)) : s \in Seq(Deed)
         /\ \A d \in DeedOf(CONTROL) : d.op \notin {"listen", "command", "overrun"}
<1>1. DeedOf(q) \subseteq Deed
  BY DEF DeedOf
<1>2. \A s \in Seq(DeedOf(q)) : s \in Seq(Deed)
  <2> DEFINE D == DeedOf(q)
  <2> HIDE DEF D
  <2>1. \A s \in Seq(D) : s \in Seq(Deed)
    BY <1>1 DEF D
  <2> QED BY <2>1 DEF D
<1>3. \A d \in DeedOf(CONTROL) : d.op \in {"line", "list", "exit"}
  BY DEF DeedOf
<1> QED BY <1>1, <1>2, <1>3

\* The deeds of one read are finitely many.
LEMMA DeedsFinite ==
  ASSUME NEW r, NEW D, r.did \in Seq(D), NEW deeds \in SUBSET DOMAIN r.did
  PROVE  IsFiniteSet(deeds)
<1>1. DOMAIN r.did = 1..Len(r.did) /\ Len(r.did) \in Int /\ 1 \in Int
  OBVIOUS
<1>2. IsFiniteSet(1..Len(r.did))
  BY <1>1, FS_Interval
<1> QED BY <1>1, <1>2, FS_Subset

\* A sequence of one thing.
LEMMA TimesType ==
  ASSUME NEW deeds, IsFiniteSet(deeds), NEW S, NEW x \in S
  PROVE  /\ Times(deeds, x) \in Seq(S)
         /\ \A j \in DOMAIN Times(deeds, x) : Times(deeds, x)[j] = x
         /\ deeds = {} => Times(deeds, x) = <<>>
<1>1. Cardinality(deeds) \in Nat /\ (deeds = {} => Cardinality(deeds) = 0)
  BY FS_CardinalityType, FS_EmptySet
<1> DEFINE n == Cardinality(deeds)
<1> HIDE DEF n
<1>2. [j \in 1..n |-> x] \in Seq(S)
  BY <1>1 DEF n
<1>3. n = 0 => [j \in 1..n |-> x] = <<>>
  OBVIOUS
<1> QED BY <1>1, <1>2, <1>3 DEF Times, n

\* What WriteTo writes goes to owners of the addresses; nothing ends the daemon
\* when each of them has one.
LEMMA Writing ==
  ASSUME NEW ms \in Seq(Streams), NEW what \in What,
         NEW asker \in Conns \cup {NULL}, WriteTo(ms, what, asker)
  PROVE  /\ wrote' \in Seq([to : Conns, what : What, asker : Conns \cup {NULL}])
         /\ \A j \in DOMAIN wrote' :
              /\ wrote'[j].what = what /\ wrote'[j].asker = asker
              /\ \E k \in DOMAIN ms : wrote'[j].to \in Owners(ms[k])
         /\ \A k \in DOMAIN ms : Owners(ms[k]) # {} =>
              \E j \in DOMAIN wrote' : wrote'[j].to \in Owners(ms[k])
         /\ crashed' = crashed \/ crashed' = what
         /\ (\A k \in DOMAIN ms : Owners(ms[k]) # {}) => crashed' = crashed
<1> DEFINE K == {m \in Streams : Owners(m) # {}}
           live == Kept(ms, K)
           R == [to : Conns, what : What, asker : Conns \cup {NULL}]
<1>1. /\ wrote' = [j \in DOMAIN live |-> Written(live[j], what, asker)]
      /\ \/ crashed' = crashed
         \/ live # ms /\ crashed' = what
  BY DEF WriteTo
<1>2. live \in Seq(Streams)
  BY KeptTyped
<1>3. \A j \in DOMAIN live : live[j] \in K /\ \E k \in DOMAIN ms : live[j] = ms[k]
  <2> HIDE DEF K
  <2> QED BY KeptMember
<1>4. (\A k \in DOMAIN ms : ms[k] \in K) => live = ms
  <2> HIDE DEF K
  <2> QED BY KeptAll
<1>5. \A k \in DOMAIN ms : ms[k] \in K => \E j \in DOMAIN live : live[j] = ms[k]
  <2> HIDE DEF K
  <2> QED BY KeptHas
<1>6. \A k \in DOMAIN ms : ms[k] \in Streams
  OBVIOUS
<1>7. \A m \in K : (CHOOSE c \in Owners(m) : TRUE) \in Owners(m) /\ Owners(m) \subseteq Conns
  BY DEF Owners
<1>8. \A m \in K : /\ Written(m, what, asker) \in R
                   /\ Written(m, what, asker).to \in Owners(m)
                   /\ Written(m, what, asker).what = what
                   /\ Written(m, what, asker).asker = asker
  <2> HIDE DEF K
  <2> QED BY <1>7 DEF Written
<1> HIDE DEF live
<1>9. \A j \in DOMAIN live : wrote'[j] = Written(live[j], what, asker)
  BY <1>1
<1>10. DOMAIN wrote' = DOMAIN live /\ DOMAIN live = 1..Len(live) /\ Len(live) \in Nat
  BY <1>1, <1>2
<1>11. wrote' \in Seq(R)
  <2>1. \A j \in 1..Len(live) : Written(live[j], what, asker) \in R
    <3> HIDE DEF K, R
    <3> QED BY <1>3, <1>8, <1>10
  <2> HIDE DEF R
  <2> QED BY <1>1, <1>10, <2>1
<1>12. \A j \in DOMAIN wrote' :
         /\ wrote'[j].what = what /\ wrote'[j].asker = asker
         /\ \E k \in DOMAIN ms : wrote'[j].to \in Owners(ms[k])
  <2> SUFFICES ASSUME NEW j \in DOMAIN wrote'
               PROVE  /\ wrote'[j].what = what /\ wrote'[j].asker = asker
                      /\ \E k \in DOMAIN ms : wrote'[j].to \in Owners(ms[k])
    OBVIOUS
  <2> HIDE DEF K, R
  <2>1. j \in DOMAIN live /\ live[j] \in K /\ wrote'[j] = Written(live[j], what, asker)
    BY <1>3, <1>9, <1>10
  <2>2. PICK k \in DOMAIN ms : live[j] = ms[k]
    BY <1>3, <2>1
  <2> QED BY <1>8, <2>1, <2>2, Zenon
<1>13. \A k \in DOMAIN ms : Owners(ms[k]) # {} => ms[k] \in K
  BY <1>6
<1>14. \A k \in DOMAIN ms : Owners(ms[k]) # {} =>
         \E j \in DOMAIN wrote' : wrote'[j].to \in Owners(ms[k])
  <2> HIDE DEF K, R
  <2> QED BY <1>3, <1>5, <1>8, <1>9, <1>10, <1>13, Zenon
<1>15. (\A k \in DOMAIN ms : Owners(ms[k]) # {}) => crashed' = crashed
  <2> HIDE DEF K, R
  <2> QED BY <1>1, <1>4, <1>13, Zenon
<1> QED BY <1>1, <1>11, <1>12, <1>14, <1>15

-----------------------------------------------------------------------------
(* The sessions keep their types *)

\* A new parser belongs to every port.
LEMMA NewParserType == ASSUME NEW q PROVE NewParser \in ParserOf(q) /\ NewParser.state = 0
<1>1. 0 \in States(q) /\ <<>> \in Seq(Byte) /\ 0 \in Int /\ Len(<<>>) <= MAX_BUF
  BY TcpAssumption DEF States
<1>2. At(0, <<>>, 0) \in ParserOf(q)
  BY <1>1, AtType, Zenon
<1> QED BY <1>2, AtFields

\* No session yet.
LEMMA SessionsInit == Init => Sessions
<1> SUFFICES ASSUME Init PROVE Sessions
  OBVIOUS
<1>1. \A c \in Conns : nb[c] \in ParserOf(port[c]) /\ nb[c] = NewParser
  BY NewParserType DEF Init
<1>2. NewParser \in Parser /\ Len(NewParser.cmd) <= MAX_BUF
  BY NewParserType DEF ParserOf
<1>3. SessionTypes
  <2>1. nb \in [Conns -> Parser] /\ \A c \in Conns : Len(nb[c].cmd) <= MAX_BUF
    BY <1>1, <1>2 DEF Init
  <2>2. wrote \in Seq([to : Conns, what : What, asker : Conns \cup {NULL}])
    BY DEF Init
  <2>3. CONTROL \in Port /\ 0 \in 0..MaxFrames
    BY TcpAssumption DEF Port
  <2>4. listeners \in [Index -> Seq(Streams)] /\ port \in [Conns -> Port]
        /\ unread \in [Conns -> Seq(Byte)] /\ did \in [Conns -> Seq(Deed)]
    BY <2>3 DEF Init
  <2>5. /\ life \in [Conns -> {"none", "open", "stuck", "closed"}]
        /\ out \in [Conns -> Streams \cup {NULL}] /\ frame \in [Conns -> Frame \cup {NULL}]
        /\ frames \in 0..MaxFrames /\ queue \in Seq(Conns) /\ current \in Conns \cup {NULL}
    BY <2>3 DEF Init
  <2>6. proper \in [Conns -> BOOLEAN] /\ careful \in BOOLEAN /\ crashed \in Cause \cup {"no"}
    BY DEF Init
  <2> QED BY <2>1, <2>2, <2>4, <2>5, <2>6 DEF SessionTypes
<1> QED BY <1>1, <1>3 DEF Init, Sessions

\* A client connects.
LEMMA SessionsListener ==
  ASSUME Sessions, NEW c \in Conns, NEW p \in Port, NEW m \in Streams, tcp_listener(c, p, m)
  PROVE  Sessions'
<1>1. /\ life' = [life EXCEPT ![c] = "open"] /\ port' = [port EXCEPT ![c] = p]
      /\ out' = [out EXCEPT ![c] = m] /\ wrote' = <<>>
      /\ UNCHANGED <<nb, frame, unread, proper, frames, careful, did, queue, current, crashed>>
      /\ life[c] = "none" /\ Registered(c, p, m)
  BY DEF tcp_listener, client, packets
<1>2. SessionTypes
  BY DEF Sessions
<1>3. nb[c] = NewParser /\ frame[c] = NULL /\ unread[c] = <<>>
  BY <1>1 DEF Sessions
<1>4. \A d \in Conns : /\ life'[d] = IF d = c THEN "open" ELSE life[d]
                       /\ port'[d] = IF d = c THEN p ELSE port[d]
                       /\ out'[d] = IF d = c THEN m ELSE out[d]
  BY <1>1, <1>2 DEF SessionTypes
<1>5. listeners' \in [Index -> Seq(Streams)]
  BY <1>1, <1>2 DEF SessionTypes, Registered
<1>6. SessionTypes'
  <2>1. /\ life' \in [Conns -> {"none", "open", "stuck", "closed"}]
        /\ port' \in [Conns -> Port] /\ out' \in [Conns -> Streams \cup {NULL}]
    BY <1>1, <1>2 DEF SessionTypes
  <2>2. wrote' \in Seq([to : Conns, what : What, asker : Conns \cup {NULL}])
    BY <1>1
  <2> QED BY <1>1, <1>2, <1>5, <2>1, <2>2 DEF SessionTypes
<1>7. \A d \in Conns : nb'[d] \in ParserOf(port'[d])
  BY <1>1, <1>3, <1>4, NewParserType DEF Sessions
<1>8. \A d \in Conns : (life'[d] # "none" => out'[d] \in Streams)
                    /\ (life'[d] = "open" => nb'[d].state # -1)
  BY <1>1, <1>3, <1>4, NewParserType DEF Sessions
<1>9. \A d \in Conns : life'[d] = "none" =>
        nb'[d] = NewParser /\ frame'[d] = NULL /\ unread'[d] = <<>> /\ did'[d] = <<>>
  BY <1>1, <1>4 DEF Sessions
<1>10. \A d \in Conns : Asking(d) => life'[d] # "none" /\ port'[d] # CONTROL
  BY <1>1, <1>4 DEF Asking
<1>11. /\ \A j \in DOMAIN queue : queue[j] \in Conns /\ Asking(queue[j])
       /\ current # NULL => current \in Conns /\ Asking(current)
  BY <1>2 DEF Sessions, SessionTypes
<1>12. /\ \A j \in DOMAIN queue : life'[queue[j]] # "none" /\ port'[queue[j]] # CONTROL
       /\ current # NULL => life'[current] # "none" /\ port'[current] # CONTROL
  BY <1>10, <1>11
<1> QED BY <1>1, <1>6, <1>7, <1>8, <1>9, <1>12 DEF Sessions, Asking

\* A client sends.
LEMMA SessionsSend ==
  ASSUME Sessions, NEW c \in Conns, NEW f \in Frame, Send(c, f)
  PROVE  Sessions'
<1>1. /\ frame' = [frame EXCEPT ![c] = f] /\ unread' = [unread EXCEPT ![c] = Bytes(f)]
      /\ did' = [did EXCEPT ![c] = <<>>] /\ frames' = frames + 1 /\ frames < MaxFrames
      /\ proper' = [proper EXCEPT ![c] = @ /\ f.kind # "badlength"]
      /\ careful' \in BOOLEAN /\ wrote' = <<>> /\ life[c] = "open"
      /\ UNCHANGED <<life, port, out, nb, listeners, queue, current, crashed>>
  BY DEF Send, packets
<1>2. SessionTypes
  BY DEF Sessions
<1>3. \A d \in Conns : d # c =>
        frame'[d] = frame[d] /\ unread'[d] = unread[d] /\ did'[d] = did[d]
  BY <1>1, <1>2 DEF SessionTypes
<1>4. SessionTypes'
  <2>1. Bytes(f) \in Seq(Byte)
    BY BytesType
  <2>2. /\ frame' \in [Conns -> Frame \cup {NULL}] /\ unread' \in [Conns -> Seq(Byte)]
        /\ did' \in [Conns -> Seq(Deed)] /\ proper' \in [Conns -> BOOLEAN]
    BY <1>1, <1>2, <2>1 DEF SessionTypes
  <2>3. frames' \in 0..MaxFrames
    BY <1>1, <1>2, TcpAssumption DEF SessionTypes
  <2>4. wrote' \in Seq([to : Conns, what : What, asker : Conns \cup {NULL}])
    BY <1>1
  <2> QED BY <1>1, <1>2, <2>2, <2>3, <2>4 DEF SessionTypes
<1>5. \A d \in Conns : life'[d] = "none" =>
        nb'[d] = NewParser /\ frame'[d] = NULL /\ unread'[d] = <<>> /\ did'[d] = <<>>
  BY <1>1, <1>3 DEF Sessions
<1> QED BY <1>1, <1>4, <1>5 DEF Sessions, Asking

\* Nothing is read from a session any more.
LEMMA SessionsEnds ==
  ASSUME Sessions, NEW c \in Conns, NEW how \in {"closed", "stuck"}, Ends(c, how),
         life[c] = "open",
         UNCHANGED <<port, out, proper, frames, queue, current>>,
         careful' \in BOOLEAN, crashed' \in Cause \cup {"no"}, wrote' = <<>>,
         listeners' \in [Index -> Seq(Streams)]
  PROVE  Sessions'
<1>1. SessionTypes
  BY DEF Sessions
<1>2. \A d \in Conns : /\ life'[d] = IF d = c THEN how ELSE life[d]
                       /\ nb'[d] = IF d = c THEN NewParser ELSE nb[d]
                       /\ d # c => /\ frame'[d] = frame[d] /\ unread'[d] = unread[d]
                                   /\ did'[d] = did[d]
  BY <1>1 DEF SessionTypes, Ends
<1>3. \A d \in Conns : nb'[d] \in ParserOf(port'[d])
  BY <1>2, NewParserType DEF Sessions
<1>4. SessionTypes'
  <2>1. nb' = [d \in Conns |-> nb'[d]]
    BY <1>1 DEF SessionTypes, Ends
  <2>2. \A d \in Conns : nb'[d] \in Parser /\ Len(nb'[d].cmd) <= MAX_BUF
    BY <1>3 DEF ParserOf
  <2>3. nb' \in [Conns -> Parser]
    BY <2>1, <2>2
  <2>4. /\ life' \in [Conns -> {"none", "open", "stuck", "closed"}]
        /\ frame' \in [Conns -> Frame \cup {NULL}] /\ unread' \in [Conns -> Seq(Byte)]
        /\ did' \in [Conns -> Seq(Deed)]
    BY <1>1 DEF SessionTypes, Ends
  <2>5. wrote' \in Seq([to : Conns, what : What, asker : Conns \cup {NULL}])
    OBVIOUS
  <2> QED BY <1>1, <2>2, <2>3, <2>4, <2>5 DEF SessionTypes
<1>5. \A d \in Conns : life'[d] = "none" =>
        nb'[d] = NewParser /\ frame'[d] = NULL /\ unread'[d] = <<>> /\ did'[d] = <<>>
  BY <1>2 DEF Sessions
<1>6. \A d \in Conns : (life'[d] # "none" => out'[d] \in Streams)
                    /\ (life'[d] = "open" => nb'[d].state # -1)
  BY <1>2 DEF Sessions
<1>7. \A d \in Conns : Asking(d) => life'[d] # "none" /\ port'[d] # CONTROL
  BY <1>2 DEF Asking
<1>8. /\ \A j \in DOMAIN queue : queue[j] \in Conns /\ Asking(queue[j])
      /\ current # NULL => current \in Conns /\ Asking(current)
  BY <1>1 DEF Sessions, SessionTypes
<1>9. /\ \A j \in DOMAIN queue : life'[queue[j]] # "none" /\ port'[queue[j]] # CONTROL
      /\ current # NULL => life'[current] # "none" /\ port'[current] # CONTROL
  BY <1>7, <1>8
<1> QED BY <1>3, <1>4, <1>5, <1>6, <1>9 DEF Sessions, Asking

\* What a read does that does not overwrite memory.
ReadWell(c, n, r) ==
  /\ ~Overwrites(c, r) /\ ~ListsNothing(r) /\ crashed' = crashed
  /\ nb' = [nb EXCEPT ![c] = r.p]
  /\ did' = [did EXCEPT ![c] = @ \o r.did]
  /\ unread' = [unread EXCEPT ![c] = SubSeq(@, n + 1, Len(@))]
  /\ listeners' =
       [i \in Index |->
          IF i = ClassId(c)
            THEN Times(Deeds("listen", r), out[c]) \o listeners[i]
            ELSE listeners[i]]
  /\ queue' = queue \o Times(Commands(r), c)
  /\ wrote' = <<>>
  /\ life' = [life EXCEPT ![c] = IF r.p.state = -1 THEN "closed" ELSE @]

\* A read, with its result taken apart.
LEMMA Reading ==
  ASSUME Sessions, NEW c \in Conns, NEW n \in 1..Len(unread[c]), Read(c, n)
  PROVE  /\ life[c] = "open"
         /\ UNCHANGED <<port, out, frame, proper, frames, careful, current>>
         /\ SubSeq(unread[c], 1, n) \in Seq(Byte)
         /\ \E r \in After(port[c]) :
              /\ r = Parsed(port[c], nb[c], SubSeq(unread[c], 1, n))
              /\ \/ /\ (Overwrites(c, r) \/ ListsNothing(r)) /\ crashed' \in Cause
                    /\ UNCHANGED <<life, nb, unread, did, listeners, queue, wrote>>
                 \/ ReadWell(c, n, r)
<1> DEFINE r == Parsed(port[c], nb[c], SubSeq(unread[c], 1, n))
<1>1. unread[c] \in Seq(Byte) /\ nb[c] \in ParserOf(port[c])
  BY DEF Sessions, SessionTypes
<1>2. SubSeq(unread[c], 1, n) \in Seq(Byte)
  BY <1>1
<1>3. r \in After(port[c])
  BY <1>1, <1>2, ParsedType
<1>4. /\ life[c] = "open" /\ UNCHANGED <<port, out, frame, proper, frames, careful, current>>
      /\ \/ /\ (Overwrites(c, r) \/ ListsNothing(r)) /\ crashed' \in Cause
            /\ UNCHANGED <<life, nb, unread, did, listeners, queue, wrote>>
         \/ ReadWell(c, n, r)
  BY DEF Read, ReadWell, Cause
<1> HIDE DEF r
<1> QED BY <1>2, <1>3, <1>4 DEF r

\* The deeds of a read are finitely many; on the control port there are no
\* commands and no registrations.
LEMMA ReadDeeds ==
  ASSUME NEW q, NEW r \in After(q)
  PROVE  /\ \A op : IsFiniteSet(Deeds(op, r)) /\ IsFiniteSet(Commands(r))
         /\ r.p \in ParserOf(q) /\ r.did \in Seq(DeedOf(q)) /\ r.did \in Seq(Deed)
         /\ q = CONTROL => Deeds("listen", r) = {} /\ Deeds("command", r) = {}
                           /\ Commands(r) = {} /\ Deeds("overrun", r) = {}
         /\ q # CONTROL => r.p.state # -1
<1>1. r.p \in ParserOf(q) /\ r.did \in Seq(DeedOf(q))
  BY DEF After
<1>2. \A op : Deeds(op, r) \in SUBSET DOMAIN r.did /\ Commands(r) \in SUBSET DOMAIN r.did
  BY DEF Deeds, Commands
<1>3. \A op : IsFiniteSet(Deeds(op, r)) /\ IsFiniteSet(Commands(r))
  BY <1>1, <1>2, DeedsFinite
<1>4. ASSUME q = CONTROL
      PROVE  /\ Deeds("listen", r) = {} /\ Deeds("command", r) = {}
             /\ Commands(r) = {} /\ Deeds("overrun", r) = {}
  <2>1. \A j \in DOMAIN r.did : r.did[j].op \notin {"listen", "command", "overrun"}
    <3>1. \A j \in DOMAIN r.did : r.did[j] \in DeedOf(CONTROL)
      BY <1>1, <1>4
    <3> QED BY <3>1, DeedTypes
  <2> QED BY <2>1 DEF Deeds, Commands
<1>5. q # CONTROL => r.p.state # -1
  BY <1>1 DEF ParserOf, States
<1> QED BY <1>1, <1>3, <1>4, <1>5, DeedTypes

\* A client is read from.
LEMMA SessionsRead ==
  ASSUME Sessions, NEW c \in Conns, NEW n \in 1..Len(unread[c]), Read(c, n)
  PROVE  Sessions'
<1>1. SessionTypes
  BY DEF Sessions
<1>2. PICK r \in After(port[c]) :
        \/ crashed' \in Cause /\ UNCHANGED <<life, nb, unread, did, listeners, queue, wrote>>
        \/ ReadWell(c, n, r)
  BY Reading
<1>3. life[c] = "open" /\ UNCHANGED <<port, out, frame, proper, frames, careful, current>>
  BY Reading
<1>4. CASE crashed' \in Cause /\ UNCHANGED <<life, nb, unread, did, listeners, queue, wrote>>
  BY <1>3, <1>4 DEF Sessions, SessionTypes, Asking
<1>5. CASE ReadWell(c, n, r)
  <2>1. /\ IsFiniteSet(Deeds("listen", r)) /\ IsFiniteSet(Commands(r))
        /\ r.p \in ParserOf(port[c]) /\ r.did \in Seq(Deed)
        /\ port[c] = CONTROL => Commands(r) = {}
    BY ReadDeeds
  <2>2. out[c] \in Streams /\ unread[c] \in Seq(Byte) /\ did[c] \in Seq(Deed)
    BY <1>1, <1>3 DEF Sessions, SessionTypes
  <2> DEFINE tl == Times(Deeds("listen", r), out[c])
             tc == Times(Commands(r), c)
  <2>3. tl \in Seq(Streams)
    BY <2>1, <2>2, TimesType
  <2>4. tc \in Seq(Conns) /\ (\A j \in DOMAIN tc : tc[j] = c)
        /\ (port[c] = CONTROL => tc = <<>>)
    BY <2>1, TimesType
  <2>5. /\ \A d \in Conns : /\ nb'[d] = IF d = c THEN r.p ELSE nb[d]
                            /\ d # c => life'[d] = life[d] /\ did'[d] = did[d]
                                        /\ unread'[d] = unread[d]
        /\ life'[c] = IF r.p.state = -1 THEN "closed" ELSE "open"
    BY <1>1, <1>3, <1>5 DEF ReadWell, SessionTypes
  <2>6. \A d \in Conns : nb'[d] \in ParserOf(port'[d])
    BY <1>3, <2>1, <2>5 DEF Sessions
  <2>7. SessionTypes'
    <3>1. nb' = [d \in Conns |-> nb'[d]]
      BY <1>1, <1>5 DEF SessionTypes, ReadWell
    <3>2. \A d \in Conns : nb'[d] \in Parser /\ Len(nb'[d].cmd) <= MAX_BUF
      BY <2>6 DEF ParserOf
    <3>3. nb' \in [Conns -> Parser]
      BY <3>1, <3>2
    <3>4. life' \in [Conns -> {"none", "open", "stuck", "closed"}]
      BY <1>1, <1>5 DEF SessionTypes, ReadWell
    <3>5. unread' \in [Conns -> Seq(Byte)]
      <4>1. SubSeq(unread[c], n + 1, Len(unread[c])) \in Seq(Byte)
        BY <2>2
      <4> QED BY <1>1, <1>5, <4>1 DEF SessionTypes, ReadWell
    <3>6. did' \in [Conns -> Seq(Deed)]
      <4>1. did[c] \o r.did \in Seq(Deed)
        BY <2>1, <2>2
      <4> QED BY <1>1, <1>5, <4>1 DEF SessionTypes, ReadWell
    <3>7. listeners' \in [Index -> Seq(Streams)]
      <4>1. \A i \in Index : tl \o listeners[i] \in Seq(Streams)
                                      /\ listeners[i] \in Seq(Streams)
        <5> HIDE DEF tl
        <5> QED BY <1>1, <2>3 DEF SessionTypes
      <4>2. listeners' = [i \in Index |->
                            IF i = ClassId(c) THEN tl \o listeners[i] ELSE listeners[i]]
        BY <1>5 DEF ReadWell
      <4> HIDE DEF tl
      <4> QED BY <4>1, <4>2
    <3>8. queue' \in Seq(Conns)
      <4>1. queue' = queue \o tc
        BY <1>5 DEF ReadWell
      <4> HIDE DEF tc
      <4> QED BY <1>1, <2>4, <4>1 DEF SessionTypes
    <3>9. wrote' \in Seq([to : Conns, what : What, asker : Conns \cup {NULL}])
      BY <1>5 DEF ReadWell
    <3>10. crashed' \in Cause \cup {"no"}
      BY <1>1, <1>5 DEF ReadWell, SessionTypes
    <3> QED BY <1>1, <1>3, <3>2, <3>3, <3>4, <3>5, <3>6, <3>7, <3>8, <3>9, <3>10 DEF SessionTypes
  <2>8. \A d \in Conns : /\ life'[d] # "none" => out'[d] \in Streams
                         /\ life'[d] = "open" => nb'[d].state # -1
                         /\ life'[d] = "none" => /\ nb'[d] = NewParser /\ frame'[d] = NULL
                                                 /\ unread'[d] = <<>> /\ did'[d] = <<>>
    BY <1>3, <2>5 DEF Sessions
  <2>9. \A d \in Conns : Asking(d) => life'[d] # "none" /\ port'[d] # CONTROL
    BY <1>3, <2>5 DEF Asking
  <2>10. \A j \in DOMAIN queue' : life'[queue'[j]] # "none" /\ port'[queue'[j]] # CONTROL
    <3>1. queue' = queue \o tc /\ queue \in Seq(Conns)
      BY <1>1, <1>5 DEF ReadWell, SessionTypes
    <3>2. \A j \in DOMAIN queue : Asking(queue[j])
      BY DEF Sessions
    <3>3. port[c] # CONTROL => Asking(c)
      BY <1>3 DEF Asking
    <3> HIDE DEF tc
    <3>4. ASSUME NEW j \in DOMAIN queue' PROVE queue'[j] \in Conns /\ Asking(queue'[j])
      <4>1. CASE j \in DOMAIN queue
        <5>1. queue'[j] = queue[j]
          BY <2>4, <3>1, <4>1
        <5> QED BY <3>1, <3>2, <4>1, <5>1
      <4>2. CASE j \notin DOMAIN queue
        <5>1. j - Len(queue) \in DOMAIN tc /\ queue'[j] = tc[j - Len(queue)]
          BY <2>4, <3>1, <3>4, <4>2
        <5>2. port[c] # CONTROL
          BY <2>4, <5>1
        <5> QED BY <2>4, <3>3, <5>1, <5>2
      <4> QED BY <4>1, <4>2
    <3> QED BY <2>9, <3>4
  <2>11. current # NULL => life'[current] # "none" /\ port'[current] # CONTROL
    BY <1>1, <2>9 DEF Sessions, SessionTypes
  <2> QED BY <1>3, <2>6, <2>7, <2>8, <2>10, <2>11 DEF Sessions, Asking
<1> QED BY <1>2, <1>4, <1>5

\* The packet layer writes to sessions of the queue, to the current session or
\* to the listeners of a class.
LEMMA IndexType == \A class : IndexOf(class) \in Index
<1> SUFFICES ASSUME NEW class PROVE IndexOf(class) \in Index
  OBVIOUS
<1> DEFINE P(i) == \/ classes[i] = class
                      /\ \A j \in Index : classes[j] = class => j <= i
                   \/ i = 0 /\ \A j \in Index : classes[j] # class
<1> DEFINE n == NCLASSES - 1
<1>1. n \in Nat /\ Index = 0..n
  BY TcpAssumption DEF Index
<1> HIDE DEF n
<1>2. CASE \A j \in Index : classes[j] # class
  <2>1. 0 \in Index /\ P(0)
    BY <1>1, <1>2
  <2> HIDE DEF P
  <2>2. \E i \in Index : P(i)
    BY <2>1
  <2>3. (CHOOSE i \in Index : P(i)) \in Index
    BY <2>2
  <2> QED BY <2>3 DEF IndexOf, P
<1>3. CASE \E j \in Index : classes[j] = class
  <2> DEFINE T == {k \in Nat : n - k \in Index /\ classes[n - k] = class}
  <2>1. PICK j \in 0..n : classes[j] = class
    BY <1>1, <1>3
  <2>2. n - j \in T
    BY <1>1, <2>1
  <2>3. PICK k \in T : \A l \in T : ~(l < k)
    <3> HIDE DEF T
    <3>1. T \in SUBSET Nat
      BY DEF T
    <3> QED BY <2>2, <3>1, LeastMember
  <2>4. \A i \in Index : classes[i] = class => i <= n - k
    <3> SUFFICES ASSUME NEW i \in Index, classes[i] = class PROVE i <= n - k
      OBVIOUS
    <3>1. i \in 0..n /\ n - i \in Nat /\ n - (n - i) = i
      BY <1>1
    <3>2. n - i \in T
      BY <3>1
    <3>3. ~(n - i < k)
      <4> HIDE DEF T
      <4> QED BY <2>3, <3>2
    <3>4. k \in Nat /\ n \in Nat
      BY <1>1, <2>3
    <3> QED BY <3>1, <3>3, <3>4
  <2>5. n - k \in Index /\ P(n - k)
    BY <2>3, <2>4
  <2> HIDE DEF P
  <2>6. \E i \in Index : P(i)
    BY <2>5
  <2>7. (CHOOSE i \in Index : P(i)) \in Index
    BY <2>6
  <2> QED BY <2>7 DEF IndexOf, P
<1> QED BY <1>2, <1>3

\* Where the packet layer writes to.
LEMMA Addressed ==
  ASSUME Sessions, packet_inpacket
  PROVE  /\ UNCHANGED <<node, sessions>>
         /\ queue' \in Seq(Conns) /\ current' \in Conns \cup {NULL}
         /\ \A j \in DOMAIN queue' : \E k \in DOMAIN queue : queue'[j] = queue[k]
         /\ current' # NULL =>
              current' = current \/ \E k \in DOMAIN queue : current' = queue[k]
         /\ \/ \E a \in Conns :
                 /\ Asking(a)
                 /\ \/ /\ \E k \in DOMAIN queue : a = queue[k]
                       /\ WriteTo(<<out[a]>>, "status", a)
                    \/ a = current /\ WriteTo(<<out[a]>>, "reply", a)
            \/ \E i \in Index : WriteTo(listeners[i], "unsolicited", NULL)
<1>1. SessionTypes
  BY DEF Sessions
<1>2. /\ queue \in Seq(Conns) /\ \A j \in DOMAIN queue : Asking(queue[j])
      /\ current # NULL => current \in Conns /\ Asking(current)
  BY DEF Sessions, SessionTypes
<1>3. ASSUME queue # <<>>
      PROVE  /\ Head(queue) \in Conns /\ Tail(queue) \in Seq(Conns)
             /\ 1 \in DOMAIN queue /\ Head(queue) = queue[1]
             /\ \A j \in DOMAIN Tail(queue) :
                  j + 1 \in DOMAIN queue /\ Tail(queue)[j] = queue[j + 1]
  BY <1>2, <1>3
<1>4. CASE packet_done \/ packet_abort
  <2>1. /\ queue # <<>> /\ queue' = Tail(queue) /\ UNCHANGED <<node, sessions>>
        /\ current' \in {Head(queue), NULL}
        /\ WriteTo(<<out[Head(queue)]>>, "status", Head(queue))
    BY <1>4 DEF packet_done, packet_abort
  <2>2. \A j \in DOMAIN queue' : \E k \in DOMAIN queue : queue'[j] = queue[k]
    BY <1>3, <2>1
  <2>3. \E k \in DOMAIN queue : Head(queue) = queue[k]
    BY <1>3, <2>1
  <2>4. Asking(Head(queue))
    BY <1>2, <2>3
  <2> QED BY <1>3, <2>1, <2>2, <2>3, <2>4
<1>5. CASE node_replies
  <2>1. /\ current # NULL /\ UNCHANGED <<node, sessions, packets>>
        /\ WriteTo(<<out[current]>>, "reply", current)
    BY <1>5 DEF node_replies, tcp_reply
  <2> QED BY <1>2, <2>1 DEF packets
<1>6. ASSUME NEW class \in PacketClasses, listen_newMessage(class)
      PROVE  /\ UNCHANGED <<node, sessions, packets>>
             /\ \E i \in Index : WriteTo(listeners[i], "unsolicited", NULL)
  BY <1>6, IndexType DEF listen_newMessage
<1>7. (\E class \in PacketClasses : listen_newMessage(class)) =>
        /\ UNCHANGED <<node, sessions>>
        /\ queue' = queue /\ current' = current
        /\ \E i \in Index : WriteTo(listeners[i], "unsolicited", NULL)
  BY <1>6 DEF packets
<1>8. current \in Conns \cup {NULL}
  BY <1>1 DEF SessionTypes
<1> QED BY <1>2, <1>4, <1>5, <1>7, <1>8 DEF packet_inpacket

\* The packet layer writes addresses, and what it wrote has a type.
LEMMA WritesType ==
  ASSUME Sessions, packet_inpacket
  PROVE  /\ wrote' \in Seq([to : Conns, what : What, asker : Conns \cup {NULL}])
         /\ crashed' \in Cause \cup {"no"}
<1>1. crashed \in Cause \cup {"no"} /\ NULL \in Conns \cup {NULL}
      /\ What \subseteq Cause /\ "status" \in What /\ "reply" \in What /\ "unsolicited" \in What
  BY DEF Sessions, SessionTypes, Cause, What
<1>2. ASSUME NEW a \in Conns, Asking(a), NEW what \in What, WriteTo(<<out[a]>>, what, a)
      PROVE  /\ wrote' \in Seq([to : Conns, what : What, asker : Conns \cup {NULL}])
             /\ crashed' \in Cause \cup {"no"}
  <2>1. <<out[a]>> \in Seq(Streams)
    BY <1>2 DEF Sessions, Asking
  <2> QED BY <1>1, <1>2, <2>1, Writing
<1>3. ASSUME NEW i \in Index, WriteTo(listeners[i], "unsolicited", NULL)
      PROVE  /\ wrote' \in Seq([to : Conns, what : What, asker : Conns \cup {NULL}])
             /\ crashed' \in Cause \cup {"no"}
  <2>1. listeners[i] \in Seq(Streams)
    BY DEF Sessions, SessionTypes
  <2>2. "unsolicited" \in What /\ NULL \in Conns \cup {NULL}
    BY <1>1
  <2>3. /\ wrote' \in Seq([to : Conns, what : What, asker : Conns \cup {NULL}])
        /\ crashed' = crashed \/ crashed' = "unsolicited"
    BY <1>3, <2>1, <2>2, Writing
  <2> QED BY <1>1, <2>3
<1> QED BY <1>1, <1>2, <1>3, Addressed

\* The node announces its classes, its sockets are made, or a client finds one
\* that was replaced: the sessions stay as they are.
NodeActs ==
  \/ \E list \in ClassLists : busmgt_setClasses(list)
  \/ \E n \in 0..NCLASSES : net_createSockets(n)
  \/ \E c \in Conns : ShouldNotHappen(c)
LEMMA Acting ==
  ASSUME NodeActs
  PROVE  /\ UNCHANGED <<life, port, out, nb, frame, unread, proper, frames, careful, did,
                        listeners, queue, current>>
         /\ wrote' = <<>> \/ wrote' = wrote
         /\ crashed' = crashed \/ crashed' = "service"
BY DEF NodeActs, busmgt_setClasses, net_createSockets, ShouldNotHappen, sessions, packets, client

\* An answer or a packet of the node arrives.
LEMMA SessionsPacket == ASSUME Sessions, packet_inpacket PROVE Sessions'
<1>1. /\ UNCHANGED <<life, port, out, nb, frame, unread, proper, frames, careful, did,
                     listeners>>
      /\ queue' \in Seq(Conns) /\ current' \in Conns \cup {NULL}
      /\ \A j \in DOMAIN queue' : \E k \in DOMAIN queue : queue'[j] = queue[k]
      /\ current' # NULL =>
           current' = current \/ \E k \in DOMAIN queue : current' = queue[k]
  BY Addressed DEF sessions, client
<1>2. SessionTypes'
  BY <1>1, WritesType DEF Sessions, SessionTypes
<1>3. \A j \in DOMAIN queue' : life[queue'[j]] # "none" /\ port[queue'[j]] # CONTROL
  BY <1>1 DEF Sessions, Asking
<1>4. current' # NULL => life[current'] # "none" /\ port[current'] # CONTROL
  BY <1>1 DEF Sessions, Asking
<1> QED BY <1>1, <1>2, <1>3, <1>4 DEF Sessions, Asking

\* A client closes the connection.
LEMMA SessionsEof == ASSUME Sessions, NEW c \in Conns, Eof(c) PROVE Sessions'
<1>1. /\ life[c] = "open" /\ wrote' = <<>> /\ UNCHANGED <<port, out, proper, frames, queue, current>>
      /\ careful' = (careful /\ port[c] # CONTROL /\ c \notin ToSet(queue))
  BY DEF Eof, packets
<1>2. careful' \in BOOLEAN /\ crashed \in Cause \cup {"no"}
  BY <1>1 DEF Sessions, SessionTypes
<1>3. CASE port[c] = CONTROL
  <2>1. crashed' \in Cause /\ UNCHANGED <<life, listeners, unread, nb, frame, did>>
    BY <1>3 DEF Eof, Cause
  <2>2. wrote' \in Seq([to : Conns, what : What, asker : Conns \cup {NULL}])
    BY <1>1
  <2>3. SessionTypes'
    BY <1>1, <1>2, <2>1, <2>2 DEF Sessions, SessionTypes
  <2> QED BY <1>1, <2>1, <2>3 DEF Sessions, Asking
<1>4. CASE port[c] # CONTROL
  <2>1. /\ listeners' = [listeners EXCEPT ![ClassId(c)] = AllRemoved(ClassId(c), out[c])]
        /\ Ends(c, "closed") /\ crashed' = crashed
    BY <1>4 DEF Eof
  <2>2. \A i \in Index : AllRemoved(i, out[c]) \in Seq(Streams)
    BY KeptTyped DEF AllRemoved, Sessions, SessionTypes
  <2>3. listeners' \in [Index -> Seq(Streams)]
    BY <2>1, <2>2 DEF Sessions, SessionTypes
  <2> QED BY <1>1, <1>2, <2>1, <2>3, SessionsEnds
<1> QED BY <1>3, <1>4

\* Every step keeps the types.
LEMMA SessionsStep == Sessions /\ [Next]_vars => Sessions'
<1> SUFFICES ASSUME Sessions, [Next]_vars PROVE Sessions'
  OBVIOUS
<1>1. ASSUME NEW c \in Conns, ReadError(c) PROVE Sessions'
  <2>1. /\ life[c] = "open" /\ Ends(c, "stuck") /\ wrote' = <<>>
        /\ UNCHANGED <<port, out, proper, frames, careful, listeners, queue, current, crashed>>
    BY <1>1 DEF ReadError, packets
  <2>2. careful' \in BOOLEAN /\ crashed' \in Cause \cup {"no"}
        /\ listeners' \in [Index -> Seq(Streams)]
    BY <2>1 DEF Sessions, SessionTypes
  <2> QED BY <2>1, <2>2, SessionsEnds
<1>2. CASE UNCHANGED vars
  BY <1>2 DEF vars, client, packets, Sessions, SessionTypes, Asking
<1>3. CASE NodeActs
  <2> DEFINE R == Seq([to : Conns, what : What, asker : Conns \cup {NULL}])
  <2>1. wrote \in R /\ <<>> \in R
    BY DEF Sessions, SessionTypes
  <2>2. crashed' \in Cause \cup {"no"}
    BY <1>3, Acting DEF Sessions, SessionTypes, Cause
  <2>3. wrote' \in R
    <3> HIDE DEF R
    <3> QED BY <1>3, <2>1, Acting
  <2> QED BY <1>3, <2>2, <2>3, Acting DEF Sessions, SessionTypes, Asking
<1> QED BY <1>1, <1>2, <1>3, SessionsListener, SessionsSend, SessionsRead, SessionsPacket,
           SessionsEof DEF Next, NodeActs, tcp_listener_read

\* Nothing was announced, no port is open.
LEMMA NodeInit == Init => NodeTypes
<1> SUFFICES ASSUME Init PROVE NodeTypes
  OBVIOUS
<1>1. /\ classes = [i \in Index |-> 0] /\ bound = [p \in NodePort |-> 0]
      /\ portclass = [c \in Conns |-> 0]
      /\ strays = {} /\ asked = FALSE /\ discovered = 0
  BY DEF Init
<1>2. 0 \in 0..MaxDiscoveries
  BY TcpAssumption
<1> QED BY <1>1, <1>2 DEF NodeTypes

\* Classes, ports and their numbers keep their types.
LEMMA NodeStep == NodeTypes /\ [Next]_vars => NodeTypes'
<1> SUFFICES ASSUME NodeTypes, [Next]_vars PROVE NodeTypes'
  OBVIOUS
<1>1. ASSUME NEW c \in Conns, NEW p \in Port, NEW m \in Streams, tcp_listener(c, p, m)
      PROVE  NodeTypes'
  <2>1. UNCHANGED node /\ portclass' = [portclass EXCEPT ![c] = IF p = CONTROL THEN 0 ELSE bound[p]]
    BY <1>1 DEF tcp_listener
  <2>2. (IF p = CONTROL THEN 0 ELSE bound[p]) \in Nat
    BY DEF NodeTypes, Port
  <2> QED BY <2>1, <2>2 DEF NodeTypes, node
<1>2. ASSUME UNCHANGED <<node, portclass>> PROVE NodeTypes'
  BY <1>2 DEF NodeTypes, node
<1>3. ASSUME NEW c \in Conns, tcp_listener_read(c) PROVE UNCHANGED <<node, portclass>>
  BY <1>3 DEF tcp_listener_read, Eof, ReadError, Read
<1>4. packet_inpacket => UNCHANGED <<node, portclass>>
  BY DEF packet_inpacket, packet_done, packet_abort, node_replies, listen_newMessage, sessions
<1>5. ASSUME NEW c \in Conns, NEW f \in Frame, Send(c, f) PROVE UNCHANGED <<node, portclass>>
  BY <1>5 DEF Send
<1>6. ASSUME NEW c \in Conns, ShouldNotHappen(c) PROVE UNCHANGED <<node, portclass>>
  BY <1>6 DEF ShouldNotHappen, sessions
<1>7. ASSUME NEW list \in ClassLists, busmgt_setClasses(list) PROVE NodeTypes'
  BY <1>7, TcpAssumption DEF busmgt_setClasses, sessions, NodeTypes, Index
<1>8. ASSUME NEW n \in 0..NCLASSES, net_createSockets(n) PROVE NodeTypes'
  <2>1. /\ UNCHANGED <<classes, discovered, portclass>> /\ asked' = FALSE
        /\ strays' = strays \cup ({bound[i] : i \in Made(n)} \ {0})
    BY <1>8 DEF net_createSockets, sessions
  <2>2. PICK mgt \in BOOLEAN :
          bound' = [p \in NodePort |->
                      IF p \in Made(n) THEN classes[p]
                      ELSE IF p = MGT /\ mgt THEN MgtClass ELSE bound[p]]
    BY <1>8 DEF net_createSockets
  <2>3. Made(n) \subseteq Index /\ Index \subseteq NodePort /\ MgtClass \in Nat
    BY DEF Made, NodePort, MgtClass
  <2>4. \A p \in NodePort : (IF p \in Made(n) THEN classes[p]
                             ELSE IF p = MGT /\ mgt THEN MgtClass ELSE bound[p]) \in Nat
    BY <2>3 DEF NodeTypes
  <2>5. bound' \in [NodePort -> Nat]
    BY <2>2, <2>4
  <2>6. strays' \in SUBSET Nat
    BY <2>1, <2>3 DEF NodeTypes
  <2> QED BY <2>1, <2>5, <2>6 DEF NodeTypes
<1>9. UNCHANGED vars => UNCHANGED <<node, portclass>>
  BY DEF vars
<1> QED BY <1>1, <1>2, <1>3, <1>4, <1>5, <1>6, <1>7, <1>8, <1>9 DEF Next

\* What the daemon keeps about its sessions and their node has the expected
\* types: the buffer for a command never holds more than its size.
THEOREM SessionsTyped == Spec => []TypeOK
<1>1. Sessions /\ NodeTypes => TypeOK
  BY DEF Sessions, TypeOK
<1>2. Init => Sessions /\ NodeTypes
  BY SessionsInit, NodeInit
<1>3. (Sessions /\ NodeTypes) /\ [Next]_vars => (Sessions /\ NodeTypes)'
  BY SessionsStep, NodeStep
<1> QED BY <1>1, <1>2, <1>3, PTL DEF Spec

-----------------------------------------------------------------------------
(* Who listens *)

\* A stream belongs to a session that may listen to this class.
Hears(c, i, m) == Live(c) /\ out[c] = m /\ ClassId(c) = i /\ port[c] # CONTROL

\* ListenersAreLive by positions in the lists.
LEMMA ListenersHear ==
  ListenersAreLive <=>
    \A i \in Index : \A j \in DOMAIN listeners[i] :
      \E c \in Conns : Hears(c, i, listeners[i][j])
BY DEF ListenersAreLive, Hears, Owners, ToSet

\* What happens to sessions, streams and listeners in a step.
LEMMA Comings ==
  ASSUME Sessions, [Next]_vars
  PROVE  \/ \E c \in Conns, p \in Port, m \in Streams :
              /\ life[c] = "none" /\ Owners(m) = {} /\ Registered(c, p, m)
              /\ \A d \in Conns : /\ life'[d] = IF d = c THEN "open" ELSE life[d]
                                  /\ port'[d] = IF d = c THEN p ELSE port[d]
                                  /\ out'[d] = IF d = c THEN m ELSE out[d]
         \/ /\ UNCHANGED <<port, out>>
            /\ \/ \E c \in Conns : \E n \in 1..Len(unread[c]), r \in After(port[c]) :
                    life[c] = "open" /\ ReadWell(c, n, r)
               \/ \E c \in Conns :
                    /\ port[c] # CONTROL /\ life[c] = "open"
                    /\ \A d \in Conns : life'[d] = IF d = c THEN "closed" ELSE life[d]
                    /\ listeners' = [listeners EXCEPT
                                       ![ClassId(c)] = AllRemoved(ClassId(c), out[c])]
               \/ /\ UNCHANGED listeners
                  /\ \A d \in Conns :
                       life'[d] = life[d] \/ (life[d] = "open" /\ life'[d] = "stuck")
<1>1. SessionTypes
  BY DEF Sessions
<1>2. ASSUME NEW c \in Conns, NEW p \in Port, NEW m \in Streams, tcp_listener(c, p, m)
      PROVE  /\ life[c] = "none" /\ Owners(m) = {} /\ Registered(c, p, m)
             /\ \A d \in Conns : /\ life'[d] = IF d = c THEN "open" ELSE life[d]
                                 /\ port'[d] = IF d = c THEN p ELSE port[d]
                                 /\ out'[d] = IF d = c THEN m ELSE out[d]
  BY <1>1, <1>2 DEF tcp_listener, SessionTypes
<1>3. ASSUME NEW c \in Conns, NEW n \in 1..Len(unread[c]), Read(c, n)
      PROVE  /\ UNCHANGED <<port, out>>
             /\ \/ UNCHANGED <<life, listeners>>
                \/ \E r \in After(port[c]) : life[c] = "open" /\ ReadWell(c, n, r)
  BY <1>3, Reading
<1>4. ASSUME NEW c \in Conns, Eof(c)
      PROVE  /\ UNCHANGED <<port, out>>
             /\ \/ UNCHANGED <<life, listeners>>
                \/ /\ port[c] # CONTROL /\ life[c] = "open"
                   /\ \A d \in Conns : life'[d] = IF d = c THEN "closed" ELSE life[d]
                   /\ listeners' = [listeners EXCEPT
                                      ![ClassId(c)] = AllRemoved(ClassId(c), out[c])]
  BY <1>1, <1>4 DEF Eof, Ends, SessionTypes
<1>5. ASSUME NEW c \in Conns, ReadError(c)
      PROVE  /\ UNCHANGED <<port, out, listeners>>
             /\ \A d \in Conns :
                  life'[d] = life[d] \/ (life[d] = "open" /\ life'[d] = "stuck")
  BY <1>1, <1>5 DEF ReadError, Ends, SessionTypes
<1>6. ASSUME NEW c \in Conns, NEW f \in Frame, Send(c, f)
      PROVE  UNCHANGED <<life, port, out, listeners>>
  BY <1>6 DEF Send
<1>7. packet_inpacket => UNCHANGED <<life, port, out, listeners>>
  BY Addressed DEF sessions
<1>8. UNCHANGED vars => UNCHANGED <<life, port, out, listeners>>
  BY DEF vars
<1>9. CASE UNCHANGED <<life, port, out, listeners>>
  BY <1>9
<1>10. CASE \E c \in Conns, p \in Port, m \in Streams : tcp_listener(c, p, m)
  BY <1>2, <1>10
<1>11. CASE \E c \in Conns : Eof(c)
  BY <1>4, <1>11
<1>12. CASE \E c \in Conns : ReadError(c)
  BY <1>5, <1>12
<1>13. CASE \E c \in Conns : \E n \in 1..Len(unread[c]) : Read(c, n)
  BY <1>3, <1>13
<1>14. NodeActs => UNCHANGED <<life, port, out, listeners>>
  BY Acting
<1> QED BY <1>6, <1>7, <1>8, <1>9, <1>10, <1>11, <1>12, <1>13, <1>14
        DEF Next, NodeActs, tcp_listener_read

\* After a read a session is connected or was closed by an "exit".
LEMMA ReadLife ==
  ASSUME Sessions, NEW c \in Conns, NEW n \in 1..Len(unread[c]), NEW r \in After(port[c]),
         ReadWell(c, n, r), life[c] = "open"
  PROVE  \A d \in Conns : life'[d] = IF d = c /\ r.p.state = -1 THEN "closed" ELSE life[d]
BY DEF Sessions, SessionTypes, ReadWell

\* A stream is given to a session only when no other one has it.
LEMMA OwnerStep == Sessions /\ OneOwner /\ [Next]_vars => OneOwner'
<1> SUFFICES ASSUME Sessions, OneOwner, [Next]_vars PROVE OneOwner'
  OBVIOUS
<1>1. ASSUME NEW c \in Conns, NEW p \in Port, NEW m \in Streams, Owners(m) = {},
             \A d \in Conns : /\ life'[d] = IF d = c THEN "open" ELSE life[d]
                              /\ out'[d] = IF d = c THEN m ELSE out[d]
      PROVE  OneOwner'
  BY <1>1 DEF OneOwner, Live, Owners
<1>2. ASSUME out' = out, \A d \in Conns : Live(d)' => Live(d)
      PROVE  OneOwner'
  BY <1>2 DEF OneOwner
<1>3. ASSUME NEW c \in Conns, NEW n \in 1..Len(unread[c]), NEW r \in After(port[c]),
             ReadWell(c, n, r), NEW d \in Conns, Live(d)'
      PROVE  Live(d)
  BY <1>3 DEF ReadWell, Sessions, SessionTypes, Live
<1>4. \/ \E c \in Conns, p \in Port, m \in Streams :
           /\ Owners(m) = {}
           /\ \A d \in Conns : /\ life'[d] = IF d = c THEN "open" ELSE life[d]
                               /\ out'[d] = IF d = c THEN m ELSE out[d]
      \/ out' = out /\ \A d \in Conns : Live(d)' => Live(d)
  BY <1>3, Comings DEF Live
<1> QED BY <1>1, <1>2, <1>4

\* The class of a session, by its port.
LEMMA ClassIds ==
  ASSUME Sessions, NEW c \in Conns
  PROVE  /\ port[c] # CONTROL => ClassId(c) \in Index
         /\ port[c] \in Index => ClassId(c) = port[c]
         /\ MGT \notin Index /\ CONTROL \notin Index
<1>1. NCLASSES \in Nat \ {0}
  BY TcpAssumption
<1>2. port[c] \in Port
  BY DEF Sessions, SessionTypes
<1> QED BY <1>1, <1>2 DEF ClassId, Port, NodePort, Index, MGT, CONTROL

\* A listener is removed with its session.
LEMMA ListenersStep ==
  Sessions /\ OneOwner /\ ListenersAreLive /\ [Next]_vars => ListenersAreLive'
<1> SUFFICES ASSUME Sessions, OneOwner, ListenersAreLive, [Next]_vars
             PROVE  \A i \in Index : \A j \in DOMAIN listeners'[i] :
                      \E c \in Conns : Hears(c, i, listeners[i][j])'
  BY DEF ListenersAreLive, Hears, Owners, ToSet
<1>0. /\ SessionTypes
      /\ \A i \in Index : listeners[i] \in Seq(Streams)
  BY DEF Sessions, SessionTypes
<1>1. \A i \in Index : \A j \in DOMAIN listeners[i] :
        \E c \in Conns : Hears(c, i, listeners[i][j])
  BY ListenersHear
<1>2. ASSUME NEW c \in Conns, NEW p \in Port, NEW m \in Streams,
             life[c] = "none", Registered(c, p, m),
             \A d \in Conns : /\ life'[d] = IF d = c THEN "open" ELSE life[d]
                              /\ port'[d] = IF d = c THEN p ELSE port[d]
                              /\ out'[d] = IF d = c THEN m ELSE out[d],
             NEW i \in Index, NEW j \in DOMAIN listeners'[i]
      PROVE  \E d \in Conns : Hears(d, i, listeners[i][j])'
  <2>1. \A d \in Conns : \A x : Hears(d, i, x) =>
          Live(d)' /\ out'[d] = x /\ ClassId(d)' = i /\ port'[d] # CONTROL
    BY <1>2 DEF Hears, Live, ClassId
  <2>2. \A k \in DOMAIN listeners[i] : \E d \in Conns :
          Live(d)' /\ out'[d] = listeners[i][k] /\ ClassId(d)' = i /\ port'[d] # CONTROL
    BY <1>1, <2>1
  <2>3. \/ i = p /\ listeners'[i][j] = m
        \/ \E k \in DOMAIN listeners[i] : listeners'[i][j] = listeners[i][k]
    <3>1. CASE i = p
      <4>1. listeners'[i] = <<m>> \o listeners[i]
        BY <1>2, <3>1 DEF Registered
      <4>2. j = 1 \/ j - 1 \in DOMAIN listeners[i]
        BY <1>0, <1>2, <4>1
      <4>3. (j = 1 => listeners'[i][j] = m)
            /\ (j # 1 => listeners'[i][j] = listeners[i][j - 1])
        BY <1>0, <1>2, <4>1
      <4> QED BY <3>1, <4>2, <4>3
    <3>2. CASE i # p
      BY <1>2, <3>2 DEF Registered
    <3> QED BY <3>1, <3>2
  <2>4. i = p => Live(c)' /\ out'[c] = m /\ ClassId(c)' = i /\ port'[c] # CONTROL
    <3>1. i # MGT /\ i # CONTROL
      BY ClassIds
    <3> QED BY <1>2, <3>1 DEF Live, ClassId
  <2> QED BY <2>2, <2>3, <2>4 DEF Hears
<1>3. ASSUME UNCHANGED <<port, out>>, NEW c \in Conns, NEW n \in 1..Len(unread[c]),
             NEW r \in After(port[c]), ReadWell(c, n, r), life[c] = "open",
             NEW i \in Index, NEW j \in DOMAIN listeners'[i]
      PROVE  \E d \in Conns : Hears(d, i, listeners[i][j])'
  <2> DEFINE tl == Times(Deeds("listen", r), out[c])
  <2>1. /\ IsFiniteSet(Deeds("listen", r)) /\ (port[c] = CONTROL => Deeds("listen", r) = {})
        /\ (port[c] # CONTROL => r.p.state # -1)
    BY ReadDeeds
  <2>2. out[c] \in Streams
    BY <1>3 DEF Sessions
  <2>3. /\ tl \in Seq(Streams) /\ \A k \in DOMAIN tl : tl[k] = out[c]
        /\ port[c] = CONTROL => tl = <<>>
    BY <2>1, <2>2, TimesType
  <2>4. \A d \in Conns : life'[d] = IF d = c /\ r.p.state = -1 THEN "closed" ELSE life[d]
    BY <1>3, ReadLife
  <2>5. \A d \in Conns : \A x : Hears(d, i, x) =>
          Live(d)' /\ out'[d] = x /\ ClassId(d)' = i /\ port'[d] # CONTROL
    BY <1>3, <2>1, <2>4 DEF Hears, Live, ClassId
  <2>6. listeners'[i] = IF i = ClassId(c) THEN tl \o listeners[i] ELSE listeners[i]
    BY <1>3 DEF ReadWell
  <2> HIDE DEF tl
  <2>7. \/ i = ClassId(c) /\ port[c] # CONTROL /\ listeners'[i][j] = out[c]
        \/ \E k \in DOMAIN listeners[i] : listeners'[i][j] = listeners[i][k]
    <3>1. CASE i = ClassId(c)
      <4>1. CASE j \in DOMAIN tl
        <5>1. listeners'[i][j] = out[c] /\ tl # <<>>
          BY <1>0, <2>3, <2>6, <3>1, <4>1
        <5> QED BY <2>3, <3>1, <5>1
      <4>2. CASE j \notin DOMAIN tl
        <5>1. j - Len(tl) \in DOMAIN listeners[i]
              /\ listeners'[i][j] = listeners[i][j - Len(tl)]
          BY <1>0, <1>3, <2>3, <2>6, <3>1, <4>2
        <5> QED BY <5>1
      <4> QED BY <4>1, <4>2
    <3>2. CASE i # ClassId(c)
      BY <1>3, <2>6, <3>2
    <3> QED BY <3>1, <3>2
  <2>8. port[c] # CONTROL /\ i = ClassId(c) => Hears(c, i, out[c])
    BY <1>3 DEF Hears, Live
  <2>9. PICK d \in Conns : Hears(d, i, listeners'[i][j])
    BY <1>1, <2>7, <2>8
  <2> QED BY <2>5, <2>9 DEF Hears
<1>4. ASSUME UNCHANGED <<port, out>>, NEW c \in Conns, port[c] # CONTROL, life[c] = "open",
             \A d \in Conns : life'[d] = IF d = c THEN "closed" ELSE life[d],
             listeners' = [listeners EXCEPT ![ClassId(c)] = AllRemoved(ClassId(c), out[c])],
             NEW i \in Index, NEW j \in DOMAIN listeners'[i]
      PROVE  \E d \in Conns : Hears(d, i, listeners[i][j])'
  <2>1. listeners'[i] = IF i = ClassId(c) THEN AllRemoved(i, out[c]) ELSE listeners[i]
    BY <1>0, <1>4 DEF SessionTypes
  <2>2. /\ \E k \in DOMAIN listeners[i] : listeners'[i][j] = listeners[i][k]
        /\ i = ClassId(c) => listeners'[i][j] # out[c]
    <3>1. CASE i = ClassId(c)
      <4> DEFINE K == Streams \ {out[c]}
      <4>1. listeners'[i] = Kept(listeners[i], K)
        BY <2>1, <3>1 DEF AllRemoved
      <4> HIDE DEF K
      <4>2. listeners'[i][j] \in K /\ \E k \in DOMAIN listeners[i] :
              listeners'[i][j] = listeners[i][k]
        BY <1>0, <1>4, <4>1, KeptMember
      <4> QED BY <4>2 DEF K
    <3>2. CASE i # ClassId(c)
      BY <1>4, <2>1, <3>2
    <3> QED BY <3>1, <3>2
  <2>3. PICK d \in Conns : Hears(d, i, listeners'[i][j])
    BY <1>1, <2>2
  <2>4. d # c
    BY <2>2, <2>3 DEF Hears
  <2> QED BY <1>4, <2>3, <2>4 DEF Hears, Live, ClassId
<1>5. ASSUME UNCHANGED <<port, out, listeners>>,
             \A d \in Conns : life'[d] = life[d] \/ (life[d] = "open" /\ life'[d] = "stuck"),
             NEW i \in Index, NEW j \in DOMAIN listeners'[i]
      PROVE  \E d \in Conns : Hears(d, i, listeners[i][j])'
  <2>1. PICK d \in Conns : Hears(d, i, listeners[i][j])
    BY <1>1, <1>5
  <2> QED BY <1>5, <2>1 DEF Hears, Live, ClassId
<1> QED BY <1>2, <1>3, <1>4, <1>5, Comings

\* A member of the second part of a sequence.
LEMMA ConcatHas ==
  ASSUME NEW S, NEW s \in Seq(S), NEW t \in Seq(S), NEW j \in DOMAIN t
  PROVE  \E k \in DOMAIN (s \o t) : (s \o t)[k] = t[j]
<1>1. Len(s) + j \in DOMAIN (s \o t) /\ (s \o t)[Len(s) + j] = t[j]
  OBVIOUS
<1> QED BY <1>1

\* A session on the port of a class is a listener of it from its start on.
LEMMA ListeningStep ==
  Sessions /\ OneOwner /\ Listening /\ [Next]_vars => Listening'
<1> SUFFICES ASSUME Sessions, OneOwner, Listening, [Next]_vars,
                    NEW d \in Conns, Live(d)', port'[d] \in Index
             PROVE  \E j \in DOMAIN listeners'[port'[d]] : listeners'[port'[d]][j] = out'[d]
  BY DEF Listening
<1>0. \A i \in Index : listeners[i] \in Seq(Streams)
  BY DEF Sessions, SessionTypes
<1>1. Live(d) /\ port[d] \in Index =>
        \E j \in DOMAIN listeners[port[d]] : listeners[port[d]][j] = out[d]
  BY DEF Listening
<1>2. ASSUME NEW c \in Conns, NEW p \in Port, NEW m \in Streams, life[c] = "none",
             Registered(c, p, m),
             \A e \in Conns : /\ life'[e] = IF e = c THEN "open" ELSE life[e]
                              /\ port'[e] = IF e = c THEN p ELSE port[e]
                              /\ out'[e] = IF e = c THEN m ELSE out[e]
      PROVE  \E j \in DOMAIN listeners'[port'[d]] : listeners'[port'[d]][j] = out'[d]
  <2>1. \A i \in Index :
          listeners'[i] = IF i = p THEN <<m>> \o listeners[i] ELSE listeners[i]
    BY <1>2 DEF Registered
  <2>2. CASE d = c
    <3>1. listeners'[p] = <<m>> \o listeners[p] /\ port'[d] = p /\ out'[d] = m
      BY <1>2, <2>1, <2>2
    <3>2. 1 \in DOMAIN (<<m>> \o listeners[p]) /\ (<<m>> \o listeners[p])[1] = m
      BY <1>0, <1>2, <2>2
    <3> QED BY <3>1, <3>2
  <2>3. CASE d # c
    <3>1. port'[d] = port[d] /\ out'[d] = out[d] /\ Live(d)
      BY <1>2, <2>3 DEF Live
    <3>2. \E j \in DOMAIN listeners[port[d]] : listeners[port[d]][j] = out[d]
      BY <1>1, <3>1
    <3>3. <<m>> \in Seq(Streams)
      OBVIOUS
    <3>4. port[d] \in Index /\ listeners[port[d]] \in Seq(Streams)
      BY <1>0, <3>1
    <3> DEFINE t == listeners[port[d]]
    <3>5. PICK j \in DOMAIN t : t[j] = out[d]
      BY <3>2
    <3>6. \E k \in DOMAIN (<<m>> \o t) : (<<m>> \o t)[k] = t[j]
      <4> DEFINE u == <<m>>
      <4>1. t \in Seq(Streams) /\ u \in Seq(Streams)
        BY <3>3, <3>4
      <4> HIDE DEF t, u
      <4>2. \E k \in DOMAIN (u \o t) : (u \o t)[k] = t[j]
        BY <4>1, ConcatHas
      <4> QED BY <4>2 DEF t, u
    <3> QED BY <2>1, <3>1, <3>4, <3>5, <3>6
  <2> QED BY <2>2, <2>3
<1>3. ASSUME UNCHANGED <<port, out>>, NEW c \in Conns, NEW n \in 1..Len(unread[c]),
             NEW r \in After(port[c]), ReadWell(c, n, r), life[c] = "open"
      PROVE  \E j \in DOMAIN listeners'[port'[d]] : listeners'[port'[d]][j] = out'[d]
  <2> DEFINE tl == Times(Deeds("listen", r), out[c])
  <2>1. IsFiniteSet(Deeds("listen", r)) /\ out[c] \in Streams
    BY <1>3, ReadDeeds DEF Sessions
  <2>2. tl \in Seq(Streams)
    BY <2>1, TimesType
  <2>3. Live(d)
    BY <1>3, ReadLife DEF Live
  <2>4. \A i \in Index :
          listeners'[i] = IF i = ClassId(c) THEN tl \o listeners[i] ELSE listeners[i]
    BY <1>3 DEF ReadWell
  <2> HIDE DEF tl
  <2>5. port[d] \in Index /\ listeners[port[d]] \in Seq(Streams)
    BY <1>0, <1>3
  <2>6. \E j \in DOMAIN listeners[port[d]] : listeners[port[d]][j] = out[d]
    BY <1>1, <1>3, <2>3
  <2> DEFINE t == listeners[port[d]]
  <2>7. PICK j \in DOMAIN t : t[j] = out[d]
    BY <2>6
  <2>8. \E k \in DOMAIN (tl \o t) : (tl \o t)[k] = t[j]
    <3> HIDE DEF t
    <3>1. t \in Seq(Streams)
      BY <2>5 DEF t
    <3> QED BY <2>2, <3>1, ConcatHas
  <2> QED BY <1>3, <2>4, <2>5, <2>7, <2>8
<1>4. ASSUME UNCHANGED <<port, out>>, NEW c \in Conns, port[c] # CONTROL, life[c] = "open",
             \A e \in Conns : life'[e] = IF e = c THEN "closed" ELSE life[e],
             listeners' = [listeners EXCEPT ![ClassId(c)] = AllRemoved(ClassId(c), out[c])]
      PROVE  \E j \in DOMAIN listeners'[port'[d]] : listeners'[port'[d]][j] = out'[d]
  <2>1. \A i \in Index :
          listeners'[i] = IF i = ClassId(c) THEN AllRemoved(i, out[c]) ELSE listeners[i]
    BY <1>4 DEF Sessions, SessionTypes
  <2>2. Live(d) /\ d # c /\ out[d] # out[c] /\ out[d] \in Streams
    BY <1>4 DEF Live, OneOwner, Sessions
  <2>3. \E j \in DOMAIN listeners[port[d]] : listeners[port[d]][j] = out[d]
    BY <1>1, <1>4, <2>2
  <2>4. \E j \in DOMAIN AllRemoved(port[d], out[c]) : AllRemoved(port[d], out[c])[j] = out[d]
    <3> DEFINE K == Streams \ {out[c]}
               s == listeners[port[d]]
    <3>1. s \in Seq(Streams) /\ out[d] \in K /\ \E j \in DOMAIN s : s[j] = out[d]
      BY <1>0, <1>4, <2>2, <2>3
    <3> HIDE DEF K, s
    <3>2. \E j \in DOMAIN Kept(s, K) : Kept(s, K)[j] = out[d]
      BY <3>1, KeptHas
    <3> QED BY <3>2 DEF K, s, AllRemoved
  <2> QED BY <1>4, <2>1, <2>3, <2>4
<1>5. ASSUME UNCHANGED <<port, out, listeners>>,
             \A e \in Conns : life'[e] = life[e] \/ (life[e] = "open" /\ life'[e] = "stuck")
      PROVE  \E j \in DOMAIN listeners'[port'[d]] : listeners'[port'[d]][j] = out'[d]
  BY <1>1, <1>5 DEF Live
<1> QED BY <1>2, <1>3, <1>4, <1>5, Comings

-----------------------------------------------------------------------------
(* The theorems about listeners *)

Connected == Sessions /\ OneOwner /\ ListenersAreLive /\ Listening

\* Nobody listens.
LEMMA ConnectedInit == Init => Connected
<1> SUFFICES ASSUME Init PROVE Connected
  OBVIOUS
<1>1. \A c \in Conns : life[c] = "none"
  BY DEF Init
<1>2. \A i \in Index : listeners[i] = <<>>
  BY DEF Init
<1>3. ListenersAreLive
  BY <1>2, ListenersHear
<1> QED BY <1>1, <1>3, SessionsInit DEF Connected, OneOwner, Listening, Live

\* Streams and listeners together are inductive.
LEMMA ConnectedStep == Connected /\ [Next]_vars => Connected'
BY SessionsStep, OwnerStep, ListenersStep, ListeningStep DEF Connected

\* They hold in every state.
LEMMA ConnectedAlways == Spec => []Connected
BY ConnectedInit, ConnectedStep, PTL DEF Spec

\* An unsolicited packet is never written to a stream that was released,
\* whatever sessions come, register again and go.
THEOREM ListenersLive == Spec => []ListenersAreLive
<1>1. Connected => ListenersAreLive
  BY DEF Connected
<1> QED BY <1>1, ConnectedAlways, PTL

\* A class is found at its last index.
LEMMA IndexOfClass ==
  ASSUME NEW i \in Index, \A j \in Index : classes[j] = classes[i] => j <= i
  PROVE  IndexOf(classes[i]) = i
<1> DEFINE P(k) == \/ classes[k] = classes[i]
                      /\ \A j \in Index : classes[j] = classes[i] => j <= k
                   \/ k = 0 /\ \A j \in Index : classes[j] # classes[i]
<1>1. P(i) /\ \A k \in Index : P(k) => k = i
  BY TcpAssumption DEF Index
<1> HIDE DEF P
<1>2. (CHOOSE k \in Index : P(k)) = i
  BY <1>1
<1> QED BY <1>2 DEF IndexOf, P

\* A packet of a class is written to every session on the port of the class.
LEMMA ToldStep ==
  Connected /\ [Next]_vars =>
    \A c \in Conns :
       /\ Live(c) /\ port[c] \in Index
       /\ classes[port[c]] = portclass[c]
       /\ \A j \in Index : classes[j] = portclass[c] => j <= port[c]
       /\ listen_newMessage(portclass[c]) /\ crashed' = "no"
       => \E j \in DOMAIN wrote' : wrote'[j].to = c /\ wrote'[j].what = "unsolicited"
<1> SUFFICES ASSUME Connected, NEW c \in Conns, Live(c), port[c] \in Index,
                    classes[port[c]] = portclass[c],
                    \A j \in Index : classes[j] = portclass[c] => j <= port[c],
                    listen_newMessage(portclass[c])
             PROVE  \E j \in DOMAIN wrote' : wrote'[j].to = c /\ wrote'[j].what = "unsolicited"
  OBVIOUS
<1> DEFINE ms == listeners[port[c]]
<1>0. IndexOf(portclass[c]) = port[c]
  BY IndexOfClass
<1>1. WriteTo(ms, "unsolicited", NULL)
  BY <1>0 DEF listen_newMessage
<1>2. ms \in Seq(Streams) /\ NULL \in Conns \cup {NULL} /\ "unsolicited" \in What
  BY DEF Connected, Sessions, SessionTypes, What
<1>3. PICK k \in DOMAIN ms : ms[k] = out[c]
  BY DEF Connected, Listening
<1> HIDE DEF ms
<1>4. /\ \A j \in DOMAIN wrote' : wrote'[j].what = "unsolicited"
      /\ \A l \in DOMAIN ms : Owners(ms[l]) # {} =>
           \E j \in DOMAIN wrote' : wrote'[j].to \in Owners(ms[l])
  BY <1>1, <1>2, Writing
<1>5. \A d \in Owners(out[c]) : d = c
  BY DEF Connected, OneOwner, Owners
<1>6. c \in Owners(out[c])
  BY DEF Owners
<1>7. PICK j \in DOMAIN wrote' : wrote'[j].to \in Owners(ms[k])
  BY <1>3, <1>4, <1>6
<1> QED BY <1>3, <1>4, <1>5, <1>7

\* A session on the port of a class hears every packet of this class, whether
\* it ever sent an "L" or not and whatever the node announced since, as long as
\* the class is still at the index of the port and at no later one, unless the
\* daemon ends in this step.
THEOREM ListenersTold == Spec => EveryListenerTold
<1>1. Connected /\ [Next]_vars =>
        [\A c \in Conns :
           /\ Live(c) /\ port[c] \in Index
           /\ classes[port[c]] = portclass[c]
           /\ \A j \in Index : classes[j] = portclass[c] => j <= port[c]
           /\ listen_newMessage(portclass[c]) /\ crashed' = "no"
           => \E j \in DOMAIN wrote' : wrote'[j].to = c /\ wrote'[j].what = "unsolicited"]_vars
  BY ToldStep
<1> QED BY <1>1, ConnectedAlways, PTL DEF Spec, EveryListenerTold

-----------------------------------------------------------------------------
(* What a parser makes of a frame, from the first byte to the last *)

\* A parser that begins a frame is NewParser, so far it did what Meaning says.
Reads(q, s, p, deeds) == Parsed(q, NewParser, s) = Then(p, deeds)

\* What was read so far has its types.
LEMMA ReadsType ==
  ASSUME NEW q, NEW s \in Seq(Byte), NEW p, NEW deeds, Reads(q, s, p, deeds)
  PROVE  p \in ParserOf(q) /\ deeds \in Seq(DeedOf(q))
<1>1. Then(p, deeds) \in After(q)
  BY NewParserType, ParsedType DEF Reads
<1> QED BY <1>1 DEF After, Then

\* Before the first byte nothing was done.
LEMMA ReadsNothing == ASSUME NEW q PROVE Reads(q, <<>>, NewParser, <<>>)
BY NewParserType, ParsedEmpty DEF Reads

\* A byte that only changes the parser, and a byte for which it does something.
LEMMA ReadsOn ==
  ASSUME NEW q, NEW s \in Seq(Byte), NEW p, NEW deeds, Reads(q, s, p, deeds),
         NEW b \in Byte, NEW p2, NEW more, parse(q, p, b) = Then(p2, more)
  PROVE  /\ more = <<>> => Reads(q, Append(s, b), p2, deeds)
         /\ deeds = <<>> => Reads(q, Append(s, b), p2, more)
<1>1. deeds \in Seq(DeedOf(q)) /\ p \in ParserOf(q)
  BY ReadsType
<1>2. more \in Seq(DeedOf(q))
  <2>1. Then(p2, more) \in After(q)
    BY <1>1, ParseType
  <2> QED BY <2>1 DEF After, Then
<1>3. Parsed(q, NewParser, Append(s, b)) = Onward(q, Then(p, deeds), b)
  BY NewParserType, ParsedAppend DEF Reads
<1>4. Onward(q, Then(p, deeds), b) = Then(p2, deeds \o more)
  BY ThenFields DEF Onward
<1>5. (more = <<>> => deeds \o more = deeds) /\ (deeds = <<>> => deeds \o more = more)
  BY <1>1, <1>2
<1> QED BY <1>3, <1>4, <1>5 DEF Reads

\* An empty parser of a node and a byte that begins nothing.
LEMMA NothingBegins ==
  ASSUME NEW q, q # CONTROL, NEW b, b \notin {B, C, L}
  PROVE  parse(q, NewParser, b) = Then(NewParser, <<>>)
BY NewParserType, BeginStep DEF parse

\* A text, until its line ends: it is kept when there is room.
LEMMA TextBody ==
  ASSUME NEW q, q # CONTROL, NEW data \in Seq(Byte \ Newline)
  PROVE  Reads(q, <<C>> \o data,
               IF Len(data) < MAX_BUF THEN At(1, data, 0) ELSE At(4, <<>>, 0), <<>>)
<1> DEFINE P(d) == IF Len(d) < MAX_BUF THEN At(1, d, 0) ELSE At(4, <<>>, 0)
           T == {d \in Seq(Byte \ Newline) : Reads(q, <<C>> \o d, P(d), <<>>)}
<1>1. MAX_BUF \in Nat \ {0} /\ C \in Byte /\ <<C>> \in Seq(Byte)
  BY TcpAssumption, Marks
<1>2. <<>> \in T
  <2>1. parse(q, NewParser, C) = Then(At(1, <<>>, 0), <<>>)
    <3>1. /\ NewParser \in ParserOf(q) /\ NewParser.state = 0
          /\ NewParser.cmd = <<>> /\ NewParser.left = 0
      BY NewParserType, AtFields
    <3> QED BY <3>1, BeginStep DEF parse
  <2>2. Reads(q, Append(<<>>, C), At(1, <<>>, 0), <<>>)
    BY <1>1, <2>1, ReadsNothing, ReadsOn, EmptySeq
  <2>3. Append(<<>>, C) = <<C>> \o <<>> /\ <<>> \in Seq(Byte \ Newline) /\ Len(<<>>) < MAX_BUF
    BY <1>1
  <2> QED BY <2>2, <2>3
<1>3. ASSUME NEW d \in Seq(Byte \ Newline), NEW e \in Byte \ Newline, d \in T
      PROVE  Append(d, e) \in T
  <2>1. /\ <<C>> \o d \in Seq(Byte) /\ Append(d, e) \in Seq(Byte \ Newline)
        /\ <<C>> \o Append(d, e) = Append(<<C>> \o d, e)
    <3>1. d \in Seq(Byte) /\ e \in Byte
      BY TextData
    <3> QED BY <1>1, <3>1
  <2>2. Len(d) \in Nat /\ Len(Append(d, e)) = Len(d) + 1
    OBVIOUS
  <2>3. Reads(q, <<C>> \o d, P(d), <<>>)
    BY <1>3
  <2>4. P(d) \in ParserOf(q)
    BY <2>1, <2>3, ReadsType
  <2>5. parse(q, P(d), e) = Then(P(Append(d, e)), <<>>)
    <3>1. CASE Len(d) < MAX_BUF
      <4>1. P(d) = At(1, d, 0)
        BY <3>1
      <4>2. /\ Len(d) + 1 < MAX_BUF =>
                 tcp_parse(P(d), e) = Then(At(1, Append(d, e), 0), <<>>)
            /\ ~(Len(d) + 1 < MAX_BUF) => tcp_parse(P(d), e) = Then(At(4, <<>>, 0), <<>>)
        <5>1. P(d).state = 1 /\ P(d).cmd = d /\ P(d).left = 0
          BY <4>1, AtFields
        <5> HIDE DEF P
        <5> QED BY <2>4, <5>1, TextStep
      <4> QED BY <2>2, <4>2 DEF parse
    <3>2. CASE ~(Len(d) < MAX_BUF)
      <4>1. P(d) = At(4, <<>>, 0) /\ P(Append(d, e)) = At(4, <<>>, 0)
        BY <1>1, <2>2, <3>2
      <4>2. tcp_parse(P(d), e) = SkipLine(P(d), e)
        BY <4>1, AtFields DEF tcp_parse
      <4>3. SkipLine(P(d), e) = Then(P(d), <<>>)
        <5> HIDE DEF P
        <5> QED BY <2>4, SkipStep
      <4> QED BY <4>1, <4>2, <4>3 DEF parse
    <3> QED BY <3>1, <3>2
  <2>6. Reads(q, Append(<<C>> \o d, e), P(Append(d, e)), <<>>)
    <3> HIDE DEF P
    <3> QED BY <2>1, <2>3, <2>5, ReadsOn
  <2> QED BY <2>1, <2>6
<1>4. data \in T
  <2> HIDE DEF T
  <2> QED BY <1>2, <1>3, SeqInduction
<1> QED BY <1>4

\* A text and its line end, of two bytes.
LEMMA TextFrame ==
  ASSUME NEW q, q # CONTROL, NEW f \in NodeFrames, f.kind = "text"
  PROVE  Reads(q, Bytes(f), NewParser, Meaning(f))
<1> DEFINE d == f.data
           p == IF Len(d) < MAX_BUF THEN At(1, d, 0) ELSE At(4, <<>>, 0)
           s == <<C>> \o d
<1>1. d \in Seq(Byte \ Newline) /\ d \in Seq(Byte)
  BY NodeFrame, TextData
<1>2. Reads(q, s, p, <<>>)
  BY <1>1, TextBody
<1>3. s \in Seq(Byte) /\ CR \in Byte /\ LF \in Byte /\ Append(s, CR) \in Seq(Byte)
  BY <1>1, Marks
<1>4. Bytes(f) = Append(Append(s, CR), LF)
  <2>1. Bytes(f) = s \o <<CR, LF>>
    BY DEF Bytes
  <2> HIDE DEF s
  <2> QED BY <1>3, <2>1
<1>5. p \in ParserOf(q)
  BY <1>2, <1>3, ReadsType
<1>6. CR \in Newline /\ LF \notin {B, C, L}
  BY DEF Newline, LF, CR, B, C, L
<1>7. parse(q, p, CR) = Then(NewParser, Meaning(f))
  <2>1. CASE Len(d) < MAX_BUF
    <3>1. p.state = 1 /\ p.cmd = d
      BY <2>1, AtFields
    <3>2. tcp_parse(p, CR) = Then(NewParser, <<Do("command", p.cmd)>>)
      <4> HIDE DEF p
      <4> QED BY <1>5, <1>6, <3>1, TextStep
    <3>3. Meaning(f) = <<Do("command", d)>>
      BY <2>1 DEF Meaning
    <3> QED BY <3>1, <3>2, <3>3 DEF parse
  <2>2. CASE ~(Len(d) < MAX_BUF)
    <3>1. p.state = 4
      BY <2>2, AtFields
    <3>2. tcp_parse(p, CR) = SkipLine(p, CR)
      BY <3>1 DEF tcp_parse
    <3>3. SkipLine(p, CR) = Then(NewParser, <<>>)
      <4> HIDE DEF p
      <4> QED BY <1>5, <1>6, SkipStep
    <3>4. Meaning(f) = <<>>
      BY <2>2 DEF Meaning
    <3> QED BY <3>2, <3>3, <3>4 DEF parse
  <2> QED BY <2>1, <2>2
<1>8. Reads(q, Append(s, CR), NewParser, Meaning(f))
  <2> HIDE DEF s, p
  <2> QED BY <1>2, <1>3, <1>7, ReadsOn
<1>9. parse(q, NewParser, LF) = Then(NewParser, <<>>)
  BY <1>6, NothingBegins
<1>10. Reads(q, Append(Append(s, CR), LF), NewParser, Meaning(f))
  <2> HIDE DEF s
  <2> QED BY <1>3, <1>8, <1>9, ReadsOn
<1> QED BY <1>4, <1>10

\* Two bytes.
LEMMA Pair == ASSUME NEW S, NEW a \in S, NEW b \in S PROVE Append(<<a>>, b) = <<a, b>>
<1> DEFINE x == Append(<<a>>, b)
           y == <<a, b>>
<1>1. <<a>> \in Seq(S) /\ <<a>>[1] = a
  OBVIOUS
<1>2. x \in Seq(S) /\ Len(x) = 2 /\ x[1] = a /\ x[2] = b
  BY <1>1
<1>3. y \in Seq(S) /\ Len(y) = 2 /\ y[1] = a /\ y[2] = b
  OBVIOUS
<1> HIDE DEF x, y
<1>4. \A i \in 1..2 : x[i] = y[i]
  <2>1. \A i \in 1..2 : i = 1 \/ i = 2
    OBVIOUS
  <2> QED BY <1>2, <1>3, <2>1
<1>5. x = y
  BY <1>2, <1>3, <1>4, SeqEqual
<1> QED BY <1>5 DEF x, y

\* A binary command, but for its last byte.
LEMMA BinaryBody ==
  ASSUME NEW q, q # CONTROL, NEW len \in 1..MAX_BUF, len \in Byte, NEW data \in Seq(Byte),
         Len(data) < len
  PROVE  Reads(q, <<B, len>> \o data, At(3, data, len - Len(data)), <<>>)
<1> DEFINE P(d) == At(3, d, len - Len(d))
           h == <<B, len>>
           T == {d \in Seq(Byte) : Len(d) < len => Reads(q, h \o d, P(d), <<>>)}
<1>1. MAX_BUF \in Nat \ {0} /\ B \in Byte /\ h \in Seq(Byte) /\ len \in Nat /\ len <= MAX_BUF
  BY TcpAssumption, Marks
<1>2. <<>> \in T
  <2>1. parse(q, NewParser, B) = Then(At(2, <<>>, 0), <<>>)
    <3>1. /\ NewParser \in ParserOf(q) /\ NewParser.state = 0
          /\ NewParser.cmd = <<>> /\ NewParser.left = 0
      BY NewParserType, AtFields
    <3> QED BY <3>1, BeginStep DEF parse
  <2>2. Reads(q, Append(<<>>, B), At(2, <<>>, 0), <<>>)
    BY <1>1, <2>1, ReadsNothing, ReadsOn, EmptySeq
  <2>3. Append(<<>>, B) \in Seq(Byte)
    BY <1>1
  <2>4. parse(q, At(2, <<>>, 0), len) = Then(At(3, <<>>, len), <<>>)
    <3>1. At(2, <<>>, 0) \in ParserOf(q)
      BY <2>2, <2>3, ReadsType
    <3>2. At(2, <<>>, 0).state = 2 /\ At(2, <<>>, 0).cmd = <<>>
      BY AtFields
    <3> QED BY <1>1, <3>1, <3>2, LengthStep DEF parse
  <2>5. Reads(q, Append(Append(<<>>, B), len), At(3, <<>>, len), <<>>)
    BY <2>2, <2>3, <2>4, ReadsOn
  <2>6. <<>> \in Seq(Byte) /\ len - Len(<<>>) = len
    BY <1>1
  <2>8. Append(Append(<<>>, B), len) = h
    <3>1. Append(<<>>, B) = <<B>>
      OBVIOUS
    <3>2. Append(<<B>>, len) = <<B, len>>
      BY <1>1, Pair
    <3> QED BY <3>1, <3>2
  <2>7. h \o <<>> = h
    <3> HIDE DEF h
    <3> QED BY <1>1
  <2> QED BY <2>5, <2>6, <2>7, <2>8
<1>3. ASSUME NEW d \in Seq(Byte), NEW e \in Byte, d \in T PROVE Append(d, e) \in T
  <2>1. /\ h \o d \in Seq(Byte) /\ Append(d, e) \in Seq(Byte)
        /\ h \o Append(d, e) = Append(h \o d, e)
    <3> HIDE DEF h
    <3> QED BY <1>1
  <2>2. Len(d) \in Nat /\ Len(Append(d, e)) = Len(d) + 1
    OBVIOUS
  <2>3. SUFFICES ASSUME Len(d) + 1 < len PROVE Reads(q, h \o Append(d, e), P(Append(d, e)), <<>>)
    BY <2>1, <2>2
  <2>4. Reads(q, h \o d, P(d), <<>>)
    BY <1>1, <1>3, <2>2, <2>3
  <2>5. P(d) \in ParserOf(q)
    BY <2>1, <2>4, ReadsType
  <2>6. parse(q, P(d), e) = Then(P(Append(d, e)), <<>>)
    <3>1. P(d).state = 3 /\ P(d).cmd = d /\ P(d).left = len - Len(d)
      BY AtFields
    <3>2. Len(d) < MAX_BUF /\ len - Len(d) # 1 /\ len - Len(d) - 1 = len - Len(Append(d, e))
      BY <1>1, <2>2, <2>3
    <3>3. tcp_parse(P(d), e) = Then(At(3, Append(d, e), len - Len(d) - 1), <<>>)
      <4> HIDE DEF P
      <4> QED BY <2>5, <3>1, <3>2, BinaryStep
    <3> QED BY <3>2, <3>3 DEF parse
  <2>7. Reads(q, Append(h \o d, e), P(Append(d, e)), <<>>)
    <3> HIDE DEF P, h
    <3> QED BY <2>1, <2>4, <2>6, ReadsOn
  <2> QED BY <2>1, <2>7
<1>4. data \in T
  <2> HIDE DEF T
  <2> QED BY <1>2, <1>3, SeqInduction
<1> QED BY <1>4

\* A binary command of the length it says, whatever bytes it consists of.
LEMMA BinaryFrame ==
  ASSUME NEW q, q # CONTROL, NEW f \in NodeFrames, f.kind = "binary"
  PROVE  Reads(q, Bytes(f), NewParser, Meaning(f))
<1>1. f.data \in Seq(Byte) /\ f.len = Len(f.data) /\ f.len \in 1..MAX_BUF /\ f.len \in Byte
  BY NodeFrame
<1>2. PICK d \in Seq(Byte), e \in Byte : f.data = Append(d, e)
  <2>1. f.data # <<>>
    BY <1>1
  <2> QED BY <1>1, <2>1, SequenceEmptyOrAppend
<1> DEFINE p == At(3, d, f.len - Len(d))
           s == <<B, f.len>> \o d
<1>3. Len(d) \in Nat /\ f.len = Len(d) + 1 /\ Len(d) < f.len /\ f.len - Len(d) = 1
      /\ Len(d) < MAX_BUF
  BY <1>1, <1>2, TcpAssumption
<1>4. Reads(q, s, p, <<>>)
  BY <1>1, <1>3, BinaryBody
<1>5. s \in Seq(Byte)
  BY <1>1, Marks
<1>6. Bytes(f) = Append(s, e)
  <2>1. Bytes(f) = <<B, f.len>> \o Append(d, e)
    BY <1>2 DEF Bytes
  <2>2. <<B, f.len>> \in Seq(Byte)
    BY <1>1, Marks
  <2> QED BY <2>1, <2>2
<1>7. p \in ParserOf(q) /\ p.state = 3 /\ p.cmd = d /\ p.left = 1
  <2>1. p \in ParserOf(q)
    BY <1>4, <1>5, ReadsType
  <2>2. p.state = 3 /\ p.cmd = d /\ p.left = f.len - Len(d)
    BY AtFields
  <2> QED BY <1>3, <2>1, <2>2
<1>8. tcp_parse(p, e) = Then(NewParser, <<Do("command", Append(d, e))>>)
  <2> HIDE DEF p
  <2> QED BY <1>3, <1>7, BinaryStep
<1>9. Meaning(f) = <<Do("command", Append(d, e))>>
  BY <1>2 DEF Meaning
<1>10. Reads(q, Append(s, e), NewParser, Meaning(f))
  <2>1. parse(q, p, e) = Then(NewParser, Meaning(f))
    BY <1>8, <1>9 DEF parse
  <2> HIDE DEF p, s
  <2> QED BY <1>4, <1>5, <2>1, ReadsOn
<1> QED BY <1>6, <1>10

\* An "L" is read at once.
LEMMA ListenFrame ==
  ASSUME NEW q, q # CONTROL, NEW f \in NodeFrames, f.kind = "listen"
  PROVE  Reads(q, Bytes(f), NewParser, Meaning(f))
<1>1. Bytes(f) = Append(<<>>, L) /\ L \in Byte
  BY Marks DEF Bytes
<1>2. Meaning(f) = <<Do("listen", <<>>)>>
  BY DEF Meaning
<1>3. parse(q, NewParser, L) = Then(NewParser, Meaning(f))
  BY <1>2, NewParserType, BeginStep DEF parse
<1>4. <<>> \in Seq(Byte)
  OBVIOUS
<1> QED BY <1>1, <1>3, <1>4, ReadsNothing, ReadsOn

\* The control characters a line begins with are ignored.
LEMMA LeadRead ==
  ASSUME NEW lead \in Seq(0..Space - 1 \ Newline)
  PROVE  Reads(CONTROL, lead, NewParser, <<>>)
<1> DEFINE S == 0..Space - 1 \ Newline
           T == {s \in Seq(S) : Reads(CONTROL, s, NewParser, <<>>)}
<1>1. <<>> \in T
  BY ReadsNothing
<1>2. ASSUME NEW s \in Seq(S), NEW b \in S, s \in T PROVE Append(s, b) \in T
  <2>1. b < Space /\ b \in Byte /\ s \in Seq(Byte) /\ Append(s, b) \in Seq(S)
    BY LineData DEF Space, Byte
  <2>2. parse(CONTROL, NewParser, b) = Then(NewParser, <<>>)
    <3>1. /\ NewParser.state = 0 /\ NewParser.state # 2
          /\ ~(NewParser.state = 1 \/ (NewParser.state = 0 /\ b >= Space))
      BY <2>1, NewParserType DEF Space
    <3>2. cmdparser_parse(NewParser, b) = Then(NewParser, <<>>)
      BY <2>1, <3>1, Zenon DEF cmdparser_parse
    <3> QED BY <3>2 DEF parse
  <2>3. Reads(CONTROL, Append(s, b), NewParser, <<>>)
    <3>1. Reads(CONTROL, s, NewParser, <<>>)
      BY <1>2
    <3> HIDE DEF S
    <3> QED BY <2>1, <2>2, <3>1, ReadsOn
  <2> HIDE DEF S
  <2> QED BY <2>1, <2>3
<1>3. lead \in T
  <2> HIDE DEF T
  <2> QED BY <1>1, <1>2, SeqInduction
<1> QED BY <1>3

\* A line that is kept: it fits and has no control characters.
Simple(d) == Len(d) < MAX_BUF /\ \A j \in DOMAIN d : d[j] >= Space

\* A line stays simple with one byte more when that is printable and fits.
LEMMA SimpleAppend ==
  ASSUME NEW d \in Seq(Byte), NEW e \in Byte
  PROVE  Simple(Append(d, e)) <=> Simple(d) /\ Len(d) + 1 < MAX_BUF /\ e >= Space
<1> DEFINE t == Append(d, e)
           n == Len(d)
<1>1. /\ n \in Nat /\ Len(t) = n + 1 /\ DOMAIN t = 1..n + 1 /\ DOMAIN d = 1..n
      /\ t[n + 1] = e /\ \A j \in 1..n : t[j] = d[j]
  OBVIOUS
<1>2. MAX_BUF \in Nat
  BY TcpAssumption
<1> HIDE DEF t, n
<1>3. (\A j \in DOMAIN t : t[j] >= Space) <=> (\A j \in DOMAIN d : d[j] >= Space) /\ e >= Space
  <2>1. ASSUME \A j \in DOMAIN t : t[j] >= Space
        PROVE  (\A j \in DOMAIN d : d[j] >= Space) /\ e >= Space
    <3>1. \A j \in DOMAIN d : j \in DOMAIN t
      BY <1>1
    <3>2. n + 1 \in DOMAIN t
      BY <1>1
    <3> QED BY <1>1, <2>1, <3>1, <3>2
  <2>2. ASSUME \A j \in DOMAIN d : d[j] >= Space, e >= Space, NEW j \in DOMAIN t
        PROVE  t[j] >= Space
    <3>1. j \in DOMAIN d \/ j = n + 1
      BY <1>1
    <3> QED BY <1>1, <2>2, <3>1
  <2> QED BY <2>1, <2>2
<1>4. Len(t) < MAX_BUF <=> n + 1 < MAX_BUF
  BY <1>1
<1>5. n + 1 < MAX_BUF => n < MAX_BUF
  BY <1>1, <1>2
<1> QED BY <1>3, <1>4, <1>5 DEF Simple, t, n

\* A line, until it ends.
LEMMA LineBody ==
  ASSUME NEW lead \in Seq(0..Space - 1 \ Newline), NEW data \in Seq(Ascii \ Newline),
         data # <<>> => Head(data) >= Space
  PROVE  Reads(CONTROL, lead \o data,
               IF data = <<>> THEN NewParser
               ELSE IF Simple(data) THEN At(1, data, 0) ELSE At(2, <<>>, 0), <<>>)
<1> DEFINE S == Ascii \ Newline
           P(d) == IF d = <<>> THEN NewParser
                   ELSE IF Simple(d) THEN At(1, d, 0) ELSE At(2, <<>>, 0)
           Begins(d) == d # <<>> => Head(d) >= Space
           T == {d \in Seq(S) : Begins(d) => Reads(CONTROL, lead \o d, P(d), <<>>)}
<1>1. MAX_BUF \in Nat \ {0} /\ lead \in Seq(Byte)
  BY TcpAssumption, LineData
<1>2. <<>> \in T
  <2>1. lead \o <<>> = lead
    BY <1>1
  <2> QED BY <2>1, LeadRead
<1>3. ASSUME NEW d \in Seq(S), NEW e \in S, d \in T PROVE Append(d, e) \in T
  <2>1. /\ d \in Seq(Byte) /\ e \in Byte /\ e \notin Newline
        /\ Append(d, e) \in Seq(S) /\ Append(d, e) # <<>>
    <3>1. d \in Seq(Byte)
      BY LineData
    <3>2. e \in Byte /\ e \notin Newline
      BY DEF Ascii, Byte
    <3>3. Append(d, e) \in Seq(S) /\ Append(d, e) # <<>>
      <4> HIDE DEF S
      <4> QED OBVIOUS
    <3> QED BY <3>1, <3>2, <3>3
  <2>2. lead \o d \in Seq(Byte) /\ lead \o Append(d, e) = Append(lead \o d, e)
    BY <1>1, <2>1
  <2>3. /\ d # <<>> => Head(Append(d, e)) = Head(d)
        /\ d = <<>> => Head(Append(d, e)) = e
    BY <2>1
  <2>4. SUFFICES ASSUME Head(Append(d, e)) >= Space
                 PROVE  Reads(CONTROL, lead \o Append(d, e), P(Append(d, e)), <<>>)
    BY <2>1
  <2>5. Reads(CONTROL, lead \o d, P(d), <<>>)
    BY <1>3, <2>3, <2>4
  <2>6. P(d) \in ParserOf(CONTROL)
    BY <2>2, <2>5, ReadsType
  <2>7. parse(CONTROL, P(d), e) = Then(P(Append(d, e)), <<>>)
    <3>0. P(Append(d, e)) = IF Simple(Append(d, e)) THEN At(1, Append(d, e), 0)
                            ELSE At(2, <<>>, 0)
      BY <2>1
    <3>1. ASSUME P(d).cmd = d, P(d).left = 0,
                 P(d).state = 1 \/ (P(d).state = 0 /\ ~(e < Space)), Simple(d)
          PROVE  parse(CONTROL, P(d), e) = Then(P(Append(d, e)), <<>>)
      <4>1. /\ P(d).state # 2 /\ ~(P(d).state = -1 \/ (P(d).state = 0 /\ e < Space))
            /\ P(d).state = 1 \/ (P(d).state = 0 /\ e >= Space)
        BY <2>1, <3>1 DEF Space, Byte
      <4>2. cmdparser_parse(P(d), e) = Line(P(d), e)
        <5> HIDE DEF P
        <5> QED BY <4>1, Zenon DEF cmdparser_parse
      <4>3. Simple(Append(d, e)) <=> Len(d) + 1 < MAX_BUF /\ e >= Space
        BY <2>1, <3>1, SimpleAppend
      <4>4. /\ Simple(Append(d, e)) => Line(P(d), e) = Then(At(1, Append(d, e), 0), <<>>)
            /\ ~Simple(Append(d, e)) => Line(P(d), e) = Then(At(2, <<>>, 0), <<>>)
        <5> HIDE DEF P
        <5> QED BY <2>1, <2>6, <3>1, <4>3, LineStep
      <4> QED BY <3>0, <4>2, <4>4 DEF parse
    <3>2. CASE d = <<>>
      <4>1. P(d).cmd = d /\ P(d).left = 0 /\ P(d).state = 0
        BY <3>2, AtFields
      <4>2. e >= Space /\ ~(e < Space)
        BY <2>1, <2>3, <2>4, <3>2 DEF Space, Byte
      <4>3. Simple(d)
        BY <1>1, <3>2 DEF Simple
      <4> QED BY <3>1, <4>1, <4>2, <4>3
    <3>3. CASE d # <<>> /\ Simple(d)
      <4>1. P(d).cmd = d /\ P(d).left = 0 /\ P(d).state = 1
        BY <3>3, AtFields
      <4> QED BY <3>1, <3>3, <4>1
    <3>4. CASE d # <<>> /\ ~Simple(d)
      <4>1. P(d) = At(2, <<>>, 0) /\ P(d).state = 2
        BY <3>4, AtFields
      <4>2. cmdparser_parse(P(d), e) = SkipLine(P(d), e)
        <5> HIDE DEF P
        <5> QED BY <4>1 DEF cmdparser_parse
      <4>3. SkipLine(P(d), e) = Then(P(d), <<>>)
        <5> HIDE DEF P
        <5> QED BY <2>1, <2>6, SkipStep
      <4>4. ~Simple(Append(d, e))
        BY <2>1, <3>4, SimpleAppend
      <4> QED BY <3>0, <4>1, <4>2, <4>3, <4>4 DEF parse
    <3> QED BY <3>2, <3>3, <3>4
  <2>8. Reads(CONTROL, Append(lead \o d, e), P(Append(d, e)), <<>>)
    <3> HIDE DEF P
    <3> QED BY <2>1, <2>2, <2>5, <2>7, ReadsOn
  <2> QED BY <2>2, <2>8
<1>4. data \in T
  <2> HIDE DEF T
  <2>1. data \in Seq(S)
    OBVIOUS
  <2> HIDE DEF S
  <2> QED BY <1>2, <1>3, <2>1, SeqInduction
<1> QED BY <1>4

\* A line of the control port: it is answered when it is kept, and an "exit"
\* closes the session.
LEMMA LineFrame ==
  ASSUME NEW f \in ControlFrames
  PROVE  \E p : (p = NewParser \/ p.state = -1) /\ Reads(CONTROL, Bytes(f), p, Meaning(f))
<1> DEFINE d == f.data
           p == IF d = <<>> THEN NewParser
                ELSE IF Simple(d) THEN At(1, d, 0) ELSE At(2, <<>>, 0)
           s == f.lead \o d
<1>1. /\ f.kind = "line" /\ d \in Seq(Ascii \ Newline) /\ f.lead \in Seq(0..Space - 1 \ Newline)
      /\ d # <<>> => Head(d) >= Space
  BY ControlFrame
<1>2. Reads(CONTROL, s, p, <<>>)
  BY <1>1, LineBody
<1>3. s \in Seq(Byte) /\ LF \in Byte
  BY <1>1, LineData, Marks
<1>4. Bytes(f) = Append(s, LF)
  <2>1. Bytes(f) = s \o <<LF>>
    BY <1>1 DEF Bytes
  <2> HIDE DEF s
  <2> QED BY <1>3, <2>1
<1>5. p \in ParserOf(CONTROL)
  BY <1>2, <1>3, ReadsType
<1>6. LF \in Newline /\ LF < Space /\ ~(LF >= Space)
  BY DEF Newline, LF, Space
<1>7. \E t : (t = NewParser \/ t.state = -1)
             /\ parse(CONTROL, p, LF) = Then(t, Meaning(f))
  <2>1. CASE d = <<>>
    <3>1. p = NewParser /\ p.state = 0 /\ p.state # 2
          /\ ~(p.state = 1 \/ (p.state = 0 /\ LF >= Space))
      BY <1>6, <2>1, NewParserType
    <3>2. cmdparser_parse(p, LF) = Then(p, <<>>)
      <4> HIDE DEF p
      <4> QED BY <1>6, <3>1, Zenon DEF cmdparser_parse
    <3>3. Meaning(f) = <<>>
      BY <1>1, <2>1 DEF Meaning
    <3> QED BY <3>1, <3>2, <3>3 DEF parse
  <2>2. CASE d # <<>> /\ Simple(d)
    <3>1. p.state = 1 /\ p.cmd = d
      BY <2>2, AtFields
    <3>2. cmdparser_parse(p, LF) = Line(p, LF)
      <4> HIDE DEF p
      <4> QED BY <3>1 DEF cmdparser_parse
    <3>3. \/ Line(p, LF) = Then(At(-1, <<>>, 0), <<cmdparser_cmd(d)>>)
          \/ Line(p, LF) = Then(At(0, <<>>, 0), <<cmdparser_cmd(d)>>)
      <4> HIDE DEF p
      <4> QED BY <1>5, <1>6, <3>1, LineStep
    <3>4. Meaning(f) = <<cmdparser_cmd(d)>>
      BY <1>1, <2>2 DEF Meaning, Simple
    <3>5. At(0, <<>>, 0) = NewParser /\ At(-1, <<>>, 0).state = -1
      BY AtFields
    <3> HIDE DEF p
    <3> QED BY <3>2, <3>3, <3>4, <3>5 DEF parse
  <2>3. CASE d # <<>> /\ ~Simple(d)
    <3>1. p.state = 2
      BY <2>3, AtFields
    <3>2. cmdparser_parse(p, LF) = SkipLine(p, LF)
      <4> HIDE DEF p
      <4> QED BY <3>1 DEF cmdparser_parse
    <3>3. SkipLine(p, LF) = Then(NewParser, <<>>)
      <4> HIDE DEF p
      <4> QED BY <1>5, <1>6, SkipStep
    <3>4. Meaning(f) = <<>>
      BY <1>1, <2>3 DEF Meaning, Simple
    <3> QED BY <3>2, <3>3, <3>4 DEF parse
  <2> QED BY <2>1, <2>2, <2>3
<1>8. PICK t : (t = NewParser \/ t.state = -1) /\ parse(CONTROL, p, LF) = Then(t, Meaning(f))
  BY <1>7
<1>9. Reads(CONTROL, Append(s, LF), t, Meaning(f))
  <2> HIDE DEF s, p
  <2> QED BY <1>2, <1>3, <1>8, ReadsOn
<1> QED BY <1>4, <1>8, <1>9

\* Every proper frame is understood.
LEMMA FrameRead ==
  ASSUME NEW q, NEW f \in IF q = CONTROL THEN ControlFrames ELSE NodeFrames,
         f.kind # "badlength"
  PROVE  \E p : (p = NewParser \/ p.state = -1) /\ Reads(q, Bytes(f), p, Meaning(f))
<1>1. CASE q = CONTROL
  BY <1>1, LineFrame
<1>2. CASE q # CONTROL
  <2>1. f \in NodeFrames /\ f.kind \in {"text", "binary", "listen"}
    BY <1>2, NodeFrame
  <2> QED BY <1>2, <2>1, TextFrame, BinaryFrame, ListenFrame
<1> QED BY <1>1, <1>2

-----------------------------------------------------------------------------
(* The parsers keep in step *)

\* No session, nothing to understand.
LEMMA UnderstandingInit == Init => Understanding
<1> SUFFICES ASSUME Init, NEW c \in Conns PROVE life[c] # "open"
  BY DEF Understanding
<1> QED BY DEF Init

\* What is understood depends on one session only.
LEMMA StillUnderstood ==
  ASSUME NEW c, life[c] = "open" /\ proper[c] => Understood(c),
         life'[c] = "open" => life[c] = "open", proper'[c] => proper[c],
         frame'[c] = frame[c], nb'[c] = nb[c], unread'[c] = unread[c],
         did'[c] = did[c], port'[c] = port[c]
  PROVE  life'[c] = "open" /\ proper'[c] => Understood(c)'
<1> SUFFICES ASSUME Understood(c) PROVE Understood(c)'
  OBVIOUS
<1> QED BY DEF Understood

\* The client sends a frame only when the last one was read.
LEMMA UnderstandingSend ==
  ASSUME Sessions, Understanding, NEW c \in Conns, NEW f \in Frame, Send(c, f)
  PROVE  Understanding'
<1>1. /\ frame' = [frame EXCEPT ![c] = f] /\ unread' = [unread EXCEPT ![c] = Bytes(f)]
      /\ did' = [did EXCEPT ![c] = <<>>]
      /\ proper' = [proper EXCEPT ![c] = @ /\ f.kind # "badlength"]
      /\ life[c] = "open" /\ unread[c] = <<>>
      /\ f \in IF port[c] = CONTROL THEN ControlFrames ELSE NodeFrames
      /\ UNCHANGED <<life, port, nb>>
  BY DEF Send
<1>2. SessionTypes
  BY DEF Sessions
<1>3. /\ \A d \in Conns : d # c => /\ frame'[d] = frame[d] /\ unread'[d] = unread[d]
                                   /\ did'[d] = did[d] /\ proper'[d] = proper[d]
      /\ frame'[c] = f /\ unread'[c] = Bytes(f) /\ did'[c] = <<>>
      /\ proper'[c] => proper[c] /\ f.kind # "badlength"
  BY <1>1, <1>2 DEF SessionTypes
<1>4. ASSUME proper'[c] PROVE Understood(c)'
  <2>1. Understood(c)
    BY <1>1, <1>3, <1>4 DEF Understanding
  <2>2. nb[c] = NewParser
    <3>1. CASE frame[c] = NULL
      BY <2>1, <3>1 DEF Understood
    <3>2. CASE frame[c] # NULL
      <4>1. nb[c] \in ParserOf(port[c]) /\ nb[c].state # -1
        BY <1>1 DEF Sessions
      <4>2. Parsed(port[c], nb[c], unread[c]).p = nb[c]
        BY <1>1, <4>1, ParsedEmpty, ThenFields
      <4> QED BY <2>1, <3>2, <4>1, <4>2 DEF Understood
    <3> QED BY <3>1, <3>2
  <2>3. PICK p : (p = NewParser \/ p.state = -1)
                 /\ Parsed(port[c], NewParser, Bytes(f)) = Then(p, Meaning(f))
    BY <1>1, <1>3, <1>4, FrameRead DEF Reads
  <2> DEFINE r == Parsed(port[c], NewParser, Bytes(f))
  <2>4. r.p = p /\ r.did = Meaning(f)
    BY <2>3, ThenFields
  <2>5. <<>> \o r.did = Meaning(f)
    <3>1. Meaning(f) \in Seq(DeedOf(port[c]))
      BY <2>3, BytesType, ReadsType DEF Reads
    <3> HIDE DEF r
    <3> QED BY <2>4, <3>1
  <2>6. f # NULL
    BY TcpAssumption DEF Frame
  <2>7. Understood(c)' = (/\ r.p = NewParser \/ r.p.state = -1
                          /\ <<>> \o r.did = Meaning(f))
    BY <1>1, <1>3, <2>2, <2>6 DEF Understood
  <2> QED BY <2>3, <2>4, <2>5, <2>7
<1>5. ASSUME NEW d \in Conns, d # c PROVE life'[d] = "open" /\ proper'[d] => Understood(d)'
  BY <1>1, <1>3, <1>5, StillUnderstood DEF Understanding
<1> QED BY <1>4, <1>5 DEF Understanding

\* However a frame is split, the rest of it is still to be done.
LEMMA UnderstandingRead ==
  ASSUME Sessions, Understanding, NEW c \in Conns, NEW n \in 1..Len(unread[c]), Read(c, n)
  PROVE  Understanding'
<1>1. SessionTypes
  BY DEF Sessions
<1> DEFINE q == port[c]
           s == SubSeq(unread[c], 1, n)
           t == SubSeq(unread[c], n + 1, Len(unread[c]))
<1>2. PICK r \in After(q) :
        /\ r = Parsed(q, nb[c], s)
        /\ \/ UNCHANGED <<life, nb, unread, did>>
           \/ ReadWell(c, n, r)
  BY Reading
<1>3. life[c] = "open" /\ UNCHANGED <<port, frame, proper>>
  BY Reading
<1>4. CASE UNCHANGED <<life, nb, unread, did>>
  BY <1>3, <1>4, StillUnderstood DEF Understanding
<1>5. CASE ReadWell(c, n, r)
  <2>1. /\ \A d \in Conns : d # c => /\ life'[d] = life[d] /\ nb'[d] = nb[d]
                                     /\ unread'[d] = unread[d] /\ did'[d] = did[d]
        /\ nb'[c] = r.p /\ unread'[c] = t /\ did'[c] = did[c] \o r.did
    BY <1>1, <1>5 DEF ReadWell, SessionTypes
  <2>2. ASSUME NEW d \in Conns, d # c PROVE life'[d] = "open" /\ proper'[d] => Understood(d)'
    BY <1>3, <2>1, <2>2, StillUnderstood DEF Understanding
  <2>3. ASSUME proper[c] PROVE Understood(c)'
    <3>1. Understood(c)
      BY <1>3, <2>3 DEF Understanding
    <3>2. /\ unread[c] \in Seq(Byte) /\ n \in 1..Len(unread[c])
          /\ nb[c] \in ParserOf(q) /\ did[c] \in Seq(Deed)
      BY DEF Sessions, SessionTypes
    <3>3. s \in Seq(Byte) /\ t \in Seq(Byte) /\ unread[c] = s \o t /\ unread[c] # <<>>
      BY <3>2
    <3>4. frame[c] # NULL
      BY <3>1, <3>3 DEF Understood
    <3> HIDE DEF q, s, t
    <3> DEFINE u == Parsed(q, r.p, t)
               w == Parsed(q, nb[c], s \o t)
    <3>5. w = Then(u.p, r.did \o u.did)
      BY <1>2, <3>2, <3>3, ParsedConcat
    <3>6. w.p = u.p /\ w.did = r.did \o u.did
      <4> HIDE DEF u, w
      <4> QED BY <3>5, ThenFields
    <3>7. (w.p = NewParser \/ w.p.state = -1) /\ did[c] \o w.did = Meaning(frame[c])
      BY <3>1, <3>3, <3>4 DEF Understood, q
    <3>8. r.p \in ParserOf(q) /\ r.did \in Seq(Deed)
      BY <1>2, ReadDeeds
    <3>9. u \in After(q)
      BY <3>3, <3>8, ParsedType
    <3> HIDE DEF u
    <3>10. u.did \in Seq(Deed)
      BY <3>9, ReadDeeds
    <3>11. (did[c] \o r.did) \o u.did = did[c] \o (r.did \o u.did)
      <4> DEFINE D == Deed
      <4> HIDE DEF D
      <4>1. \A x, y, z \in Seq(D) : (x \o y) \o z = x \o (y \o z)
        BY ConcatAssociative
      <4> QED BY <3>2, <3>8, <3>10, <4>1, Zenon DEF D
    <3> HIDE DEF w
    <3>12. Understood(c)' = (/\ u.p = NewParser \/ u.p.state = -1
                             /\ (did[c] \o r.did) \o u.did = Meaning(frame[c]))
      BY <1>3, <2>1, <3>4 DEF Understood, u, q
    <3> QED BY <3>6, <3>7, <3>11, <3>12
  <2> QED BY <1>3, <2>2, <2>3 DEF Understanding
<1> QED BY <1>2, <1>4, <1>5

\* Every step keeps the parsers in step.
LEMMA UnderstandingStep == Sessions /\ Understanding /\ [Next]_vars => Understanding'
<1> SUFFICES ASSUME Sessions, Understanding, [Next]_vars PROVE Understanding'
  OBVIOUS
<1>1. SessionTypes
  BY DEF Sessions
<1>2. ASSUME NEW c \in Conns, NEW p \in Port, NEW m \in Streams, tcp_listener(c, p, m)
      PROVE  Understanding'
  <2>1. /\ life[c] = "none" /\ UNCHANGED <<nb, frame, unread, proper, did>>
        /\ \A d \in Conns : d # c => life'[d] = life[d] /\ port'[d] = port[d]
    BY <1>1, <1>2 DEF tcp_listener, client, SessionTypes
  <2>2. Understood(c)'
    BY <2>1 DEF Sessions, Understood
  <2>3. ASSUME NEW d \in Conns, d # c PROVE life'[d] = "open" /\ proper'[d] => Understood(d)'
    BY <2>1, <2>3, StillUnderstood DEF Understanding
  <2> QED BY <2>2, <2>3 DEF Understanding
<1>3. ASSUME UNCHANGED <<life, port, nb, frame, unread, proper, did>>
      PROVE  Understanding'
  BY <1>3, StillUnderstood DEF Understanding
<1>4. ASSUME NEW c \in Conns, NEW how \in {"closed", "stuck"}, Ends(c, how),
             UNCHANGED <<port, proper>>
      PROVE  Understanding'
  <2>1. /\ life'[c] # "open"
        /\ \A d \in Conns : d # c => /\ life'[d] = life[d] /\ nb'[d] = nb[d]
                                     /\ frame'[d] = frame[d] /\ unread'[d] = unread[d]
                                     /\ did'[d] = did[d]
    BY <1>1, <1>4 DEF Ends, SessionTypes
  <2>2. ASSUME NEW d \in Conns, d # c PROVE life'[d] = "open" /\ proper'[d] => Understood(d)'
    BY <1>4, <2>1, <2>2, StillUnderstood DEF Understanding
  <2> QED BY <2>1, <2>2 DEF Understanding
<1>5. ASSUME NEW c \in Conns, Eof(c) PROVE Understanding'
  BY <1>3, <1>4, <1>5 DEF Eof
<1>6. ASSUME NEW c \in Conns, ReadError(c) PROVE Understanding'
  BY <1>4, <1>6 DEF ReadError
<1>7. packet_inpacket => UNCHANGED <<life, port, nb, frame, unread, proper, did>>
  BY Addressed DEF sessions, client
<1>8. UNCHANGED vars => UNCHANGED <<life, port, nb, frame, unread, proper, did>>
  BY DEF vars, client
<1>9. NodeActs => UNCHANGED <<life, port, nb, frame, unread, proper, did>>
  BY Acting
<1> QED BY <1>2, <1>3, <1>5, <1>6, <1>7, <1>8, <1>9, UnderstandingSend, UnderstandingRead
        DEF Next, NodeActs, tcp_listener_read

\* However the network splits the bytes, the parsers do what clients mean: the
\* loop over the bytes of a read in tcp_listener_read resumes where the last
\* read left it, for every frame that tcp_parse and cmdparser_parse take.
THEOREM ParsersInStep == Spec => []ParserInStep
<1>1. Sessions /\ Understanding => ParserInStep
  <2> SUFFICES ASSUME Sessions, Understanding, NEW c \in Conns,
                      life[c] = "open", proper[c], unread[c] = <<>>, frame[c] # NULL
               PROVE  nb[c].state = 0 /\ did[c] = Meaning(frame[c])
    BY DEF ParserInStep
  <2>1. nb[c] \in ParserOf(port[c]) /\ nb[c].state # -1 /\ did[c] \in Seq(Deed)
    BY DEF Sessions, SessionTypes
  <2> DEFINE r == Parsed(port[c], nb[c], unread[c])
  <2>2. r.p = nb[c] /\ r.did = <<>>
    BY <2>1, ParsedEmpty, ThenFields
  <2>3. (r.p = NewParser \/ r.p.state = -1) /\ did[c] \o r.did = Meaning(frame[c])
    BY DEF Understanding, Understood
  <2>4. did[c] \o r.did = did[c]
    <3> HIDE DEF r
    <3> QED BY <2>1, <2>2
  <2> QED BY <2>1, <2>2, <2>3, <2>4, NewParserType
<1>2. Init => Sessions /\ Understanding
  BY SessionsInit, UnderstandingInit
<1>3. (Sessions /\ Understanding) /\ [Next]_vars => (Sessions /\ Understanding)'
  BY SessionsStep, UnderstandingStep
<1> QED BY <1>1, <1>2, <1>3, PTL DEF Spec

-----------------------------------------------------------------------------
(* Careful clients never end the daemon *)

\* Nothing happened yet.
LEMMA CarefulInit == Init => Careful
BY DEF Init, Careful, FramesFit

\* A frame never means an overrun, only a text or a binary command means a
\* command: its own bytes, and only one line means a list.
LEMMA MeaningDeeds ==
  ASSUME NEW f, NEW j \in DOMAIN Meaning(f)
  PROVE  /\ Meaning(f)[j].op # "overrun"
         /\ Meaning(f)[j].op = "command" =>
              f.kind \in {"text", "binary"} /\ Meaning(f)[j].data = f.data
         /\ Meaning(f)[j].op = "list" => f.kind = "line" /\ f.data = ListNodes
<1>1. /\ Do("command", f.data).op = "command" /\ Do("command", f.data).data = f.data
      /\ Do("listen", <<>>).op = "listen"
      /\ cmdparser_cmd(f.data).op \in {"line", "list", "exit"}
      /\ cmdparser_cmd(f.data).op = "list" => f.data = ListNodes
  BY DEF Do, cmdparser_cmd
<1>2. \A x : DOMAIN <<x>> = {1} /\ <<x>>[1] = x
  OBVIOUS
<1>3. \/ f.kind \in {"text", "binary"} /\ Meaning(f) = <<Do("command", f.data)>>
      \/ Meaning(f) = <<Do("listen", <<>>)>>
      \/ f.kind = "line" /\ Meaning(f) = <<cmdparser_cmd(f.data)>>
      \/ Meaning(f) = <<>>
  <2> DEFINE command == <<Do("command", f.data)>>
             listen == <<Do("listen", <<>>)>>
             line == <<cmdparser_cmd(f.data)>>
  <2> HIDE DEF command, listen, line
  <2>1. Meaning(f) =
          CASE f.kind = "text" /\ Len(f.data) < MAX_BUF -> command
            [] f.kind = "binary" -> command
            [] f.kind = "listen" -> listen
            [] f.kind = "line" /\ f.data # <<>> /\ Len(f.data) < MAX_BUF
                 /\ (\A k \in DOMAIN f.data : f.data[k] >= Space) -> line
            [] OTHER -> <<>>
    BY Zenon DEF Meaning, command, listen, line
  <2> QED BY <2>1 DEF command, listen, line
<1>4. CASE Meaning(f) = <<>>
  BY <1>4
<1> HIDE DEF Meaning
<1>5. CASE Meaning(f) # <<>>
  <2>1. \E x : Meaning(f) = <<x>>
    BY <1>3, <1>5
  <2>2. j = 1
    BY <1>2, <2>1
  <2> QED BY <1>1, <1>2, <1>3, <1>5, <2>2
<1> QED BY <1>4, <1>5

\* What is done in a read is a part of what the frame means.
LEMMA DoneIsMeant ==
  ASSUME Sessions, NEW c \in Conns, NEW n \in 1..Len(unread[c]), Understood(c),
         NEW r \in After(port[c]), r = Parsed(port[c], nb[c], SubSeq(unread[c], 1, n)),
         NEW j \in DOMAIN r.did
  PROVE  /\ frame[c] # NULL
         /\ \E k \in DOMAIN Meaning(frame[c]) : r.did[j] = Meaning(frame[c])[k]
<1> DEFINE q == port[c]
           s == SubSeq(unread[c], 1, n)
           t == SubSeq(unread[c], n + 1, Len(unread[c]))
           u == Parsed(q, r.p, t)
           w == Parsed(q, nb[c], s \o t)
<1>1. /\ unread[c] \in Seq(Byte) /\ n \in 1..Len(unread[c])
      /\ nb[c] \in ParserOf(q) /\ did[c] \in Seq(Deed)
  BY DEF Sessions, SessionTypes
<1>2. s \in Seq(Byte) /\ t \in Seq(Byte) /\ unread[c] = s \o t /\ unread[c] # <<>>
  BY <1>1
<1>3. frame[c] # NULL
  BY <1>2 DEF Understood
<1> HIDE DEF q, s, t
<1>4. w = Then(u.p, r.did \o u.did)
  BY <1>1, <1>2, ParsedConcat DEF q, s
<1>5. w.did = r.did \o u.did
  <2> HIDE DEF u, w
  <2> QED BY <1>4, ThenFields
<1>6. did[c] \o w.did = Meaning(frame[c])
  BY <1>2, <1>3 DEF Understood, q
<1>7. r.p \in ParserOf(q) /\ r.did \in Seq(Deed)
  BY ReadDeeds DEF q
<1>8. u \in After(q)
  BY <1>2, <1>7, ParsedType
<1> HIDE DEF u, w
<1>9. u.did \in Seq(Deed)
  BY <1>8, ReadDeeds
<1> DEFINE a == did[c]
           b == r.did
           d == u.did
           M == Meaning(frame[c])
           k == Len(a) + j
           D == Deed
<1>10. a \in Seq(D) /\ b \in Seq(D) /\ d \in Seq(D) /\ j \in DOMAIN b /\ a \o (b \o d) = M
  BY <1>1, <1>5, <1>6, <1>7, <1>9
<1> HIDE DEF a, b, d, M, D
<1>11. k \in DOMAIN M /\ M[k] = b[j]
  BY <1>10
<1> QED BY <1>3, <1>11 DEF b, M

\* A careful client's bytes never run over a buffer.
LEMMA CarefulReads ==
  ASSUME Sessions, Understanding, Careful, careful,
         NEW c \in Conns, NEW n \in 1..Len(unread[c]), life[c] = "open",
         NEW r \in After(port[c]), r = Parsed(port[c], nb[c], SubSeq(unread[c], 1, n))
  PROVE  ~Overwrites(c, r) /\ ~ListsNothing(r)
<1>1. Understood(c)
  BY DEF Understanding, Careful
<1>2. \A j \in DOMAIN r.did :
        /\ frame[c] # NULL
        /\ r.did[j].op # "overrun"
        /\ r.did[j].op = "command" =>
             frame[c].kind \in {"text", "binary"} /\ r.did[j].data = frame[c].data
        /\ r.did[j].op = "list" => frame[c].kind = "line" /\ frame[c].data = ListNodes
  BY <1>1, DoneIsMeant, MeaningDeeds
<1>3. Deeds("overrun", r) = {}
  BY <1>2 DEF Deeds
<1>4. ASSUME port[c] # MGT, NEW j \in Deeds("command", r) PROVE Fits(r, j)
  <2>1. j \in DOMAIN r.did /\ r.did[j].op = "command"
    BY DEF Deeds
  <2>2. /\ frame[c] # NULL /\ frame[c].kind \in {"text", "binary"}
        /\ r.did[j].data = frame[c].data
    BY <1>2, <2>1
  <2>3. Len(frame[c].data) <= UB_PACKET_DATA
    BY <1>4, <2>2 DEF Careful, FramesFit
  <2> QED BY <2>2, <2>3 DEF Fits
<1>5. Deeds("list", r) # {} => discovered > 0
  BY <1>2 DEF Deeds, Careful, FramesFit
<1> QED BY <1>3, <1>4, <1>5 DEF Overwrites, ListsNothing

\* The frame of a session fits, also after a step.
LEMMA FramesFitStep ==
  Sessions /\ NodeTypes /\ Careful /\ careful /\ [Next]_vars /\ careful' =>
    FramesFit' /\ \A c \in Conns : proper'[c]
<1> SUFFICES ASSUME Sessions, NodeTypes, Careful, careful, [Next]_vars, careful'
             PROVE  FramesFit' /\ \A c \in Conns : proper'[c]
  OBVIOUS
<1>1. SessionTypes /\ FramesFit /\ \A c \in Conns : proper[c]
  BY DEF Sessions, Careful
<1>2. ASSUME NEW c \in Conns, NEW p \in Port, NEW m \in Streams, tcp_listener(c, p, m)
      PROVE  FramesFit' /\ UNCHANGED proper
  <2>1. /\ life[c] = "none" /\ UNCHANGED <<frame, proper, discovered>>
        /\ \A d \in Conns : d # c => port'[d] = port[d]
    BY <1>1, <1>2 DEF tcp_listener, client, node, SessionTypes
  <2>2. frame[c] = NULL
    BY <2>1 DEF Sessions
  <2> QED BY <1>1, <2>1, <2>2 DEF FramesFit
<1>3. ASSUME NEW c \in Conns, NEW f \in Frame, Send(c, f)
      PROVE  FramesFit' /\ \A d \in Conns : proper'[d]
  <2>1. /\ \A d \in Conns : d # c => frame'[d] = frame[d] /\ proper'[d] = proper[d]
        /\ frame'[c] = f /\ proper'[c] = (proper[c] /\ f.kind # "badlength")
        /\ UNCHANGED <<port, discovered>>
        /\ f.kind # "badlength"
        /\ f.kind \in {"text", "binary"} /\ port[c] # MGT => Len(f.data) <= UB_PACKET_DATA
        /\ f.kind = "line" /\ f.data = ListNodes => discovered > 0
    BY <1>1, <1>3 DEF Send, node, SessionTypes
  <2> QED BY <1>1, <2>1 DEF FramesFit
<1>4. ASSUME UNCHANGED <<port, proper>>, discovered > 0 => discovered' > 0,
             \A c \in Conns : frame'[c] \in {frame[c], NULL}
      PROVE  FramesFit' /\ UNCHANGED proper
  BY <1>1, <1>4 DEF FramesFit
<1>5. ASSUME NEW c \in Conns, tcp_listener_read(c) PROVE FramesFit' /\ UNCHANGED proper
  <2>1. ASSUME NEW n \in 1..Len(unread[c]), Read(c, n)
        PROVE  UNCHANGED <<port, proper, frame, discovered>>
    BY <2>1 DEF Read, node
  <2>2. ASSUME Eof(c) \/ ReadError(c)
        PROVE  /\ UNCHANGED <<port, proper, discovered>>
               /\ \A d \in Conns : frame'[d] \in {frame[d], NULL}
    BY <1>1, <2>2 DEF Eof, ReadError, Ends, node, SessionTypes
  <2> QED BY <1>4, <1>5, <2>1, <2>2 DEF tcp_listener_read
<1>6. packet_inpacket => UNCHANGED <<port, proper, frame, discovered>>
  BY Addressed DEF sessions, client, node
<1>7. UNCHANGED vars => UNCHANGED <<port, proper, frame, discovered>>
  BY DEF vars, client, node
<1>8. UNCHANGED <<port, proper, frame, discovered>> => FramesFit' /\ UNCHANGED proper
  BY <1>4
<1>9. ASSUME NodeActs PROVE FramesFit' /\ UNCHANGED proper
  <2>1. UNCHANGED <<port, proper, frame>>
    BY <1>9, Acting
  <2>2. discovered \in Nat
    BY TcpAssumption DEF NodeTypes
  <2>3. discovered' = discovered \/ discovered' = discovered + 1
    BY <1>9 DEF NodeActs, busmgt_setClasses, net_createSockets, ShouldNotHappen, node
  <2>4. discovered > 0 => discovered' > 0
    BY <2>2, <2>3
  <2> QED BY <1>4, <2>1, <2>4
<1> QED BY <1>1, <1>2, <1>3, <1>5, <1>6, <1>7, <1>8, <1>9 DEF Next, NodeActs

\* A session whose command was not acknowledged or aborted yet.
Awaits(c) == \E j \in DOMAIN queue : queue[j] = c

\* Who waits is connected, and not on the control port.
LEMMA CarefulAwaits ==
  Sessions /\ Careful /\ careful =>
    \A c \in Conns : Awaits(c) => Live(c) /\ port[c] # CONTROL
BY DEF Sessions, SessionTypes, Careful, Awaits, Asking

\* A client that was careless stays so.
LEMMA CarefulBefore == ASSUME Sessions, [Next]_vars, careful' PROVE careful
<1>0. SessionTypes
  BY DEF Sessions
<1>1. ASSUME NEW c \in Conns, tcp_listener_read(c) PROVE careful' => careful
  <2>1. ASSUME NEW n \in 1..Len(unread[c]), Read(c, n) PROVE careful' => careful
    BY <1>0, <2>1, Reading
  <2> QED BY <1>1, <2>1 DEF tcp_listener_read, Eof, ReadError
<1>2. packet_inpacket => careful' = careful
  BY <1>0, Addressed DEF sessions, client
<1>3. ASSUME NEW c \in Conns, NEW p \in Port, NEW m \in Streams, tcp_listener(c, p, m)
      PROVE  careful' = careful
  BY <1>3 DEF tcp_listener, client
<1>4. ASSUME NEW c \in Conns, NEW f \in Frame, Send(c, f) PROVE careful' => careful
  BY <1>4 DEF Send
<1>5. UNCHANGED vars => careful' = careful
  BY DEF vars, client
<1>6. NodeActs => careful' = careful
  BY Acting
<1> QED BY <1>1, <1>2, <1>3, <1>4, <1>5, <1>6 DEF Next, NodeActs

\* Careful clients wait, and what they send fits.
LEMMA CarefulStep ==
  Connected /\ NodeTypes /\ Understanding /\ Careful /\ [Next]_vars => Careful'
<1> SUFFICES ASSUME Connected, NodeTypes, Understanding, Careful, [Next]_vars, careful'
             PROVE  Careful'
  BY DEF Careful
<1> DEFINE Spared == {"no", "reply", "service"}
<1>1. Sessions /\ SessionTypes /\ ListenersAreLive
  BY DEF Connected, Sessions
<1>2. careful
  BY <1>1, CarefulBefore
<1>3. FramesFit' /\ \A c \in Conns : proper'[c]
  BY <1>1, <1>2, FramesFitStep
<1>4. crashed \in Spared /\ \A c \in Conns : Awaits(c) => Live(c) /\ port[c] # CONTROL
  BY <1>1, <1>2, CarefulAwaits DEF Careful
\* It is enough that the step ends nothing that is spared, that who waited is
\* still there, and that everybody else asks while connected.
<1>5. ASSUME crashed' \in Spared,
             \A j \in DOMAIN queue' : queue'[j] \in Conns /\ life'[queue'[j]] \in {"open", "stuck"}
      PROVE  Careful'
  <2>1. \A j \in DOMAIN queue' : Live(queue[j])'
    BY <1>5 DEF Live
  <2> QED BY <1>3, <1>5, <2>1 DEF Careful
<1>6. ASSUME crashed' \in Spared, queue' = queue, \A c \in Conns : Awaits(c) => Live(c)'
      PROVE  Careful'
  <2>1. \A j \in DOMAIN queue : queue[j] \in Conns /\ Awaits(queue[j])
    BY <1>1 DEF SessionTypes, Awaits
  <2>2. \A j \in DOMAIN queue' : queue'[j] \in Conns /\ life'[queue'[j]] \in {"open", "stuck"}
    BY <1>6, <2>1 DEF Live
  <2> QED BY <1>5, <1>6, <2>2
<1>7. ASSUME NEW c \in Conns, NEW p \in Port, NEW m \in Streams, tcp_listener(c, p, m)
      PROVE  Careful'
  <2>1. /\ UNCHANGED <<crashed, queue>>
        /\ \A d \in Conns : life'[d] = IF d = c THEN "open" ELSE life[d]
    BY <1>1, <1>7 DEF tcp_listener, packets, SessionTypes
  <2>2. \A d \in Conns : Live(d) => Live(d)'
    BY <2>1 DEF Live
  <2> QED BY <1>4, <1>6, <2>1, <2>2
\* The sessions stay as they are.
<1>8. ASSUME crashed' \in Spared, UNCHANGED <<life, queue>> PROVE Careful'
  <2>1. \A d \in Conns : Live(d) => Live(d)'
    BY <1>8 DEF Live
  <2> QED BY <1>4, <1>6, <1>8, <2>1
<1>9. ASSUME NEW c \in Conns, NEW n \in 1..Len(unread[c]), Read(c, n) PROVE Careful'
  <2>1. life[c] = "open"
    BY <1>1, <1>9, Reading
  <2>2. PICK r \in After(port[c]) :
          /\ r = Parsed(port[c], nb[c], SubSeq(unread[c], 1, n))
          /\ \/ Overwrites(c, r) \/ ListsNothing(r)
             \/ ReadWell(c, n, r)
    BY <1>1, <1>9, Reading
  <2>3. ReadWell(c, n, r)
    BY <1>1, <1>2, <2>1, <2>2, CarefulReads
  <2>4. \A d \in Conns : life'[d] = IF d = c /\ r.p.state = -1 THEN "closed" ELSE life[d]
    BY <1>1, <2>1, <2>3, ReadLife
  <2>5. /\ port[c] # CONTROL => r.p.state # -1
        /\ port[c] = CONTROL => Commands(r) = {}
        /\ IsFiniteSet(Commands(r))
    BY ReadDeeds
  <2>6. \A d \in Conns : Awaits(d) => Live(d)'
    BY <1>4, <2>4, <2>5 DEF Live
  <2> DEFINE tc == Times(Commands(r), c)
  <2>7. tc \in Seq(Conns) /\ (\A j \in DOMAIN tc : tc[j] = c)
        /\ (port[c] = CONTROL => tc = <<>>)
    BY <2>5, TimesType
  <2>8. crashed' = crashed /\ queue' = queue \o tc /\ queue \in Seq(Conns)
    BY <1>1, <2>3 DEF ReadWell, SessionTypes
  <2>9. port[c] # CONTROL => Live(c)'
    BY <2>1, <2>4, <2>5 DEF Live
  <2> HIDE DEF tc
  <2>10. ASSUME NEW j \in DOMAIN queue'
         PROVE  queue'[j] \in Conns /\ life'[queue'[j]] \in {"open", "stuck"}
    <3>1. CASE j \in DOMAIN queue
      <4>1. queue'[j] = queue[j] /\ queue[j] \in Conns
        BY <2>7, <2>8, <3>1
      <4>2. Awaits(queue[j])
        BY <3>1 DEF Awaits
      <4> QED BY <2>6, <4>1, <4>2 DEF Live
    <3>2. CASE j \notin DOMAIN queue
      <4>1. j - Len(queue) \in DOMAIN tc /\ queue'[j] = tc[j - Len(queue)]
        BY <2>7, <2>8, <2>10, <3>2
      <4>2. queue'[j] = c /\ port[c] # CONTROL
        BY <2>7, <4>1
      <4> QED BY <2>9, <4>2 DEF Live
    <3> QED BY <3>1, <3>2
  <2> QED BY <1>4, <1>5, <2>8, <2>10
<1>10. ASSUME NEW c \in Conns, Eof(c) PROVE Careful'
  <2>1. port[c] # CONTROL /\ c \notin ToSet(queue) /\ queue' = queue
    BY <1>10 DEF Eof, packets
  <2>2. crashed' = crashed /\ \A d \in Conns : d # c => life'[d] = life[d]
    BY <1>1, <1>10, <2>1 DEF Eof, Ends, SessionTypes
  <2>3. ~Awaits(c)
    BY <2>1 DEF Awaits, ToSet
  <2>4. \A d \in Conns : Awaits(d) => Live(d)'
    BY <1>4, <2>2, <2>3 DEF Live
  <2> QED BY <1>4, <1>6, <2>1, <2>2, <2>4
<1>11. ASSUME NEW c \in Conns, ReadError(c) PROVE Careful'
  <2>1. /\ UNCHANGED <<crashed, queue>>
        /\ \A d \in Conns : life'[d] = IF d = c THEN "stuck" ELSE life[d]
    BY <1>1, <1>11 DEF ReadError, Ends, packets, SessionTypes
  <2>2. \A d \in Conns : Live(d) => Live(d)'
    BY <2>1 DEF Live
  <2> QED BY <1>4, <1>6, <2>1, <2>2
<1>12. ASSUME packet_inpacket PROVE Careful'
  <2>1. /\ life' = life /\ queue' \in Seq(Conns)
        /\ \A j \in DOMAIN queue' : \E k \in DOMAIN queue : queue'[j] = queue[k]
    BY <1>1, <1>12, Addressed DEF sessions
  <2>2. "status" \in What /\ "reply" \in What /\ "unsolicited" \in What /\ NULL \in Conns \cup {NULL}
    BY DEF What
  \* Who waits for a status is there to receive it.
  <2>3. ASSUME NEW a \in Conns, Asking(a), Awaits(a), WriteTo(<<out[a]>>, "status", a)
        PROVE  crashed' = crashed
    <3>1. <<out[a]>> \in Seq(Streams)
      BY <1>1, <2>3 DEF Sessions, Asking
    <3>2. \A k \in DOMAIN <<out[a]>> : <<out[a]>>[k] = out[a]
      OBVIOUS
    <3>3. a \in Owners(out[a])
      BY <1>4, <2>3 DEF Owners
    <3> DEFINE ms == <<out[a]>>
    <3>4. ms \in Seq(Streams) /\ \A k \in DOMAIN ms : Owners(ms[k]) # {}
      BY <3>1, <3>2, <3>3
    <3>5. WriteTo(ms, "status", a) /\ "status" \in What /\ a \in Conns \cup {NULL}
      BY <2>2, <2>3
    <3> HIDE DEF ms
    <3> QED BY <3>4, <3>5, Writing, Zenon
  \* A later packet of the node may find nobody.
  <2>4. ASSUME NEW a \in Conns, WriteTo(<<out[a]>>, "reply", a)
        PROVE  crashed' \in {crashed, "reply"}
    BY <2>4 DEF WriteTo
  \* Who listens is there.
  <2>5. ASSUME NEW i \in Index, WriteTo(listeners[i], "unsolicited", NULL)
        PROVE  crashed' = crashed
    <3>1. listeners[i] \in Seq(Streams)
      BY <1>1 DEF SessionTypes
    <3>2. \A k \in DOMAIN listeners[i] : Owners(listeners[i][k]) # {}
      BY <1>1, ListenersHear DEF Hears, Owners
    <3> QED BY <2>2, <2>5, <3>1, <3>2, Writing
  <2>6. crashed' \in {crashed, "reply"}
    <3>1. \/ \E a \in Conns :
               Asking(a) /\ Awaits(a) /\ WriteTo(<<out[a]>>, "status", a)
          \/ \E a \in Conns : WriteTo(<<out[a]>>, "reply", a)
          \/ \E i \in Index : WriteTo(listeners[i], "unsolicited", NULL)
      BY <1>1, <1>12, Addressed DEF Awaits
    <3> QED BY <2>3, <2>4, <2>5, <3>1
  <2>7. \A j \in DOMAIN queue' : queue'[j] \in Conns /\ Awaits(queue'[j])
    BY <2>1 DEF Awaits
  <2>8. \A j \in DOMAIN queue' : queue'[j] \in Conns /\ life'[queue'[j]] \in {"open", "stuck"}
    BY <1>4, <2>1, <2>7 DEF Live
  <2> QED BY <1>4, <1>5, <2>6, <2>8
<1>13. ASSUME NodeActs PROVE Careful'
  <2>1. UNCHANGED <<life, queue>> /\ crashed' \in Spared
    BY <1>4, <1>13, Acting
  <2> QED BY <1>8, <2>1
<1>14. ASSUME UNCHANGED vars PROVE Careful'
  <2>1. UNCHANGED <<life, crashed, queue>>
    BY <1>14 DEF vars, packets
  <2> QED BY <1>4, <1>8, <2>1
<1>15. ASSUME NEW c \in Conns, NEW f \in Frame, Send(c, f) PROVE Careful'
  <2>1. UNCHANGED <<life, crashed, queue>>
    BY <1>15 DEF Send, packets
  <2> QED BY <1>4, <1>8, <2>1
<1> QED BY <1>7, <1>9, <1>10, <1>11, <1>12, <1>13, <1>14, <1>15
        DEF Next, NodeActs, tcp_listener_read

\* What clients can avoid: a careful one sends proper lengths and commands that
\* fit, waits for the status of each, leaves the control port with "exit" and
\* lists nodes only when there are any.  Then only a node that sends another
\* packet after its client left, and a connection to a socket that was
\* replaced, can end the daemon.  The proof needs that the parsers are in step,
\* so that no buffer is overrun (bus_streamToID, tcp_parse), and that whoever
\* gets a status (tcp_reply) or an unsolicited packet (listen_newMessage) is
\* connected.
THEOREM CarefulAreSafe == Spec => []CarefulClientsAreSafe
<1>1. Careful => CarefulClientsAreSafe
  BY DEF Careful, CarefulClientsAreSafe
<1> DEFINE I == Connected /\ NodeTypes /\ Understanding /\ Careful
<1>2. Init => I
  BY ConnectedInit, NodeInit, UnderstandingInit, CarefulInit
<1>3. I /\ [Next]_vars => I'
  BY ConnectedStep, NodeStep, UnderstandingStep, CarefulStep DEF Connected
<1>4. I => Careful
  OBVIOUS
<1> HIDE DEF I
<1> QED BY <1>1, <1>2, <1>3, <1>4, PTL DEF Spec

-----------------------------------------------------------------------------
(* Statuses *)

\* What the packet layer writes as a status goes to an owner of the address of
\* the session that asked, and this one is still connected.
LEMMA StatusesStep ==
  Connected /\ Careful /\ StatusesReachTheAsker /\ [Next]_vars => StatusesReachTheAsker'
<1> SUFFICES ASSUME Connected, Careful, StatusesReachTheAsker, [Next]_vars, careful'
             PROVE  \A j \in DOMAIN wrote' :
                      wrote'[j].what = "status" => wrote'[j].to = wrote'[j].asker
  BY DEF StatusesReachTheAsker
<1>1. Sessions /\ OneOwner /\ careful
  BY CarefulBefore DEF Connected
<1>2. CASE wrote' = <<>>
  BY <1>2
<1>3. CASE wrote' = wrote
  BY <1>1, <1>3 DEF StatusesReachTheAsker
<1>4. CASE packet_inpacket
  <2>1. "status" \in What /\ "reply" \in What /\ "unsolicited" \in What /\ NULL \in Conns \cup {NULL}
    BY DEF What
  <2>2. ASSUME NEW a \in Conns, Asking(a), Awaits(a), WriteTo(<<out[a]>>, "status", a),
               NEW j \in DOMAIN wrote'
        PROVE  wrote'[j].to = wrote'[j].asker
    <3> DEFINE ms == <<out[a]>>
    <3>1. ms \in Seq(Streams) /\ \A k \in DOMAIN ms : ms[k] = out[a]
      BY <1>1, <2>2 DEF Sessions, Asking
    <3>2. WriteTo(ms, "status", a) /\ "status" \in What /\ a \in Conns \cup {NULL}
      BY <2>1, <2>2
    <3> HIDE DEF ms
    <3>3. wrote'[j].asker = a /\ \E k \in DOMAIN ms : wrote'[j].to \in Owners(ms[k])
      <4>1. ms \in Seq(Streams) /\ j \in DOMAIN wrote'
        BY <2>2, <3>1
      <4>2. WriteTo(ms, "status", a)
        BY <3>2
      <4> QED BY <2>1, <4>1, <4>2, Writing
    <3>4. wrote'[j].to \in Owners(out[a])
      BY <3>1, <3>3
    <3>5. Live(a)
      BY <1>1, <2>2, CarefulAwaits
    <3> QED BY <1>1, <3>3, <3>4, <3>5 DEF Owners, OneOwner
  <2>3. ASSUME NEW a \in Conns, Asking(a), WriteTo(<<out[a]>>, "reply", a),
               NEW j \in DOMAIN wrote'
        PROVE  wrote'[j].what = "reply"
    <3>1. <<out[a]>> \in Seq(Streams)
      BY <1>1, <2>3 DEF Sessions, Asking
    <3> QED BY <2>1, <2>3, <3>1, Writing
  <2>4. ASSUME NEW i \in Index, WriteTo(listeners[i], "unsolicited", NULL),
               NEW j \in DOMAIN wrote'
        PROVE  wrote'[j].what = "unsolicited"
    <3>1. listeners[i] \in Seq(Streams)
      BY <1>1 DEF Sessions, SessionTypes
    <3> QED BY <2>1, <2>4, <3>1, Writing
  <2>5. \/ \E a \in Conns :
             Asking(a) /\ Awaits(a) /\ WriteTo(<<out[a]>>, "status", a)
        \/ \E a \in Conns : Asking(a) /\ WriteTo(<<out[a]>>, "reply", a)
        \/ \E i \in Index : WriteTo(listeners[i], "unsolicited", NULL)
    BY <1>1, <1>4, Addressed DEF Awaits
  <2> QED BY <2>2, <2>3, <2>4, <2>5
<1>5. ASSUME NEW c \in Conns, tcp_listener_read(c) PROVE wrote' = <<>> \/ wrote' = wrote
  BY <1>5 DEF tcp_listener_read, Read, Eof, ReadError
<1>6. ASSUME NEW c \in Conns, NEW p \in Port, NEW m \in Streams, tcp_listener(c, p, m)
      PROVE  wrote' = <<>>
  BY <1>6 DEF tcp_listener
<1>7. ASSUME NEW c \in Conns, NEW f \in Frame, Send(c, f) PROVE wrote' = <<>>
  BY <1>7 DEF Send
<1>8. NodeActs => wrote' = <<>> \/ wrote' = wrote
  BY DEF NodeActs, busmgt_setClasses, net_createSockets, ShouldNotHappen
<1>9. UNCHANGED vars => wrote' = wrote
  BY DEF vars
<1> QED BY <1>2, <1>3, <1>4, <1>5, <1>6, <1>7, <1>8, <1>9 DEF Next, NodeActs

\* A status is written to the session that asked for it (tcp_reply): while all
\* clients wait for theirs, the session of each command in the packet layer is
\* connected, a failed read included, and no other stream has its address.
THEOREM StatusesReach == Spec => []StatusesReachTheAsker
<1> DEFINE I == Connected /\ NodeTypes /\ Understanding /\ Careful
           J == I /\ StatusesReachTheAsker
<1>1. Init => StatusesReachTheAsker
  BY DEF Init, StatusesReachTheAsker
<1>2. Init => I
  BY ConnectedInit, NodeInit, UnderstandingInit, CarefulInit
<1>3. I /\ [Next]_vars => I'
  BY ConnectedStep, NodeStep, UnderstandingStep, CarefulStep DEF Connected
<1>4. I => Connected /\ Careful
  OBVIOUS
<1> HIDE DEF I
<1>5. J /\ [Next]_vars => J'
  BY <1>3, <1>4, StatusesStep
<1>6. J => StatusesReachTheAsker
  OBVIOUS
<1>7. Init => J
  BY <1>1, <1>2
<1> HIDE DEF J
<1> QED BY <1>5, <1>6, <1>7, PTL DEF Spec
=============================================================================
