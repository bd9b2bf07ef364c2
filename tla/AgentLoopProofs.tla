-------------------------- MODULE AgentLoopProofs --------------------------
(***************************************************************************)
(* The tool loop, for every provider, cap on the turns and number of       *)
(* calls: how far a run can overshoot the token budget, that what is sent  *)
(* is a conversation in which each call is answered once, that the window  *)
(* of Gemini holds, and how many steps a run takes at most.                *)
(***************************************************************************)
EXTENDS AgentLoop, SequenceTheorems, WellFoundedInduction, TLAPS

\* A turn begun over budget is past its parsing, and with the budget gone no
\* later check lets the loop parse again.  The first response is the one
\* that is not checked: it comes before any turn.
BudgetInv ==
  /\ turn \in Nat /\ over \in BOOLEAN /\ overTurns \in {0, 1}
  /\ overTurns = 1 => over /\ turn # 0 /\ pc # "parse"

LEMMA BudgetInit == Init => BudgetInv
  BY DEF Init, BudgetInv

\* Every step keeps the invariant, whatever the history holds.
LEMMA BudgetStep == BudgetInv /\ [Next]_vars => BudgetInv'
<1> SUFFICES ASSUME BudgetInv, [Next]_vars
             PROVE  BudgetInv'
  OBVIOUS
<1> USE DEF BudgetInv
<1>1. ASSUME NEW at, Raise(at) PROVE BudgetInv'
  BY <1>1 DEF Raise, Goto
<1>2. CASE SendSucceeds
  BY <1>2 DEF SendSucceeds, Goto
<1>3. CASE SendRetried
  BY <1>3 DEF SendRetried
<1>4. CASE PruneAndCheck
  BY <1>4 DEF PruneAndCheck, Goto
<1>5. CASE Finish
  BY <1>5 DEF Finish, Goto
<1>6. CASE BeginTurn
  BY <1>6 DEF BeginTurn, Goto
<1>7. CASE RunTool
  BY <1>7 DEF RunTool
<1>8. CASE OthersSpend
  BY <1>8 DEF OthersSpend
<1>9. CASE SendFails \/ PruneFails \/ TooManyTurns \/ Cancelled
  BY <1>1, <1>9 DEF SendFails, PruneFails, TooManyTurns, Cancelled
<1>10. CASE UNCHANGED vars
  BY <1>10 DEF vars
<1> QED
  BY <1>2, <1>3, <1>4, <1>5, <1>6, <1>7, <1>8, <1>9, <1>10 DEF Next, Advance

\* At most one turn of tools begins once the budget is used up, for every
\* provider, cap on the turns and number of calls (agent_loop.py:293-298).
THEOREM BudgetOvershoot == Spec => []OneTurnOverBudget
<1>1. BudgetInv => OneTurnOverBudget
  BY DEF BudgetInv, OneTurnOverBudget
<1> QED
  BY <1>1, BudgetInit, BudgetStep, PTL DEF Spec
-----------------------------------------------------------------------------
(* Sequences.                                                              *)

\* A nonempty set of naturals has a least element.
LEMMA LeastInSet ==
  ASSUME NEW S, S \subseteq Nat, S # {}
  PROVE  \E x \in S : \A y \in S : x <= y
<1>1. PICK x \in S : \A y \in S : ~ (<<y, x>> \in OpToRel(<, Nat))
  BY WFMin, NatLessThanWellFounded
<1>2. ASSUME NEW y \in S PROVE x <= y
  <2>1. <<y, x>> \in Nat \X Nat
    OBVIOUS
  <2>2. ~(y < x)
    BY <1>1, <2>1 DEF OpToRel
  <2>. QED BY <2>2
<1>. QED BY <1>2

\* g[i] joins the first i of n sequences.
Joins(g, seqs, n) ==
  /\ g = [i \in 1 .. n |-> g[i]]
  /\ \A i \in 1 .. n : g[i] = IF i = 1 THEN seqs[i] ELSE g[i - 1] \o seqs[i]

\* A function that joins them tells their flattening: no other does.
LEMMA FlattenIs ==
  ASSUME NEW seqs, NEW n \in Nat \ {0}, Len(seqs) = n, NEW g, Joins(g, seqs, n)
  PROVE  FlattenSeq(seqs) = g[n]
<1>. DEFINE Eq(f) == f = [i \in 1 .. n |-> IF i = 1 THEN seqs[i] ELSE f[i - 1] \o seqs[i]]
            h == CHOOSE f : Eq(f)
<1>1. Eq(g)
  <2>1. g = [i \in 1 .. n |-> IF i = 1 THEN seqs[i] ELSE g[i - 1] \o seqs[i]]
    BY DEF Joins
  <2>. QED BY <2>1
<1>2. Eq(h)
  BY <1>1
<1>3. FlattenSeq(seqs) = h[n]
  BY DEF FlattenSeq
<1>. HIDE DEF h
<1>4. \A i \in 1 .. n : h[i] = g[i]
  <2>. SUFFICES ASSUME NEW j \in 1 .. n, h[j] # g[j] PROVE FALSE
    OBVIOUS
  <2>. DEFINE S == {i \in 1 .. n : h[i] # g[i]}
  <2>0. S \subseteq Nat /\ S # {}
    <3>1. S \subseteq 1 .. n /\ 1 .. n \subseteq Nat
      OBVIOUS
    <3>2. j \in S
      OBVIOUS
    <3>. QED BY ONLY <3>1, <3>2
  <2>1. PICK x \in S : \A y \in S : x <= y
    <3>. HIDE DEF S
    <3>. QED BY <2>0, LeastInSet
  <2>2. x \in 1 .. n /\ h[x] # g[x]
    OBVIOUS
  <2>3. x # 1
    BY <1>1, <1>2, <2>2
  <2>4. x - 1 \in 1 .. n
    BY <2>2, <2>3
  <2>5. h[x - 1] = g[x - 1]
    BY <2>1, <2>4
  <2>6. h[x] = h[x - 1] \o seqs[x] /\ g[x] = g[x - 1] \o seqs[x]
    BY <1>1, <1>2, <2>2, <2>3
  <2>. QED BY <2>2, <2>5, <2>6
<1>. QED BY <1>3, <1>4

\* One sequence is its own flattening,
LEMMA FlattenOne ==
  ASSUME NEW seqs, Len(seqs) = 1
  PROVE  FlattenSeq(seqs) = seqs[1]
<1>. DEFINE g == [i \in 1 .. 1 |-> seqs[1]]
<1>1. g = [i \in 1 .. 1 |-> g[i]] /\ g[1] = seqs[1]
  OBVIOUS
<1>2. \A i \in 1 .. 1 : g[i] = IF i = 1 THEN seqs[i] ELSE g[i - 1] \o seqs[i]
  OBVIOUS
<1>3. 1 \in Nat \ {0}
  OBVIOUS
<1>. HIDE DEF g
<1>4. Joins(g, seqs, 1)
  BY <1>1, <1>2 DEF Joins
<1>. QED BY <1>1, <1>3, <1>4, FlattenIs

\* sequences of one element each make up the sequence of their elements,
LEMMA FlattenSingles ==
  ASSUME NEW S, NEW p \in Seq(S), NEW seqs, seqs = [k \in 1 .. Len(p) |-> <<p[k]>>]
  PROVE  FlattenSeq(seqs) = p
<1>. DEFINE n == Len(p)
            g == [i \in 1 .. n |-> SubSeq(p, 1, i)]
<1>1. n \in Nat /\ Len(seqs) = n
  OBVIOUS
<1>2. CASE n = 0
  <2>1. seqs = <<>> /\ p = <<>>
    BY <1>2
  <2>. QED BY <1>1, <1>2, <2>1 DEF FlattenSeq
<1>3. CASE n # 0
  <2>1. ASSUME NEW i \in 1 .. n
        PROVE  g[i] = IF i = 1 THEN seqs[i] ELSE g[i - 1] \o seqs[i]
    <3>1. 1 \in 1 .. Len(p) /\ i \in 1 .. Len(p)
      BY <1>3
    <3>2. SubSeq(p, 1, i) = SubSeq(p, 1, i - 1) \o <<p[i]>>
      BY <3>1, SubSeqRecursiveSecond
    <3>3. CASE i = 1
      <4>1. i - 1 \in Int /\ i - 1 < 1
        BY <3>3
      <4>2. SubSeq(p, 1, i - 1) = <<>>
        BY <4>1, SubSeqEmpty
      <4>3. p[i] \in S /\ <<p[i]>> \in Seq(S)
        BY <3>1
      <4>4. <<>> \o <<p[i]>> = <<p[i]>>
        BY <4>3, ConcatEmptySeq
      <4>5. SubSeq(p, 1, i) = <<p[i]>>
        BY <3>2, <4>2, <4>4
      <4>6. g[i] = <<p[i]>> /\ seqs[i] = <<p[i]>>
        BY <4>5
      <4>. QED BY <3>3, <4>6
    <3>4. CASE i # 1
      BY <3>1, <3>2, <3>4
    <3>. QED BY <3>3, <3>4
  <2>2. g[n] = p
    BY <1>3, SubSeqFull
  <2>3. g = [i \in 1 .. n |-> g[i]] /\ n \in Nat \ {0}
    BY <1>3
  <2>. HIDE DEF g, n
  <2>4. Joins(g, seqs, n)
    BY <2>1, <2>3 DEF Joins
  <2>. QED BY <1>1, <2>2, <2>3, <2>4, FlattenIs
<1>. QED BY <1>2, <1>3

\* and empty ones are no more than the empty one.
LEMMA FlattenEmpties ==
  ASSUME NEW n \in Nat, NEW seqs, seqs = [k \in 1 .. n |-> <<>>]
  PROVE  FlattenSeq(seqs) = <<>>
<1>. DEFINE g == [i \in 1 .. n |-> <<>>]
<1>1. Len(seqs) = n
  OBVIOUS
<1>2. CASE n = 0
  <2>1. seqs = <<>>
    BY <1>2
  <2>. QED BY <1>1, <1>2, <2>1 DEF FlattenSeq
<1>3. CASE n # 0
  <2>1. ASSUME NEW i \in 1 .. n
        PROVE  g[i] = IF i = 1 THEN seqs[i] ELSE g[i - 1] \o seqs[i]
    <3>1. <<>> \o <<>> = <<>>
      BY ConcatEmptySeq
    <3>. QED BY <3>1
  <2>2. g = [i \in 1 .. n |-> g[i]] /\ n \in Nat \ {0} /\ g[n] = <<>>
    BY <1>3
  <2>. HIDE DEF g
  <2>3. Joins(g, seqs, n)
    BY <2>1, <2>2 DEF Joins
  <2>. QED BY <1>1, <2>2, <2>3, FlattenIs
<1>. QED BY <1>2, <1>3
-----------------------------------------------------------------------------
(* The conversation.                                                       *)

\* What answers a response's calls: one message with all answers for Gemini,
\* a message for each with the local provider.
Reply(calls) ==
  IF provider = "gemini" THEN <<Answering("user", calls)>>
  ELSE [k \in DOMAIN calls |-> Answering("tool", <<calls[k]>>)]

\* Message i of h is followed by its reply, and that by the next response.
Answered(h, i) ==
  LET r == Reply(h[i].calls)
  IN /\ i + Len(r) <= Len(h)
     /\ \A k \in DOMAIN r : h[i + k] = r[k]
     /\ i + Len(r) = Len(h) \/ h[i + Len(r) + 1].role = "model"

\* Message j of h is part of a reply.
InReply(h, j) ==
  \E i \in 1 .. j - 1 : h[i].role = "model" /\ j <= i + Len(Reply(h[i].calls))

\* A conversation whose last response may still be unanswered.
Conversation(h) ==
  /\ h \in Seq(Message) /\ h # <<>> /\ h[1] = Prompt
  /\ \A j \in DOMAIN h : h[j].role = "model" \/ h[j] = Prompt \/ InReply(h, j)
  /\ \A i \in DOMAIN h : h[i].role = "model" /\ i < Len(h) => Answered(h, i)

\* A conversation without an unanswered response.
Closed(h) ==
  Conversation(h) /\ \A i \in DOMAIN h : h[i].role = "model" => Answered(h, i)

\* It ends in a response.
Open == Conversation(history) /\ Last(history).role = "model"

ConvInv ==
  /\ TypeOK
  /\ pc = "send" => IF turn = 0 THEN history = <<>> /\ payload = <<>>
                    ELSE Open /\ payload = Last(history).calls
  /\ pc \in {"prune", "parse"} => Open /\ payload = <<>>
  /\ pc = "tools" =>
       /\ Open /\ turn # 0
       /\ Len(payload) < Len(Last(history).calls)
       /\ payload = SubSeq(Last(history).calls, 1, Len(payload))

\* What a reply is made of.
LEMMA ReplyShape ==
  ASSUME provider \in {"gemini", "local"}, NEW calls \in Seq(CallIds)
  PROVE  /\ Reply(calls) \in Seq(Message) /\ Len(Reply(calls)) \in Nat
         /\ DOMAIN Reply(calls) = 1 .. Len(Reply(calls))
         /\ \A k \in DOMAIN Reply(calls) :
              Reply(calls)[k].role \notin {"model", Boundary}
<1>1. CASE provider = "gemini"
  <2>1. Reply(calls) = <<Answering("user", calls)>>
    BY <1>1 DEF Reply
  <2>2. Answering("user", calls) \in Message /\ Answering("user", calls).role = "user"
    BY DEF Answering, Message
  <2>3. Boundary = "model"
    BY <1>1 DEF Boundary
  <2>. QED BY <2>1, <2>2, <2>3
<1>2. CASE provider = "local"
  <2>1. Reply(calls) = [k \in 1 .. Len(calls) |-> Answering("tool", <<calls[k]>>)]
    BY <1>2 DEF Reply
  <2>2. ASSUME NEW k \in 1 .. Len(calls)
        PROVE  /\ Answering("tool", <<calls[k]>>) \in Message
               /\ Answering("tool", <<calls[k]>>).role = "tool"
    BY DEF Answering, Message
  <2>3. Boundary = "user"
    BY <1>2 DEF Boundary
  <2>4. Len(calls) \in Nat
    OBVIOUS
  <2>5. /\ Reply(calls) \in Seq(Message) /\ Len(Reply(calls)) = Len(calls)
        /\ DOMAIN Reply(calls) = 1 .. Len(calls)
    BY <2>1, <2>2, <2>4
  <2>. QED BY <2>1, <2>2, <2>3, <2>4, <2>5
<1>. QED BY <1>1, <1>2

\* The calls of a response in a conversation are call ids.
LEMMA CallsTyped ==
  ASSUME NEW h \in Seq(Message), NEW i \in DOMAIN h
  PROVE  h[i] \in Message /\ h[i].calls \in Seq(CallIds) /\ i \in 1 .. Len(h)
<1>1. h[i] \in Message /\ i \in 1 .. Len(h)
  OBVIOUS
<1>2. \A m \in Message : m.calls \in Seq(CallIds)
  BY DEF Message
<1>. QED BY <1>1, <1>2

LEMMA ClosedStart == Closed(<<Prompt>>)
<1>1. Prompt \in Message /\ Prompt.role = "user"
  BY DEF Prompt, Message
<1>. QED BY <1>1 DEF Closed, Conversation

\* The reply to the last response closes the conversation.
LEMMA Replied ==
  ASSUME provider \in {"gemini", "local"}, NEW h, Conversation(h), Last(h).role = "model"
  PROVE  Closed(h \o Reply(Last(h).calls))
<1>. DEFINE n == Len(h)
            r == Reply(h[n].calls)
            g == h \o r
<1>1. h \in Seq(Message) /\ n \in Nat \ {0} /\ n \in DOMAIN h /\ DOMAIN h = 1 .. n
  BY DEF Conversation
<1>2. h[n].role = "model" /\ h[n].calls \in Seq(CallIds) /\ Last(h) = h[n]
  BY <1>1, CallsTyped DEF Last
<1>3. /\ r \in Seq(Message) /\ Len(r) \in Nat /\ DOMAIN r = 1 .. Len(r)
      /\ \A k \in DOMAIN r : r[k].role # "model"
  BY <1>2, ReplyShape
<1>. HIDE DEF r
<1>4. /\ g \in Seq(Message) /\ Len(g) = n + Len(r) /\ DOMAIN g = 1 .. n + Len(r)
      /\ \A i \in 1 .. n : g[i] = h[i]
      /\ \A k \in 1 .. Len(r) : n + k \in DOMAIN g /\ g[n + k] = r[k]
      /\ \A j \in DOMAIN g \ 1 .. n : j - n \in 1 .. Len(r)
  <2>1. /\ g \in Seq(Message) /\ Len(g) = n + Len(r)
        /\ \A i \in 1 .. n + Len(r) : g[i] = IF i <= n THEN h[i] ELSE r[i - n]
    BY <1>1, <1>3, ConcatProperties
  <2>. HIDE DEF n, g
  <2>2. DOMAIN g = 1 .. n + Len(r)
    BY <1>1, <1>3, <2>1
  <2>3. \A i \in 1 .. n : g[i] = h[i]
    BY <1>1, <1>3, <2>1
  <2>4. ASSUME NEW k \in 1 .. Len(r) PROVE n + k \in 1 .. n + Len(r) /\ g[n + k] = r[k]
    <3>1. n + k \in 1 .. n + Len(r) /\ ~(n + k <= n) /\ (n + k) - n = k
      BY <1>1, <1>3
    <3>. QED BY <2>1, <3>1
  <2>5. \A j \in 1 .. n + Len(r) : j \notin 1 .. n => j - n \in 1 .. Len(r)
    BY <1>1, <1>3
  <2>. QED BY <2>1, <2>2, <2>3, <2>4, <2>5
<1>5. g # <<>> /\ g[1] = Prompt
  BY <1>1, <1>4 DEF Conversation
<1>6. \A k \in 1 .. Len(r) : g[n + k] = r[k] /\ g[n + k].role # "model"
  BY <1>3, <1>4
<1>. HIDE DEF g
<1>7. ASSUME NEW i \in DOMAIN g, g[i].role = "model"
      PROVE  i \in 1 .. n /\ h[i].role = "model"
  BY <1>1, <1>3, <1>4, <1>6, <1>7
<1>8. ASSUME NEW i \in DOMAIN g, g[i].role = "model"
      PROVE  Answered(g, i)
  <2>1. i \in 1 .. n /\ h[i].role = "model" /\ g[i] = h[i]
    BY <1>4, <1>7, <1>8
  <2>2. CASE i = n
    <3>1. Reply(g[i].calls) = r
      BY <2>1, <2>2 DEF r
    <3>. QED BY <1>1, <1>3, <1>4, <2>2, <3>1 DEF Answered
  <2>3. CASE i # n
    <3>. DEFINE q == Reply(h[i].calls)
    <3>1. Answered(h, i)
      BY <1>1, <2>1, <2>3 DEF Conversation
    <3>2. Len(q) \in Nat /\ DOMAIN q = 1 .. Len(q) /\ \A k \in DOMAIN q : q[k].role # "model"
      BY <1>1, <2>1, CallsTyped, ReplyShape
    <3>3. /\ i + Len(q) <= n
          /\ \A k \in DOMAIN q : h[i + k] = q[k]
          /\ i + Len(q) = n \/ h[i + Len(q) + 1].role = "model"
      BY <3>1 DEF Answered
    <3>4. Reply(g[i].calls) = q
      BY <2>1
    <3>. HIDE DEF q
    <3>5. i + Len(q) # n
      BY <1>1, <1>2, <2>1, <2>3, <3>2, <3>3
    <3>6. i + Len(q) + 1 \in 1 .. n /\ \A k \in DOMAIN q : i + k \in 1 .. n
      BY <1>1, <2>1, <3>2, <3>3, <3>5
    <3>. QED BY <1>1, <1>3, <1>4, <3>2, <3>3, <3>4, <3>6 DEF Answered
  <2>. QED BY <2>2, <2>3
<1>9. ASSUME NEW j \in DOMAIN g
      PROVE  g[j].role = "model" \/ g[j] = Prompt \/ InReply(g, j)
  <2>1. CASE j \in 1 .. n
    <3>1. g[j] = h[j] /\ (h[j].role = "model" \/ h[j] = Prompt \/ InReply(h, j))
      BY <1>1, <1>4, <2>1 DEF Conversation
    <3>2. ASSUME InReply(h, j) PROVE InReply(g, j)
      <4>1. PICK i \in 1 .. j - 1 : h[i].role = "model" /\ j <= i + Len(Reply(h[i].calls))
        BY <3>2 DEF InReply
      <4>2. g[i] = h[i]
        BY <1>1, <1>4, <2>1
      <4>. QED BY <4>1, <4>2 DEF InReply
    <3>. QED BY <3>1, <3>2
  <2>2. CASE j \notin 1 .. n
    <3>1. n \in 1 .. j - 1 /\ j <= n + Len(r)
      BY <1>1, <1>3, <1>4, <2>2
    <3>2. g[n].role = "model" /\ Reply(g[n].calls) = r
      BY <1>1, <1>2, <1>4 DEF r
    <3>. QED BY <3>1, <3>2 DEF InReply
  <2>. QED BY <2>1, <2>2
<1>10. Closed(g)
  BY <1>4, <1>5, <1>8, <1>9 DEF Closed, Conversation
<1>. QED BY <1>2, <1>10 DEF g, r

\* The next response opens it again.
LEMMA Responded ==
  ASSUME provider \in {"gemini", "local"}, NEW h, Closed(h), NEW m \in Message, m.role = "model"
  PROVE  Conversation(Append(h, m)) /\ Last(Append(h, m)) = m
<1>. DEFINE n == Len(h)
            g == Append(h, m)
<1>1. h \in Seq(Message) /\ n \in Nat \ {0} /\ DOMAIN h = 1 .. n
  BY DEF Closed, Conversation
<1>2. /\ g \in Seq(Message) /\ Len(g) = n + 1 /\ DOMAIN g = 1 .. n + 1
      /\ \A i \in 1 .. n : g[i] = h[i]
      /\ g[n + 1] = m
  BY <1>1
<1>. HIDE DEF g
<1>3. g # <<>> /\ g[1] = Prompt
  BY <1>1, <1>2 DEF Closed, Conversation
<1>4. ASSUME NEW i \in DOMAIN g, g[i].role = "model", i < n + 1
      PROVE  Answered(g, i)
  <2>. DEFINE q == Reply(h[i].calls)
  <2>1. i \in 1 .. n /\ h[i].role = "model" /\ g[i] = h[i]
    BY <1>1, <1>2, <1>4
  <2>2. Answered(h, i)
    BY <1>1, <2>1 DEF Closed
  <2>3. Len(q) \in Nat /\ DOMAIN q = 1 .. Len(q)
    BY <1>1, <2>1, CallsTyped, ReplyShape
  <2>4. /\ i + Len(q) <= n
        /\ \A k \in DOMAIN q : h[i + k] = q[k]
        /\ i + Len(q) = n \/ h[i + Len(q) + 1].role = "model"
    BY <2>2 DEF Answered
  <2>5. Reply(g[i].calls) = q
    BY <2>1
  <2>. HIDE DEF q
  <2>6. /\ \A k \in DOMAIN q : g[i + k] = q[k]
        /\ i + Len(q) <= n + 1
    BY <1>1, <1>2, <2>1, <2>3, <2>4
  <2>7. g[i + Len(q) + 1].role = "model"
    <3>1. CASE i + Len(q) = n
      BY <1>2, <3>1
    <3>2. CASE i + Len(q) # n
      <4>1. i + Len(q) + 1 \in 1 .. n
        BY <1>1, <2>1, <2>3, <2>4, <3>2
      <4>. QED BY <1>2, <2>4, <3>2, <4>1
    <3>. QED BY <3>1, <3>2
  <2>. QED BY <1>2, <2>5, <2>6, <2>7 DEF Answered
<1>5. ASSUME NEW j \in DOMAIN g
      PROVE  g[j].role = "model" \/ g[j] = Prompt \/ InReply(g, j)
  <2>1. CASE j \in 1 .. n
    <3>1. g[j] = h[j] /\ (h[j].role = "model" \/ h[j] = Prompt \/ InReply(h, j))
      BY <1>1, <1>2, <2>1 DEF Closed, Conversation
    <3>2. ASSUME InReply(h, j) PROVE InReply(g, j)
      <4>1. PICK i \in 1 .. j - 1 : h[i].role = "model" /\ j <= i + Len(Reply(h[i].calls))
        BY <3>2 DEF InReply
      <4>2. g[i] = h[i]
        BY <1>1, <1>2, <2>1
      <4>. QED BY <4>1, <4>2 DEF InReply
    <3>. QED BY <3>1, <3>2
  <2>2. CASE j = n + 1
    BY <1>2, <2>2
  <2>. QED BY <1>1, <1>2, <2>1, <2>2
<1>6. Conversation(g)
  BY <1>2, <1>3, <1>4, <1>5 DEF Conversation
<1>7. Last(g) = m
  BY <1>2 DEF Last
<1>. QED BY <1>6, <1>7 DEF g

\* A bounded nonempty set of naturals has its maximum.
LEMMA MaxInSet ==
  ASSUME NEW S, S \subseteq Nat, S # {}, NEW n \in Nat, \A x \in S : x <= n
  PROVE  Max(S) \in S /\ \A x \in S : x <= Max(S)
<1>. DEFINE Bounds == {m \in Nat : \A x \in S : x <= m}
<1>1. PICK m \in Bounds : \A y \in Bounds : m <= y
  <2>1. Bounds \subseteq Nat /\ Bounds # {}
    OBVIOUS
  <2>. HIDE DEF Bounds
  <2>. QED BY <2>1, LeastInSet
<1>2. m \in S
  <2>1. SUFFICES ASSUME m \notin S PROVE FALSE
    OBVIOUS
  <2>2. \A x \in S : x <= m - 1
    BY <2>1
  <2>3. PICK x \in S : x <= m - 1
    BY <2>2
  <2>4. m - 1 \in Bounds
    BY <2>2, <2>3
  <2>. QED BY <1>1, <2>4
<1>. QED BY <1>2 DEF Max

\* Message i of a history is message j of one cut at c.
LEMMA Shifted ==
  ASSUME NEW n \in Nat, NEW c \in 1 .. n - 4, NEW j \in 2 .. n - c + 2, NEW i, i = j + c - 2,
         NEW l \in Nat, i + l <= n
  PROVE  j + l \in 2 .. n - c + 2 /\ (j + l) + c - 2 = i + l
OBVIOUS

\* A prune cuts at a boundary and so between a reply and the next response:
\* what is left is a conversation that ends as before.
LEMMA PrunedKeeps ==
  ASSUME provider \in {"gemini", "local"}, NEW h, Conversation(h)
  PROVE  Conversation(Pruned(h)) /\ Last(Pruned(h)) = Last(h)
<1>1. CASE ~Prunable(h)
  BY <1>1 DEF Pruned
<1>2. CASE Prunable(h)
  <2>. DEFINE n == Len(h)
              c == Max(Cuts(h))
              s == SubSeq(h, c, n)
              g == <<h[1]>> \o s
  <2>1. h \in Seq(Message) /\ n \in Nat /\ n > 6 /\ DOMAIN h = 1 .. n /\ h[1] = Prompt
    BY <1>2 DEF Conversation, Prunable, MaxHistoryTurns
  <2>2. c \in 1 .. n - 4 /\ h[c].role = Boundary
    <3>1. Cuts(h) = {i \in 1 .. n - 4 : h[i].role = Boundary}
      BY <2>1 DEF Cuts, MaxHistoryTurns
    <3>2. Cuts(h) \subseteq Nat /\ Cuts(h) # {} /\ \A x \in Cuts(h) : x <= n
      BY <1>2, <2>1, <3>1 DEF Prunable
    <3>3. c \in Cuts(h)
      BY <2>1, <3>2, MaxInSet
    <3>. HIDE DEF c
    <3>. QED BY <3>1, <3>3
  <2>. HIDE DEF c
  <2>3. /\ s \in Seq(Message) /\ Len(s) = n - c + 1
        /\ \A i \in 1 .. n - c + 1 : s[i] = h[c + i - 1]
    <3>1. c \in Int /\ n \in Int /\ c <= n /\ \A i \in c .. n : h[i] \in Message
      BY <2>1, <2>2
    <3>. QED BY <3>1, SubSeqProperties
  <2>. HIDE DEF s
  <2>4. /\ g \in Seq(Message) /\ Len(g) = n - c + 2 /\ DOMAIN g = 1 .. n - c + 2
        /\ g[1] = h[1]
        /\ \A j \in 2 .. n - c + 2 : g[j] = h[j + c - 2] /\ j + c - 2 \in c .. n
    <3>1. <<h[1]>> \in Seq(Message) /\ Len(<<h[1]>>) = 1
      BY <2>1
    <3>2. /\ g \in Seq(Message) /\ Len(g) = 1 + (n - c + 1)
          /\ \A i \in 1 .. 1 + (n - c + 1) : g[i] = IF i <= 1 THEN h[1] ELSE s[i - 1]
      BY <2>3, <3>1, ConcatProperties
    <3>. HIDE DEF n, g
    <3>3. \A j \in 2 .. n - c + 2 : j - 1 \in 1 .. n - c + 1 /\ c + (j - 1) - 1 = j + c - 2
      BY <2>1, <2>2
    <3>4. \A j \in 2 .. n - c + 2 : g[j] = s[j - 1]
      BY <2>1, <2>2, <3>2
    <3>5. \A j \in 2 .. n - c + 2 : g[j] = h[j + c - 2]
      BY <2>3, <3>3, <3>4
    <3>. QED BY <2>1, <2>2, <3>2, <3>5
  <2>. HIDE DEF g
  <2>5. Pruned(h) = g
    <3>1. Head(h) = h[1]
      BY <2>1
    <3>2. Pruned(h) = <<Head(h)>> \o SubSeq(h, c, n)
      BY <1>2 DEF Pruned, c
    <3>. QED BY <3>1, <3>2 DEF g, s
  <2>6. g # <<>> /\ g[1] = Prompt
    BY <2>1, <2>2, <2>4
  <2>7. ASSUME NEW i \in 1 .. n, h[i].role = "model", i < c
        PROVE  i + Len(Reply(h[i].calls)) < c
    <3>. DEFINE q == Reply(h[i].calls)
    <3>1. /\ Len(q) \in Nat /\ DOMAIN q = 1 .. Len(q)
          /\ \A k \in DOMAIN q : q[k].role # Boundary
      BY <2>1, CallsTyped, ReplyShape
    <3>2. \A k \in DOMAIN q : h[i + k] = q[k]
      BY <2>1, <2>2, <2>7 DEF Answered, Conversation
    <3>3. SUFFICES ASSUME c <= i + Len(q) PROVE FALSE
      BY <2>1, <2>2, <3>1
    <3>. HIDE DEF q
    <3>4. c - i \in DOMAIN q /\ i + (c - i) = c
      BY <2>1, <2>2, <2>7, <3>1, <3>3
    <3>. QED BY <2>2, <3>1, <3>2, <3>4
  <2>8. ASSUME NEW j \in DOMAIN g
        PROVE  g[j].role = "model" \/ g[j] = Prompt \/ InReply(g, j)
    <3>1. CASE j = 1
      BY <2>6, <3>1
    <3>2. CASE j # 1
      <4>. DEFINE k == j + c - 2
      <4>1. j \in 2 .. n - c + 2 /\ k \in 1 .. n /\ k >= c /\ g[j] = h[k]
        BY <2>1, <2>2, <2>4, <3>2
      <4>2. SUFFICES ASSUME InReply(h, k) PROVE InReply(g, j)
        BY <2>1, <4>1 DEF Conversation
      <4>3. PICK i \in 1 .. k - 1 : h[i].role = "model" /\ k <= i + Len(Reply(h[i].calls))
        BY <4>2 DEF InReply
      <4>4. Len(Reply(h[i].calls)) \in Nat
        BY <2>1, <4>1, <4>3, CallsTyped, ReplyShape
      <4>5. i >= c
        <5>1. SUFFICES ASSUME i < c PROVE FALSE
          BY <2>2, <4>3
        <5>2. i \in 1 .. n
          BY <2>2, <4>3, <5>1
        <5>3. i + Len(Reply(h[i].calls)) < c
          BY <2>7, <4>3, <5>1, <5>2
        <5>. HIDE DEF k
        <5>. QED BY <2>2, <4>1, <4>3, <4>4, <5>2, <5>3
      <4>. DEFINE m == i - c + 2
      <4>6. m \in 2 .. n - c + 2 /\ m \in 1 .. j - 1 /\ m + c - 2 = i
        BY <2>1, <2>2, <4>1, <4>3, <4>5
      <4>7. g[m] = h[i]
        BY <2>4, <4>6
      <4>8. j <= m + Len(Reply(g[m].calls))
        BY <2>1, <2>2, <4>1, <4>3, <4>4, <4>7
      <4>. QED BY <4>3, <4>6, <4>7, <4>8 DEF InReply
    <3>. QED BY <3>1, <3>2
  <2>9. ASSUME NEW j \in DOMAIN g, g[j].role = "model", j < Len(g)
        PROVE  Answered(g, j)
    <3>. DEFINE i == j + c - 2
                q == Reply(h[i].calls)
    <3>0. j # 1
      BY <2>6, <2>9 DEF Prompt
    <3>1. j \in 2 .. n - c + 2 /\ i \in 1 .. n /\ i < n /\ g[j] = h[i]
      <4>1. j \in 1 .. n - c + 2 /\ j < n - c + 2
        BY <2>4, <2>9
      <4>. HIDE DEF n
      <4>2. j \in 2 .. n - c + 2 /\ i \in 1 .. n /\ i < n
        BY <2>1, <2>2, <3>0, <4>1
      <4>. QED BY <2>4, <4>2
    <3>. HIDE DEF i
    <3>2. /\ i + Len(q) <= n
          /\ \A k \in DOMAIN q : h[i + k] = q[k]
          /\ i + Len(q) = n \/ h[i + Len(q) + 1].role = "model"
      BY <2>1, <2>9, <3>1 DEF Conversation, Answered
    <3>3. Len(q) \in Nat /\ DOMAIN q = 1 .. Len(q) /\ Reply(g[j].calls) = q
      BY <2>1, <3>1, CallsTyped, ReplyShape
    <3>. HIDE DEF q
    <3>4. ASSUME NEW k \in DOMAIN q PROVE g[j + k] = q[k]
      <4>1. j + k \in 2 .. n - c + 2 /\ (j + k) + c - 2 = i + k
        <5>1. n \in Nat /\ c \in 1 .. n - 4 /\ j \in 2 .. n - c + 2
          BY <2>1, <2>2, <3>1
        <5>2. i = j + c - 2 /\ i \in 1 .. n
          BY <3>1 DEF i
        <5>3. k \in 1 .. Len(q) /\ Len(q) \in Nat /\ i + Len(q) <= n
          BY <3>2, <3>3, <3>4
        <5>4. k \in Nat /\ i + k <= n
          BY <5>3, <3>1
        <5>. HIDE DEF n
        <5>. QED BY <5>1, <5>2, <5>4, Shifted
      <4>2. g[j + k] = h[(j + k) + c - 2]
        BY <2>4, <4>1
      <4>. QED BY <3>2, <4>1, <4>2
    <3>5. j + Len(q) <= Len(g)
      <4>1. Len(g) = n - c + 2 /\ n \in Nat /\ c \in 1 .. n - 4 /\ j \in 2 .. n - c + 2
        BY <2>1, <2>2, <2>4, <3>1
      <4>2. Len(q) \in Nat /\ (j + c - 2) + Len(q) <= n
        BY <3>2, <3>3 DEF i
      <4>. HIDE DEF n
      <4>. QED BY ONLY <4>1, <4>2
    <3>6. j + Len(q) = Len(g) \/ g[j + Len(q) + 1].role = "model"
      <4>1. CASE i + Len(q) = n
        <5>1. Len(g) = n - c + 2 /\ n \in Nat /\ c \in 1 .. n - 4 /\ j \in 2 .. n - c + 2
          BY <2>1, <2>2, <2>4, <3>1
        <5>2. Len(q) \in Nat /\ (j + c - 2) + Len(q) = n
          BY <3>3, <4>1 DEF i
        <5>. HIDE DEF n
        <5>3. j + Len(q) = Len(g)
          BY ONLY <5>1, <5>2
        <5>. QED BY <5>3
      <4>2. CASE i + Len(q) # n
        <5>1. /\ j + Len(q) + 1 \in 2 .. n - c + 2
              /\ (j + Len(q) + 1) + c - 2 = i + Len(q) + 1
          <6>1. n \in Nat /\ c \in 1 .. n - 4 /\ j \in 2 .. n - c + 2
            BY <2>1, <2>2, <3>1
          <6>2. i = j + c - 2 /\ i \in 1 .. n
            BY <3>1 DEF i
          <6>. DEFINE l == Len(q) + 1
          <6>. HIDE DEF n
          <6>3. l \in Nat
            BY <3>3
          <6>4. j + l = j + Len(q) + 1 /\ i + l = i + Len(q) + 1
            BY <3>3, <6>1, <6>2
          <6>5. i + Len(q) < n /\ i + Len(q) \in Nat
            BY <3>2, <3>3, <4>2, <6>1, <6>2
          <6>6. i + l <= n
            BY <6>1, <6>2, <6>3, <6>4, <6>5, <3>3
          <6>. HIDE DEF l
          <6>7. j + l \in 2 .. n - c + 2 /\ (j + l) + c - 2 = i + l
            BY <6>1, <6>2, <6>3, <6>6, Shifted
          <6>. QED BY <6>4, <6>7
        <5>2. g[j + Len(q) + 1] = h[(j + Len(q) + 1) + c - 2]
          BY <2>4, <5>1
        <5>. QED BY <3>2, <4>2, <5>1, <5>2
      <4>. QED BY <4>1, <4>2
    <3>. QED BY <3>3, <3>4, <3>5, <3>6 DEF Answered
  <2>10. Last(g) = Last(h)
    <3>1. n - c + 2 \in 2 .. n - c + 2 /\ (n - c + 2) + c - 2 = n
      BY <2>1, <2>2
    <3>. QED BY <2>4, <3>1 DEF Last
  <2>. QED BY <2>4, <2>5, <2>6, <2>8, <2>9, <2>10 DEF Conversation
<1>. QED BY <1>1, <1>2

\* What stands between message i and the next response, l messages on.
LEMMA AnswersBetween ==
  ASSUME NEW h, Len(h) \in Nat, NEW i \in Nat, NEW l \in Nat, i + l <= Len(h),
         \A k \in 1 .. l : h[i + k].role # "model",
         i + l = Len(h) \/ h[i + l + 1].role = "model"
  PROVE  AnswersAfter(h, i) = FlattenSeq([k \in 1 .. l |-> h[i + k].answers])
<1>. DEFINE S == {j \in i + 1 .. Len(h) : h[j].role = "model"} \cup {Len(h) + 1}
            e == i + l + 1
<1>1. e \in S
  OBVIOUS
<1>2. ASSUME NEW y \in S PROVE e <= y
  <2>1. SUFFICES ASSUME y < e PROVE FALSE
    OBVIOUS
  <2>2. y \in i + 1 .. Len(h) /\ h[y].role = "model"
    BY <1>2, <2>1
  <2>3. y - i \in 1 .. l /\ i + (y - i) = y
    BY <2>1, <2>2
  <2>. QED BY <2>2, <2>3
<1>3. S \subseteq Int
  OBVIOUS
<1>. HIDE DEF S, e
<1>4. Min(S) = e
  <2>1. \E x \in S : \A y \in S : x <= y
    BY <1>1, <1>2
  <2>2. Min(S) \in S /\ \A y \in S : Min(S) <= y
    BY <2>1 DEF Min
  <2>3. e \in Int /\ Min(S) \in Int
    BY <1>1, <1>3, <2>2
  <2>4. Min(S) <= e /\ e <= Min(S)
    BY <1>1, <1>2, <2>2
  <2>. QED BY <2>3, <2>4
<1>5. e - i - 1 = l
  BY DEF e
<1>. QED BY <1>4, <1>5 DEF AnswersAfter, S

\* In a closed conversation each response is followed by its answers.
LEMMA ClosedAnswers ==
  ASSUME provider \in {"gemini", "local"}, NEW h, Closed(h)
  PROVE  /\ Head(h) = Prompt /\ AnswersAfter(h, 0) = <<>>
         /\ \A i \in DOMAIN h : h[i].role = "model" => AnswersAfter(h, i) = h[i].calls
<1>1. /\ h \in Seq(Message) /\ h # <<>> /\ h[1] = Prompt
      /\ Len(h) \in Nat /\ DOMAIN h = 1 .. Len(h)
  BY DEF Closed, Conversation
<1>2. Head(h) = Prompt
  BY <1>1
<1>3. AnswersAfter(h, 0) = <<>>
  <2>. DEFINE S == {j \in 1 .. Len(h) : h[j].role = "model"} \cup {Len(h) + 1}
  <2>1. PICK e \in S : \A y \in S : e <= y
    <3>1. S \subseteq Nat /\ S # {}
      BY <1>1
    <3>. HIDE DEF S
    <3>. QED BY <3>1, LeastInSet
  <2>. DEFINE l == e - 1
  <2>2. /\ l \in Nat /\ 0 + l <= Len(h)
        /\ 0 + l = Len(h) \/ h[0 + l + 1].role = "model"
    BY <1>1, <2>1
  <2>3. ASSUME NEW k \in 1 .. l PROVE h[k].role # "model"
    BY <1>1, <2>1, <2>3
  <2>4. ASSUME NEW k \in 1 .. l PROVE h[k].answers = <<>>
    <3>1. k \in 1 .. Len(h) /\ h[k].role # "model"
      BY <1>1, <2>2, <2>3
    <3>2. ~InReply(h, k)
      BY <2>2, <2>3, <2>4 DEF InReply
    <3>3. h[k] = Prompt
      BY <1>1, <3>1, <3>2 DEF Closed, Conversation
    <3>. QED BY <3>3 DEF Prompt
  <2>. HIDE DEF l
  <2>5. \A k \in 1 .. l : 0 + k = k
    BY <2>2
  <2>6. AnswersAfter(h, 0) = FlattenSeq([k \in 1 .. l |-> h[0 + k].answers])
    <3>1. \A k \in 1 .. l : h[0 + k].role # "model"
      BY <2>3, <2>5
    <3>2. 0 \in Nat
      OBVIOUS
    <3>. QED BY <1>1, <2>2, <3>1, <3>2, AnswersBetween
  <2>7. [k \in 1 .. l |-> h[0 + k].answers] = [k \in 1 .. l |-> <<>>]
    BY <2>4, <2>5
  <2>. QED BY <2>2, <2>6, <2>7, FlattenEmpties
<1>4. ASSUME NEW i \in DOMAIN h, h[i].role = "model"
      PROVE  AnswersAfter(h, i) = h[i].calls
  <2>. DEFINE calls == h[i].calls
              r == Reply(calls)
              l == Len(r)
              seqs == [k \in 1 .. l |-> h[i + k].answers]
  <2>1. /\ Answered(h, i) /\ i \in Nat
        /\ calls \in Seq(CallIds)
    BY <1>1, <1>4, CallsTyped DEF Closed
  <2>2. l \in Nat /\ DOMAIN r = 1 .. l /\ \A k \in 1 .. l : r[k].role # "model"
    BY <2>1, ReplyShape
  <2>3. /\ i + l <= Len(h)
        /\ \A k \in 1 .. l : h[i + k] = r[k]
        /\ i + l = Len(h) \/ h[i + l + 1].role = "model"
    BY <2>1, <2>2 DEF Answered
  <2>4. AnswersAfter(h, i) = FlattenSeq(seqs)
    <3>1. \A k \in 1 .. l : h[i + k].role # "model"
      BY <2>2, <2>3
    <3>. HIDE DEF l
    <3>. QED BY <1>1, <2>1, <2>2, <2>3, <3>1, AnswersBetween
  <2>5. seqs = [k \in 1 .. l |-> r[k].answers]
    BY <2>3
  <2>6. CASE provider = "gemini"
    <3>1. r = <<Answering("user", calls)>>
      BY <2>6 DEF Reply
    <3>2. l = 1 /\ r[1].answers = calls
      BY <3>1 DEF Answering
    <3>. HIDE DEF r, l, calls
    <3>3. Len(seqs) = 1 /\ seqs[1] = calls
      BY <2>5, <3>2
    <3>. HIDE DEF seqs
    <3>4. FlattenSeq(seqs) = calls
      BY <3>3, FlattenOne
    <3>. QED BY <2>4, <3>4 DEF calls
  <2>7. CASE provider = "local"
    <3>1. r = [k \in 1 .. Len(calls) |-> Answering("tool", <<calls[k]>>)]
      BY <2>1, <2>7 DEF Reply
    <3>2. l = Len(calls) /\ \A k \in 1 .. l : r[k].answers = <<calls[k]>>
      BY <2>1, <3>1 DEF Answering
    <3>. HIDE DEF r, l, calls
    <3>3. seqs = [k \in 1 .. Len(calls) |-> <<calls[k]>>]
      BY <2>5, <3>2
    <3>. HIDE DEF seqs
    <3>4. FlattenSeq(seqs) = calls
      BY <2>1, <3>3, FlattenSingles
    <3>. QED BY <2>4, <3>4 DEF calls
  <2>. QED BY <2>6, <2>7
<1>. QED BY <1>2, <1>3, <1>4

\* What is sent is a closed conversation: the prompt at first, then the
\* history and the reply to its last response.
LEMMA RequestClosed ==
  ASSUME ConvInv, pc = "send"
  PROVE  Closed(Request)
<1>1. provider \in {"gemini", "local"} /\ turn \in Nat
  BY AgentAssumption DEF ConvInv, TypeOK
<1>2. CASE turn = 0
  <2>1. history = <<>> /\ Messages = <<Prompt>>
    BY <1>2 DEF ConvInv, Messages
  <2>2. <<>> \o <<Prompt>> = <<Prompt>>
    <3>1. Prompt \in Message
      BY DEF Prompt, Message
    <3>2. <<Prompt>> \in Seq(Message)
      BY <3>1
    <3>. QED BY <3>2, ConcatEmptySeq
  <2>. QED BY <2>1, <2>2, ClosedStart DEF Request
<1>3. CASE turn # 0
  <2>1. Open /\ payload = Last(history).calls
    BY <1>3 DEF ConvInv
  <2>2. Messages = Reply(payload)
    <3>1. CASE provider = "gemini"
      BY <1>1, <1>3, <3>1 DEF Messages, Reply
    <3>2. CASE provider = "local"
      BY <1>1, <1>3, <3>2 DEF Messages, Reply
    <3>. QED BY <1>1, <3>1, <3>2
  <2>. QED BY <1>1, <2>1, <2>2, Replied DEF Open, Request
<1>. QED BY <1>2, <1>3

\* The provider never changes, so the next state reads its history alike.
LEMMA SameReading ==
  ASSUME provider' = provider
  PROVE  Conversation(history)' <=> Conversation(history')
BY DEF Conversation, Answered, InReply, Reply

LEMMA OpenKept ==
  ASSUME Open, UNCHANGED <<provider, history>>
  PROVE  Open'
BY SameReading DEF Open

LEMMA ConvInit == Init => ConvInv
BY AgentAssumption DEF Init, ConvInv, TypeOK, MaxRetries

LEMMA ConvStep == ConvInv /\ [Next]_vars => ConvInv'
<1>. SUFFICES ASSUME ConvInv, [Next]_vars
              PROVE  ConvInv'
  OBVIOUS
<1>0. TypeOK /\ provider \in {"gemini", "local"} /\ turn \in Nat
  BY AgentAssumption DEF ConvInv, TypeOK
<1>1. ASSUME NEW at, Raise(at) PROVE ConvInv'
  BY <1>0, <1>1 DEF Raise, Goto, ConvInv, TypeOK, Ended
<1>2. CASE SendSucceeds
  <2>1. PICK n \in 0 .. MaxCalls : history' = Append(Request, Response(n))
    BY <1>2 DEF SendSucceeds
  <2>2. Response(n) \in Message /\ Response(n).role = "model"
    <3>1. Calls(n) \in Seq(CallIds)
      BY <1>0, AgentAssumption DEF Calls, CallIds
    <3>. QED BY <3>1 DEF Response, Message
  <2>3. pc = "send" /\ pc' \in {"parse", "prune"} /\ provider' = provider
    BY <1>2 DEF SendSucceeds, Goto
  <2>4. Conversation(history') /\ Last(history') = Response(n)
    BY <1>0, <2>1, <2>2, <2>3, RequestClosed, Responded
  <2>5. Open'
    BY <2>2, <2>3, <2>4, SameReading DEF Open
  <2>6. TypeOK'
    <3>1. history' \in Seq(Message)
      BY <2>4 DEF Conversation
    <3>2. payload' \in Seq(CallIds) /\ attempt' \in 0 .. MaxRetries - 1
      BY <1>2 DEF SendSucceeds, MaxRetries
    <3>3. over' \in BOOLEAN
      BY <1>0, <1>2 DEF SendSucceeds, TypeOK
    <3>4. UNCHANGED <<provider, turn, overTurns>>
      BY <1>2 DEF SendSucceeds
    <3>. QED BY <1>0, <2>3, <3>1, <3>2, <3>3, <3>4 DEF TypeOK
  <2>7. payload' = <<>>
    BY <1>2 DEF SendSucceeds
  <2>. QED BY <2>3, <2>5, <2>6, <2>7 DEF ConvInv
<1>3. CASE SendRetried
  <2>1. TypeOK'
    BY <1>0, <1>3 DEF SendRetried, TypeOK, MaxRetries
  <2>2. pc = "send" /\ UNCHANGED <<provider, history, payload, turn, pc>>
    BY <1>3 DEF SendRetried
  <2>. QED BY <2>1, <2>2, OpenKept DEF ConvInv
<1>4. CASE PruneAndCheck
  <2>1. /\ pc = "prune" /\ pc' \in {"raised", "parse"} /\ history' = Pruned(history)
        /\ UNCHANGED <<provider, payload, turn, attempt, overTurns>>
        /\ over' \in {over, TRUE}
    BY <1>4 DEF PruneAndCheck, Goto
  <2>2. Open /\ payload = <<>>
    BY <2>1 DEF ConvInv
  <2>3. Conversation(history') /\ Last(history') = Last(history)
    BY <1>0, <2>1, <2>2, PrunedKeeps DEF Open
  <2>4. Open'
    BY <2>1, <2>2, <2>3, SameReading DEF Open
  <2>5. TypeOK'
    <3>1. history' \in Seq(Message)
      BY <2>3 DEF Conversation
    <3>. QED BY <1>0, <2>1, <3>1 DEF TypeOK, Ended
  <2>. QED BY <2>1, <2>2, <2>4, <2>5 DEF ConvInv
<1>5. CASE Finish
  BY <1>0, <1>5 DEF Finish, Goto, ConvInv, TypeOK, Ended
<1>6. CASE BeginTurn
  <2>1. /\ pc = "parse" /\ pc' = "tools" /\ turn' = turn + 1 /\ turn < MaxIterations
        /\ Last(history).calls # <<>> /\ overTurns' \in {overTurns, overTurns + 1}
        /\ UNCHANGED <<provider, history, payload, attempt, over>>
    BY <1>6 DEF BeginTurn, Goto
  <2>2. Open /\ payload = <<>>
    BY <2>1 DEF ConvInv
  <2>3. Open'
    BY <2>1, <2>2, OpenKept
  <2>4. TypeOK'
    BY <1>0, <2>1, AgentAssumption DEF TypeOK
  <2>5. Last(history).calls \in Seq(CallIds)
    <3>1. history # <<>> /\ history \in Seq(Message)
      BY <2>2 DEF Open, Conversation
    <3>. QED BY <3>1, CallsTyped DEF Last
  <2>6. Len(payload) = 0 /\ 0 < Len(Last(history).calls)
    BY <2>1, <2>2, <2>5
  <2>7. payload = SubSeq(Last(history).calls, 1, Len(payload))
    BY <2>2, <2>6, SubSeqEmpty
  <2>. QED BY <1>0, <2>1, <2>3, <2>4, <2>6, <2>7 DEF ConvInv
<1>7. CASE RunTool
  <2>. DEFINE calls == Last(history).calls
              n == Len(payload)
  <2>1. /\ pc = "tools" /\ payload' = Append(payload, calls[n + 1])
        /\ pc' = IF Len(payload') = Len(calls) THEN "send" ELSE "tools"
        /\ UNCHANGED <<provider, history, turn, attempt, over, overTurns>>
    BY <1>7 DEF RunTool
  <2>2. Open /\ turn # 0 /\ n < Len(calls) /\ payload = SubSeq(calls, 1, n)
    BY <2>1 DEF ConvInv
  <2>3. Open'
    BY <2>1, <2>2, OpenKept
  <2>4. calls \in Seq(CallIds)
    <3>1. history # <<>> /\ history \in Seq(Message)
      BY <2>2 DEF Open, Conversation
    <3>. QED BY <3>1, CallsTyped DEF Last
  <2>5. n \in Nat /\ payload \in Seq(CallIds)
    BY <1>0 DEF TypeOK
  <2>6. calls' = calls
    BY <2>1
  <2>. HIDE DEF calls
  <2>7. n + 1 \in 1 .. Len(calls) /\ calls[n + 1] \in CallIds /\ (n + 1) - 1 = n
    BY <2>2, <2>4, <2>5
  <2>8. payload' \in Seq(CallIds) /\ Len(payload') = n + 1
    BY <2>1, <2>5, <2>7
  <2>. HIDE DEF n
  <2>9. payload' = SubSeq(calls, 1, n + 1)
    <3>1. SubSeq(calls, 1, n + 1) = SubSeq(calls, 1, n) \o <<calls[n + 1]>>
      <4>1. 1 \in 1 .. Len(calls)
        BY <2>4, <2>7
      <4>. QED BY <2>4, <2>5, <2>7, <4>1, SubSeqRecursiveSecond
    <3>2. payload \o <<calls[n + 1]>> = Append(payload, calls[n + 1])
      BY <2>5, <2>7, AppendIsConcat
    <3>. QED BY <2>1, <2>2, <3>1, <3>2
  <2>10. TypeOK'
    BY <1>0, <2>1, <2>8 DEF TypeOK
  <2>11. CASE n + 1 = Len(calls)
    <3>1. payload' = calls
      BY <2>4, <2>9, <2>11, SubSeqFull
    <3>2. pc' = "send"
      BY <2>1, <2>8, <2>11
    <3>. QED BY <2>1, <2>2, <2>3, <2>6, <2>10, <3>1, <3>2 DEF ConvInv, calls
  <2>12. CASE n + 1 # Len(calls)
    <3>1. pc' = "tools" /\ Len(payload') < Len(calls)
      BY <2>1, <2>4, <2>7, <2>8, <2>12
    <3>2. payload' = SubSeq(calls', 1, Len(payload'))
      BY <2>6, <2>8, <2>9
    <3>. QED BY <2>1, <2>2, <2>3, <2>6, <2>10, <3>1, <3>2 DEF ConvInv, calls
  <2>. QED BY <2>11, <2>12
<1>8. CASE OthersSpend
  <2>1. UNCHANGED <<provider, history, payload, turn, attempt, overTurns, pc>> /\ over' = TRUE
    BY <1>8 DEF OthersSpend
  <2>2. TypeOK'
    BY <1>0, <2>1 DEF TypeOK
  <2>. QED BY <2>1, <2>2, OpenKept DEF ConvInv
<1>9. CASE SendFails \/ PruneFails \/ TooManyTurns \/ Cancelled
  BY <1>1, <1>9 DEF SendFails, PruneFails, TooManyTurns, Cancelled
<1>10. CASE UNCHANGED vars
  <2>1. UNCHANGED <<provider, history, payload, turn, attempt, over, overTurns, pc>>
    BY <1>10 DEF vars
  <2>2. TypeOK'
    BY <1>0, <2>1 DEF TypeOK
  <2>. QED BY <2>1, <2>2, OpenKept DEF ConvInv
<1>. QED
  BY <1>1, <1>2, <1>3, <1>4, <1>5, <1>6, <1>7, <1>8, <1>9, <1>10 DEF Next, Advance

\* Every variable keeps its type, for every provider, cap on the turns and
\* number of calls.
THEOREM TypeCorrect == Spec => []TypeOK
<1>1. ConvInv => TypeOK
  BY DEF ConvInv
<1>. QED BY <1>1, ConvInit, ConvStep, PTL DEF Spec

\* What is sent is a conversation every provider accepts: each response is
\* followed by the answers of exactly its calls, in order, however sends are
\* retried, the history pruned and a payload spread over messages
\* (agent_loop.py:145, 280; llm_provider.py:157, 194, 282).
THEOREM AnsweredOnce == Spec => []CallsAnsweredOnce
<1>1. ConvInv => CallsAnsweredOnce
  <2>1. ConvInv => provider \in {"gemini", "local"}
    BY AgentAssumption DEF ConvInv, TypeOK
  <2>. QED BY <2>1, RequestClosed, ClosedAnswers DEF CallsAnsweredOnce
<1>. QED BY <1>1, ConvInit, ConvStep, PTL DEF Spec
-----------------------------------------------------------------------------
(* The window.                                                             *)

\* The responses of a short history stand at its even places.
Alternates(h) ==
  \A i \in DOMAIN h : h[i].role = "model" <=> i \in {2, 4, 6, 8}

\* With Gemini a turn adds an answer and a response, and a prune at the
\* limit leaves as many messages as the turn found.
WindowInv ==
  provider = "gemini" =>
    /\ pc = "send" /\ turn # 0 => Alternates(history) /\ Len(history) \in {2, 4, 6}
    /\ pc \in {"parse", "tools"} => Alternates(history) /\ Len(history) \in {2, 4, 6}
    /\ pc = "prune" => Alternates(history) /\ Len(history) \in {4, 6, 8}

\* The prune that the limit calls for.
LEMMA PrunedWindow ==
  ASSUME provider = "gemini", NEW h \in Seq(Message), Alternates(h), Len(h) \in {4, 6, 8}
  PROVE  Alternates(Pruned(h)) /\ Len(Pruned(h)) \in {4, 6}
<1>1. CASE Len(h) # 8
  <2>1. Len(h) = 4 \/ Len(h) = 6
    BY <1>1
  <2>2. ~(Len(h) > 6)
    <3>1. \A l \in {4, 6} : ~(l > 6)
      OBVIOUS
    <3>. QED BY <2>1, <3>1
  <2>3. ~Prunable(h)
    BY <2>2 DEF Prunable, MaxHistoryTurns
  <2>. QED BY <2>1, <2>3 DEF Pruned
<1>2. CASE Len(h) = 8
  <2>1. DOMAIN h = 1 .. 8 /\ Boundary = "model"
    BY <1>2 DEF Boundary
  <2>2. Cuts(h) = {2, 4}
    BY <1>2, <2>1 DEF Cuts, MaxHistoryTurns, Alternates
  <2>3. Prunable(h)
    BY <1>2, <2>2 DEF Prunable, MaxHistoryTurns
  <2>4. Max({2, 4}) = 4
    BY DEF Max
  <2>. DEFINE s == SubSeq(h, 4, 8)
              f == <<Head(h)>>
              g == f \o s
  <2>5. Pruned(h) = g
    BY <1>2, <2>2, <2>3, <2>4 DEF Pruned
  <2>6. s \in Seq(Message) /\ Len(s) = 5 /\ \A i \in 1 .. 5 : s[i] = h[i + 3]
    <3>0. \A i \in 4 .. 8 : i \in 1 .. 8
      OBVIOUS
    <3>1. \A i \in 4 .. 8 : h[i] \in Message
      BY <2>1, <3>0, CallsTyped
    <3>2. /\ SubSeq(h, 4, 8) \in Seq(Message) /\ Len(SubSeq(h, 4, 8)) = 8 - 4 + 1
          /\ \A i \in 1 .. 8 - 4 + 1 : SubSeq(h, 4, 8)[i] = h[4 + i - 1]
      BY <3>1, SubSeqProperties
    <3>3. \A i \in 1 .. 5 : 4 + i - 1 = i + 3
      OBVIOUS
    <3>. QED BY <3>2, <3>3
  <2>7. f \in Seq(Message) /\ Len(f) = 1 /\ f[1] = h[1]
    BY <2>1
  <2>. HIDE DEF s
  <2>8. Len(g) = 6 /\ DOMAIN g = 1 .. 6 /\ g[1] = h[1] /\ \A i \in 2 .. 6 : g[i] = h[i + 2]
    <3>1. /\ g \in Seq(Message) /\ Len(g) = 1 + 5
          /\ \A i \in 1 .. 1 + 5 : g[i] = IF i <= 1 THEN f[i] ELSE s[i - 1]
      <4>. HIDE DEF f
      <4>1. /\ f \o s \in Seq(Message) /\ Len(f \o s) = Len(f) + Len(s)
            /\ \A i \in 1 .. Len(f) + Len(s) :
                 (f \o s)[i] = IF i <= Len(f) THEN f[i] ELSE s[i - Len(f)]
        BY <2>6, <2>7, ConcatProperties
      <4>. QED BY <2>6, <2>7, <4>1
    <3>. HIDE DEF g
    <3>2. g[1] = h[1]
      BY <2>7, <3>1
    <3>3. ASSUME NEW i \in 2 .. 6 PROVE g[i] = h[i + 2]
      <4>1. i - 1 \in 1 .. 5 /\ (i - 1) + 3 = i + 2 /\ ~(i <= 1) /\ i \in 1 .. 1 + 5
        OBVIOUS
      <4>. QED BY <2>6, <3>1, <4>1
    <3>. QED BY <3>1, <3>2, <3>3
  <2>. HIDE DEF g
  <2>9. Alternates(g)
    BY <2>1, <2>8 DEF Alternates
  <2>. QED BY <2>5, <2>8, <2>9
<1>. QED BY <1>1, <1>2

LEMMA ProviderKept == [Next]_vars => provider' = provider
<1>. SUFFICES ASSUME [Next]_vars PROVE provider' = provider
  OBVIOUS
<1>1. ASSUME NEW at, Raise(at) PROVE provider' = provider
  BY <1>1 DEF Raise
<1>2. CASE SendFails \/ PruneFails \/ TooManyTurns \/ Cancelled
  BY <1>1, <1>2 DEF SendFails, PruneFails, TooManyTurns, Cancelled
<1>3. CASE SendSucceeds \/ SendRetried \/ PruneAndCheck \/ Finish
  BY <1>3 DEF SendSucceeds, SendRetried, PruneAndCheck, Finish
<1>4. CASE BeginTurn \/ RunTool \/ OthersSpend \/ UNCHANGED vars
  BY <1>4 DEF BeginTurn, RunTool, OthersSpend, vars
<1>. QED BY <1>2, <1>3, <1>4 DEF Next, Advance

LEMMA WindowStep == ConvInv /\ WindowInv /\ [Next]_vars => WindowInv'
<1>. SUFFICES ASSUME ConvInv, WindowInv, [Next]_vars, provider = "gemini"
              PROVE  WindowInv'
  BY ProviderKept DEF WindowInv
<1>0. history \in Seq(Message) /\ turn \in Nat
  BY AgentAssumption DEF ConvInv, TypeOK
<1>1. ASSUME NEW at, Raise(at) PROVE WindowInv'
  BY <1>1 DEF Raise, Goto, WindowInv
<1>2. CASE SendSucceeds
  <2>1. PICK n \in 0 .. MaxCalls : history' = Append(Request, Response(n))
    BY <1>2 DEF SendSucceeds
  <2>2. pc = "send" /\ pc' = IF turn = 0 THEN "parse" ELSE "prune"
    BY <1>2 DEF SendSucceeds, Goto
  <2>3. Response(n).role = "model"
    BY DEF Response
  <2>. DEFINE a == IF turn = 0 THEN Prompt ELSE Answering("user", payload)
              m == Response(n)
              l == Len(history)
  <2>4. l \in {0, 2, 4, 6} /\ (turn = 0 => l = 0) /\ (turn # 0 => l # 0)
    <3>1. turn = 0 => l = 0
      BY <2>2 DEF ConvInv
    <3>2. turn # 0 => l \in {2, 4, 6}
      BY <2>2 DEF WindowInv
    <3>. HIDE DEF l
    <3>. QED BY <3>1, <3>2
  <2>5. Alternates(history)
    BY <2>2 DEF ConvInv, WindowInv, Alternates
  <2>6. Request = Append(history, a)
    <3>1. Messages = <<a>>
      BY <1>0 DEF Messages
    <3>2. a \in Message
      BY <1>0 DEF Answering, Message, Prompt, ConvInv, TypeOK
    <3>. HIDE DEF a
    <3>. QED BY <1>0, <3>1, <3>2, AppendIsConcat DEF Request
  <2>7. a.role = "user"
    BY DEF Answering, Prompt
  <2>. HIDE DEF a, m
  <2>8. /\ Len(history') = l + 2 /\ DOMAIN history' = 1 .. l + 2
        /\ \A i \in 1 .. l : history'[i] = history[i]
        /\ history'[l + 1] = a /\ history'[l + 2] = m
    <3>1. history' = Append(Append(history, a), m)
      BY <2>1, <2>6 DEF m
    <3>2. /\ Len(Append(history, a)) = l + 1 /\ DOMAIN Append(history, a) = 1 .. l + 1
          /\ \A i \in 1 .. l : Append(history, a)[i] = history[i]
          /\ Append(history, a)[l + 1] = a
      BY <1>0
    <3>. QED BY <1>0, <3>1, <3>2
  <2>9. Alternates(history')
    <3>1. DOMAIN history = 1 .. l
      BY <1>0
    <3>. HIDE DEF l
    <3>2. ASSUME NEW i \in 1 .. l + 2
          PROVE  history'[i].role = "model" <=> i \in {2, 4, 6, 8}
      <4>1. CASE i \in 1 .. l
        BY <2>4, <2>5, <2>8, <3>1, <4>1 DEF Alternates
      <4>2. CASE i = l + 1
        BY <2>4, <2>7, <2>8, <4>2
      <4>3. CASE i = l + 2
        BY <2>3, <2>4, <2>8, <4>3 DEF m
      <4>. QED BY <2>4, <3>2, <4>1, <4>2, <4>3
    <3>. QED BY <2>8, <3>2 DEF Alternates
  <2>10. /\ turn = 0 => Len(history') = 2
         /\ turn # 0 => Len(history') \in {4, 6, 8}
    <3>. HIDE DEF l
    <3>1. l \in {2, 4, 6} => l + 2 \in {4, 6, 8}
      OBVIOUS
    <3>. QED BY <2>4, <2>8, <3>1
  <2>. QED BY <2>2, <2>9, <2>10 DEF WindowInv, Alternates
<1>3. CASE SendRetried
  BY <1>3 DEF SendRetried, WindowInv, Alternates
<1>4. CASE PruneAndCheck
  <2>1. pc = "prune" /\ pc' \in {"raised", "parse"} /\ history' = Pruned(history)
    BY <1>4 DEF PruneAndCheck, Goto
  <2>2. Alternates(history') /\ Len(history') \in {4, 6}
    BY <1>0, <2>1, PrunedWindow DEF WindowInv
  <2>. QED BY <2>1, <2>2 DEF WindowInv, Alternates
<1>5. CASE Finish
  BY <1>5 DEF Finish, Goto, WindowInv
<1>6. CASE BeginTurn
  BY <1>6 DEF BeginTurn, Goto, WindowInv, Alternates
<1>7. CASE RunTool
  BY <1>7 DEF RunTool, WindowInv, Alternates
<1>8. CASE OthersSpend
  BY <1>8 DEF OthersSpend, WindowInv, Alternates
<1>9. CASE SendFails \/ PruneFails \/ TooManyTurns \/ Cancelled
  BY <1>1, <1>9 DEF SendFails, PruneFails, TooManyTurns, Cancelled
<1>10. CASE UNCHANGED vars
  BY <1>10 DEF vars, WindowInv, Alternates
<1>. QED
  BY <1>1, <1>2, <1>3, <1>4, <1>5, <1>6, <1>7, <1>8, <1>9, <1>10 DEF Next, Advance

\* With Gemini every turn starts with at most MAX_HISTORY_TURNS messages,
\* however many turns and calls there are (agent_loop.py:152, 284).
THEOREM WindowKept == Spec => []WindowHeld
<1>1. Init => WindowInv
  BY DEF Init, WindowInv
<1>2. WindowInv => WindowHeld
  <2>1. \A l \in {2, 4, 6} : l <= 6
    OBVIOUS
  <2>. QED BY <2>1 DEF WindowInv, WindowHeld, MaxHistoryTurns
<1>. QED BY <1>1, <1>2, ConvInit, ConvStep, WindowStep, PTL DEF Spec
-----------------------------------------------------------------------------
(* The end.                                                                *)

\* A response has as many calls as a response may have, and a send begins
\* with all its attempts.
CallsInv ==
  pc \in {"prune", "parse", "tools"} =>
    attempt = 0 /\ Len(Last(history).calls) <= MaxCalls

\* Steps of a turn: its tools, the attempts to send their answers, the prune
\* and the look at the response.
TurnSteps == MaxCalls + MaxRetries + 2

\* Steps of this turn that are left at most.
TurnLeft ==
  CASE pc = "tools" -> TurnSteps - Len(payload)
    [] pc = "send"  -> MaxRetries + 2 - attempt
    [] pc = "prune" -> 2
    [] pc = "parse" -> 1
    [] OTHER        -> 0

\* Steps of the run that are left at most; one more while another worker may
\* use up the budget.
StepsLeft ==
  (MaxIterations - turn) * TurnSteps + TurnLeft + (IF over THEN 0 ELSE 1)

StepsDecrease == [][StepsLeft' < StepsLeft]_vars

LEMMA CallsStep == ConvInv /\ CallsInv /\ [Next]_vars => CallsInv'
<1>. SUFFICES ASSUME ConvInv, CallsInv, [Next]_vars PROVE CallsInv'
  OBVIOUS
<1>0. TypeOK /\ provider \in {"gemini", "local"}
  BY AgentAssumption DEF ConvInv, TypeOK
<1>1. ASSUME NEW at, Raise(at) PROVE CallsInv'
  BY <1>1 DEF Raise, Goto, CallsInv
<1>2. CASE SendSucceeds
  <2>1. PICK n \in 0 .. MaxCalls : history' = Append(Request, Response(n))
    BY <1>2 DEF SendSucceeds
  <2>2. Response(n) \in Message /\ Response(n).role = "model"
    <3>1. Calls(n) \in Seq(CallIds)
      BY <1>0, AgentAssumption DEF Calls, CallIds, TypeOK
    <3>. QED BY <3>1 DEF Response, Message
  <2>3. pc = "send" /\ attempt' = 0
    BY <1>2 DEF SendSucceeds, Goto
  <2>4. Last(history') = Response(n)
    BY <1>0, <2>1, <2>2, <2>3, RequestClosed, Responded
  <2>5. Len(Response(n).calls) = n /\ n <= MaxCalls
    BY AgentAssumption DEF Response, Calls
  <2>. QED BY <2>3, <2>4, <2>5 DEF CallsInv
<1>3. CASE PruneAndCheck
  <2>1. pc = "prune" /\ history' = Pruned(history) /\ attempt' = attempt
    BY <1>3 DEF PruneAndCheck, Goto
  <2>2. Last(history') = Last(history)
    BY <1>0, <2>1, PrunedKeeps DEF ConvInv, Open
  <2>. QED BY <2>1, <2>2 DEF CallsInv
<1>4. CASE SendRetried \/ Finish \/ BeginTurn \/ OthersSpend
  BY <1>4 DEF SendRetried, Finish, BeginTurn, OthersSpend, Goto, CallsInv
<1>5. CASE RunTool
  BY <1>5 DEF RunTool, CallsInv
<1>6. CASE SendFails \/ PruneFails \/ TooManyTurns \/ Cancelled
  BY <1>1, <1>6 DEF SendFails, PruneFails, TooManyTurns, Cancelled
<1>7. CASE UNCHANGED vars
  BY <1>7 DEF vars, CallsInv
<1>. QED BY <1>2, <1>3, <1>4, <1>5, <1>6, <1>7 DEF Next, Advance

\* What the measure is made of.
LEMMA StepsTyped ==
  ASSUME ConvInv, CallsInv
  PROVE  /\ turn \in Nat /\ MaxIterations - turn \in Nat /\ MaxCalls \in Nat
         /\ attempt \in 0 .. 7 /\ over \in BOOLEAN /\ Len(payload) \in Nat
         /\ TurnSteps = MaxCalls + 10 /\ TurnSteps \in Nat
         /\ TurnLeft \in Nat /\ (pc \notin Ended => TurnLeft > 0)
         /\ (MaxIterations - turn) * TurnSteps \in Nat /\ StepsLeft \in Nat
         /\ pc = "tools" => /\ Len(payload) + 1 <= Len(Last(history).calls)
                            /\ Len(payload) + 1 <= MaxCalls
<1>1. /\ turn \in Nat /\ MaxIterations - turn \in Nat /\ MaxCalls \in Nat
      /\ attempt \in 0 .. 7 /\ over \in BOOLEAN /\ Len(payload) \in Nat
  BY AgentAssumption DEF ConvInv, TypeOK, MaxRetries
<1>2. TurnSteps = MaxCalls + 10 /\ TurnSteps \in Nat
  BY <1>1 DEF TurnSteps, MaxRetries
<1>3. ASSUME pc = "tools"
      PROVE  /\ Len(payload) + 1 <= Len(Last(history).calls)
             /\ Len(payload) + 1 <= MaxCalls
  <2>1. Len(payload) < Len(Last(history).calls) /\ Len(Last(history).calls) <= MaxCalls
    BY <1>3 DEF ConvInv, CallsInv
  <2>2. Last(history).calls \in Seq(CallIds)
    <3>1. history # <<>> /\ history \in Seq(Message)
      BY <1>3 DEF ConvInv, Open, Conversation
    <3>. QED BY <3>1, CallsTyped DEF Last
  <2>3. Len(Last(history).calls) \in Nat
    BY <2>2
  <2>. QED BY <1>1, <2>1, <2>3
<1>4. TurnLeft \in Nat /\ (pc \notin Ended => TurnLeft > 0)
  <2>1. pc \in {"send", "prune", "parse", "tools"} \cup Ended
    BY DEF ConvInv, TypeOK
  <2>2. CASE pc = "tools"
    <3>1. TurnLeft = TurnSteps - Len(payload)
      BY <2>2 DEF TurnLeft
    <3>2. Len(payload) + 1 <= MaxCalls
      BY <1>3, <2>2
    <3>. QED BY ONLY <1>1, <1>2, <3>1, <3>2
  <2>3. CASE pc = "send"
    <3>1. TurnLeft = 10 - attempt
      BY <1>1, <2>3 DEF TurnLeft, MaxRetries
    <3>. QED BY ONLY <1>1, <3>1
  <2>4. CASE pc \in {"prune", "parse"}
    BY <2>4 DEF TurnLeft
  <2>5. CASE pc \in Ended
    BY <2>5 DEF TurnLeft, Ended
  <2>. QED BY <2>1, <2>2, <2>3, <2>4, <2>5
<1>5. (MaxIterations - turn) * TurnSteps \in Nat
  <2>. DEFINE m == MaxIterations - turn
  <2>1. m \in Nat
    BY <1>1
  <2>. HIDE DEF m
  <2>2. m * TurnSteps \in Nat
    BY <1>2, <2>1
  <2>. QED BY <2>2 DEF m
<1>6. StepsLeft \in Nat
  BY <1>4, <1>5 DEF StepsLeft
<1>. QED BY <1>1, <1>2, <1>3, <1>4, <1>5, <1>6

\* Within a turn the measure falls with the turn's own.
LEMMA WithinTurn ==
  ASSUME ConvInv, CallsInv, turn' = turn, over' \in {over, TRUE},
         TurnLeft' \in Nat, TurnLeft' < TurnLeft
  PROVE  StepsLeft' < StepsLeft
<1>. DEFINE m == (MaxIterations - turn) * TurnSteps
            b == IF over THEN 0 ELSE 1
            l == TurnLeft
<1>1. m \in Nat /\ m' = m
  BY StepsTyped DEF TurnSteps
<1>2. b \in Nat /\ b' \in Nat /\ b' <= b
  <2>1. CASE over' = over
    BY <2>1
  <2>2. CASE over' = TRUE
    BY <2>2
  <2>. QED BY <2>1, <2>2
<1>3. l \in Nat /\ l' \in Nat /\ l' < l
  BY StepsTyped
<1>4. StepsLeft = m + l + b /\ StepsLeft' = m' + l' + b'
  BY DEF StepsLeft
<1>5. \A x, y, z, v, w \in Nat : v < y /\ w <= z => x + v + w < x + y + z
  OBVIOUS
<1>6. m + l' + b' < m + l + b
  <2>. HIDE DEF m, b, l
  <2>. QED BY <1>1, <1>2, <1>3, <1>5
<1>. QED BY <1>1, <1>4, <1>6

LEMMA StepDecreases == ConvInv /\ CallsInv /\ Next => StepsLeft' < StepsLeft
<1>. SUFFICES ASSUME ConvInv, CallsInv, Next PROVE StepsLeft' < StepsLeft
  OBVIOUS
<1>0. /\ attempt \in 0 .. 7 /\ over \in BOOLEAN /\ MaxCalls \in Nat /\ Len(payload) \in Nat
      /\ TurnSteps = MaxCalls + 10
  BY StepsTyped
<1>1. ASSUME NEW at, Raise(at), TurnLeft > 0 PROVE StepsLeft' < StepsLeft
  <2>1. TurnLeft' = 0 /\ turn' = turn /\ over' = over
    BY <1>1 DEF Raise, Goto, TurnLeft
  <2>. QED BY <1>1, <2>1, WithinTurn
<1>2. pc \in {"send", "prune", "parse", "tools"} => TurnLeft > 0
  BY StepsTyped DEF Ended
<1>3. CASE SendFails \/ PruneFails \/ TooManyTurns \/ Cancelled
  <2>1. \E at \in {"send", "prune", "parse", "tools"} : Raise(at) /\ pc = at
    BY <1>3 DEF SendFails, PruneFails, TooManyTurns, Cancelled, Raise, Goto
  <2>. QED BY <1>1, <1>2, <2>1
<1>4. CASE SendSucceeds \/ PruneAndCheck \/ Finish
  <2>1. /\ turn' = turn /\ over' \in {over, TRUE}
        /\ \/ pc = "send" /\ pc' \in {"parse", "prune"}
           \/ pc = "prune" /\ pc' \in {"raised", "parse"}
           \/ pc = "parse" /\ pc' = "done"
    BY <1>4 DEF SendSucceeds, PruneAndCheck, Finish, Goto
  <2>2. TurnLeft' \in Nat /\ TurnLeft' < TurnLeft
    BY <1>0, <2>1 DEF TurnLeft, MaxRetries
  <2>. QED BY <2>1, <2>2, WithinTurn
<1>5. CASE SendRetried
  <2>1. /\ turn' = turn /\ over' = over /\ pc = "send" /\ pc' = "send" /\ attempt' = attempt + 1
        /\ attempt < 7
    BY <1>5 DEF SendRetried, MaxRetries
  <2>2. TurnLeft = 10 - attempt /\ TurnLeft' = 10 - (attempt + 1)
    <3>1. MaxRetries + 2 - attempt = 10 - attempt
      BY <1>0 DEF MaxRetries
    <3>2. MaxRetries + 2 - (attempt + 1) = 10 - (attempt + 1)
      BY <1>0 DEF MaxRetries
    <3>3. TurnLeft = MaxRetries + 2 - attempt
      BY <2>1 DEF TurnLeft
    <3>4. TurnLeft' = MaxRetries + 2 - attempt'
      BY <2>1 DEF TurnLeft, MaxRetries
    <3>. QED BY <2>1, <3>1, <3>2, <3>3, <3>4
  <2>. QED BY <1>0, <2>1, <2>2, WithinTurn
<1>6. CASE RunTool
  <2>1. /\ turn' = turn /\ over' = over /\ attempt' = attempt /\ pc = "tools"
        /\ pc' \in {"send", "tools"} /\ payload' = Append(payload, Last(history).calls[Len(payload) + 1])
    BY <1>6 DEF RunTool
  <2>2. attempt = 0 /\ Len(payload) + 1 <= MaxCalls
    BY <2>1, StepsTyped DEF CallsInv
  <2>3. Len(payload') = Len(payload) + 1
    BY <2>1 DEF ConvInv, TypeOK
  <2>4. TurnLeft = TurnSteps - Len(payload)
    BY <2>1 DEF TurnLeft
  <2>5. TurnLeft' = IF pc' = "tools" THEN TurnSteps - Len(payload') ELSE 10
    BY <1>0, <2>1, <2>2 DEF TurnLeft, MaxRetries, TurnSteps
  <2>6. TurnLeft' \in Nat /\ TurnLeft' < TurnLeft
    BY <1>0, <2>2, <2>3, <2>4, <2>5
  <2>. QED BY <2>1, <2>6, WithinTurn
<1>7. CASE BeginTurn
  <2>1. /\ turn' = turn + 1 /\ turn < MaxIterations /\ over' = over /\ payload' = payload
        /\ pc = "parse" /\ pc' = "tools" /\ payload = <<>>
    BY <1>7 DEF BeginTurn, Goto, ConvInv
  <2>. DEFINE m == MaxIterations - turn
              s == TurnSteps
              b == IF over THEN 0 ELSE 1
  <2>2. m \in Nat /\ m > 0 /\ MaxIterations - turn' = m - 1
    BY <2>1, AgentAssumption, StepsTyped
  <2>3. s \in Nat /\ s' = s
    BY StepsTyped DEF TurnSteps
  <2>4. StepsLeft = m * s + 1 + b
    BY <2>1 DEF StepsLeft, TurnLeft
  <2>5. StepsLeft' = (m - 1) * s + s + b
    <3>1. TurnLeft' = s - 0
      BY <2>1, <2>3 DEF TurnLeft
    <3>. QED BY <2>1, <2>2, <2>3, <3>1 DEF StepsLeft
  <2>6. b \in {0, 1}
    OBVIOUS
  <2>. HIDE DEF m, s, b
  <2>7. (m - 1) * s + s = m * s
    BY <2>2, <2>3
  <2>8. m * s \in Nat
    BY <2>2, <2>3
  <2>. QED BY <2>4, <2>5, <2>6, <2>7, <2>8
<1>8. CASE OthersSpend
  <2>1. UNCHANGED <<turn, payload, attempt, pc>> /\ ~over /\ over'
    BY <1>8 DEF OthersSpend
  <2>. DEFINE m == (MaxIterations - turn) * TurnSteps + TurnLeft
  <2>2. m \in Nat
    BY StepsTyped
  <2>3. StepsLeft = m + 1 /\ StepsLeft' = m + 0
    BY <2>1 DEF StepsLeft, TurnLeft, TurnSteps
  <2>. HIDE DEF m
  <2>. QED BY <2>2, <2>3
<1>. QED BY <1>3, <1>4, <1>5, <1>6, <1>7, <1>8 DEF Next, Advance

\* A run takes at most MaxIterations * TurnSteps + MaxRetries + 3 steps, whatever
\* the provider, the model and the tools do: the half of RunEnds that needs no
\* fairness.  With none left it has ended.
THEOREM RunBounded ==
  Spec => /\ [](StepsLeft \in Nat /\ (StepsLeft = 0 => pc \in Ended))
          /\ StepsDecrease
<1>1. Init => CallsInv
  BY DEF Init, CallsInv
<1>2. ConvInv /\ CallsInv => StepsLeft \in Nat /\ (StepsLeft = 0 => pc \in Ended)
  <2>. SUFFICES ASSUME ConvInv, CallsInv
                PROVE  StepsLeft \in Nat /\ (StepsLeft = 0 => pc \in Ended)
    OBVIOUS
  <2>1. StepsLeft \in Nat
    BY StepsTyped
  <2>2. pc \notin Ended => StepsLeft > 0
    <3>. DEFINE m == (MaxIterations - turn) * TurnSteps
    <3>1. m \in Nat /\ TurnLeft \in Nat
      BY StepsTyped
    <3>2. pc \notin Ended => TurnLeft > 0
      BY StepsTyped
    <3>. HIDE DEF m
    <3>3. StepsLeft = m + TurnLeft + (IF over THEN 0 ELSE 1)
      BY DEF StepsLeft, m
    <3>. QED BY <3>1, <3>2, <3>3
  <2>. QED BY <2>1, <2>2
<1>3. ConvInv /\ CallsInv /\ [Next]_vars => [StepsLeft' < StepsLeft]_vars
  BY StepDecreases
<1>. QED BY <1>1, <1>2, <1>3, CallsStep, ConvInit, ConvStep, PTL DEF Spec, StepsDecrease
=============================================================================
