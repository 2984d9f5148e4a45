--------------------------- MODULE SequenceFacts ----------------------------
(***************************************************************************)
(* Facts that the proofs of several parts need.                            *)
(*                                                                         *)
(* Queues: sequences that hold nothing twice, to which an element is       *)
(* appended at one end and from which one is taken at the other.           *)
(*                                                                         *)
(* Transcripts: how one grows without losing its form, and that what       *)
(* session_snapshot_for_context cuts out of it can be sent.                *)
(***************************************************************************)
EXTENDS Integers, Session, SequenceTheorems, FiniteSetTheorems, WellFoundedInduction, TLAPS

-----------------------------------------------------------------------------
(* Sequences.                                                              *)

\* What a sequence holds.
Elements(s) == {s[i] : i \in 1..Len(s)}

\* Nothing is in it twice.
Distinct(s) == \A i, j \in 1..Len(s) : s[i] = s[j] => i = j

\* A search from the front stops at the first hit.
LEMMA LeastNumber ==
    ASSUME NEW T, T \subseteq Nat, T # {}
    PROVE  \E i \in T : \A j \in T : i <= j
<1>1. PICK i \in T : \A j \in T : ~(<<j, i>> \in OpToRel(<, Nat))
  BY NatLessThanWellFounded, WFMin
<1>2. \A j \in T : ~(j < i)
  BY <1>1 DEF OpToRel
<1>3. \A j \in T : i <= j
  BY <1>2
<1> QED
  BY <1>3

\* Induction up to N, over the set of the numbers that have been reached.
LEMMA CountUp ==
    ASSUME NEW N \in Nat, NEW S, 0 \in S, \A n \in 1..N : n - 1 \in S => n \in S
    PROVE  0..N \subseteq S
<1> DEFINE T == {n \in 0..N : n \notin S}
<1>1. ASSUME T # {} PROVE FALSE
  <2>1. T \subseteq Nat
    OBVIOUS
  <2>2. PICK n \in T : \A j \in T : n <= j
    BY <1>1, <2>1, LeastNumber
  <2>3. n \in 1..N /\ n - 1 \in 0..N
    BY <2>2
  <2>4. n - 1 \in S
    BY <2>2, <2>3
  <2> QED
    BY <2>2, <2>3, <2>4
<1> QED
  BY <1>1

\* A function that follows steps down to where they end.
LEMMA Descent ==
    ASSUME NEW N \in Nat, NEW step \in [1..N -> 1..N], \A i \in 1..N : step[i] <= i
    PROVE  \E f \in [1..N -> 1..N] :
               \A i \in 1..N : f[i] = IF step[i] = i THEN i ELSE f[step[i]]
<1> DEFINE Fits(f, n) == \A i \in 1..n : f[i] = IF step[i] = i THEN i ELSE f[step[i]]
           Good == {n \in 0..N : \E f \in [1..n -> 1..N] : Fits(f, n)}
<1>1. 0 \in Good
  <2> DEFINE f == [i \in 1..0 |-> 1]
  <2>1. f \in [1..0 -> 1..N]
    OBVIOUS
  <2>2. \A i \in 1..0 : f[i] = IF step[i] = i THEN i ELSE f[step[i]]
    OBVIOUS
  <2>3. 0 \in 0..N
    OBVIOUS
  <2> HIDE DEF f
  <2> QED
    BY <2>1, <2>2, <2>3
<1>2. ASSUME NEW n \in 1..N, n - 1 \in Good PROVE n \in Good
  <2>1. PICK f \in [1..n-1 -> 1..N] : Fits(f, n - 1)
    BY <1>2
  <2>2. step[n] \in 1..N /\ step[n] <= n
    OBVIOUS
  <2> DEFINE last == IF step[n] = n THEN n ELSE f[step[n]]
             g == [i \in 1..n |-> IF i = n THEN last ELSE f[i]]
  <2>3. last \in 1..N
    BY <2>1, <2>2
  <2>4. \A i \in 1..n : i \in 1..n-1 \/ i = n
    OBVIOUS
  <2>5. \A i \in 1..n-1 : f[i] \in 1..N
    BY <2>1
  <2> HIDE DEF last
  <2>6. g \in [1..n -> 1..N]
    BY <2>3, <2>4, <2>5
  <2>7. g[n] = last /\ \A i \in 1..n-1 : g[i] = f[i]
    OBVIOUS
  <2> HIDE DEF g
  <2>8. ASSUME NEW i \in 1..n PROVE g[i] = IF step[i] = i THEN i ELSE g[step[i]]
    <3>1. step[i] \in 1..N /\ step[i] <= i
      OBVIOUS
    <3>2. CASE i \in 1..n-1
      <4>1. step[i] \in 1..n-1
        BY <3>1, <3>2
      <4> QED
        BY <2>1, <2>7, <3>2, <4>1
    <3>3. CASE i = n
      <4>1. step[n] # n => step[n] \in 1..n-1
        BY <2>2
      <4> QED
        BY <2>7, <3>3, <4>1 DEF last
    <3> QED
      BY <3>2, <3>3, <2>4
  <2>9. Fits(g, n)
    BY <2>8
  <2>10. n \in 0..N
    OBVIOUS
  <2> HIDE DEF Fits
  <2> QED
    BY <2>6, <2>9, <2>10
<1>3. N \in Good
  <2> HIDE DEF Good
  <2>1. 0..N \subseteq Good
    BY <1>1, <1>2, CountUp
  <2> QED
    BY <2>1
<1> QED
  BY <1>3

\* A function that goes through a sequence and collects the elements at the places in K.
LEMMA Collection ==
    ASSUME NEW S, NEW s \in Seq(S), NEW K \in SUBSET (1..Len(s))
    PROVE  \E f \in [0..Len(s) -> Seq(S)] :
               \A n \in 0..Len(s) :
                   f[n] = IF n = 0 THEN << >>
                          ELSE IF n \in K THEN Append(f[n - 1], s[n]) ELSE f[n - 1]
<1> DEFINE N == Len(s)
           Rule(f, n) == f[n] = IF n = 0 THEN << >>
                                ELSE IF n \in K THEN Append(f[n - 1], s[n]) ELSE f[n - 1]
           Good == {m \in 0..N : \E f \in [0..m -> Seq(S)] : \A n \in 0..m : Rule(f, n)}
<1>1. N \in Nat
  OBVIOUS
<1> HIDE DEF N
<1>2. 0 \in Good
  <2> DEFINE f == [i \in 0..0 |-> << >>]
  <2>1. f \in [0..0 -> Seq(S)] /\ \A n \in 0..0 : Rule(f, n)
    OBVIOUS
  <2> HIDE DEF f, Rule
  <2> QED
    BY <1>1, <2>1
<1>3. ASSUME NEW m \in 1..N, m - 1 \in Good PROVE m \in Good
  <2>1. PICK f \in [0..m - 1 -> Seq(S)] : \A n \in 0..m - 1 : Rule(f, n)
    BY <1>3
  <2> DEFINE last == IF m \in K THEN Append(f[m - 1], s[m]) ELSE f[m - 1]
             g == [n \in 0..m |-> IF n = m THEN last ELSE f[n]]
  <2>2. f[m - 1] \in Seq(S) /\ s[m] \in S
    BY <1>1, <2>1 DEF N
  <2>3. last \in Seq(S)
    BY <2>2
  <2>4. \A n \in 0..m : n \in 0..m - 1 \/ n = m
    BY <1>1
  <2>5. \A n \in 0..m - 1 : f[n] \in Seq(S)
    BY <2>1
  <2> HIDE DEF last
  <2>6. g \in [0..m -> Seq(S)]
    BY <2>3, <2>4, <2>5
  <2>7. g[m] = last /\ \A n \in 0..m - 1 : g[n] = f[n]
    BY <1>1
  <2> HIDE DEF g
  <2>8. ASSUME NEW n \in 0..m PROVE Rule(g, n)
    <3>1. CASE n \in 0..m - 1
      <4>1. n # 0 => n - 1 \in 0..m - 1
        BY <1>1, <3>1
      <4> QED
        BY <2>1, <2>7, <3>1, <4>1
    <3>2. CASE n = m
      <4>1. m # 0 /\ m - 1 \in 0..m - 1
        BY <1>1
      <4> QED
        BY <2>7, <3>2, <4>1 DEF last
    <3> QED
      BY <2>4, <3>1, <3>2
  <2>9. m \in 0..N
    BY <1>1
  <2> HIDE DEF Rule
  <2> QED
    BY <2>6, <2>8, <2>9
<1>4. N \in Good
  <2> HIDE DEF Good
  <2>1. 0..N \subseteq Good
    BY <1>1, <1>2, <1>3, CountUp
  <2> QED
    BY <1>1, <2>1
<1>5. PICK f \in [0..N -> Seq(S)] : \A n \in 0..N : Rule(f, n)
  BY <1>4
<1> QED
  BY <1>5 DEF N

\* Nothing is in the empty sequence, and only in that one.
LEMMA EmptyHoldsNothing ==
    /\ Elements(<< >>) = {} /\ Distinct(<< >>)
    /\ \A S : \A s \in Seq(S) : Elements(s) = {} => s = << >>
<1>1. Elements(<< >>) = {} /\ Distinct(<< >>)
  BY DEF Elements, Distinct
<1>2. ASSUME NEW S, NEW s \in Seq(S), s # << >> PROVE Elements(s) # {}
  <2>1. 1 \in 1..Len(s)
    BY <1>2
  <2> QED
    BY <2>1 DEF Elements
<1> QED
  BY <1>1, <1>2

\* A sequence holds elements of the set it ranges over.
LEMMA ElementsInRange ==
    ASSUME NEW S, NEW s \in Seq(S)
    PROVE  Elements(s) \subseteq S
  BY DEF Elements

\* Appending a new element adds it and keeps the elements distinct.
LEMMA AppendDistinct ==
    ASSUME NEW S, NEW s \in Seq(S), NEW x \in S
    PROVE  /\ Append(s, x) \in Seq(S)
           /\ Elements(Append(s, x)) = Elements(s) \cup {x}
           /\ Distinct(s) /\ x \notin Elements(s) => Distinct(Append(s, x))
<1> DEFINE t == Append(s, x)
<1>1. /\ t \in Seq(S) /\ Len(t) = Len(s) + 1
      /\ t[Len(s) + 1] = x /\ \A i \in 1..Len(s) : t[i] = s[i]
  OBVIOUS
<1>2. /\ Len(s) \in Nat
      /\ \A i \in 1..Len(t) : i \in 1..Len(s) \/ i = Len(s) + 1
      /\ 1..Len(s) \subseteq 1..Len(t) /\ Len(s) + 1 \in 1..Len(t)
  BY <1>1
<1> HIDE DEF t
<1>3. Elements(t) = Elements(s) \cup {x}
  BY <1>1, <1>2 DEF Elements
<1>4. ASSUME Distinct(s), x \notin Elements(s) PROVE Distinct(t)
  BY <1>1, <1>2, <1>4 DEF Elements, Distinct
<1> QED
  BY <1>1, <1>3, <1>4 DEF t

\* Taking the first of distinct elements leaves the others.
LEMMA TailDistinct ==
    ASSUME NEW S, NEW s \in Seq(S), s # << >>, Distinct(s)
    PROVE  /\ Tail(s) \in Seq(S) /\ Distinct(Tail(s))
           /\ Head(s) \in S /\ Head(s) \in Elements(s)
           /\ Elements(Tail(s)) = Elements(s) \ {Head(s)}
<1> DEFINE t == Tail(s)
           h == Head(s)
<1>1. /\ t \in Seq(S) /\ Len(t) = Len(s) - 1
      /\ h = s[1] /\ h \in S /\ \A i \in 1..Len(t) : t[i] = s[i + 1]
  BY HeadTailProperties
<1>2. /\ Len(s) \in Nat /\ 1 \in 1..Len(s)
      /\ \A i \in 1..Len(t) : i + 1 \in 1..Len(s) /\ i + 1 # 1
      /\ \A i \in 1..Len(s) : i = 1 \/ (i - 1 \in 1..Len(t) /\ (i - 1) + 1 = i)
      /\ \A i, j \in 1..Len(t) : i + 1 = j + 1 => i = j
  BY <1>1
<1> HIDE DEF t, h
<1>3. Distinct(t)
  BY <1>1, <1>2 DEF Distinct
<1>4. Elements(t) \subseteq Elements(s) \ {h}
  BY <1>1, <1>2, SMTT(20) DEF Elements, Distinct
<1>5. ASSUME NEW y \in Elements(s), y # h PROVE y \in Elements(t)
  <2>1. PICK i \in 1..Len(s) : y = s[i]
    BY DEF Elements
  <2>2. i - 1 \in 1..Len(t) /\ (i - 1) + 1 = i
    BY <1>1, <1>2, <1>5, <2>1
  <2>3. t[i - 1] = y
    BY <1>1, <2>1, <2>2
  <2> QED
    BY <2>2, <2>3 DEF Elements
<1>6. h \in Elements(s)
  BY <1>1, <1>2 DEF Elements
<1> QED
  BY <1>1, <1>3, <1>4, <1>5, <1>6 DEF t, h

-----------------------------------------------------------------------------
(* Transcripts.                                                            *)

\* Message i answers a call of message h, and so do all messages between them.
AnswersTo(msgs, h, i) ==
    /\ MakesCalls(msgs[h])
    /\ h < i /\ i <= h + Cardinality(msgs[h].calls)
    /\ \A j \in h + 1..i : /\ msgs[j].role = "tool"
                           /\ msgs[j].calls # {} /\ msgs[j].calls \subseteq msgs[h].calls

\* Every answer of a tool is in the chain of the message that called the tool.
InChains(msgs) ==
    \A i \in 1..Len(msgs) : msgs[i].role = "tool" =>
        \E h \in 1..Len(msgs) : AnswersTo(msgs, h, i)

\* A call is made once.
CallsApart(msgs) ==
    \A i, j \in 1..Len(msgs) :
        msgs[i].role = "assistant" /\ msgs[j].role = "assistant" /\ i # j
        => msgs[i].calls \cap msgs[j].calls = {}

\* The model is not asked again before a tool that it called has answered.
NotAskedTwice(msgs) ==
    \A i, j \in 1..Len(msgs) :
        j = i + 1 /\ MakesCalls(msgs[i]) => msgs[j].role # "assistant"

\* The calls of message i are all answered, or one of them is in X.
CallsSettled(msgs, i, X) == msgs[i].calls \cap X # {} \/ CallsAnswered(msgs, i)

\* The calls U of message p, and only they, still wait for their answers.
Unanswered(msgs, p, U) ==
    /\ MakesCalls(msgs[p]) /\ U \subseteq msgs[p].calls
    /\ Len(msgs) + Cardinality(U) = p + Cardinality(msgs[p].calls)
    /\ \A j \in p + 1..Len(msgs) : /\ msgs[j].role = "tool"
                                   /\ msgs[j].calls # {} /\ msgs[j].calls \subseteq msgs[p].calls
    /\ \A c \in msgs[p].calls \ U : \E j \in p + 1..Len(msgs) : msgs[j].calls = {c}

\* A transcript whose calls are settled, but for the calls U of its last chain.
Transcript(msgs, U, X) ==
    /\ \A i \in 1..Len(msgs) : IsFiniteSet(msgs[i].calls)
    /\ InChains(msgs) /\ CallsApart(msgs) /\ NotAskedTwice(msgs)
    /\ \/ /\ U = {}
          /\ \A i \in 1..Len(msgs) : msgs[i].role = "assistant" => CallsSettled(msgs, i, X)
          /\ msgs # << >> => ~MakesCalls(msgs[Len(msgs)])
       \/ /\ U # {}
          /\ \E p \in 1..Len(msgs) :
                 /\ Unanswered(msgs, p, U)
                 /\ \A i \in 1..Len(msgs) :
                        msgs[i].role = "assistant" /\ i # p => CallsSettled(msgs, i, X)

-----------------------------------------------------------------------------
(* How a transcript grows.                                                 *)

\* An empty one is in order.
LEMMA EmptyTranscript == ASSUME NEW X PROVE Transcript(<< >>, {}, X)
<1>1. Len(<< >>) = 0 /\ 1..0 = {}
  OBVIOUS
<1> QED
  BY <1>1 DEF Transcript, InChains, CallsApart, NotAskedTwice

\* Where things are after a message was added.
LEMMA Added ==
    ASSUME NEW M, NEW msgs \in Seq(M), NEW m \in M
    PROVE  LET p == Append(msgs, m)
               n == Len(msgs)
           IN  /\ n \in Nat /\ Len(p) = n + 1 /\ p[n + 1] = m /\ p \in Seq(M)
               /\ \A i \in 1..n : i \in 1..n + 1 /\ p[i] = msgs[i] /\ i # n + 1
               /\ \A i \in 1..n + 1 : i \in 1..n \/ i = n + 1
               /\ n + 1 \in 1..n + 1
  OBVIOUS

\* What was in order stays in order, if the new message is.
LEMMA GrownParts ==
    ASSUME NEW M, NEW msgs \in Seq(M), NEW m \in M, NEW U, NEW X,
           Transcript(msgs, U, X), IsFiniteSet(m.calls)
    PROVE  LET p == Append(msgs, m)
               n == Len(msgs)
           IN  /\ \A i \in 1..n + 1 : IsFiniteSet(p[i].calls)
               /\ (m.role = "tool" => \E h \in 1..n + 1 : AnswersTo(p, h, n + 1)) => InChains(p)
               /\ (m.role = "assistant" => \A i \in 1..n : msgs[i].role = "assistant"
                                               => msgs[i].calls \cap m.calls = {}) => CallsApart(p)
               /\ (m.role = "assistant" => msgs = << >> \/ ~MakesCalls(msgs[n])) => NotAskedTwice(p)
               /\ \A i \in 1..n : CallsSettled(msgs, i, X) => CallsSettled(p, i, X)
<1> DEFINE p == Append(msgs, m)
           n == Len(msgs)
<1>1. /\ n \in Nat /\ Len(p) = n + 1 /\ p[n + 1] = m
      /\ \A i \in 1..n : i \in 1..n + 1 /\ p[i] = msgs[i] /\ i # n + 1
      /\ \A i \in 1..n + 1 : i \in 1..n \/ i = n + 1
      /\ n + 1 \in 1..n + 1
  BY Added
<1>2. /\ \A i \in 1..n : IsFiniteSet(msgs[i].calls)
      /\ InChains(msgs) /\ CallsApart(msgs) /\ NotAskedTwice(msgs)
  BY DEF Transcript
<1>3. msgs = << >> \/ n \in 1..n
  BY <1>1
<1> HIDE DEF p
<1>4. \A i \in 1..n + 1 : IsFiniteSet(p[i].calls)
  BY <1>1, <1>2
<1>5. ASSUME m.role = "tool" => \E h \in 1..n + 1 : AnswersTo(p, h, n + 1) PROVE InChains(p)
  <2>1. ASSUME NEW i \in 1..n, p[i].role = "tool"
        PROVE  \E h \in 1..n + 1 : AnswersTo(p, h, i)
    <3>1. PICK h \in 1..n : AnswersTo(msgs, h, i)
      BY <1>1, <1>2, <2>1 DEF InChains
    <3>2. \A j \in h + 1..i : j \in 1..n
      BY <1>1
    <3>3. AnswersTo(p, h, i)
      BY <1>1, <3>1, <3>2 DEF AnswersTo
    <3> QED
      BY <1>1, <3>3
  <2> QED
    BY <1>1, <1>5, <2>1 DEF InChains
<1>6. ASSUME m.role = "assistant" => \A i \in 1..n : msgs[i].role = "assistant"
                                         => msgs[i].calls \cap m.calls = {}
      PROVE  CallsApart(p)
  <2> SUFFICES ASSUME NEW i \in 1..n + 1, NEW j \in 1..n + 1,
                      p[i].role = "assistant", p[j].role = "assistant", i # j
               PROVE  p[i].calls \cap p[j].calls = {}
    BY <1>1 DEF CallsApart
  <2>1. CASE i \in 1..n /\ j \in 1..n
    BY <1>1, <1>2, <2>1 DEF CallsApart
  <2>2. CASE i = n + 1 /\ j \in 1..n
    BY <1>1, <1>6, <2>2
  <2>3. CASE i \in 1..n /\ j = n + 1
    BY <1>1, <1>6, <2>3
  <2> QED
    BY <1>1, <2>1, <2>2, <2>3
<1>7. ASSUME m.role = "assistant" => msgs = << >> \/ ~MakesCalls(msgs[n]) PROVE NotAskedTwice(p)
  <2> SUFFICES ASSUME NEW i \in 1..n + 1, NEW j \in 1..n + 1, j = i + 1, MakesCalls(p[i])
               PROVE  p[j].role # "assistant"
    BY <1>1 DEF NotAskedTwice
  <2>1. i \in 1..n /\ (j \in 1..n \/ (j = n + 1 /\ i = n))
    BY <1>1
  <2>2. CASE j \in 1..n
    BY <1>1, <1>2, <2>1, <2>2 DEF NotAskedTwice
  <2>3. CASE j = n + 1 /\ i = n
    <3>1. msgs # << >> /\ MakesCalls(msgs[n]) /\ p[j] = m
      BY <1>1, <2>1, <2>3
    <3> QED
      BY <1>7, <3>1
  <2> QED
    BY <2>1, <2>2, <2>3
<1>8. ASSUME NEW i \in 1..n, CallsSettled(msgs, i, X) PROVE CallsSettled(p, i, X)
  <2>1. CASE msgs[i].calls \cap X # {}
    BY <1>1, <2>1 DEF CallsSettled
  <2>2. CASE CallsAnswered(msgs, i)
    <3>1. Cardinality(msgs[i].calls) \in Nat
      BY <1>2, FS_CardinalityType
    <3>2. i + Cardinality(msgs[i].calls) <= n /\ p[i] = msgs[i]
      BY <1>1, <2>2 DEF CallsAnswered
    <3>3. /\ AnswerPlaces(p, i) = AnswerPlaces(msgs, i)
          /\ \A j \in AnswerPlaces(msgs, i) : p[j] = msgs[j]
      BY <1>1, <3>1, <3>2 DEF AnswerPlaces
    <3>4. i + Cardinality(p[i].calls) <= Len(p)
      BY <1>1, <3>1, <3>2
    <3>5. CallsAnswered(p, i)
      BY <2>2, <3>2, <3>3, <3>4 DEF CallsAnswered
    <3> QED
      BY <3>5 DEF CallsSettled
  <2> QED
    BY <1>8, <2>1, <2>2 DEF CallsSettled
<1> QED
  BY <1>4, <1>5, <1>6, <1>7, <1>8 DEF p

\* A text is added when nothing is waited for.
LEMMA TextAdded ==
    ASSUME NEW M, NEW msgs \in Seq(M), NEW m \in M, NEW X, Transcript(msgs, {}, X),
           m.role \in {"user", "assistant"}, m.calls = {}
    PROVE  Transcript(Append(msgs, m), {}, X)
<1> DEFINE p == Append(msgs, m)
           n == Len(msgs)
<1>1. /\ n \in Nat /\ Len(p) = n + 1 /\ p[n + 1] = m
      /\ \A i \in 1..n : i \in 1..n + 1 /\ p[i] = msgs[i] /\ i # n + 1
      /\ \A i \in 1..n + 1 : i \in 1..n \/ i = n + 1
      /\ n + 1 \in 1..n + 1
  BY Added
<1>2. IsFiniteSet(m.calls) /\ Cardinality(m.calls) = 0
  BY FS_EmptySet
<1>3. /\ \A i \in 1..n : msgs[i].role = "assistant" => CallsSettled(msgs, i, X)
      /\ msgs # << >> => ~MakesCalls(msgs[n])
  BY DEF Transcript
<1>4. /\ \A i \in 1..n + 1 : IsFiniteSet(p[i].calls)
      /\ InChains(p) /\ CallsApart(p) /\ NotAskedTwice(p)
      /\ \A i \in 1..n : CallsSettled(msgs, i, X) => CallsSettled(p, i, X)
  <2>1. m.role # "tool" /\ \A i \in 1..n : msgs[i].calls \cap m.calls = {}
    OBVIOUS
  <2> QED
    BY <1>2, <1>3, <2>1, GrownParts
<1> HIDE DEF p
<1>5. CallsSettled(p, n + 1, X)
  <2>1. p[n + 1].calls = {} /\ Cardinality(p[n + 1].calls) = 0
    BY <1>1, <1>2
  <2>2. n + 1 + Cardinality(p[n + 1].calls) <= Len(p)
    BY <1>1, <2>1
  <2>3. AnswerPlaces(p, n + 1) = {}
    BY <1>1, <2>1 DEF AnswerPlaces
  <2>4. CallsAnswered(p, n + 1)
    BY <2>1, <2>2, <2>3 DEF CallsAnswered
  <2> QED
    BY <2>4 DEF CallsSettled
<1>6. \A i \in 1..n + 1 : p[i].role = "assistant" => CallsSettled(p, i, X)
  BY <1>1, <1>3, <1>4, <1>5
<1>7. ~MakesCalls(p[Len(p)])
  BY <1>1 DEF MakesCalls
<1>8. Transcript(p, {}, X)
  BY <1>1, <1>4, <1>6, <1>7 DEF Transcript
<1> QED
  BY <1>8 DEF p

\* The model calls tools that nobody called before.
LEMMA CallsAdded ==
    ASSUME NEW M, NEW msgs \in Seq(M), NEW m \in M, NEW X, Transcript(msgs, {}, X),
           m.role = "assistant", m.calls # {}, IsFiniteSet(m.calls),
           \A i \in 1..Len(msgs) : msgs[i].role = "assistant" => msgs[i].calls \cap m.calls = {}
    PROVE  Transcript(Append(msgs, m), m.calls, X)
<1> DEFINE p == Append(msgs, m)
           n == Len(msgs)
<1>1. /\ n \in Nat /\ Len(p) = n + 1 /\ p[n + 1] = m
      /\ \A i \in 1..n : i \in 1..n + 1 /\ p[i] = msgs[i] /\ i # n + 1
      /\ \A i \in 1..n + 1 : i \in 1..n \/ i = n + 1
      /\ n + 1 \in 1..n + 1
  BY Added
<1>2. /\ \A i \in 1..n : msgs[i].role = "assistant" => CallsSettled(msgs, i, X)
      /\ msgs # << >> => ~MakesCalls(msgs[n])
  BY DEF Transcript
<1>3. /\ \A i \in 1..n + 1 : IsFiniteSet(p[i].calls)
      /\ InChains(p) /\ CallsApart(p) /\ NotAskedTwice(p)
      /\ \A i \in 1..n : CallsSettled(msgs, i, X) => CallsSettled(p, i, X)
  <2>1. m.role # "tool"
    OBVIOUS
  <2> QED
    BY <1>2, <2>1, GrownParts
<1> HIDE DEF p
<1>4. Cardinality(m.calls) \in Nat
  BY FS_CardinalityType
<1>5. Unanswered(p, n + 1, m.calls)
  <2>1. n + 1 + 1..Len(p) = {}
    BY <1>1
  <2> QED
    BY <1>1, <1>4, <2>1 DEF Unanswered, MakesCalls
<1>6. \A i \in 1..n + 1 : p[i].role = "assistant" /\ i # n + 1 => CallsSettled(p, i, X)
  BY <1>1, <1>2, <1>3
<1>7. Transcript(p, m.calls, X)
  BY <1>1, <1>3, <1>5, <1>6 DEF Transcript
<1> QED
  BY <1>7 DEF p

\* A tool that is waited for answers.
LEMMA AnswerAdded ==
    ASSUME NEW M, NEW msgs \in Seq(M), NEW m \in M, NEW X, NEW U, Transcript(msgs, U, X),
           NEW c \in U, m.role = "tool", m.calls = {c}
    PROVE  /\ Transcript(Append(msgs, m), U \ {c}, X)
           /\ IsFiniteSet(U)
<1> DEFINE p == Append(msgs, m)
           n == Len(msgs)
           W == U \ {c}
<1>1. /\ n \in Nat /\ Len(p) = n + 1 /\ p[n + 1] = m
      /\ \A i \in 1..n : i \in 1..n + 1 /\ p[i] = msgs[i] /\ i # n + 1
      /\ \A i \in 1..n + 1 : i \in 1..n \/ i = n + 1
      /\ n + 1 \in 1..n + 1
  BY Added
<1>2. PICK h \in 1..n :
          /\ Unanswered(msgs, h, U)
          /\ \A i \in 1..n : msgs[i].role = "assistant" /\ i # h => CallsSettled(msgs, i, X)
  BY DEF Transcript
<1>3. IsFiniteSet(msgs[h].calls) /\ U \subseteq msgs[h].calls
  BY <1>2 DEF Transcript, Unanswered
<1>4. /\ IsFiniteSet(U) /\ IsFiniteSet(W) /\ Cardinality(U) \in Nat /\ Cardinality(W) \in Nat
      /\ Cardinality(W) = Cardinality(U) - 1 /\ Cardinality(msgs[h].calls) \in Nat
  <2>1. IsFiniteSet(U)
    BY <1>3, FS_Subset
  <2>2. IsFiniteSet(W) /\ Cardinality(W) = Cardinality(U) - 1
    BY <2>1, FS_RemoveElement
  <2> QED
    BY <1>3, <2>1, <2>2, FS_CardinalityType
<1>5. /\ MakesCalls(msgs[h])
      /\ n + Cardinality(U) = h + Cardinality(msgs[h].calls)
      /\ \A j \in h + 1..n : /\ msgs[j].role = "tool"
                             /\ msgs[j].calls # {} /\ msgs[j].calls \subseteq msgs[h].calls
      /\ \A d \in msgs[h].calls \ U : \E j \in h + 1..n : msgs[j].calls = {d}
  BY <1>2 DEF Unanswered
<1>6. h \in Nat /\ h <= n /\ p[h] = msgs[h] /\ h \in 1..n + 1
  BY <1>1
<1> HIDE DEF p, W
<1>7. \A j \in h + 1..n + 1 : /\ p[j].role = "tool"
                              /\ p[j].calls # {} /\ p[j].calls \subseteq p[h].calls
  <2> SUFFICES ASSUME NEW j \in h + 1..n + 1
               PROVE  /\ p[j].role = "tool" /\ p[j].calls # {} /\ p[j].calls \subseteq p[h].calls
    OBVIOUS
  <2>1. CASE j = n + 1
    BY <1>1, <1>3, <1>6, <2>1
  <2>2. CASE j # n + 1
    <3>1. j \in h + 1..n /\ j \in 1..n
      BY <1>1, <1>6, <2>2
    <3> QED
      BY <1>1, <1>5, <1>6, <3>1
  <2> QED
    BY <2>1, <2>2
<1>8. AnswersTo(p, h, n + 1)
  <2>1. U # {} /\ Cardinality(U) >= 1
    BY <1>4
  <2>2. h < n + 1 /\ n + 1 <= h + Cardinality(p[h].calls)
    BY <1>1, <1>4, <1>5, <1>6, <2>1
  <2> QED
    BY <1>5, <1>6, <1>7, <2>2 DEF AnswersTo
<1>9. /\ \A i \in 1..n + 1 : IsFiniteSet(p[i].calls)
      /\ InChains(p) /\ CallsApart(p) /\ NotAskedTwice(p)
      /\ \A i \in 1..n : CallsSettled(msgs, i, X) => CallsSettled(p, i, X)
  <2>1. m.role # "assistant" /\ IsFiniteSet(m.calls)
    BY FS_Singleton
  <2> QED
    BY <1>6, <1>8, <2>1, GrownParts DEF p
<1>10. \A i \in 1..n + 1 : p[i].role = "assistant" /\ i # h => CallsSettled(p, i, X)
  <2>1. p[n + 1].role # "assistant"
    BY <1>1
  <2> QED
    BY <1>1, <1>2, <1>9, <2>1
<1>11. \A d \in p[h].calls \ W : \E j \in h + 1..n + 1 : p[j].calls = {d}
  <2> SUFFICES ASSUME NEW d \in p[h].calls \ W PROVE \E j \in h + 1..n + 1 : p[j].calls = {d}
    OBVIOUS
  <2>1. CASE d = c
    <3>1. n + 1 \in h + 1..n + 1
      BY <1>6
    <3> QED
      BY <1>1, <2>1, <3>1
  <2>2. CASE d # c
    <3>1. d \in msgs[h].calls \ U
      BY <1>6, <2>2 DEF W
    <3>2. PICK j \in h + 1..n : msgs[j].calls = {d}
      BY <1>5, <3>1
    <3>3. j \in 1..n /\ j \in h + 1..n + 1
      BY <1>6
    <3> QED
      BY <1>1, <3>2, <3>3
  <2> QED
    BY <2>1, <2>2
<1>12. CASE W # {}
  <2>1. Unanswered(p, h, W)
    <3>1. W \subseteq p[h].calls
      BY <1>3, <1>6 DEF W
    <3>2. Len(p) + Cardinality(W) = h + Cardinality(p[h].calls)
      BY <1>1, <1>4, <1>5, <1>6
    <3>3. MakesCalls(p[h])
      BY <1>5, <1>6
    <3> QED
      BY <1>1, <1>7, <1>11, <3>1, <3>2, <3>3 DEF Unanswered
  <2>2. Transcript(p, W, X)
    BY <1>1, <1>6, <1>9, <1>10, <1>12, <2>1 DEF Transcript
  <2> QED
    BY <1>4, <2>2 DEF p, W
<1>13. CASE W = {}
  <2>1. Cardinality(W) = 0 /\ Cardinality(p[h].calls) \in Nat
    BY <1>4, <1>6, <1>13, FS_EmptySet
  <2>2. h + Cardinality(p[h].calls) = n + 1
    BY <1>4, <1>5, <1>6, <2>1
  <2>3. AnswerPlaces(p, h) = h + 1..n + 1
    BY <1>6, <2>1, <2>2 DEF AnswerPlaces
  <2>4. h + Cardinality(p[h].calls) <= Len(p)
    BY <1>1, <2>2
  <2>5. \A d \in p[h].calls : \E j \in AnswerPlaces(p, h) : p[j].calls = {d}
    BY <1>11, <1>13, <2>3
  <2>6. CallsAnswered(p, h)
    BY <1>7, <2>3, <2>4, <2>5 DEF CallsAnswered
  <2>7. \A i \in 1..n + 1 : p[i].role = "assistant" => CallsSettled(p, i, X)
    BY <1>10, <2>6 DEF CallsSettled
  <2>8. ~MakesCalls(p[Len(p)])
    BY <1>1 DEF MakesCalls
  <2>9. Transcript(p, {}, X)
    BY <1>1, <1>9, <2>7, <2>8 DEF Transcript
  <2> QED
    BY <1>4, <1>13, <2>9 DEF p, W
<1> QED
  BY <1>12, <1>13

\* The tools that are waited for are lost, and a user speaks.
LEMMA UserAfterLoss ==
    ASSUME NEW M, NEW msgs \in Seq(M), NEW m \in M, NEW X, NEW U, Transcript(msgs, U, X),
           U # {}, m.role = "user", m.calls = {}
    PROVE  Transcript(Append(msgs, m), {}, X \cup U)
<1> DEFINE p == Append(msgs, m)
           n == Len(msgs)
           Y == X \cup U
<1>1. /\ n \in Nat /\ Len(p) = n + 1 /\ p[n + 1] = m
      /\ \A i \in 1..n : i \in 1..n + 1 /\ p[i] = msgs[i] /\ i # n + 1
      /\ \A i \in 1..n + 1 : i \in 1..n \/ i = n + 1
      /\ n + 1 \in 1..n + 1
  BY Added
<1>2. PICK h \in 1..n :
          /\ Unanswered(msgs, h, U)
          /\ \A i \in 1..n : msgs[i].role = "assistant" /\ i # h => CallsSettled(msgs, i, X)
  BY DEF Transcript
<1>3. U \subseteq msgs[h].calls
  BY <1>2 DEF Unanswered
<1>4. /\ \A i \in 1..n + 1 : IsFiniteSet(p[i].calls)
      /\ InChains(p) /\ CallsApart(p) /\ NotAskedTwice(p)
      /\ \A i \in 1..n : CallsSettled(msgs, i, X) => CallsSettled(p, i, X)
  <2>1. m.role # "assistant" /\ m.role # "tool" /\ IsFiniteSet(m.calls)
    BY FS_EmptySet
  <2> QED
    BY <2>1, GrownParts
<1> HIDE DEF p
<1>5. \A i \in 1..n + 1 : CallsSettled(p, i, X) => CallsSettled(p, i, Y)
  BY DEF CallsSettled
<1>6. CallsSettled(p, h, Y)
  BY <1>1, <1>3 DEF CallsSettled
<1>7. \A i \in 1..n + 1 : p[i].role = "assistant" => CallsSettled(p, i, Y)
  <2>1. p[n + 1].role # "assistant"
    BY <1>1
  <2> QED
    BY <1>1, <1>2, <1>4, <1>5, <1>6, <2>1
<1>8. ~MakesCalls(p[Len(p)])
  BY <1>1 DEF MakesCalls
<1>9. Transcript(p, {}, Y)
  BY <1>1, <1>4, <1>7, <1>8 DEF Transcript
<1> QED
  BY <1>9 DEF p

-----------------------------------------------------------------------------
(* Where a window starts.                                                  *)

\* The message that a tool's answer belongs to is found.
LEMMA CallerFound ==
    ASSUME NEW msgs, Len(msgs) \in Nat, NEW i \in 1..Len(msgs), NEW h \in 1..Len(msgs),
           CallsApart(msgs), AnswersTo(msgs, h, i)
    PROVE  ChainStart(msgs, i) = h /\ msgs[i].role = "tool"
<1>1. /\ MakesCalls(msgs[h]) /\ msgs[h].role = "assistant" /\ h < i /\ i \in h + 1..i
  BY DEF AnswersTo, MakesCalls
<1>2. msgs[i].role = "tool" /\ msgs[i].calls # {} /\ msgs[i].calls \subseteq msgs[h].calls
  BY <1>1 DEF AnswersTo
<1>3. h \in Callers(msgs, i)
  BY <1>1, <1>2 DEF Callers
<1>4. ASSUME NEW j \in Callers(msgs, i) PROVE j = h
  <2>1. j \in 1..Len(msgs) /\ msgs[j].role = "assistant" /\ msgs[i].calls \subseteq msgs[j].calls
    BY DEF Callers
  <2>2. msgs[j].calls \cap msgs[h].calls # {}
    BY <1>2, <2>1
  <2> QED
    BY <1>1, <2>1, <2>2 DEF CallsApart
<1>5. Callers(msgs, i) = {h}
  BY <1>3, <1>4, Zenon
<1>7. h <= h
  OBVIOUS
<1>6. ChainStart(msgs, i) = CHOOSE j \in {h} : \A g \in {h} : g <= j
  BY <1>2, <1>5 DEF ChainStart
<1> QED
  BY <1>2, <1>6, <1>7

\* Between the head of a chain and one of its answers there are only answers.
LEMMA HeadIsNearest ==
    ASSUME NEW msgs, Len(msgs) \in Nat, NEW i \in 1..Len(msgs), NEW h \in 1..Len(msgs),
           AnswersTo(msgs, h, i)
    PROVE  /\ h < i /\ msgs[h].role = "assistant" /\ msgs[h].role # "tool"
           /\ \A j \in 1..Len(msgs) : msgs[j].role # "tool" /\ j <= i => j <= h
<1>1. h < i /\ msgs[h].role = "assistant" /\ \A j \in h + 1..i : msgs[j].role = "tool"
  BY DEF AnswersTo, MakesCalls
<1>2. ASSUME NEW j \in 1..Len(msgs), msgs[j].role # "tool", j <= i PROVE j <= h
  <2>1. j \notin h + 1..i
    BY <1>1, <1>2
  <2> QED
    BY <1>2, <2>1
<1> QED
  BY <1>1, <1>2

\* Where one round of the loop goes: from an answer to the head of its chain, from any other
\* message to the one before if that one called tools.  There it stays.
LEMMA StepBackIs ==
    ASSUME NEW msgs, Len(msgs) \in Nat, InChains(msgs), CallsApart(msgs), NotAskedTwice(msgs),
           NEW i \in 1..Len(msgs)
    PROVE  /\ StepBack(msgs, i) \in 1..i
           /\ msgs[StepBack(msgs, i)].role # "tool"
           /\ StepBack(msgs, StepBack(msgs, i)) = StepBack(msgs, i)
           /\ msgs[i].role = "tool" => AnswersTo(msgs, StepBack(msgs, i), i)
           /\ msgs[i].role # "tool" =>
                  StepBack(msgs, i) = IF i > 1 /\ MakesCalls(msgs[i - 1]) THEN i - 1 ELSE i
<1>1. ASSUME NEW j \in 1..Len(msgs), msgs[j].role # "tool"
      PROVE  StepBack(msgs, j) = IF j > 1 /\ MakesCalls(msgs[j - 1]) THEN j - 1 ELSE j
  <2>1. ChainStart(msgs, j) = j
    BY <1>1 DEF ChainStart
  <2> QED
    BY <2>1 DEF StepBack
<1>2. ASSUME NEW j \in 1..Len(msgs), msgs[j].role = "assistant"
      PROVE  StepBack(msgs, j) = j
  <2>1. j > 1 => ~MakesCalls(msgs[j - 1])
    <3>1. ASSUME j > 1 PROVE j - 1 \in 1..Len(msgs) /\ j = (j - 1) + 1
      BY <3>1
    <3> QED
      BY <1>2, <3>1 DEF NotAskedTwice
  <2> QED
    BY <1>1, <1>2, <2>1
<1>3. CASE msgs[i].role = "tool"
  <2>1. PICK h \in 1..Len(msgs) : AnswersTo(msgs, h, i)
    BY <1>3 DEF InChains
  <2>2. h < i /\ msgs[h].role = "assistant" /\ ChainStart(msgs, i) = h
    BY <2>1, CallerFound, HeadIsNearest
  <2>3. ChainStart(msgs, h) = h
    BY <2>2 DEF ChainStart
  <2>4. StepBack(msgs, i) = StepBack(msgs, h)
    BY <2>2, <2>3 DEF StepBack
  <2>5. StepBack(msgs, h) = h
    BY <1>2, <2>2
  <2> QED
    BY <1>3, <2>1, <2>2, <2>4, <2>5
<1>4. CASE msgs[i].role # "tool" /\ i > 1 /\ MakesCalls(msgs[i - 1])
  <2>1. StepBack(msgs, i) = i - 1 /\ i - 1 \in 1..Len(msgs) /\ i - 1 \in 1..i
    BY <1>1, <1>4
  <2>2. msgs[i - 1].role = "assistant"
    BY <1>4 DEF MakesCalls
  <2>3. StepBack(msgs, i - 1) = i - 1
    BY <1>2, <2>1, <2>2
  <2> QED
    BY <1>4, <2>1, <2>2, <2>3
<1>5. CASE msgs[i].role # "tool" /\ ~(i > 1 /\ MakesCalls(msgs[i - 1]))
  <2>1. StepBack(msgs, i) = i
    BY <1>1, <1>5
  <2> QED
    BY <1>5, <2>1
<1> QED
  BY <1>3, <1>4, <1>5

\* The loop stops after the first round.
LEMMA LoopStops ==
    ASSUME NEW msgs, Len(msgs) \in Nat, InChains(msgs), CallsApart(msgs), NotAskedTwice(msgs),
           NEW start \in 1..Len(msgs)
    PROVE  AdjustedStart(msgs, start) = StepBack(msgs, start)
<1> DEFINE N == Len(msgs)
           step == [i \in 1..N |-> StepBack(msgs, i)]
           Body(f) == [i \in 1..N |-> IF StepBack(msgs, i) = i THEN i ELSE f[StepBack(msgs, i)]]
<1>1. \A i \in 1..N : StepBack(msgs, i) \in 1..N /\ StepBack(msgs, i) <= i
  <2>1. \A i \in 1..N : StepBack(msgs, i) \in 1..i
    BY StepBackIs
  <2> QED
    BY <2>1
<1>2. step \in [1..N -> 1..N] /\ \A i \in 1..N : step[i] = StepBack(msgs, i)
  BY <1>1
<1> HIDE DEF step
<1>3. PICK f \in [1..N -> 1..N] : \A i \in 1..N : f[i] = IF step[i] = i THEN i ELSE f[step[i]]
  <2>1. \A i \in 1..N : step[i] <= i
    BY <1>1, <1>2
  <2> QED
    BY <1>2, <2>1, Descent
<1>4. f = Body(f)
  BY <1>2, <1>3
<1>5. \E g : g = Body(g) /\ AdjustedStart(msgs, start) = g[start]
  BY <1>4 DEF AdjustedStart
<1>6. PICK g : g = Body(g) /\ AdjustedStart(msgs, start) = g[start]
  BY <1>5
<1>7. \A i \in 1..N : g[i] = IF StepBack(msgs, i) = i THEN i ELSE g[StepBack(msgs, i)]
  <2> HIDE DEF N
  <2> QED
    BY <1>6
<1> DEFINE j == StepBack(msgs, start)
<1>8. j \in 1..N /\ StepBack(msgs, j) = j
  BY <1>1, StepBackIs
<1>9. g[j] = j
  BY <1>7, <1>8
<1> QED
  BY <1>6, <1>7, <1>9

\* What the window starts with is no answer of a tool.
LEMMA WindowStart ==
    ASSUME NEW M, NEW msgs \in Seq(M), NEW U, NEW X, Transcript(msgs, U, X), msgs # << >>,
           NEW max \in Nat \ {0}
    PROVE  LET from == IF Len(msgs) <= max THEN 1 ELSE Len(msgs) - max + 1
           IN  /\ from \in 1..Len(msgs)
               /\ ContextStart(msgs, max) = IF Len(msgs) <= max THEN 1 ELSE StepBack(msgs, from)
               /\ ContextStart(msgs, max) \in 1..Len(msgs)
               /\ msgs[ContextStart(msgs, max)].role # "tool"
<1> DEFINE n == Len(msgs)
           from == IF n <= max THEN 1 ELSE n - max + 1
<1>1. n \in Nat /\ n # 0 /\ from \in 1..n
  <2>1. n \in Nat /\ n # 0
    OBVIOUS
  <2> QED
    BY <2>1
<1>2. InChains(msgs) /\ CallsApart(msgs) /\ NotAskedTwice(msgs)
  BY DEF Transcript
<1>3. CASE n <= max
  <2>1. ContextStart(msgs, max) = 1 /\ 1 \in 1..n
    BY <1>1, <1>3 DEF ContextStart
  <2>2. msgs[1].role # "tool"
    <3>1. ASSUME msgs[1].role = "tool" PROVE FALSE
      <4>1. PICK h \in 1..n : AnswersTo(msgs, h, 1)
        BY <1>2, <2>1, <3>1 DEF InChains
      <4> QED
        BY <4>1 DEF AnswersTo
    <3> QED
      BY <3>1
  <2> QED
    BY <1>1, <1>3, <2>1, <2>2
<1>4. CASE ~(n <= max)
  <2>1. ContextStart(msgs, max) = StepBack(msgs, from)
    BY <1>1, <1>2, <1>4, LoopStops DEF ContextStart
  <2>2. StepBack(msgs, from) \in 1..from /\ msgs[StepBack(msgs, from)].role # "tool"
    BY <1>1, <1>2, StepBackIs
  <2>3. StepBack(msgs, from) \in 1..n
    BY <1>1, <2>2
  <2> QED
    BY <1>1, <1>4, <2>1, <2>2, <2>3
<1> QED
  BY <1>3, <1>4

\* Every end of a settled transcript that does not start in a chain can be sent.
LEMMA EndIsWellFormed ==
    ASSUME NEW M, NEW msgs \in Seq(M), NEW X, Transcript(msgs, {}, X),
           NEW k \in 1..Len(msgs), msgs[k].role # "tool"
    PROVE  WellFormedBut(SubSeq(msgs, k, Len(msgs)), X)
<1> DEFINE n == Len(msgs)
           w == SubSeq(msgs, k, n)
           d == k - 1
<1>1. /\ n \in Nat /\ d \in Nat /\ d <= n /\ Len(w) = n - d
      /\ \A i \in 1..n - d : w[i] = msgs[i + d] /\ i + d \in 1..n
  OBVIOUS
<1> HIDE DEF w
<1>2. /\ InChains(msgs) /\ \A i \in 1..n : IsFiniteSet(msgs[i].calls)
      /\ \A i \in 1..n : msgs[i].role = "assistant" => CallsSettled(msgs, i, X)
  BY DEF Transcript
<1>3. ASSUME NEW i \in 1..n - d, w[i].role = "assistant"
      PROVE  w[i].calls \cap X # {} \/ CallsAnswered(w, i)
  <2>1. /\ w[i] = msgs[i + d] /\ i + d \in 1..n /\ CallsSettled(msgs, i + d, X)
        /\ Cardinality(msgs[i + d].calls) \in Nat
    BY <1>1, <1>2, <1>3, FS_CardinalityType
  <2>2. CASE CallsAnswered(msgs, i + d)
    <3> DEFINE c == Cardinality(msgs[i + d].calls)
    <3>1. /\ i + d + c <= n
          /\ \A j \in i + d + 1..i + d + c : msgs[j].role = "tool"
          /\ \A x \in msgs[i + d].calls : \E j \in i + d + 1..i + d + c : msgs[j].calls = {x}
      BY <2>2 DEF CallsAnswered, AnswerPlaces
    <3>2. AnswerPlaces(w, i) = i + 1..i + c
      BY <2>1 DEF AnswerPlaces
    <3>3. i + c <= Len(w) /\ c \in Nat
      BY <1>1, <2>1, <3>1
    <3>4. c = Cardinality(w[i].calls)
      BY <2>1
    <3> HIDE DEF c
    <3>5. \A j \in i + 1..i + c : j \in 1..n - d /\ j + d \in i + d + 1..i + d + c
      BY <1>1, <3>3
    <3>6. \A j \in i + d + 1..i + d + c : j - d \in i + 1..i + c /\ (j - d) + d = j
      BY <1>1, <3>3
    <3>7. \A j \in AnswerPlaces(w, i) : w[j].role = "tool"
      BY <1>1, <3>1, <3>2, <3>5
    <3>8. \A x \in w[i].calls : \E j \in AnswerPlaces(w, i) : w[j].calls = {x}
      <4> SUFFICES ASSUME NEW x \in w[i].calls PROVE \E j \in i + 1..i + c : w[j].calls = {x}
        BY <3>2
      <4>1. PICK j \in i + d + 1..i + d + c : msgs[j].calls = {x}
        BY <2>1, <3>1
      <4>2. j - d \in i + 1..i + c /\ w[j - d] = msgs[j]
        BY <1>1, <3>5, <3>6
      <4> QED
        BY <4>1, <4>2
    <3> QED
      BY <3>3, <3>4, <3>7, <3>8 DEF CallsAnswered
  <2> QED
    BY <2>1, <2>2 DEF CallsSettled
<1>4. ASSUME NEW i \in 1..n - d, w[i].role = "tool"
      PROVE  \E j \in 1..i - 1 : w[j].role = "assistant" /\ i \in AnswerPlaces(w, j)
  <2>1. w[i] = msgs[i + d] /\ i + d \in 1..n
    BY <1>1
  <2>2. PICK h \in 1..n : AnswersTo(msgs, h, i + d)
    BY <1>2, <1>4, <2>1 DEF InChains
  <2>3. h < i + d /\ msgs[h].role = "assistant" /\ k <= h
    BY <1>1, <2>1, <2>2, HeadIsNearest
  <2>4. h - d \in 1..i - 1 /\ h - d \in 1..n - d /\ (h - d) + d = h
    BY <1>1, <2>3
  <2>5. w[h - d] = msgs[h]
    BY <1>1, <2>4
  <2>6. Cardinality(msgs[h].calls) \in Nat /\ i + d <= h + Cardinality(msgs[h].calls)
    BY <1>2, <2>2, FS_CardinalityType DEF AnswersTo
  <2>7. i \in AnswerPlaces(w, h - d)
    BY <1>1, <2>3, <2>4, <2>5, <2>6 DEF AnswerPlaces
  <2> QED
    BY <2>3, <2>4, <2>5, <2>7
<1>5. WellFormedBut(w, X)
  BY <1>1, <1>3, <1>4 DEF WellFormedBut
<1> QED
  BY <1>5 DEF w

\* So can every window.
LEMMA WindowIsWellFormed ==
    ASSUME NEW M, NEW msgs \in Seq(M), NEW X, Transcript(msgs, {}, X), NEW max \in Nat \ {0}
    PROVE  WellFormedBut(Window(msgs, max), X)
<1>1. CASE msgs # << >>
  <2>1. /\ ContextStart(msgs, max) \in 1..Len(msgs)
        /\ msgs[ContextStart(msgs, max)].role # "tool"
    BY <1>1, WindowStart
  <2> QED
    BY <2>1, EndIsWellFormed DEF Window
<1>2. CASE msgs = << >>
  <2>1. Len(msgs) = 0 /\ 0 <= max
    BY <1>2
  <2>2. Window(msgs, max) = SubSeq(msgs, 1, 0)
    BY <2>1 DEF Window, ContextStart
  <2>3. Len(Window(msgs, max)) = 0
    BY <1>2, <2>2
  <2> QED
    BY <2>3 DEF WellFormedBut
<1> QED
  BY <1>1, <1>2
=============================================================================
