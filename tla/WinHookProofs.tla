---------------------------- MODULE WinHookProofs ----------------------------
(***************************************************************************)
(* What a command passes arrives, for every command line: splitting a line *)
(* that cmdline_of has quoted gives the arguments it was made of, of any   *)
(* number and length, but for the empty ones; and the server is told of    *)
(* the right caller.                                                       *)
(*                                                                         *)
(* The lines are read character by character.  "Feeds" says what a line    *)
(* makes of a state of the splitting; what is proved of quote_win32_arg    *)
(* is what its output feeds.                                               *)
(***************************************************************************)
EXTENDS WinHook, SequenceLemmas, FiniteSetTheorems

-----------------------------------------------------------------------------
(* Reading a line.                                                         *)

\* What reading the first n characters of s makes of st, one after another.
Steps(at, st, s, n) ==
  at = [i \in 0..n |-> IF i = 0 THEN st ELSE After(at[i - 1], s[i])]

\* Reading s takes the splitting from st to end.
Feeds(st, s, end) == \E at : Steps(at, st, s, Len(s)) /\ at[Len(s)] = end

\* The same, a step at a time.
Follows(at, st, s, n) ==
  /\ at[0] = st
  /\ \A i \in 1..n : at[i] = After(at[i - 1], s[i])

LEMMA StepsAre ==
  ASSUME NEW n \in Nat, NEW at, NEW st, NEW s, Steps(at, st, s, n)
  PROVE  Follows(at, st, s, n)
<1>1. at[0] = st
  BY DEF Steps
<1>2. ASSUME NEW i \in 1..n PROVE at[i] = After(at[i - 1], s[i])
  <2>1. i \in 0..n /\ i # 0
    OBVIOUS
  <2>2. QED
    BY <2>1, Zenon DEF Steps
<1>3. QED
  BY <1>1, <1>2 DEF Follows

LEMMA StepsFrom ==
  ASSUME NEW n \in Nat, NEW at, NEW st, NEW s,
         at = [i \in 0..n |-> at[i]], at[0] = st,
         \A i \in 1..n : at[i] = After(at[i - 1], s[i])
  PROVE  Steps(at, st, s, n)
<1>1. ASSUME NEW i \in 0..n
      PROVE  at[i] = IF i = 0 THEN st ELSE After(at[i - 1], s[i])
  <2>1. CASE i = 0
    BY <2>1
  <2>2. CASE i # 0
    <3>1. i \in 1..n
      BY <2>2
    <3>2. QED
      BY <2>2, <3>1, Zenon
  <2>3. QED
    BY <2>1, <2>2
<1>2. [i \in 0..n |-> at[i]] = [i \in 0..n |-> IF i = 0 THEN st ELSE After(at[i - 1], s[i])]
  BY <1>1, Zenon
<1>3. QED
  BY <1>2, Zenon DEF Steps

\* Nothing to read.
LEMMA FeedsNothing ==
  ASSUME NEW st
  PROVE  Feeds(st, <<>>, st)
<1> DEFINE at == [i \in 0..0 |-> st]
<1>1. at[0] = st /\ at = [i \in 0..0 |-> at[i]] /\ Len(<<>>) = 0 /\ 0 \in Nat
  OBVIOUS
<1>2. \A i \in 1..0 : at[i] = After(at[i - 1], <<>>[i])
  OBVIOUS
<1> HIDE DEF at
<1>3. Steps(at, st, <<>>, 0)
  BY <1>1, <1>2, StepsFrom, Zenon
<1>4. QED
  BY <1>1, <1>3, Zenon DEF Feeds

\* One line behind another.
LEMMA FeedsBoth ==
  ASSUME NEW s \in Seq(Chars), NEW t \in Seq(Chars), NEW st, NEW mid, NEW end,
         Feeds(st, s, mid), Feeds(mid, t, end)
  PROVE  Feeds(st, s \o t, end)
<1> DEFINE p == Len(s)
           q == Len(t)
           r == p + q
<1>1. p \in Nat /\ q \in Nat /\ r \in Nat /\ Len(s \o t) = r
  BY ConcatProperties
<1>2. /\ \A i \in 1..p : (s \o t)[i] = s[i]
      /\ \A i \in (p + 1)..r : (s \o t)[i] = t[i - p]
  BY ConcatProperties
<1> DEFINE u == s \o t
<1> HIDE DEF p, q, u
<1>3. PICK f : Steps(f, st, s, p) /\ f[p] = mid
  BY DEF Feeds, p
<1>4. PICK g : Steps(g, mid, t, q) /\ g[q] = end
  BY DEF Feeds, q
<1>5. f[0] = st /\ \A i \in 1..p : f[i] = After(f[i - 1], s[i])
  <2>1. Follows(f, st, s, p)
    BY <1>1, <1>3, StepsAre, Zenon
  <2>2. QED
    BY <2>1 DEF Follows
<1>6. g[0] = mid /\ \A i \in 1..q : g[i] = After(g[i - 1], t[i])
  <2>1. Follows(g, mid, t, q)
    BY <1>1, <1>4, StepsAre, Zenon
  <2>2. QED
    BY <2>1 DEF Follows
<1> DEFINE h == [i \in 0..r |-> IF i <= p THEN f[i] ELSE g[i - p]]
<1>7. h[0] = st /\ h = [i \in 0..r |-> h[i]]
  BY <1>1, <1>5
<1>8. ASSUME NEW i \in 1..r PROVE h[i] = After(h[i - 1], u[i])
  <2>1. CASE i <= p
    <3>1. i \in 0..r /\ i - 1 \in 0..r /\ i - 1 <= p /\ i \in 1..p
      BY <1>1, <2>1
    <3>2. h[i] = f[i] /\ h[i - 1] = f[i - 1]
      BY <2>1, <3>1
    <3>3. f[i] = After(f[i - 1], s[i]) /\ u[i] = s[i]
      BY <1>2, <1>5, <3>1, Zenon DEF u
    <3>4. QED
      BY <3>2, <3>3, Zenon
  <2>2. CASE i = p + 1
    <3>1. /\ i \in 0..r /\ i - 1 \in 0..r /\ i - 1 <= p /\ ~(i <= p) /\ i - 1 = p
          /\ i - p = 1 /\ 1 \in 1..q /\ 1 - 1 = 0 /\ i \in (p + 1)..r
      BY <1>1, <2>2
    <3>2. h[i] = g[1] /\ h[i - 1] = f[p]
      BY <3>1
    <3>3. g[1] = After(g[0], t[1])
      BY <1>6, <3>1
    <3>4. u[i] = t[1]
      BY <1>2, <3>1 DEF u
    <3>5. QED
      BY <1>3, <1>6, <3>2, <3>3, <3>4
  <2>3. CASE i > p + 1
    <3>1. /\ i \in 0..r /\ i - 1 \in 0..r /\ ~(i - 1 <= p) /\ ~(i <= p)
          /\ i - p \in 1..q /\ (i - p) - 1 = (i - 1) - p /\ i \in (p + 1)..r
      BY <1>1, <2>3
    <3>2. h[i] = g[i - p] /\ h[i - 1] = g[(i - 1) - p]
      BY <3>1
    <3>3. g[i - p] = After(g[(i - p) - 1], t[i - p])
      BY <1>6, <3>1, Zenon
    <3>4. u[i] = t[i - p]
      BY <1>2, <3>1, Zenon DEF u
    <3>5. QED
      BY <3>1, <3>2, <3>3, <3>4
  <2>4. QED
    BY <1>1, <2>1, <2>2, <2>3
<1>9. h[r] = end
  <2>1. CASE q = 0
    <3>1. r = p /\ r \in 0..r /\ r <= p
      BY <1>1, <2>1
    <3>2. QED
      BY <1>3, <1>4, <1>6, <2>1, <3>1
  <2>2. CASE q # 0
    <3>1. ~(r <= p) /\ r - p = q /\ r \in 0..r
      BY <1>1, <2>2
    <3>2. QED
      BY <1>4, <3>1
  <2>3. QED
    BY <2>1, <2>2
<1> HIDE DEF h
<1>10. Steps(h, st, u, r)
  <2> HIDE DEF r
  <2>1. QED
    BY <1>1, <1>7, <1>8, StepsFrom, Zenon
<1>11. Len(u) = r
  BY <1>1 DEF u
<1>12. Feeds(st, u, end)
  BY <1>9, <1>10, <1>11, Zenon DEF Feeds
<1>13. QED
  BY <1>12 DEF u

\* One character.
LEMMA FeedsOne ==
  ASSUME NEW st, NEW c
  PROVE  Feeds(st, <<c>>, After(st, c))
<1> DEFINE at == [i \in 0..1 |-> IF i = 0 THEN st ELSE After(st, c)]
<1>1. at[0] = st /\ at[1] = After(st, c) /\ at = [i \in 0..1 |-> at[i]]
  OBVIOUS
<1>2. Len(<<c>>) = 1 /\ <<c>>[1] = c /\ 1 \in Nat
  OBVIOUS
<1> HIDE DEF at
<1>3. ASSUME NEW i \in 1..1 PROVE at[i] = After(at[i - 1], <<c>>[i])
  <2>1. i = 1 /\ i - 1 = 0
    OBVIOUS
  <2>2. QED
    BY <1>1, <1>2, <2>1
<1>4. Steps(at, st, <<c>>, 1)
  BY <1>1, <1>2, <1>3, StepsFrom, Zenon
<1>5. QED
  BY <1>1, <1>2, <1>4, Zenon DEF Feeds

\* One more character.
LEMMA FeedsMore ==
  ASSUME NEW s \in Seq(Chars), NEW c \in Chars, NEW st, NEW mid, Feeds(st, s, mid)
  PROVE  Feeds(st, Append(s, c), After(mid, c))
<1>1. <<c>> \in Seq(Chars) /\ Append(s, c) = s \o <<c>>
  BY AppendIsConcat
<1>2. Feeds(mid, <<c>>, After(mid, c))
  BY FeedsOne, Zenon
<1>3. Feeds(st, s \o <<c>>, After(mid, c))
  BY <1>1, <1>2, FeedsBoth, Zenon
<1>4. QED
  BY <1>1, <1>3, Zenon

\* Two readings of the same line are the same.
LEMMA StepsOnce ==
  ASSUME NEW n \in Nat, NEW st, NEW s, NEW f, NEW g,
         Steps(f, st, s, n), Steps(g, st, s, n)
  PROVE  f[n] = g[n]
<1> DEFINE T == {m \in Nat : m <= n => f[m] = g[m]}
<1>1. f[0] = st /\ \A i \in 1..n : f[i] = After(f[i - 1], s[i])
  <2>1. Follows(f, st, s, n)
    BY StepsAre, Zenon
  <2>2. QED
    BY <2>1 DEF Follows
<1>2. g[0] = st /\ \A i \in 1..n : g[i] = After(g[i - 1], s[i])
  <2>1. Follows(g, st, s, n)
    BY StepsAre, Zenon
  <2>2. QED
    BY <2>1 DEF Follows
<1>3. 0 \in T
  BY <1>1, <1>2
<1>4. ASSUME NEW m \in T PROVE m + 1 \in T
  <2>1. m \in Nat /\ m + 1 \in Nat
    OBVIOUS
  <2>2. CASE m + 1 <= n
    <3>1. m + 1 \in 1..n /\ (m + 1) - 1 = m /\ m <= n
      BY <2>1, <2>2
    <3>2. f[m] = g[m]
      BY <3>1
    <3>3. /\ f[m + 1] = After(f[(m + 1) - 1], s[m + 1])
          /\ g[m + 1] = After(g[(m + 1) - 1], s[m + 1])
      BY <1>1, <1>2, <3>1, Zenon
    <3>4. f[m + 1] = g[m + 1]
      BY <3>1, <3>2, <3>3
    <3>5. QED
      BY <2>1, <3>4
  <2>3. CASE ~(m + 1 <= n)
    BY <2>1, <2>3
  <2>4. QED
    BY <2>2, <2>3
<1>5. T = Nat
  <2>1. T \in SUBSET Nat
    OBVIOUS
  <2> HIDE DEF T
  <2>2. QED
    BY <1>3, <1>4, <2>1, Induct, Zenon
<1>6. QED
  BY <1>5

\* Split gives the arguments at the end of the line.
LEMMA SplitReads ==
  ASSUME NEW line \in Seq(Chars), NEW end, Feeds(Between(<<>>), line, end)
  PROVE  Split(line) = Ended(end)
<1> DEFINE n == Len(line)
           at == CHOOSE at : Steps(at, Between(<<>>), line, n)
<1>1. n \in Nat
  OBVIOUS
<1>2. PICK f : Steps(f, Between(<<>>), line, n) /\ f[n] = end
  BY DEF Feeds
<1>3. Steps(at, Between(<<>>), line, n)
  BY <1>2, Zenon
<1>4. Split(line) = Ended(at[n])
  BY Zenon DEF Split, Steps
<1> HIDE DEF at, n
<1>5. at[n] = f[n]
  BY <1>1, <1>2, <1>3, StepsOnce, Zenon
<1>6. QED
  BY <1>2, <1>4, <1>5
-----------------------------------------------------------------------------
(* What the characters make of a state.                                    *)

Words == Seq(Seq(Chars))

\* In an argument between quotes, of which word has been read and n
\* backslashes, and in one without quotes or before it.
Inside(args, word, n) == Reading(args, word, "quoted", n)
Bare(args, word, n, mode) == Reading(args, word, mode, n)

\* A row of backslashes.
LEMMA Row ==
  ASSUME NEW n \in Nat
  PROVE  /\ Slashes(n) \in Seq(Chars) /\ Len(Slashes(n)) = n
         /\ \A i \in 1..n : Slashes(n)[i] = Backslash
         /\ Slashes(0) = <<>>
         /\ Slashes(n + 1) = Append(Slashes(n), Backslash)
<1>1. Backslash \in Chars
  BY CharsAssumption
<1>2. /\ Slashes(n) \in Seq(Chars) /\ Len(Slashes(n)) = n
      /\ \A i \in 1..n : Slashes(n)[i] = Backslash
  BY <1>1 DEF Slashes
<1>3. Slashes(0) = <<>>
  BY DEF Slashes
<1>4. Slashes(n + 1) = Append(Slashes(n), Backslash)
  BY <1>1 DEF Slashes
<1>5. QED
  BY <1>2, <1>3, <1>4

\* A backslash in an argument.
LEMMA SlashRead ==
  ASSUME NEW a, NEW w, NEW n \in Nat, NEW m
  PROVE  After(Reading(a, w, m, n), Backslash) = Reading(a, w, Within(m), n + 1)
BY CharsAssumption DEF After, Reading

\* Many of them.
LEMMA SlashesRead ==
  ASSUME NEW n \in Nat, NEW a, NEW w
  PROVE  Feeds(Inside(a, w, 0), Slashes(n), Inside(a, w, n))
<1> DEFINE T == {k \in Nat : Feeds(Inside(a, w, 0), Slashes(k), Inside(a, w, k))}
<1>1. 0 \in T
  <2>1. Slashes(0) = <<>>
    BY Row
  <2>2. Feeds(Inside(a, w, 0), Slashes(0), Inside(a, w, 0))
    BY <2>1, FeedsNothing, Zenon
  <2>3. QED
    BY <2>2
<1>2. ASSUME NEW k \in T PROVE k + 1 \in T
  <2>1. k \in Nat /\ k + 1 \in Nat
    OBVIOUS
  <2>2. Feeds(Inside(a, w, 0), Slashes(k), Inside(a, w, k))
    OBVIOUS
  <2>3. Slashes(k) \in Seq(Chars) /\ Slashes(k + 1) = Append(Slashes(k), Backslash)
    BY <2>1, Row
  <2>4. Backslash \in Chars
    BY CharsAssumption
  <2>5. After(Inside(a, w, k), Backslash) = Inside(a, w, k + 1)
    BY SlashRead DEF Inside, Within
  <2>6. Feeds(Inside(a, w, 0), Append(Slashes(k), Backslash), After(Inside(a, w, k), Backslash))
    BY <2>2, <2>3, <2>4, FeedsMore, Zenon
  <2>7. Feeds(Inside(a, w, 0), Slashes(k + 1), Inside(a, w, k + 1))
    BY <2>3, <2>5, <2>6
  <2>8. QED
    BY <2>1, <2>7
<1>3. T = Nat
  <2>1. T \in SUBSET Nat
    OBVIOUS
  <2> HIDE DEF T
  <2>2. QED
    BY <1>1, <1>2, <2>1, Induct, Zenon
<1>4. QED
  BY <1>3

\* Another character in an argument; between quotes it may be a blank.
LEMMA OtherRead ==
  ASSUME NEW a, NEW w, NEW n, NEW m, NEW c, c # Backslash, c # Quote,
         c # Blank \/ m = "quoted"
  PROVE  After(Reading(a, w, m, n), c)
           = Reading(a, Append(w \o Slashes(n), c), Within(m), 0)
BY DEF After, Reading, OnOther

\* The quote that opens an argument.
LEMMA Opens ==
  ASSUME NEW a
  PROVE  After(Between(a), Quote) = Inside(a, <<>>, 0)
<1>1. Quote # Backslash /\ 0 \div 2 = 0 /\ 0 % 2 = 0
  BY CharsAssumption
<1>2. <<>> \o Slashes(0) = <<>>
  BY Row
<1>3. OnQuote(Between(a)) = Inside(a, <<>>, 0)
  BY <1>1, <1>2 DEF Between, Reading, Inside, OnQuote
<1>4. QED
  BY <1>1, <1>3 DEF After

\* A quote behind an odd number of backslashes.
LEMMA QuoteRead ==
  ASSUME NEW a, NEW w, NEW n \in Nat
  PROVE  After(Inside(a, w, 2 * n + 1), Quote)
           = Inside(a, Append(w \o Slashes(n), Quote), 0)
<1>1. Quote # Backslash /\ (2 * n + 1) \div 2 = n /\ (2 * n + 1) % 2 = 1
  BY CharsAssumption
<1>2. OnQuote(Inside(a, w, 2 * n + 1)) = Inside(a, Append(w \o Slashes(n), Quote), 0)
  <2> DEFINE k == 2 * n + 1
             st == Inside(a, w, k)
  <2>1. st.args = a /\ st.word = w /\ st.mode = "quoted" /\ st.slashes = k
    BY DEF Inside, Reading
  <2>2. k \div 2 = n /\ k % 2 = 1 /\ Within("quoted") = "quoted"
    BY <1>1 DEF Within
  <2> HIDE DEF k, st
  <2>3. OnQuote(st) = Reading(a, Append(w \o Slashes(n), Quote), "quoted", 0)
    BY <2>1, <2>2 DEF OnQuote
  <2>4. QED
    BY <2>3 DEF Inside, st, k
<1>3. QED
  BY <1>1, <1>2 DEF After

\* The quote that closes an argument, behind an even number of them.
LEMMA Closes ==
  ASSUME NEW a, NEW w, NEW n \in Nat
  PROVE  After(Inside(a, w, 2 * n), Quote) = Reading(a, w \o Slashes(n), "closed", 0)
<1>1. Quote # Backslash /\ (2 * n) \div 2 = n /\ (2 * n) % 2 = 0
  BY CharsAssumption
<1>2. OnQuote(Inside(a, w, 2 * n)) = Reading(a, w \o Slashes(n), "closed", 0)
  <2> DEFINE k == 2 * n
             st == Inside(a, w, k)
  <2>1. st.args = a /\ st.word = w /\ st.mode = "quoted" /\ st.slashes = k
    BY DEF Inside, Reading
  <2>2. k \div 2 = n /\ k % 2 = 0
    BY <1>1
  <2> HIDE DEF k, st
  <2>3. OnQuote(st) = Reading(a, w \o Slashes(n), "closed", 0)
    BY <2>1, <2>2 DEF OnQuote
  <2>4. QED
    BY <2>3 DEF st, k
<1>3. QED
  BY <1>1, <1>2 DEF After

\* A blank behind an argument, or behind none.
LEMMA BlankRead ==
  ASSUME NEW st, st.mode # "quoted"
  PROVE  After(st, Blank) = Between(Ended(st))
<1>1. Blank # Backslash /\ Blank # Quote
  BY CharsAssumption
<1>2. QED
  BY <1>1 DEF After, OnOther

-----------------------------------------------------------------------------
(* Counting backslashes.                                                   *)

\* The backslashes right before a place, by those before the place before it.
LEMMA Counts ==
  ASSUME NEW arg \in Seq(Chars), NEW i \in Nat
  PROVE  /\ Before(arg, 1) = 0
         /\ Before(arg, i + 1) \in Nat
         /\ i >= 1 /\ arg[i] = Backslash => Before(arg, i + 1) = Before(arg, i) + 1
         /\ i >= 1 /\ arg[i] # Backslash => Before(arg, i + 1) = 0
<1> DEFINE Slashed(m) == {j \in 1..(m - 1) : \A k \in j..(m - 1) : arg[k] = Backslash}
<1>1. Slashed(1) = {} /\ Before(arg, 1) = 0
  <2>1. Slashed(1) = {}
    OBVIOUS
  <2>2. Before(arg, 1) = Cardinality({})
    BY <2>1 DEF Before
  <2>3. QED
    BY <2>1, <2>2, FS_EmptySet
<1>2. ASSUME NEW m \in Nat PROVE IsFiniteSet(Slashed(m + 1)) /\ Before(arg, m + 1) \in Nat
  <2>1. Slashed(m + 1) \subseteq 1..m /\ IsFiniteSet(1..m)
    BY FS_Interval
  <2>2. IsFiniteSet(Slashed(m + 1))
    BY <2>1, FS_Subset, Zenon
  <2>3. Before(arg, m + 1) = Cardinality(Slashed(m + 1))
    BY DEF Before
  <2>4. QED
    BY <2>2, <2>3, FS_CardinalityType
<1>3. CASE i >= 1
  <2>1. i \in Nat /\ i - 1 \in Nat /\ (i - 1) + 1 = i /\ (i + 1) - 1 = i
    BY <1>3
  <2>2. IsFiniteSet(Slashed(i)) /\ Before(arg, i) \in Nat
    BY <1>2, <2>1
  <2>3. CASE arg[i] = Backslash
    <3>1. Slashed(i + 1) = Slashed(i) \cup {i} /\ i \notin Slashed(i)
      BY <1>3, <2>3
    <3>2. Before(arg, i + 1) = Cardinality(Slashed(i) \cup {i})
      BY <3>1 DEF Before
    <3>3. Before(arg, i) = Cardinality(Slashed(i))
      BY DEF Before
    <3>4. Cardinality(Slashed(i) \cup {i}) = Cardinality(Slashed(i)) + 1
      BY <2>2, <3>1, FS_AddElement
    <3>5. QED
      BY <1>1, <1>2, <2>3, <3>2, <3>3, <3>4
  <2>4. CASE arg[i] # Backslash
    <3>1. Slashed(i + 1) = {}
      BY <1>3, <2>4
    <3>2. Before(arg, i + 1) = Cardinality({})
      BY <3>1 DEF Before
    <3>3. QED
      BY <1>1, <1>2, <2>4, <3>2, FS_EmptySet
  <2>5. QED
    BY <2>3, <2>4
<1>4. CASE ~(i >= 1)
  BY <1>1, <1>2, <1>4
<1>5. QED
  BY <1>3, <1>4
-----------------------------------------------------------------------------
(* Arguments.                                                              *)

LEMMA EscapedType ==
  ASSUME NEW arg \in Seq(Chars), NEW i \in 1..Len(arg)
  PROVE  Escaped(arg, i) \in Seq(Chars)
<1>1. i \in Nat /\ i - 1 \in Nat /\ (i - 1) + 1 = i /\ arg[i] \in Chars
  OBVIOUS
<1>2. Before(arg, i) \in Nat
  BY <1>1, Counts
<1> DEFINE b == Before(arg, i)
           c == arg[i]
<1> HIDE DEF b
<1>3. 2 * b + 1 \in Nat /\ b \in Nat
  BY <1>2 DEF b
<1>4. Slashes(2 * b + 1) \in Seq(Chars) /\ Slashes(b) \in Seq(Chars)
  BY <1>3, Row, Zenon
<1>5. <<Quote>> \in Seq(Chars) /\ <<c>> \in Seq(Chars) /\ <<>> \in Seq(Chars)
  BY <1>1, CharsAssumption
<1>6. Slashes(2 * b + 1) \o <<Quote>> \in Seq(Chars) /\ Slashes(b) \o <<c>> \in Seq(Chars)
  BY <1>4, <1>5, ConcatProperties, Zenon
<1>7. \/ Escaped(arg, i) = <<>>
      \/ Escaped(arg, i) = Slashes(2 * b + 1) \o <<Quote>>
      \/ Escaped(arg, i) = Slashes(b) \o <<c>>
  BY DEF Escaped, b
<1>8. QED
  BY <1>5, <1>6, <1>7, Zenon

\* What quote_win32_arg writes for a character, behind an opening quote: the
\* state that has read the beginning of the argument goes on to one that has
\* read one character more, backslashes waiting.
LEMMA EscapedReads ==
  ASSUME NEW arg \in Seq(Chars), NEW i \in Nat, i + 1 <= Len(arg), NEW a,
         NEW w \in Seq(Chars),
         w \o Slashes(Before(arg, i + 1)) = SubSeq(arg, 1, i)
  PROVE  \E v \in Seq(Chars) :
           /\ Feeds(Inside(a, w, 0), Escaped(arg, i + 1), Inside(a, v, 0))
           /\ v \o Slashes(Before(arg, i + 2)) = SubSeq(arg, 1, i + 1)
<1> DEFINE b == Before(arg, i + 1)
           c == arg[i + 1]
           read == SubSeq(arg, 1, i)
<1>1. /\ i + 1 \in Nat /\ (i + 1) + 1 = i + 2 /\ i + 1 >= 1
      /\ c \in Chars /\ read \in Seq(Chars)
      /\ SubSeq(arg, 1, i + 1) = Append(read, c)
  <2>1. i + 1 \in Nat /\ (i + 1) + 1 = i + 2 /\ i + 1 >= 1
    OBVIOUS
  <2>2. QED
    BY <2>1, Longer, Zenon
<1>2. b \in Nat
  BY Counts
<1>3. /\ c = Backslash => Before(arg, i + 2) = b + 1
      /\ c # Backslash => Before(arg, i + 2) = 0
  <2>1. /\ (i + 1) >= 1 /\ arg[i + 1] = Backslash
             => Before(arg, (i + 1) + 1) = Before(arg, i + 1) + 1
        /\ (i + 1) >= 1 /\ arg[i + 1] # Backslash => Before(arg, (i + 1) + 1) = 0
    BY <1>1, Counts, Zenon
  <2>2. QED
    BY <1>1, <2>1
<1>4. Slashes(b) \in Seq(Chars) /\ Slashes(b + 1) = Append(Slashes(b), Backslash)
  BY <1>2, Row, Zenon
<1>5. Slashes(0) = <<>>
  BY Row
<1>6. Escaped(arg, i + 1) = CASE c = Backslash -> <<>>
                              [] c = Quote -> Slashes(2 * b + 1) \o <<Quote>>
                              [] OTHER -> Slashes(b) \o <<c>>
  BY Zenon DEF Escaped
<1>7. w \o Slashes(b) = read
  OBVIOUS
<1> HIDE DEF b, c, read
<1>8. CASE c = Backslash
  <2>1. Escaped(arg, i + 1) = <<>>
    BY <1>6, <1>8, CharsAssumption
  <2>2. Feeds(Inside(a, w, 0), <<>>, Inside(a, w, 0))
    BY FeedsNothing, Zenon
  <2>3. w \o Append(Slashes(b), Backslash) = Append(w \o Slashes(b), Backslash)
    <3>1. Backslash \in Chars
      BY CharsAssumption
    <3>2. QED
      BY <1>4, <3>1, AppendBehind
  <2>4. w \o Slashes(b + 1) = Append(read, c)
    BY <1>4, <1>7, <1>8, <2>3, Zenon
  <2>5. Before(arg, i + 2) = b + 1
    BY <1>3, <1>8
  <2>6. QED
    BY <1>1, <2>1, <2>2, <2>4, <2>5, Zenon
<1>9. CASE c # Backslash
  <2> DEFINE v == Append(read, c)
  <2>1. v \in Seq(Chars)
    BY <1>1
  <2>2. v \o Slashes(Before(arg, i + 2)) = SubSeq(arg, 1, i + 1)
    <3>1. Before(arg, i + 2) = 0
      BY <1>3, <1>9
    <3>2. v \o <<>> = v
      BY <2>1, ConcatEmptySeq, Zenon
    <3>3. QED
      BY <1>1, <1>5, <3>1, <3>2, Zenon
  <2>3. Feeds(Inside(a, w, 0), Escaped(arg, i + 1), Inside(a, v, 0))
    <3>1. CASE c = Quote
      <4> DEFINE k == 2 * b + 1
      <4>1. k \in Nat
        BY <1>2
      <4>2. Escaped(arg, i + 1) = Slashes(k) \o <<Quote>>
        BY <1>6, <1>9, <3>1
      <4>3. Feeds(Inside(a, w, 0), Slashes(k), Inside(a, w, k))
        BY <4>1, SlashesRead, Zenon
      <4>4. After(Inside(a, w, k), Quote) = Inside(a, Append(w \o Slashes(b), Quote), 0)
        BY <1>2, QuoteRead, Zenon
      <4>5. Feeds(Inside(a, w, k), <<Quote>>, Inside(a, v, 0))
        BY <1>7, <3>1, <4>4, FeedsOne, Zenon
      <4> HIDE DEF k, v
      <4>6. Slashes(k) \in Seq(Chars)
        BY <4>1, Row, Zenon
      <4>7. <<Quote>> \in Seq(Chars)
        BY CharsAssumption
      <4>8. Feeds(Inside(a, w, 0), Slashes(k) \o <<Quote>>, Inside(a, v, 0))
        BY <4>3, <4>5, <4>6, <4>7, FeedsBoth, Zenon
      <4>9. QED
        BY <4>2, <4>8, Zenon
    <3>2. CASE c # Quote
      <4>1. Escaped(arg, i + 1) = Slashes(b) \o <<c>>
        BY <1>6, <1>9, <3>2
      <4>2. Feeds(Inside(a, w, 0), Slashes(b), Inside(a, w, b))
        BY <1>2, SlashesRead, Zenon
      <4>3. After(Inside(a, w, b), c) = Inside(a, Append(w \o Slashes(b), c), 0)
        BY <1>9, <3>2, OtherRead DEF Inside, Within
      <4>4. Feeds(Inside(a, w, b), <<c>>, Inside(a, v, 0))
        BY <1>7, <4>3, FeedsOne, Zenon
      <4> HIDE DEF v
      <4>5. <<c>> \in Seq(Chars)
        BY <1>1
      <4>6. Feeds(Inside(a, w, 0), Slashes(b) \o <<c>>, Inside(a, v, 0))
        BY <1>4, <4>2, <4>4, <4>5, FeedsBoth, Zenon
      <4>7. QED
        BY <4>1, <4>6, Zenon
    <3>3. QED
      BY <3>1, <3>2
  <2> HIDE DEF v
  <2>4. QED
    BY <2>1, <2>2, <2>3, Zenon
<1>10. QED
  BY <1>8, <1>9

\* What it writes for all of them.
LEMMA EscapesRead ==
  ASSUME NEW arg \in Seq(Chars), NEW a
  PROVE  LET s == FlattenSeq([i \in 1..Len(arg) |-> Escaped(arg, i)])
             b == Before(arg, Len(arg) + 1)
         IN  /\ s \in Seq(Chars) /\ b \in Nat
             /\ \E w \in Seq(Chars) :
                  Feeds(Inside(a, <<>>, 0), s, Inside(a, w, 0)) /\ w \o Slashes(b) = arg
<1> DEFINE S == [i \in 1..Len(arg) |-> Escaped(arg, i)]
           F(i) == FlattenSeq(SubSeq(S, 1, i))
           P(i) == \E w \in Seq(Chars) :
                     /\ Feeds(Inside(a, <<>>, 0), F(i), Inside(a, w, 0))
                     /\ w \o Slashes(Before(arg, i + 1)) = SubSeq(arg, 1, i)
           T == {i \in Nat : i <= Len(arg) => P(i)}
<1>1. S \in Seq(Seq(Chars)) /\ Len(S) = Len(arg)
  BY EscapedType
<1>2. \A i \in 1..Len(arg) : S[i] = Escaped(arg, i)
  OBVIOUS
<1> HIDE DEF S
<1>3. 0 \in T
  <2>1. SubSeq(S, 1, 0) = <<>> /\ SubSeq(arg, 1, 0) = <<>>
    BY <1>1, SubSeqAll, Zenon
  <2>2. F(0) = <<>>
    BY <2>1, FlattenEmpty
  <2>3. Before(arg, 1) = 0 /\ 0 + 1 = 1
    BY Counts
  <2>4. Slashes(0) = <<>>
    BY Row
  <2>5. Feeds(Inside(a, <<>>, 0), <<>>, Inside(a, <<>>, 0))
    BY FeedsNothing, Zenon
  <2>6. <<>> \o <<>> = <<>> /\ <<>> \in Seq(Chars)
    OBVIOUS
  <2> HIDE DEF F
  <2>7. P(0)
    <3>1. Feeds(Inside(a, <<>>, 0), F(0), Inside(a, <<>>, 0))
      BY <2>2, <2>5, Zenon
    <3>2. <<>> \o Slashes(Before(arg, 0 + 1)) = SubSeq(arg, 1, 0)
      BY <2>1, <2>3, <2>4, <2>6, Zenon
    <3>3. QED
      BY <2>6, <3>1, <3>2, Zenon
  <2> HIDE DEF P
  <2>8. QED
    BY <2>7
<1>4. ASSUME NEW i \in T PROVE i + 1 \in T
  <2>1. i \in Nat /\ i + 1 \in Nat
    OBVIOUS
  <2>2. CASE i + 1 <= Len(arg)
    <3>1. i <= Len(arg) /\ i + 1 <= Len(S) /\ i + 1 \in 1..Len(arg) /\ (i + 1) + 1 = i + 2
      BY <1>1, <2>1, <2>2
    <3>2. P(i)
      <4> HIDE DEF P
      <4>1. QED
        BY <3>1
    <3>3. PICK w \in Seq(Chars) :
            /\ Feeds(Inside(a, <<>>, 0), F(i), Inside(a, w, 0))
            /\ w \o Slashes(Before(arg, i + 1)) = SubSeq(arg, 1, i)
      BY <3>2
    <3>4. PICK v \in Seq(Chars) :
            /\ Feeds(Inside(a, w, 0), Escaped(arg, i + 1), Inside(a, v, 0))
            /\ v \o Slashes(Before(arg, i + 2)) = SubSeq(arg, 1, i + 1)
      BY <2>1, <2>2, <3>3, EscapedReads, Zenon
    <3>5. F(i) \in Seq(Chars) /\ F(i + 1) = F(i) \o S[i + 1]
      BY <1>1, <2>1, <3>1, FlattenLonger, Zenon
    <3>6. S[i + 1] = Escaped(arg, i + 1) /\ Escaped(arg, i + 1) \in Seq(Chars)
      BY <1>2, <3>1, EscapedType, Zenon
    <3> HIDE DEF F
    <3>7. Feeds(Inside(a, <<>>, 0), F(i) \o Escaped(arg, i + 1), Inside(a, v, 0))
      BY <3>3, <3>4, <3>5, <3>6, FeedsBoth, Zenon
    <3>8. P(i + 1)
      BY <3>1, <3>4, <3>5, <3>6, <3>7
    <3> HIDE DEF P
    <3>9. QED
      BY <2>1, <3>8
  <2>3. CASE ~(i + 1 <= Len(arg))
    <3> HIDE DEF P
    <3>1. QED
      BY <2>1, <2>3
  <2>4. QED
    BY <2>2, <2>3
<1> HIDE DEF P
<1>5. T = Nat
  <2>1. T \in SUBSET Nat
    OBVIOUS
  <2> HIDE DEF T
  <2>2. QED
    BY <1>3, <1>4, <2>1, Induct, Zenon
<1>6. Len(arg) \in Nat
  OBVIOUS
<1>7. P(Len(arg))
  BY <1>5, <1>6
<1>8. SubSeq(S, 1, Len(arg)) = S /\ SubSeq(arg, 1, Len(arg)) = arg
  BY <1>1, SubSeqAll, Zenon
<1>9. FlattenSeq(S) \in Seq(Chars)
  BY <1>1, <1>6, FlattenType, Zenon
<1>10. Before(arg, Len(arg) + 1) \in Nat
  BY <1>6, Counts
<1>11. \E w \in Seq(Chars) :
         /\ Feeds(Inside(a, <<>>, 0), FlattenSeq(S), Inside(a, w, 0))
         /\ w \o Slashes(Before(arg, Len(arg) + 1)) = arg
  BY <1>7, <1>8 DEF P
<1>12. QED
  BY <1>9, <1>10, <1>11, Zenon DEF S

\* What the splitting has at the end of an argument, or behind it.
Done(end, args) == end.mode # "quoted" /\ Ended(end) = args

\* The arguments with one more, if it is not empty.
With(args, arg) == IF arg = <<>> THEN args ELSE Append(args, arg)

\* An argument that quote_win32_arg puts between quotes.
LEMMA QuotedReads ==
  ASSUME NEW arg \in Seq(Chars), NeedsQuotes(arg), NEW a
  PROVE  /\ Quoted(arg) \in Seq(Chars)
         /\ \E end : Feeds(Between(a), Quoted(arg), end) /\ Done(end, With(a, arg))
<1> DEFINE s == FlattenSeq([i \in 1..Len(arg) |-> Escaped(arg, i)])
           b == Before(arg, Len(arg) + 1)
           q == <<Quote>>
           k == 2 * b
           end == Reading(a, arg, "closed", 0)
<1>1. /\ s \in Seq(Chars) /\ b \in Nat
      /\ \E w \in Seq(Chars) :
           Feeds(Inside(a, <<>>, 0), s, Inside(a, w, 0)) /\ w \o Slashes(b) = arg
  BY EscapesRead, Zenon
<1>2. Quoted(arg) = ((q \o s) \o Slashes(k)) \o q
  BY Zenon DEF Quoted
<1> HIDE DEF s, b
<1>3. PICK w \in Seq(Chars) :
        Feeds(Inside(a, <<>>, 0), s, Inside(a, w, 0)) /\ w \o Slashes(b) = arg
  BY <1>1
<1>4. k \in Nat
  BY <1>1
<1>5. q \in Seq(Chars)
  BY CharsAssumption
<1>6. Feeds(Between(a), q, Inside(a, <<>>, 0))
  BY FeedsOne, Opens, Zenon
<1>7. Feeds(Inside(a, w, 0), Slashes(k), Inside(a, w, k)) /\ Slashes(k) \in Seq(Chars)
  BY <1>4, SlashesRead, Row, Zenon
<1>8. Feeds(Inside(a, w, k), q, end)
  <2>1. After(Inside(a, w, k), Quote) = end
    BY <1>1, <1>3, Closes, Zenon
  <2>2. QED
    BY <2>1, FeedsOne, Zenon
<1> HIDE DEF q, k, end
<1>9. q \o s \in Seq(Chars) /\ (q \o s) \o Slashes(k) \in Seq(Chars)
      /\ ((q \o s) \o Slashes(k)) \o q \in Seq(Chars)
  BY <1>1, <1>5, <1>7, ConcatProperties, Zenon
<1>10. Feeds(Between(a), q \o s, Inside(a, w, 0))
  BY <1>1, <1>3, <1>5, <1>6, FeedsBoth, Zenon
<1>11. Feeds(Between(a), (q \o s) \o Slashes(k), Inside(a, w, k))
  BY <1>7, <1>9, <1>10, FeedsBoth, Zenon
<1>12. Feeds(Between(a), Quoted(arg), end)
  BY <1>2, <1>5, <1>8, <1>9, <1>11, FeedsBoth, Zenon
<1>13. Done(end, With(a, arg))
  <2>1. arg # <<>>
    BY DEF NeedsQuotes
  <2>2. arg \o Slashes(0) = arg
    BY Row, ConcatEmptySeq
  <2>3. Ended(end) = Append(a, arg)
    BY <2>2 DEF Ended, end, Reading
  <2>4. end.mode # "quoted"
    BY DEF end, Reading
  <2>5. QED
    BY <2>1, <2>3, <2>4 DEF Done, With
<1>14. QED
  BY <1>2, <1>9, <1>12, <1>13, Zenon

\* One that it leaves alone.
LEMMA PlainReads ==
  ASSUME NEW arg \in Seq(Chars), ~NeedsQuotes(arg), NEW a
  PROVE  /\ Quoted(arg) \in Seq(Chars)
         /\ \E end : Feeds(Between(a), Quoted(arg), end) /\ Done(end, With(a, arg))
<1> DEFINE M(i) == IF i = 0 THEN "out" ELSE "bare"
           Q(i, w, n) == /\ Feeds(Between(a), SubSeq(arg, 1, i), Reading(a, w, M(i), n))
                         /\ w \o Slashes(n) = SubSeq(arg, 1, i)
           P(i) == \E w \in Seq(Chars), n \in Nat : Q(i, w, n)
           T == {i \in Nat : i <= Len(arg) => P(i)}
<1>1. Quoted(arg) = arg
  BY DEF Quoted
<1>2. 0 \in T
  <2>1. SubSeq(arg, 1, 0) = <<>>
    BY SubSeqAll, Zenon
  <2>2. Feeds(Between(a), <<>>, Between(a))
    BY FeedsNothing, Zenon
  <2>3. Between(a) = Reading(a, <<>>, M(0), 0)
    BY DEF Between
  <2>4. <<>> \o Slashes(0) = <<>> /\ <<>> \in Seq(Chars) /\ 0 \in Nat
    BY Row
  <2> HIDE DEF M
  <2>5. Q(0, <<>>, 0)
    BY <2>1, <2>2, <2>3, <2>4, Zenon
  <2> HIDE DEF Q
  <2>6. P(0)
    BY <2>4, <2>5, Zenon
  <2> HIDE DEF P
  <2>7. QED
    BY <2>6
<1>3. ASSUME NEW i \in T PROVE i + 1 \in T
  <2>1. i \in Nat /\ i + 1 \in Nat
    OBVIOUS
  <2>2. CASE i + 1 <= Len(arg)
    <3> DEFINE c == arg[i + 1]
               read == SubSeq(arg, 1, i)
    <3>1. i <= Len(arg) /\ i + 1 \in 1..Len(arg) /\ i + 1 # 0
      BY <2>1, <2>2
    <3>2. P(i)
      <4> HIDE DEF P
      <4>1. QED
        BY <3>1
    <3>3. PICK w \in Seq(Chars), n \in Nat : Q(i, w, n)
      BY <3>2, Zenon
    <3>4. c \in Chars /\ read \in Seq(Chars) /\ SubSeq(arg, 1, i + 1) = Append(read, c)
      BY <2>1, <2>2, Longer, Zenon
    <3>5. c # Blank /\ c # Quote
      BY <3>1 DEF NeedsQuotes
    <3>6. M(i + 1) = "bare" /\ Within(M(i)) = "bare"
      BY <3>1 DEF Within
    <3>7. Feeds(Between(a), read, Reading(a, w, M(i), n)) /\ w \o Slashes(n) = read
      BY <3>3, Zenon
    <3> HIDE DEF M, c, read
    <3>8. CASE c = Backslash
      <4>1. n + 1 \in Nat
        OBVIOUS
      <4>2. /\ Slashes(n) \in Seq(Chars)
            /\ Slashes(n + 1) = Append(Slashes(n), Backslash)
        BY Row, Zenon
      <4>3. Backslash \in Chars
        BY CharsAssumption
      <4>4. w \o Append(Slashes(n), Backslash) = Append(w \o Slashes(n), Backslash)
        BY <4>2, <4>3, AppendBehind
      <4>5. w \o Slashes(n + 1) = Append(read, c)
        BY <3>7, <3>8, <4>2, <4>4, Zenon
      <4>6. After(Reading(a, w, M(i), n), Backslash) = Reading(a, w, Within(M(i)), n + 1)
        BY SlashRead, Zenon
      <4>7. Feeds(Between(a), Append(read, c), Reading(a, w, M(i + 1), n + 1))
        BY <3>4, <3>6, <3>7, <3>8, <4>6, FeedsMore, Zenon
      <4>8. Q(i + 1, w, n + 1)
        BY <3>4, <4>5, <4>7, Zenon
      <4> HIDE DEF Q
      <4>9. P(i + 1)
        BY <4>1, <4>8, Zenon
      <4> HIDE DEF P
      <4>10. QED
        BY <2>1, <4>9
    <3>9. CASE c # Backslash
      <4> DEFINE v == Append(read, c)
      <4>1. v \in Seq(Chars) /\ 0 \in Nat
        BY <3>4
      <4>2. v \o Slashes(0) = v
        <5>1. Slashes(0) = <<>>
          BY Row
        <5>2. v \o <<>> = v
          BY <4>1, ConcatEmptySeq, Zenon
        <5>3. QED
          BY <5>1, <5>2, Zenon
      <4>3. After(Reading(a, w, M(i), n), c)
              = Reading(a, Append(w \o Slashes(n), c), Within(M(i)), 0)
        BY <3>5, <3>9, OtherRead
      <4>4. Feeds(Between(a), v, Reading(a, v, M(i + 1), 0))
        BY <3>4, <3>6, <3>7, <4>3, FeedsMore, Zenon
      <4> HIDE DEF v
      <4>5. Q(i + 1, v, 0)
        BY <3>4, <4>2, <4>4, Zenon DEF v
      <4> HIDE DEF Q
      <4>6. P(i + 1)
        BY <4>1, <4>5, Zenon
      <4> HIDE DEF P
      <4>7. QED
        BY <2>1, <4>6
    <3>10. QED
      BY <3>8, <3>9
  <2>3. CASE ~(i + 1 <= Len(arg))
    <3> HIDE DEF P
    <3>1. QED
      BY <2>1, <2>3
  <2>4. QED
    BY <2>2, <2>3
<1> HIDE DEF P
<1>4. T = Nat
  <2>1. T \in SUBSET Nat
    OBVIOUS
  <2> HIDE DEF T
  <2>2. QED
    BY <1>2, <1>3, <2>1, Induct, Zenon
<1>5. Len(arg) \in Nat /\ SubSeq(arg, 1, Len(arg)) = arg
  BY SubSeqAll
<1>6. P(Len(arg))
  BY <1>4, <1>5
<1>7. PICK w \in Seq(Chars), n \in Nat : Q(Len(arg), w, n)
  BY <1>6, Zenon DEF P
<1> DEFINE end == Reading(a, w, M(Len(arg)), n)
<1>8. Feeds(Between(a), arg, end) /\ w \o Slashes(n) = arg
  BY <1>5, <1>7, Zenon
<1>9. Done(end, With(a, arg))
  <2>1. CASE arg = <<>>
    <3>1. end.mode = "out" /\ end.args = a
      BY <2>1 DEF Reading
    <3>2. QED
      BY <2>1, <3>1 DEF Done, With, Ended
  <2>2. CASE arg # <<>>
    <3>1. Len(arg) # 0
      BY <2>2
    <3>2. end.mode = "bare" /\ end.args = a /\ end.word = w /\ end.slashes = n
      BY <3>1 DEF Reading
    <3>3. Ended(end) = Append(a, arg)
      <4> HIDE DEF end
      <4>1. QED
        BY <1>8, <3>2 DEF Ended
    <3> HIDE DEF end
    <3>4. QED
      BY <2>2, <3>2, <3>3 DEF Done, With
  <2>3. QED
    BY <2>1, <2>2
<1> HIDE DEF end
<1>10. QED
  BY <1>1, <1>8, <1>9, Zenon

\* Either way.
LEMMA ArgumentReads ==
  ASSUME NEW arg \in Seq(Chars), NEW a
  PROVE  /\ Quoted(arg) \in Seq(Chars)
         /\ \E end : Feeds(Between(a), Quoted(arg), end) /\ Done(end, With(a, arg))
<1>1. CASE NeedsQuotes(arg)
  BY <1>1, QuotedReads, Zenon
<1>2. CASE ~NeedsQuotes(arg)
  BY <1>2, PlainReads, Zenon
<1>3. QED
  BY <1>1, <1>2

-----------------------------------------------------------------------------
(* Command lines.                                                          *)

\* An argument in a list of those to keep.
One(arg) == IF arg = <<>> THEN <<>> ELSE <<arg>>

LEMMA WithIs ==
  ASSUME NEW a \in Words, NEW arg \in Seq(Chars)
  PROVE  One(arg) \in Words /\ With(a, arg) = a \o One(arg)
<1>1. CASE arg = <<>>
  BY <1>1, ConcatEmptySeq DEF One, With, Words
<1>2. CASE arg # <<>>
  BY <1>2, AppendIsConcat DEF One, With, Words
<1>3. QED
  BY <1>1, <1>2

\* One more argument on a command line.
LEMMA NextArgument ==
  ASSUME NEW st, NEW s \in Seq(Chars), NEW end, NEW a \in Words, NEW arg \in Seq(Chars),
         Feeds(st, s, end), Done(end, a)
  PROVE  /\ <<Blank>> \o Quoted(arg) \in Seq(Chars)
         /\ \E last : /\ Feeds(st, s \o (<<Blank>> \o Quoted(arg)), last)
                      /\ Done(last, a \o One(arg))
<1> DEFINE b == <<Blank>>
           q == Quoted(arg)
<1>1. b \in Seq(Chars)
  BY CharsAssumption
<1>2. After(end, Blank) = Between(a)
  BY BlankRead DEF Done
<1>3. Feeds(end, b, Between(a))
  BY <1>2, FeedsOne, Zenon
<1>4. q \in Seq(Chars) /\ \E last : Feeds(Between(a), q, last) /\ Done(last, With(a, arg))
  BY ArgumentReads, Zenon
<1>5. PICK last : Feeds(Between(a), q, last) /\ Done(last, With(a, arg))
  BY <1>4
<1> HIDE DEF b, q
<1>6. b \o q \in Seq(Chars)
  BY <1>1, <1>4, ConcatProperties, Zenon
<1>7. Feeds(end, b \o q, last)
  BY <1>1, <1>3, <1>4, <1>5, FeedsBoth, Zenon
<1>8. Feeds(st, s \o (b \o q), last)
  BY <1>6, <1>7, FeedsBoth, Zenon
<1>9. Done(last, a \o One(arg))
  BY <1>5, WithIs
<1>10. QED
  BY <1>6, <1>8, <1>9, Zenon DEF b, q

\* cmdline_of and the splitting are each other's reverse, but for arguments
\* that are empty.
LEMMA RoundTrip ==
  ASSUME NEW args \in Words, args # <<>>
  PROVE  CmdlineOf(args) \in Seq(Chars) /\ Split(CmdlineOf(args)) = Kept(args)
<1> DEFINE n == Len(args)
           m == n - 1
           L == [i \in 1..m |-> <<Blank>> \o Quoted(args[i + 1])]
           K == [i \in 1..n |-> One(args[i])]
           q == Quoted(args[1])
           F(i) == FlattenSeq(SubSeq(L, 1, i))
           G(i) == FlattenSeq(SubSeq(K, 1, i))
           P(i) == /\ q \o F(i) \in Seq(Chars)
                   /\ \E end : /\ Feeds(Between(<<>>), q \o F(i), end)
                               /\ Done(end, G(i + 1))
           T == {i \in Nat : i <= m => P(i)}
<1>1. n \in Nat \ {0} /\ m \in Nat /\ \A i \in 1..n : args[i] \in Seq(Chars)
  BY DEF Words
<1>2. K \in Seq(Words) /\ Len(K) = n /\ \A i \in 1..n : K[i] = One(args[i])
  <2>1. \A i \in 1..n : One(args[i]) \in Words
    BY <1>1 DEF One, Words
  <2>2. QED
    BY <1>1, <2>1
<1>3. L \in Seq(Seq(Chars)) /\ Len(L) = m
      /\ \A i \in 1..m : L[i] = <<Blank>> \o Quoted(args[i + 1])
  <2>1. ASSUME NEW i \in 1..m PROVE <<Blank>> \o Quoted(args[i + 1]) \in Seq(Chars)
    <3>1. i + 1 \in 1..n
      BY <1>1
    <3>2. args[i + 1] \in Seq(Chars)
      BY <1>1, <3>1
    <3>3. Quoted(args[i + 1]) \in Seq(Chars)
      BY <3>2, ArgumentReads, Zenon
    <3>4. <<Blank>> \in Seq(Chars)
      BY CharsAssumption
    <3>5. QED
      BY <3>3, <3>4, ConcatProperties, Zenon
  <2>2. QED
    BY <1>1, <2>1
<1> HIDE DEF n, m, K, L
<1>4. ASSUME NEW i \in Nat, i + 1 <= n
      PROVE  G(i) \in Words /\ G(i + 1) = G(i) \o K[i + 1]
  <2> DEFINE E == Seq(Chars)
  <2>1. K \in Seq(Seq(E)) /\ i + 1 <= Len(K)
    BY <1>2, <1>4 DEF Words
  <2> HIDE DEF E
  <2>2. FlattenSeq(SubSeq(K, 1, i)) \in Seq(E)
        /\ FlattenSeq(SubSeq(K, 1, i + 1)) = FlattenSeq(SubSeq(K, 1, i)) \o K[i + 1]
    BY <2>1, FlattenLonger, Zenon
  <2>3. QED
    BY <2>2 DEF E, Words
<1>5. ASSUME NEW i \in Nat, i + 1 <= m
      PROVE  F(i) \in Seq(Chars) /\ F(i + 1) = F(i) \o L[i + 1]
  BY <1>3, <1>5, FlattenLonger, Zenon
<1>6. q \in Seq(Chars)
      /\ \E end : Feeds(Between(<<>>), q, end) /\ Done(end, With(<<>>, args[1]))
  <2>1. args[1] \in Seq(Chars)
    BY <1>1
  <2>2. QED
    BY <2>1, ArgumentReads, Zenon
<1> HIDE DEF q
<1>7. 0 \in T
  <2>1. F(0) = <<>> /\ G(0) = <<>>
    <3>1. SubSeq(L, 1, 0) = <<>> /\ SubSeq(K, 1, 0) = <<>>
      BY <1>2, <1>3, SubSeqAll, Zenon
    <3>2. QED
      BY <3>1, FlattenEmpty
  <2>2. q \o F(0) = q
    BY <1>6, <2>1, ConcatEmptySeq
  <2>3. G(0 + 1) = With(<<>>, args[1])
    <3>1. 0 + 1 <= n /\ 1 \in 1..n /\ 0 + 1 = 1
      BY <1>1
    <3>2. G(0 + 1) = G(0) \o K[0 + 1]
      BY <1>4, <3>1
    <3>3. K[1] = One(args[1]) /\ args[1] \in Seq(Chars) /\ <<>> \in Words
      BY <1>1, <1>2, <3>1 DEF Words
    <3>4. With(<<>>, args[1]) = <<>> \o One(args[1])
      BY <3>3, WithIs, Zenon
    <3> HIDE DEF G
    <3>5. QED
      BY <2>1, <3>1, <3>2, <3>3, <3>4
  <2> HIDE DEF F, G
  <2>4. P(0)
    BY <1>6, <2>2, <2>3, Zenon
  <2> HIDE DEF P
  <2>5. QED
    BY <2>4
<1>8. ASSUME NEW i \in T PROVE i + 1 \in T
  <2>1. i \in Nat /\ i + 1 \in Nat
    OBVIOUS
  <2>2. CASE i + 1 <= m
    <3> DEFINE arg == args[(i + 1) + 1]
    <3>1. /\ i <= m /\ i + 1 \in 1..m /\ (i + 1) + 1 \in 1..n
          /\ i + 1 <= n /\ (i + 1) + 1 <= n
      BY <1>1, <2>1, <2>2 DEF m
    <3>2. P(i)
      <4> HIDE DEF P
      <4>1. QED
        BY <3>1
    <3>3. PICK end : Feeds(Between(<<>>), q \o F(i), end) /\ Done(end, G(i + 1))
      BY <3>2
    <3>4. arg \in Seq(Chars)
      BY <1>1, <3>1
    <3>5. G(i + 1) \in Words /\ G((i + 1) + 1) = G(i + 1) \o One(arg)
      <4>1. G(i + 1) \in Words /\ G((i + 1) + 1) = G(i + 1) \o K[(i + 1) + 1]
        <5> HIDE DEF G
        <5>1. QED
          BY <1>4, <2>1, <3>1
      <4>2. K[(i + 1) + 1] = One(arg)
        BY <1>2, <3>1
      <4> HIDE DEF G
      <4>3. QED
        BY <4>1, <4>2
    <3>6. F(i) \in Seq(Chars) /\ F(i + 1) = F(i) \o (<<Blank>> \o Quoted(arg))
      <4>1. F(i) \in Seq(Chars) /\ F(i + 1) = F(i) \o L[i + 1]
        <5> HIDE DEF F
        <5>1. QED
          BY <1>5, <2>1, <2>2
      <4>2. L[i + 1] = <<Blank>> \o Quoted(arg)
        BY <1>3, <3>1
      <4> HIDE DEF F
      <4>3. QED
        BY <4>1, <4>2
    <3> HIDE DEF F, G, arg
    <3>7. q \o F(i) \in Seq(Chars)
      BY <3>2, Zenon
    <3> DEFINE t == <<Blank>> \o Quoted(arg)
    <3>8. /\ t \in Seq(Chars)
          /\ \E last : /\ Feeds(Between(<<>>), (q \o F(i)) \o t, last)
                       /\ Done(last, G(i + 1) \o One(arg))
      BY <3>3, <3>4, <3>5, <3>7, NextArgument, Zenon
    <3> HIDE DEF t
    <3>9. (q \o F(i)) \o t = q \o (F(i) \o t) /\ (q \o F(i)) \o t \in Seq(Chars)
      <4>1. (q \o F(i)) \o t \in Seq(Chars)
        BY <3>7, <3>8, ConcatProperties, Zenon
      <4>2. (q \o F(i)) \o t = q \o (F(i) \o t)
        <5>1. q \in Seq(Chars) /\ F(i) \in Seq(Chars) /\ t \in Seq(Chars)
          BY <1>6, <3>6, <3>8, Zenon
        <5>2. QED
          BY <5>1, ConcatAssociative
      <4>3. QED
        BY <4>1, <4>2
    <3>10. F(i + 1) = F(i) \o t
      BY <3>6 DEF t
    <3>11. P(i + 1)
      BY <3>5, <3>8, <3>9, <3>10, Zenon
    <3> HIDE DEF P
    <3>12. QED
      BY <2>1, <3>11
  <2>3. CASE ~(i + 1 <= m)
    <3> HIDE DEF P
    <3>1. QED
      BY <2>1, <2>3
  <2>4. QED
    BY <2>2, <2>3
<1> HIDE DEF P
<1>9. T = Nat
  <2>1. T \in SUBSET Nat
    OBVIOUS
  <2> HIDE DEF T
  <2>2. QED
    BY <1>7, <1>8, <2>1, Induct, Zenon
<1>10. P(m)
  BY <1>1, <1>9
<1>11. F(m) = FlattenSeq(L) /\ G(m + 1) = FlattenSeq(K)
  <2>1. SubSeq(L, 1, m) = L /\ SubSeq(K, 1, n) = K
    BY <1>2, <1>3, SubSeqAll, Zenon
  <2>2. m + 1 = n
    BY <1>1 DEF m
  <2>3. QED
    BY <2>1, <2>2
<1>12. CmdlineOf(args) = q \o FlattenSeq(L)
  <2>1. Head(args) = args[1]
    BY DEF Words
  <2>2. QED
    BY <2>1, Zenon DEF CmdlineOf, q, L, m, n
<1>13. Kept(args) = FlattenSeq(K)
  BY Zenon DEF Kept, K, n, One
<1> HIDE DEF F, G
<1>14. CmdlineOf(args) \in Seq(Chars)
       /\ \E end : Feeds(Between(<<>>), CmdlineOf(args), end) /\ Done(end, Kept(args))
  BY <1>10, <1>11, <1>12, <1>13 DEF P
<1>15. QED
  BY <1>14, SplitReads DEF Done

-----------------------------------------------------------------------------
(* What the splitting has of every line.                                   *)

States == [args : Words, word : Seq(Chars),
           mode : {"out", "bare", "quoted", "closed"}, slashes : Nat]

LEMMA ReadingType ==
  ASSUME NEW a \in Words, NEW w \in Seq(Chars),
         NEW m \in {"out", "bare", "quoted", "closed"}, NEW n \in Nat
  PROVE  Reading(a, w, m, n) \in States
BY DEF Reading, States

LEMMA StateFields ==
  ASSUME NEW st \in States
  PROVE  /\ st.args \in Words /\ st.word \in Seq(Chars) /\ st.slashes \in Nat
         /\ st.mode \in {"out", "bare", "quoted", "closed"}
         /\ Within(st.mode) \in {"out", "bare", "quoted", "closed"}
         /\ st.slashes \div 2 \in Nat
BY DEF States, Within

\* The word that a state has been reading, with the backslashes behind it.
LEMMA WordType ==
  ASSUME NEW w \in Seq(Chars), NEW n \in Nat, NEW c \in Chars
  PROVE  w \o Slashes(n) \in Seq(Chars) /\ Append(w \o Slashes(n), c) \in Seq(Chars)
<1>1. Slashes(n) \in Seq(Chars)
  BY Row, Zenon
<1>2. w \o Slashes(n) \in Seq(Chars)
  BY <1>1, ConcatProperties, Zenon
<1>3. QED
  BY <1>2

LEMMA EndedType ==
  ASSUME NEW st \in States
  PROVE  Ended(st) \in Words
<1>1. st.args \in Words /\ st.word \in Seq(Chars) /\ st.slashes \in Nat
  BY StateFields, Zenon
<1>2. Backslash \in Chars
  BY CharsAssumption
<1>3. st.word \o Slashes(st.slashes) \in Seq(Chars)
  BY <1>1, <1>2, WordType, Zenon
<1>4. QED
  BY <1>1, <1>3 DEF Ended, Words

LEMMA AfterType ==
  ASSUME NEW st \in States, NEW c \in Chars
  PROVE  After(st, c) \in States
<1> DEFINE a == st.args
           w == st.word
           m == st.mode
           n == st.slashes
           h == n \div 2
           in == Within(m)
<1>1. /\ a \in Words /\ w \in Seq(Chars) /\ n \in Nat /\ h \in Nat
      /\ m \in {"out", "bare", "quoted", "closed"}
      /\ in \in {"out", "bare", "quoted", "closed"}
  BY StateFields, Zenon
<1>2. n + 1 \in Nat /\ 0 \in Nat
  BY <1>1
<1>3. Quote \in Chars
  BY CharsAssumption
<1>4. /\ w \o Slashes(h) \in Seq(Chars)
      /\ Append(w \o Slashes(h), Quote) \in Seq(Chars)
      /\ Append(w \o Slashes(n), c) \in Seq(Chars)
  BY <1>1, <1>3, WordType, Zenon
<1>5. Ended(st) \in Words /\ <<>> \in Seq(Chars)
  BY EndedType
<1>6. "out" \in {"out", "bare", "quoted", "closed"}
      /\ "quoted" \in {"out", "bare", "quoted", "closed"}
      /\ "closed" \in {"out", "bare", "quoted", "closed"}
  OBVIOUS
<1>7. /\ Reading(a, w, in, n + 1) \in States
      /\ Reading(a, Append(w \o Slashes(h), Quote), in, 0) \in States
      /\ Reading(a, w \o Slashes(h), "closed", 0) \in States
      /\ Reading(a, w \o Slashes(h), "quoted", 0) \in States
      /\ Reading(a, Append(w \o Slashes(h), Quote), "quoted", 0) \in States
      /\ Reading(a, Append(w \o Slashes(n), c), in, 0) \in States
      /\ Between(Ended(st)) \in States
  <2> HIDE DEF a, w, m, n, h, in
  <2>1. /\ Reading(a, w, in, n + 1) \in States
        /\ Reading(a, Append(w \o Slashes(h), Quote), in, 0) \in States
        /\ Reading(a, Append(w \o Slashes(n), c), in, 0) \in States
    BY <1>1, <1>2, <1>4, ReadingType, Zenon
  <2>2. /\ Reading(a, w \o Slashes(h), "closed", 0) \in States
        /\ Reading(a, w \o Slashes(h), "quoted", 0) \in States
        /\ Reading(a, Append(w \o Slashes(h), Quote), "quoted", 0) \in States
    BY <1>1, <1>2, <1>4, <1>6, ReadingType, Zenon
  <2>3. Reading(Ended(st), <<>>, "out", 0) \in States
    BY <1>2, <1>5, <1>6, ReadingType, Zenon
  <2>4. QED
    BY <2>1, <2>2, <2>3 DEF Between
<1>8. OnOther(st, c) \in States
  BY <1>7, Zenon DEF OnOther
<1>9. OnQuote(st) \in States
  <2>1. /\ n % 2 = 1 \/ n % 2 = 0
    BY <1>1
  <2>2. \/ OnQuote(st) = Reading(a, Append(w \o Slashes(h), Quote), in, 0)
        \/ OnQuote(st) = Reading(a, w \o Slashes(h), "closed", 0)
        \/ OnQuote(st) = Reading(a, Append(w \o Slashes(h), Quote), "quoted", 0)
        \/ OnQuote(st) = Reading(a, w \o Slashes(h), "quoted", 0)
    BY DEF OnQuote
  <2>3. QED
    BY <1>7, <2>2, Zenon
<1>10. \/ After(st, c) = Reading(a, w, in, n + 1)
       \/ After(st, c) = OnQuote(st)
       \/ After(st, c) = OnOther(st, c)
  BY DEF After
<1>11. QED
  BY <1>7, <1>8, <1>9, <1>10, Zenon

\* The same state, behind other arguments.
Behind(p, st) == Reading(p \o st.args, st.word, st.mode, st.slashes)

LEMMA BehindEnded ==
  ASSUME NEW p \in Words, NEW st \in States
  PROVE  Ended(Behind(p, st)) = p \o Ended(st)
<1> DEFINE x == st.word \o Slashes(st.slashes)
           b == Behind(p, st)
<1>1. st.args \in Words /\ st.word \in Seq(Chars) /\ st.slashes \in Nat
  BY StateFields, Zenon
<1>2. Backslash \in Chars
  BY CharsAssumption
<1>3. x \in Seq(Chars)
  BY <1>1, <1>2, WordType, Zenon
<1>4. /\ b.args = p \o st.args /\ b.word = st.word /\ b.mode = st.mode
      /\ b.slashes = st.slashes
  BY DEF Behind, Reading
<1> HIDE DEF b
<1>5. Ended(b) = IF st.mode = "out" THEN p \o st.args ELSE Append(p \o st.args, x)
  BY <1>4 DEF Ended
<1>6. Ended(st) = IF st.mode = "out" THEN st.args ELSE Append(st.args, x)
  BY DEF Ended
<1> HIDE DEF x
<1>7. p \o Append(st.args, x) = Append(p \o st.args, x)
  BY <1>1, <1>3, AppendBehind, SMTT(30) DEF Words
<1>8. QED
  BY <1>5, <1>6, <1>7 DEF b

LEMMA BehindAfter ==
  ASSUME NEW p \in Words, NEW st \in States, NEW c
  PROVE  After(Behind(p, st), c) = Behind(p, After(st, c))
<1> DEFINE b == Behind(p, st)
<1>1. /\ b.args = p \o st.args /\ b.word = st.word /\ b.mode = st.mode
      /\ b.slashes = st.slashes
  BY DEF Behind, Reading
<1>2. Ended(b) = p \o Ended(st)
  BY BehindEnded, Zenon
<1> HIDE DEF b
<1>3. ASSUME NEW a, NEW w, NEW m, NEW n
      PROVE  Behind(p, Reading(a, w, m, n)) = Reading(p \o a, w, m, n)
  BY DEF Behind, Reading
<1>4. st.slashes \in Nat
  BY StateFields, Zenon
<1>5. OnQuote(b) = Behind(p, OnQuote(st))
  <2>1. st.slashes % 2 = 1 \/ st.slashes % 2 = 0
    BY <1>4
  <2> DEFINE k == st.slashes % 2
             h == st.slashes \div 2
             w == st.word \o Slashes(h)
  <2>2. CASE k = 1
    <3>1. OnQuote(b) = Reading(p \o st.args, Append(w, Quote), Within(st.mode), 0)
      BY <1>1, <2>2 DEF OnQuote
    <3>2. OnQuote(st) = Reading(st.args, Append(w, Quote), Within(st.mode), 0)
      BY <2>2 DEF OnQuote
    <3> HIDE DEF w
    <3>3. QED
      BY <1>3, <3>1, <3>2, Zenon
  <2>3. CASE k = 0 /\ st.mode = "quoted"
    <3>1. OnQuote(b) = Reading(p \o st.args, w, "closed", 0)
      BY <1>1, <2>3 DEF OnQuote
    <3>2. OnQuote(st) = Reading(st.args, w, "closed", 0)
      BY <2>3 DEF OnQuote
    <3> HIDE DEF w
    <3>3. QED
      BY <1>3, <3>1, <3>2, Zenon
  <2>4. CASE k = 0 /\ st.mode = "closed" /\ st.slashes = 0
    <3>1. OnQuote(b) = Reading(p \o st.args, Append(w, Quote), "quoted", 0)
      BY <1>1, <2>4 DEF OnQuote
    <3>2. OnQuote(st) = Reading(st.args, Append(w, Quote), "quoted", 0)
      BY <2>4 DEF OnQuote
    <3> HIDE DEF w
    <3>3. QED
      BY <1>3, <3>1, <3>2, Zenon
  <2>5. CASE k = 0 /\ st.mode # "quoted" /\ ~(st.mode = "closed" /\ st.slashes = 0)
    <3>1. OnQuote(b) = Reading(p \o st.args, w, "quoted", 0)
      BY <1>1, <2>5 DEF OnQuote
    <3>2. OnQuote(st) = Reading(st.args, w, "quoted", 0)
      BY <2>5 DEF OnQuote
    <3> HIDE DEF w
    <3>3. QED
      BY <1>3, <3>1, <3>2, Zenon
  <2>6. QED
    BY <2>1, <2>2, <2>3, <2>4, <2>5
<1>6. OnOther(b, c) = Behind(p, OnOther(st, c))
  <2>1. CASE c = Blank /\ st.mode # "quoted"
    <3>1. OnOther(b, c) = Reading(p \o Ended(st), <<>>, "out", 0)
      BY <1>1, <1>2, <2>1 DEF OnOther, Between
    <3>2. OnOther(st, c) = Reading(Ended(st), <<>>, "out", 0)
      BY <2>1 DEF OnOther, Between
    <3>3. QED
      BY <1>3, <3>1, <3>2, Zenon
  <2>2. CASE ~(c = Blank /\ st.mode # "quoted")
    <3> DEFINE w == Append(st.word \o Slashes(st.slashes), c)
    <3>1. OnOther(b, c) = Reading(p \o st.args, w, Within(st.mode), 0)
      BY <1>1, <2>2 DEF OnOther
    <3>2. OnOther(st, c) = Reading(st.args, w, Within(st.mode), 0)
      BY <2>2 DEF OnOther
    <3> HIDE DEF w
    <3>3. QED
      BY <1>3, <3>1, <3>2, Zenon
  <2>3. QED
    BY <2>1, <2>2
<1>7. Behind(p, Reading(st.args, st.word, Within(st.mode), st.slashes + 1))
        = Reading(b.args, b.word, Within(b.mode), b.slashes + 1)
  <2>1. Behind(p, Reading(st.args, st.word, Within(st.mode), st.slashes + 1))
          = Reading(p \o st.args, st.word, Within(st.mode), st.slashes + 1)
    BY <1>3, Zenon
  <2>2. QED
    BY <1>1, <2>1
<1>8. CASE c = Backslash
  <2>1. /\ After(b, c) = Reading(b.args, b.word, Within(b.mode), b.slashes + 1)
        /\ After(st, c) = Reading(st.args, st.word, Within(st.mode), st.slashes + 1)
    BY <1>8, CharsAssumption DEF After
  <2>2. QED
    BY <1>7, <2>1, Zenon DEF b
<1>9. CASE c = Quote
  <2>1. After(b, c) = OnQuote(b) /\ After(st, c) = OnQuote(st)
    BY <1>9, CharsAssumption DEF After
  <2>2. QED
    BY <1>5, <2>1, Zenon DEF b
<1>10. CASE c # Backslash /\ c # Quote
  <2>1. After(b, c) = OnOther(b, c) /\ After(st, c) = OnOther(st, c)
    BY <1>10 DEF After
  <2>2. QED
    BY <1>6, <2>1, Zenon DEF b
<1>11. QED
  BY <1>8, <1>9, <1>10

\* Every line can be read, and is read alike behind other arguments.
LEMMA Readable ==
  ASSUME NEW line \in Seq(Chars), NEW p \in Words, NEW st \in States
  PROVE  \E end \in States :
           Feeds(st, line, end) /\ Feeds(Behind(p, st), line, Behind(p, end))
<1> DEFINE F(i) == SubSeq(line, 1, i)
           Q(i, end) == Feeds(st, F(i), end) /\ Feeds(Behind(p, st), F(i), Behind(p, end))
           P(i) == \E end \in States : Q(i, end)
           T == {i \in Nat : i <= Len(line) => P(i)}
<1>1. 0 \in T
  <2>1. F(0) = <<>>
    BY SubSeqAll, Zenon
  <2>2. Feeds(st, <<>>, st) /\ Feeds(Behind(p, st), <<>>, Behind(p, st))
    BY FeedsNothing, Zenon
  <2>3. P(0)
    BY <2>1, <2>2, Zenon
  <2> HIDE DEF P
  <2>4. QED
    BY <2>3
<1>2. ASSUME NEW i \in T PROVE i + 1 \in T
  <2>1. i \in Nat /\ i + 1 \in Nat
    OBVIOUS
  <2>2. CASE i + 1 <= Len(line)
    <3> DEFINE c == line[i + 1]
    <3>1. P(i)
      <4>1. i <= Len(line)
        BY <2>1, <2>2
      <4> HIDE DEF P
      <4>2. QED
        BY <4>1
    <3>2. PICK end \in States : Q(i, end)
      BY <3>1, Zenon
    <3>3. F(i) \in Seq(Chars) /\ c \in Chars /\ F(i + 1) = Append(F(i), c)
      BY <2>1, <2>2, Longer, Zenon
    <3>4. After(end, c) \in States
      BY <3>3, AfterType, Zenon
    <3>5. After(Behind(p, end), c) = Behind(p, After(end, c))
      BY BehindAfter, Zenon
    <3>6. Feeds(st, F(i), end) /\ Feeds(Behind(p, st), F(i), Behind(p, end))
      BY <3>2, Zenon
    <3> HIDE DEF c, F
    <3>7. Feeds(st, Append(F(i), c), After(end, c))
          /\ Feeds(Behind(p, st), Append(F(i), c), After(Behind(p, end), c))
      BY <3>3, <3>6, FeedsMore, Zenon
    <3>8. Q(i + 1, After(end, c))
      BY <3>3, <3>5, <3>7, Zenon
    <3> HIDE DEF Q
    <3>9. P(i + 1)
      BY <3>4, <3>8, Zenon
    <3> HIDE DEF P
    <3>10. QED
      BY <2>1, <3>9
  <2>3. CASE ~(i + 1 <= Len(line))
    <3> HIDE DEF P
    <3>1. QED
      BY <2>1, <2>3
  <2>4. QED
    BY <2>2, <2>3
<1> HIDE DEF P
<1>3. T = Nat
  <2>1. T \in SUBSET Nat
    OBVIOUS
  <2> HIDE DEF T
  <2>2. QED
    BY <1>1, <1>2, <2>1, Induct, Zenon
<1>4. Len(line) \in Nat /\ F(Len(line)) = line
  BY SubSeqAll
<1>5. P(Len(line))
  BY <1>3, <1>4
<1>6. PICK end \in States : Q(Len(line), end)
  BY <1>5, Zenon DEF P
<1>7. QED
  BY <1>4, <1>6, Zenon

-----------------------------------------------------------------------------
(* Lines that begin with the program's name.                               *)

LEMMA ProgramIsPlain ==
  /\ Program \in Seq(Chars) /\ Program # <<>> /\ ~NeedsQuotes(Program)
  /\ \A i \in 1..Len(Program) : Program[i] \notin {Blank, Quote, Backslash}
<1>1. Program \in Seq(Chars) /\ Program # <<>>
  BY ProgramAssumption
<1>2. \A i \in 1..Len(Program) : Program[i] \notin {Blank, Quote, Backslash}
  BY ProgramAssumption
<1>3. QED
  BY <1>1, <1>2 DEF NeedsQuotes

\* Behind a beginning that makes whole arguments, a line is split as it is
\* alone.
LEMMA SplitBehind ==
  ASSUME NEW head \in Seq(Chars), NEW p \in Words, Feeds(Between(<<>>), head, Between(p)),
         NEW rest \in Seq(Chars)
  PROVE  /\ head \o rest \in Seq(Chars) /\ Split(rest) \in Words
         /\ Split(head \o rest) = p \o Split(rest)
<1>1. head \o rest \in Seq(Chars)
  BY ConcatProperties, Zenon
<1>2. Between(<<>>) \in States
  <2>1. <<>> \in Words /\ <<>> \in Seq(Chars) /\ 0 \in Nat
        /\ "out" \in {"out", "bare", "quoted", "closed"}
    BY DEF Words
  <2>2. QED
    BY <2>1, ReadingType, Zenon DEF Between
<1>3. PICK end \in States : /\ Feeds(Between(<<>>), rest, end)
                            /\ Feeds(Behind(p, Between(<<>>)), rest, Behind(p, end))
  BY <1>2, Readable, Zenon
<1>4. Behind(p, Between(<<>>)) = Between(p)
  BY ConcatEmptySeq DEF Behind, Between, Reading, Words
<1>5. Feeds(Between(<<>>), head \o rest, Behind(p, end))
  BY <1>3, <1>4, FeedsBoth, Zenon
<1>6. Split(rest) = Ended(end) /\ Split(head \o rest) = Ended(Behind(p, end))
  BY <1>1, <1>3, <1>5, SplitReads, Zenon
<1>7. Ended(end) \in Words /\ Ended(Behind(p, end)) = p \o Ended(end)
  BY EndedType, BehindEnded, Zenon
<1>8. QED
  BY <1>1, <1>6, <1>7, Zenon

LEMMA NameAlone ==
  <<Program>> \in Words /\ With(<<>>, Program) = <<Program>>
<1>1. <<Program>> \in Words
  BY ProgramIsPlain DEF Words
<1>2. Append(<<>>, Program) = <<Program>>
  OBVIOUS
<1>3. QED
  BY <1>1, <1>2, ProgramIsPlain DEF With

\* The name, then what follows it.
LEMMA NamedLine ==
  ASSUME NEW rest \in Seq(Chars)
  PROVE  /\ (Program \o <<Blank>>) \o rest \in Seq(Chars) /\ Split(rest) \in Words
         /\ Split((Program \o <<Blank>>) \o rest) = <<Program>> \o Split(rest)
<1> DEFINE b == <<Blank>>
           head == Program \o b
<1>1. b \in Seq(Chars)
  BY CharsAssumption
<1>2. \E end : Feeds(Between(<<>>), Quoted(Program), end) /\ Done(end, With(<<>>, Program))
  BY ProgramIsPlain, ArgumentReads, Zenon
<1>3. Quoted(Program) = Program
  BY ProgramIsPlain DEF Quoted
<1>4. PICK end : Feeds(Between(<<>>), Program, end) /\ Done(end, <<Program>>)
  BY <1>2, <1>3, NameAlone
<1>5. Feeds(end, b, Between(<<Program>>))
  <2>1. After(end, Blank) = Between(<<Program>>)
    BY <1>4, BlankRead DEF Done
  <2>2. QED
    BY <2>1, FeedsOne, Zenon
<1> HIDE DEF b
<1>6. head \in Seq(Chars)
  BY <1>1, ProgramIsPlain, ConcatProperties, Zenon
<1>7. Feeds(Between(<<>>), head, Between(<<Program>>))
  BY <1>1, <1>4, <1>5, ProgramIsPlain, FeedsBoth, Zenon
<1> HIDE DEF head
<1>8. /\ head \o rest \in Seq(Chars) /\ Split(rest) \in Words
      /\ Split(head \o rest) = <<Program>> \o Split(rest)
  BY <1>6, <1>7, NameAlone, SplitBehind, Zenon
<1>9. QED
  BY <1>8 DEF head, b

\* The name between quotes.
LEMMA NameInside ==
  ASSUME NEW a
  PROVE  Feeds(Inside(a, <<>>, 0), Program, Inside(a, Program, 0))
<1> DEFINE F(i) == SubSeq(Program, 1, i)
           P(i) == Feeds(Inside(a, <<>>, 0), F(i), Inside(a, F(i), 0))
           T == {i \in Nat : i <= Len(Program) => P(i)}
<1>1. 0 \in T
  <2>1. F(0) = <<>>
    BY ProgramIsPlain, SubSeqAll, Zenon
  <2>2. Feeds(Inside(a, <<>>, 0), <<>>, Inside(a, <<>>, 0))
    BY FeedsNothing, Zenon
  <2>3. P(0)
    BY <2>1, <2>2, Zenon
  <2> HIDE DEF P
  <2>4. QED
    BY <2>3
<1>2. ASSUME NEW i \in T PROVE i + 1 \in T
  <2>1. i \in Nat /\ i + 1 \in Nat
    OBVIOUS
  <2>2. CASE i + 1 <= Len(Program)
    <3> DEFINE c == Program[i + 1]
    <3>1. i <= Len(Program) /\ i + 1 \in 1..Len(Program)
      BY <2>1, <2>2
    <3>2. P(i)
      <4> HIDE DEF P
      <4>1. QED
        BY <3>1
    <3>3. F(i) \in Seq(Chars) /\ c \in Chars /\ F(i + 1) = Append(F(i), c)
      BY <2>1, <2>2, ProgramIsPlain, Longer, Zenon
    <3>4. c # Backslash /\ c # Quote
      BY <3>1, ProgramIsPlain
    <3>5. F(i) \o Slashes(0) = F(i)
      <4>1. Slashes(0) = <<>>
        BY Row
      <4>2. F(i) \o <<>> = F(i)
        BY <3>3, ConcatEmptySeq, Zenon
      <4>3. QED
        BY <4>1, <4>2, Zenon
    <3> HIDE DEF c, F
    <3>6. After(Inside(a, F(i), 0), c) = Inside(a, Append(F(i) \o Slashes(0), c), 0)
      BY <3>4, OtherRead DEF Inside, Within
    <3>7. Feeds(Inside(a, <<>>, 0), Append(F(i), c), After(Inside(a, F(i), 0), c))
      BY <3>2, <3>3, FeedsMore, Zenon
    <3>8. P(i + 1)
      BY <3>3, <3>5, <3>6, <3>7, Zenon
    <3> HIDE DEF P
    <3>9. QED
      BY <2>1, <3>8
  <2>3. CASE ~(i + 1 <= Len(Program))
    <3> HIDE DEF P
    <3>1. QED
      BY <2>1, <2>3
  <2>4. QED
    BY <2>2, <2>3
<1> HIDE DEF P
<1>3. T = Nat
  <2>1. T \in SUBSET Nat
    OBVIOUS
  <2> HIDE DEF T
  <2>2. QED
    BY <1>1, <1>2, <2>1, Induct, Zenon
<1>4. Len(Program) \in Nat /\ F(Len(Program)) = Program
  BY ProgramIsPlain, SubSeqAll
<1>5. P(Len(Program))
  BY <1>3, <1>4
<1>6. QED
  BY <1>4, <1>5 DEF P

\* What concat_cmdline puts before a line is one argument more.
LEMMA ApplicationLine ==
  ASSUME NEW line \in Seq(Chars)
  PROVE  /\ Concat(Program, line) \in Seq(Chars) /\ Split(line) \in Words
         /\ Split(Concat(Program, line)) = <<Program>> \o Split(line)
<1> DEFINE q == <<Quote>>
           qb == <<Quote, Blank>>
           head == (q \o Program) \o qb
           closed == Reading(<<>>, Program, "closed", 0)
<1>1. q \in Seq(Chars) /\ qb \in Seq(Chars) /\ Quote \in Chars /\ Blank \in Chars
      /\ qb = Append(<<Quote>>, Blank)
  BY CharsAssumption
<1>2. Feeds(Between(<<>>), q, Inside(<<>>, <<>>, 0))
  BY FeedsOne, Opens, Zenon
<1>3. Feeds(Inside(<<>>, <<>>, 0), Program, Inside(<<>>, Program, 0))
  BY NameInside, Zenon
<1>4. After(Inside(<<>>, Program, 0), Quote) = closed
  <2>1. Program \o Slashes(0) = Program
    BY ProgramIsPlain, Row, ConcatEmptySeq
  <2>2. 2 * 0 = 0 /\ 0 \in Nat
    OBVIOUS
  <2>3. After(Inside(<<>>, Program, 2 * 0), Quote) = Reading(<<>>, Program \o Slashes(0), "closed", 0)
    BY <2>2, Closes, Zenon
  <2>4. QED
    BY <2>1, <2>2, <2>3
<1>5. After(closed, Blank) = Between(<<Program>>)
  <2>1. closed.mode = "closed" /\ closed.args = <<>> /\ closed.word = Program /\ closed.slashes = 0
    BY DEF Reading
  <2> HIDE DEF closed
  <2>2. Program \o Slashes(0) = Program
    BY ProgramIsPlain, Row, ConcatEmptySeq
  <2>3. Ended(closed) = <<Program>>
    BY <2>1, <2>2 DEF Ended
  <2>4. After(closed, Blank) = Between(Ended(closed))
    BY <2>1, BlankRead
  <2>5. QED
    BY <2>3, <2>4
<1>6. Feeds(Inside(<<>>, Program, 0), <<Quote>>, closed)
  BY <1>4, FeedsOne, Zenon
<1> HIDE DEF closed
<1>7. Feeds(Inside(<<>>, Program, 0), Append(<<Quote>>, Blank), Between(<<Program>>))
  BY <1>1, <1>5, <1>6, FeedsMore, Zenon
<1>8. Feeds(Inside(<<>>, Program, 0), qb, Between(<<Program>>))
  BY <1>1, <1>7
<1> HIDE DEF q, qb
<1>9. q \o Program \in Seq(Chars) /\ head \in Seq(Chars)
  BY <1>1, ProgramIsPlain, ConcatProperties, Zenon
<1>10. Feeds(Between(<<>>), q \o Program, Inside(<<>>, Program, 0))
  BY <1>1, <1>2, <1>3, ProgramIsPlain, FeedsBoth, Zenon
<1>11. Feeds(Between(<<>>), head, Between(<<Program>>))
  BY <1>1, <1>8, <1>9, <1>10, FeedsBoth, Zenon
<1> HIDE DEF head
<1>12. /\ head \o line \in Seq(Chars) /\ Split(line) \in Words
       /\ Split(head \o line) = <<Program>> \o Split(line)
  BY <1>9, <1>11, NameAlone, SplitBehind, Zenon
<1>13. Concat(Program, line) = head \o line
  BY ProgramAssumption DEF Concat, head, q, qb
<1>14. QED
  BY <1>12, <1>13

\* A first argument that is not empty is kept.
LEMMA KeptFirst ==
  ASSUME NEW x \in Seq(Chars), x # <<>>, NEW args \in Words
  PROVE  Kept(<<x>> \o args) = <<x>> \o Kept(args)
<1> DEFINE all == <<x>> \o args
           K == [i \in 1..Len(args) |-> One(args[i])]
           E == Seq(Chars)
<1>1. all \in Words /\ Len(all) = Len(args) + 1 /\ all[1] = x
      /\ \A i \in 1..Len(args) : all[i + 1] = args[i]
  BY DEF Words
<1>2. K \in Seq(Seq(E)) /\ Len(K) = Len(args)
  <2>1. Len(args) \in Nat /\ \A i \in 1..Len(args) : args[i] \in Seq(Chars)
    BY DEF Words
  <2>2. \A i \in 1..Len(args) : One(args[i]) \in Seq(E)
    BY <2>1 DEF One
  <2>3. QED
    BY <2>1, <2>2
<1>3. [i \in 1..Len(all) |-> One(all[i])] = <<One(x)>> \o K
  <2> DEFINE A == [i \in 1..Len(all) |-> One(all[i])]
             B == <<One(x)>> \o K
             n == Len(args)
  <2>1. n \in Nat
    BY DEF Words
  <2>2. B = [i \in 1..(n + 1) |-> B[i]]
    BY <1>2
  <2>3. B[1] = One(x) /\ \A i \in 1..n : B[i + 1] = One(args[i])
    <3> DEFINE o == One(x)
    <3> HIDE DEF o
    <3>1. (<<o>> \o K)[1] = o /\ \A i \in 1..n : (<<o>> \o K)[i + 1] = K[i]
      BY <1>2, <2>1
    <3>2. \A i \in 1..n : K[i] = One(args[i])
      OBVIOUS
    <3>3. QED
      BY <3>1, <3>2 DEF o
  <2>4. ASSUME NEW i \in 1..(n + 1) PROVE B[i] = One(all[i])
    <3>1. CASE i = 1
      BY <1>1, <2>3, <3>1
    <3>2. CASE i # 1
      <4>1. i - 1 \in 1..n /\ (i - 1) + 1 = i
        BY <2>1, <3>2
      <4>2. B[i] = One(args[i - 1])
        <5> HIDE DEF B
        <5>1. QED
          BY <2>3, <4>1
      <4>3. all[i] = args[i - 1]
        <5> HIDE DEF all
        <5>1. QED
          BY <1>1, <4>1
      <4>4. QED
        BY <4>2, <4>3, Zenon
    <3>3. QED
      BY <3>1, <3>2
  <2>5. [i \in 1..(n + 1) |-> B[i]] = [i \in 1..(n + 1) |-> One(all[i])]
    <3> HIDE DEF B, all
    <3>1. QED
      BY <2>4
  <2>6. QED
    <3> HIDE DEF B, all, n
    <3>1. A = B
      BY <1>1, <2>2, <2>5 DEF n
    <3>2. QED
      BY <3>1, Zenon DEF A, B
<1>4. Kept(all) = FlattenSeq([i \in 1..Len(all) |-> One(all[i])])
  BY Zenon DEF Kept, One
<1>5. Kept(args) = FlattenSeq(K)
  BY Zenon DEF Kept, One
<1>6. One(x) = <<x>> /\ <<x>> \in Seq(E)
  BY DEF One
<1> HIDE DEF all, K, E
<1>7. FlattenSeq(<<One(x)>> \o K) = <<x>> \o FlattenSeq(K)
  BY <1>2, <1>6, FlattenFirst, Zenon
<1>8. QED
  BY <1>3, <1>4, <1>5, <1>7 DEF all

LEMMA KeptType ==
  ASSUME NEW args \in Words
  PROVE  Kept(args) \in Words
<1> DEFINE K == [i \in 1..Len(args) |-> One(args[i])]
           E == Seq(Chars)
<1>1. Len(args) \in Nat /\ \A i \in 1..Len(args) : args[i] \in Seq(Chars)
  BY DEF Words
<1>2. \A i \in 1..Len(args) : One(args[i]) \in Seq(E)
  BY <1>1 DEF One
<1>3. K \in Seq(Seq(E)) /\ Len(K) \in Nat
  BY <1>1, <1>2
<1>4. Kept(args) = FlattenSeq(K)
  BY Zenon DEF Kept, One
<1> HIDE DEF K, E
<1>5. FlattenSeq(K) \in Seq(E)
  BY <1>3, FlattenType, Zenon
<1>6. QED
  BY <1>4, <1>5 DEF Words, E

-----------------------------------------------------------------------------
(* Environments.                                                           *)

Value == 0..MaxId \cup {None}

\* An environment has the variable once.
Once(env) ==
  \A i, j \in 1..Len(env) : env[i].key = IdKey /\ env[j].key = IdKey => i = j

\* Its value, when it has it.
Says(env, id) == Has(env, IdKey) /\ Get(env, IdKey) = id

LEMMA EntryType ==
  ASSUME NEW v \in Value
  PROVE  Entry(IdKey, v) \in Entries
BY DEF Entries, Entry, Value

LEMMA BlockType ==
  ASSUME NEW b \in Blocks
  PROVE  b \in Seq(Entries) /\ Once(b)
<1> DEFINE Keys == {b[i].key : i \in 1..Len(b)}
           All == {IdKey} \cup UNION {{c[i].key : i \in 1..Len(c)} : c \in Blocks}
<1>1. b \in Seq([key : Keys, value : Value]) /\ Once(b)
  BY BlocksAssumption DEF Once, Value
<1>2. Keys \subseteq All
  OBVIOUS
<1> HIDE DEF Keys, All
<1>3. b \in Seq([key : All, value : Value])
  <2> DEFINE A == [key : Keys, value : Value]
             B == [key : All, value : Value]
  <2>1. A \subseteq B
    BY <1>2
  <2>2. b \in Seq(A)
    BY <1>1
  <2> HIDE DEF A, B
  <2>3. Len(b) \in Nat /\ b = [i \in 1..Len(b) |-> b[i]]
    BY <2>2
  <2>4. \A i \in 1..Len(b) : b[i] \in B
    BY <2>1, <2>2
  <2>5. [i \in 1..Len(b) |-> b[i]] \in Seq(B)
    BY <2>3, <2>4
  <2>6. QED
    BY <2>3, <2>5, Zenon DEF B
<1>4. [key : All, value : Value] = Entries
  BY Zenon DEF All, Value, Entries
<1>5. QED
  BY <1>1, <1>3, <1>4

\* The value that is there is the one that is found.
LEMMA Found ==
  ASSUME NEW env, Once(env), NEW i \in 1..Len(env), env[i].key = IdKey
  PROVE  Says(env, env[i].value)
<1>1. Has(env, IdKey)
  BY DEF Has
<1> DEFINE j == CHOOSE j \in 1..Len(env) : env[j].key = IdKey
<1>2. j \in 1..Len(env) /\ env[j].key = IdKey
  OBVIOUS
<1>3. Get(env, IdKey) = env[j].value
  BY DEF Get
<1> HIDE DEF j
<1>4. i = j
  BY <1>2 DEF Once
<1>5. QED
  BY <1>1, <1>3, <1>4 DEF Says

LEMMA GetType ==
  ASSUME NEW env \in Seq(Entries), Has(env, IdKey)
  PROVE  Get(env, IdKey) \in Value
<1> DEFINE j == CHOOSE j \in 1..Len(env) : env[j].key = IdKey
<1>1. j \in 1..Len(env)
  BY DEF Has
<1>2. Get(env, IdKey) = env[j].value
  BY DEF Get
<1> HIDE DEF j
<1>3. env[j] \in Entries
  BY <1>1
<1>4. env[j].value \in Value
  BY <1>3 DEF Entries, Value
<1>5. QED
  BY <1>2, <1>4

\* One entry more, of a variable that is not there.
LEMMA Added ==
  ASSUME NEW env \in Seq(Entries), ~Has(env, IdKey), NEW v \in Value
  PROVE  LET new == Append(env, Entry(IdKey, v))
         IN  new \in Seq(Entries) /\ Once(new) /\ Says(new, v)
<1> DEFINE e == Entry(IdKey, v)
           new == Append(env, e)
           n == Len(env)
<1>1. e \in Entries /\ e.key = IdKey /\ e.value = v
  BY EntryType DEF Entry
<1> HIDE DEF e
<1>2. /\ n \in Nat /\ new \in Seq(Entries) /\ Len(new) = n + 1
      /\ new[n + 1] = e /\ \A i \in 1..n : new[i] = env[i]
  BY <1>1, AppendProperties
<1>3. \A i \in 1..n : env[i].key # IdKey
  BY DEF Has
<1> HIDE DEF new, n
<1>4. ASSUME NEW i \in 1..(n + 1), new[i].key = IdKey PROVE i = n + 1
  <2>1. i \in 1..n => new[i].key # IdKey
    BY <1>2, <1>3
  <2>2. QED
    BY <1>2, <1>4, <2>1
<1>5. Once(new)
  BY <1>2, <1>4 DEF Once
<1>6. n + 1 \in 1..Len(new)
  BY <1>2
<1>7. Says(new, new[n + 1].value)
  BY <1>1, <1>2, <1>5, <1>6, Found
<1>8. QED
  BY <1>1, <1>2, <1>5, <1>7 DEF new, e

\* SetEnvironmentVariable.
LEMMA SetType ==
  ASSUME NEW env \in Seq(Entries), Once(env), NEW v \in Value
  PROVE  LET new == Set(env, IdKey, v)
         IN  new \in Seq(Entries) /\ Once(new) /\ Says(new, v)
<1>1. CASE ~Has(env, IdKey)
  <2>1. Set(env, IdKey, v) = Append(env, Entry(IdKey, v))
    BY <1>1 DEF Set
  <2>2. QED
    BY <1>1, <2>1, Added
<1>2. CASE Has(env, IdKey)
  <2> DEFINE e == Entry(IdKey, v)
             n == Len(env)
             new == [i \in 1..n |-> IF env[i].key = IdKey THEN e ELSE env[i]]
  <2>1. Set(env, IdKey, v) = new
    BY <1>2 DEF Set
  <2>2. e \in Entries /\ e.key = IdKey /\ e.value = v
    BY EntryType DEF Entry
  <2>3. n \in Nat /\ \A i \in 1..n : env[i] \in Entries
    OBVIOUS
  <2> HIDE DEF e
  <2>4. /\ new \in Seq(Entries) /\ Len(new) = n
        /\ \A i \in 1..n : new[i] = IF env[i].key = IdKey THEN e ELSE env[i]
    BY <2>2, <2>3
  <2>5. PICK k \in 1..n : env[k].key = IdKey
    BY <1>2 DEF Has
  <2> HIDE DEF new
  <2>6. ASSUME NEW i \in 1..n, new[i].key = IdKey PROVE env[i].key = IdKey
    BY <2>4, <2>6
  <2>7. Once(new)
    <3>1. ASSUME NEW i \in 1..n, NEW j \in 1..n, new[i].key = IdKey, new[j].key = IdKey
          PROVE  i = j
      <4>1. env[i].key = IdKey /\ env[j].key = IdKey
        BY <2>6, <3>1
      <4>2. QED
        BY <4>1 DEF Once
    <3>2. QED
      BY <2>4, <3>1 DEF Once
  <2>8. new[k] = e /\ k \in 1..Len(new)
    BY <2>4, <2>5
  <2>9. Says(new, v)
    BY <2>2, <2>7, <2>8, Found
  <2>10. QED
    BY <2>1, <2>4, <2>7, <2>9
<1>3. QED
  BY <1>1, <1>2

\* Taking the variable out.
LEMMA WithoutType ==
  ASSUME NEW env \in Seq(Entries)
  PROVE  /\ Without(env, IdKey) \in Seq(Entries)
         /\ ~Has(Without(env, IdKey), IdKey)
<1> DEFINE E == {e \in Entries : e.key # IdKey}
           n == Len(env)
           S == [i \in 1..n |-> IF env[i].key = IdKey THEN <<>> ELSE <<env[i]>>]
<1>1. n \in Nat /\ \A i \in 1..n : env[i] \in Entries
  OBVIOUS
<1>2. ASSUME NEW i \in 1..n PROVE S[i] \in Seq(E)
  <2>1. CASE env[i].key = IdKey
    BY <2>1
  <2>2. CASE env[i].key # IdKey
    <3>1. env[i] \in E
      BY <1>1, <2>2
    <3>2. S[i] = <<env[i]>>
      BY <2>2
    <3> HIDE DEF E, S
    <3>3. QED
      BY <3>1, <3>2
  <2>3. QED
    BY <2>1, <2>2
<1>3. S \in Seq(Seq(E)) /\ Len(S) = n
  <2> HIDE DEF E
  <2>1. QED
    BY <1>1, <1>2
<1>4. Without(env, IdKey) = FlattenSeq(S)
  BY DEF Without
<1> HIDE DEF S, n, E
<1>5. FlattenSeq(S) \in Seq(E)
  BY <1>1, <1>3, FlattenType, Zenon
<1> DEFINE w == Without(env, IdKey)
<1>6. w \in Seq(E)
  BY <1>4, <1>5
<1> HIDE DEF w
<1>7. w \in Seq(Entries)
  <2>1. E \subseteq Entries
    BY DEF E
  <2>2. QED
    BY <1>6, <2>1
<1>8. ASSUME NEW i \in 1..Len(w) PROVE w[i].key # IdKey
  <2>1. w[i] \in E
    BY <1>6
  <2>2. QED
    BY <2>1 DEF E
<1>9. QED
  BY <1>7, <1>8 DEF Has, w

-----------------------------------------------------------------------------
(* The invariant.                                                          *)

\* Every variable holds a value of its kind, and what the proxy runs is the
\* program.
Kinds ==
  /\ stage \in {"command", "proxy", "run", "free", "failed"}
  /\ lastId \in 1..MaxId /\ (stage = "proxy" => lastId < MaxId)
  /\ command \in [id : 1..MaxId, args : Words, env : Seq(Entries)]
  /\ command.args # <<>>
  /\ proxy \in [parent : Value, args : Words, env : Seq(Entries)]
  /\ proxy.args # <<>> /\ Head(proxy.args) = Program
  /\ asked.application \in {None, Program} /\ Intended \in Words

\* A command's environment says its id, and the proxy was told of it.
Named ==
  /\ Once(command.env) /\ Once(proxy.env)
  /\ Has(command.env, IdKey) => Get(command.env, IdKey) = command.id
  /\ stage \in {"proxy", "run"} /\ Has(command.env, IdKey) =>
       proxy.parent = command.id

Apart(application) == IF application = None THEN <<>> ELSE <<application>>

\* The proxy has the arguments of the call, the command those that are kept.
Passed ==
  /\ stage \in {"proxy", "run"} => proxy.args = Apart(asked.application) \o Intended
  /\ stage = "command" /\ command.id > 1 =>
       command.args = Apart(asked.application) \o Kept(Intended)

IInv == Kinds /\ Named /\ Passed

LEMMA CommandFields ==
  ASSUME NEW c \in [id : 1..MaxId, args : Words, env : Seq(Entries)]
  PROVE  /\ c.id \in 1..MaxId /\ c.args \in Words /\ c.env \in Seq(Entries)
         /\ \A e \in Seq(Entries) :
              /\ [c EXCEPT !.env = e] \in [id : 1..MaxId, args : Words, env : Seq(Entries)]
              /\ [c EXCEPT !.env = e].id = c.id
              /\ [c EXCEPT !.env = e].args = c.args
              /\ [c EXCEPT !.env = e].env = e
OBVIOUS

\* A line begins with its first argument.
LEMMA FirstOfMany ==
  ASSUME NEW x \in Seq(Chars), NEW tail \in Words
  PROVE  /\ <<x>> \o tail \in Words /\ <<x>> \o tail # <<>> /\ Head(<<x>> \o tail) = x
BY DEF Words

LEMMA FirstAndTail ==
  ASSUME NEW args \in Words, args # <<>>
  PROVE  Tail(args) \in Words /\ args = <<Head(args)>> \o Tail(args)
BY DEF Words

LEMMA InitHolds ==
  ASSUME Init
  PROVE  IInv
<1> DEFINE e == Entry(IdKey, 1)
           env == <<e>>
<1>1. 1 \in 1..MaxId /\ 1 \in Value /\ 0 \in Value
  BY MaxIdAssumption DEF Value
<1>2. e \in Entries /\ e.key = IdKey /\ e.value = 1
  BY <1>1, EntryType DEF Entry
<1>3. /\ stage = "command" /\ lastId = 1
      /\ command = [id |-> 1, args |-> <<Program>>, env |-> env]
      /\ proxy = [parent |-> 0, args |-> <<Program>>, env |-> <<>>]
      /\ asked = NoCall
  BY DEF Init
<1> HIDE DEF e
<1>4. <<Program>> \in Words /\ <<Program>> # <<>> /\ Head(<<Program>>) = Program
  BY NameAlone
<1>5. env \in Seq(Entries) /\ Len(env) = 1 /\ env[1] = e
  BY <1>2
<1> HIDE DEF env
<1>6. Once(env)
  BY <1>5 DEF Once
<1>7. Says(env, 1)
  <2>1. 1 \in 1..Len(env) /\ env[1].key = IdKey /\ env[1].value = 1
    BY <1>2, <1>5
  <2>2. QED
    BY <1>6, <2>1, Found
<1>8. Intended \in Words
  <2>1. asked.line = Program
    BY <1>3 DEF NoCall
  <2>2. Program \in Seq(Chars)
    BY ProgramIsPlain
  <2>3. Split(Program) \in Words
    BY <2>2, NamedLine
  <2>4. QED
    BY <2>1, <2>3 DEF Intended
<1>9. Kinds
  <2>1. command \in [id : 1..MaxId, args : Words, env : Seq(Entries)] /\ command.args # <<>>
    BY <1>1, <1>3, <1>4, <1>5
  <2>2. <<>> \in Seq(Entries)
    OBVIOUS
  <2>3. /\ proxy \in [parent : Value, args : Words, env : Seq(Entries)]
        /\ proxy.args # <<>> /\ Head(proxy.args) = Program
    BY <1>1, <1>3, <1>4, <2>2
  <2>4. asked.application \in {None, Program}
    BY <1>3 DEF NoCall
  <2>5. QED
    BY <1>1, <1>3, <1>8, <2>1, <2>3, <2>4 DEF Kinds
<1>10. Named
  <2>1. command.env = env /\ command.id = 1 /\ proxy.env = <<>>
    BY <1>3
  <2>2. Once(<<>>)
    BY DEF Once
  <2>3. QED
    BY <1>3, <1>6, <1>7, <2>1, <2>2 DEF Named, Says
<1>11. Passed
  BY <1>3 DEF Passed
<1>12. QED
  BY <1>9, <1>10, <1>11 DEF IInv

\* What fix_env_block makes is an environment of its kind.
LEMMA FixedType ==
  ASSUME command.env \in Seq(Entries), Once(command.env),
         NEW block \in Blocks \cup {None}, NEW v \in Value
  PROVE  Fixed(block, v) \in Seq(Entries) /\ Once(Fixed(block, v))
<1>1. CASE block = None
  BY <1>1 DEF Fixed
<1>2. CASE block # None /\ Has(block, IdKey)
  <2>1. Fixed(block, v) = block
    BY <1>2 DEF Fixed
  <2>2. QED
    BY <1>2, <2>1, BlockType
<1>3. CASE block # None /\ ~Has(block, IdKey)
  <2>1. Fixed(block, v) = Append(block, Entry(IdKey, v))
    BY <1>3 DEF Fixed
  <2>2. block \in Seq(Entries)
    BY <1>3, BlockType
  <2>3. QED
    BY <1>3, <2>1, <2>2, Added
<1>4. QED
  BY <1>1, <1>2, <1>3

\* An id that a command finds is its own, if its environment says it.
LEMMA IdsType ==
  ASSUME NEW env \in Seq(Entries), NEW v \in Ids(env)
  PROVE  v \in Value /\ (Has(env, IdKey) => v = Get(env, IdKey))
<1>1. CASE Has(env, IdKey)
  BY <1>1, GetType DEF Ids
<1>2. CASE ~Has(env, IdKey)
  BY <1>2 DEF Ids, Value
<1>3. QED
  BY <1>1, <1>2

\* A call: the proxy gets the arguments of the line.
LEMMA DetourHolds ==
  ASSUME IInv, NEW application \in {None, Program}, NEW rest \in Lines[lastId],
         NEW block \in Blocks \cup {None},
         Detour(application, (Program \o <<Blank>>) \o rest, block)
  PROVE  IInv'
<1> DEFINE line == (Program \o <<Blank>>) \o rest
           kind == [parent : Value, args : Words, env : Seq(Entries)]
<1>1. /\ stage = "command" /\ stage' = "proxy" /\ command' = command /\ lastId' = lastId
      /\ lastId < MaxId /\ lastId \in 1..MaxId
      /\ asked' = [application |-> application, line |-> line, block |-> block]
  BY DEF Detour, IInv, Kinds
<1>2. PICK id \in Ids(command.env), other \in Ids(command.env) :
        proxy' = [parent |-> id, args |-> Split(Concat(application, line)),
                  env |-> Fixed(block, other)]
  BY DEF Detour
<1>3. rest \in Seq(Chars)
  BY <1>1, LinesAssumption
<1>4. /\ command.env \in Seq(Entries) /\ Once(command.env)
      /\ (Has(command.env, IdKey) => Get(command.env, IdKey) = command.id)
  BY CommandFields DEF IInv, Kinds, Named
<1>5. line \in Seq(Chars) /\ Split(line) = <<Program>> \o Split(rest) /\ Split(rest) \in Words
  BY <1>3, NamedLine
<1>6. Program \in Seq(Chars) /\ Program # None
  BY ProgramIsPlain, ProgramAssumption
<1> HIDE DEF line
<1>7. Split(line) \in Words /\ Split(line) # <<>> /\ Head(Split(line)) = Program
  BY <1>5, <1>6, FirstOfMany
<1>8. /\ Split(Concat(application, line)) = Apart(application) \o Split(line)
      /\ Split(Concat(application, line)) \in Words
      /\ Split(Concat(application, line)) # <<>>
      /\ Head(Split(Concat(application, line))) = Program
  <2>1. CASE application = None
    <3>1. Concat(application, line) = line
      BY <2>1 DEF Concat
    <3>2. <<>> \o Split(line) = Split(line)
      BY <1>7, ConcatEmptySeq DEF Words
    <3>3. Apart(application) = <<>>
      BY <2>1 DEF Apart
    <3>4. QED
      BY <1>7, <3>1, <3>2, <3>3
  <2>2. CASE application = Program
    <3>1. Split(Concat(Program, line)) = <<Program>> \o Split(line)
      BY <1>5, ApplicationLine
    <3>2. Apart(application) = <<Program>>
      BY <1>6, <2>2 DEF Apart
    <3>3. /\ <<Program>> \o Split(line) \in Words
          /\ <<Program>> \o Split(line) # <<>>
          /\ Head(<<Program>> \o Split(line)) = Program
      BY <1>6, <1>7, FirstOfMany
    <3>4. QED
      BY <2>2, <3>1, <3>2, <3>3
  <2>3. QED
    BY <2>1, <2>2
<1>9. /\ id \in Value /\ other \in Value
      /\ (Has(command.env, IdKey) => id = command.id)
  BY <1>4, IdsType
<1>10. Fixed(block, other) \in Seq(Entries) /\ Once(Fixed(block, other))
  BY <1>4, <1>9, FixedType
<1>11. asked.application' = application /\ asked.line' = line
  BY <1>1
<1>12. /\ proxy.parent' = id /\ proxy.env' = Fixed(block, other)
       /\ proxy.args' = Split(Concat(application, line))
  BY <1>2
<1>13. proxy' \in kind
  BY <1>2, <1>8, <1>9, <1>10
<1>14. Intended' = Split(line)
  BY <1>11 DEF Intended
<1>15. Kinds'
  BY <1>1, <1>7, <1>8, <1>11, <1>12, <1>13, <1>14 DEF IInv, Kinds
<1>16. Named'
  BY <1>1, <1>4, <1>9, <1>10, <1>12 DEF Named
<1>17. Passed'
  BY <1>1, <1>8, <1>11, <1>12, <1>14 DEF Passed
<1>18. QED
  BY <1>15, <1>16, <1>17 DEF IInv

\* A command without the variable.
LEMMA ClearsHolds ==
  ASSUME IInv, Clears
  PROVE  IInv'
<1> DEFINE e == Without(command.env, IdKey)
<1>1. /\ stage = "command" /\ stage' = stage /\ asked' = asked /\ proxy' = proxy
      /\ lastId' = lastId /\ command' = [command EXCEPT !.env = e]
  BY DEF Clears
<1>2. command \in [id : 1..MaxId, args : Words, env : Seq(Entries)]
  BY DEF IInv, Kinds
<1>3. e \in Seq(Entries) /\ ~Has(e, IdKey)
  BY <1>2, CommandFields, WithoutType
<1> HIDE DEF e
<1>4. /\ command' \in [id : 1..MaxId, args : Words, env : Seq(Entries)]
      /\ command.id' = command.id /\ command.args' = command.args /\ command.env' = e
  BY <1>1, <1>2, <1>3, CommandFields
<1>5. Once(e)
  BY <1>3 DEF Once, Has
<1>6. Intended' = Intended
  BY <1>1 DEF Intended
<1>7. Kinds'
  BY <1>1, <1>4, <1>6 DEF IInv, Kinds
<1>8. Named'
  BY <1>1, <1>3, <1>4, <1>5 DEF IInv, Named
<1>9. Passed'
  BY <1>1, <1>4, <1>6 DEF IInv, Passed
<1>10. QED
  BY <1>7, <1>8, <1>9 DEF IInv

\* The program starts with what the proxy has quoted for it.
LEMMA RunHolds ==
  ASSUME IInv, Run
  PROVE  IInv'
<1> DEFINE args == Split(CmdlineOf(proxy.args))
           env == Block(proxy.env, lastId)
<1>1. /\ stage = "run" /\ stage' = "command" /\ asked' = asked /\ proxy' = proxy
      /\ lastId' = lastId
      /\ command' = [id |-> lastId, args |-> args, env |-> env]
  BY DEF Run
<1>2. /\ proxy.args \in Words /\ proxy.args # <<>> /\ Head(proxy.args) = Program
      /\ proxy.env \in Seq(Entries) /\ Once(proxy.env) /\ lastId \in 1..MaxId
      /\ proxy.args = Apart(asked.application) \o Intended
      /\ Intended \in Words /\ asked.application \in {None, Program}
  BY <1>1 DEF IInv, Kinds, Named, Passed
<1>3. lastId \in Value
  BY <1>2, MaxIdAssumption DEF Value
<1>4. env \in Seq(Entries) /\ Once(env) /\ Says(env, lastId)
  BY <1>2, <1>3, SetType DEF Block
<1>5. args = Kept(proxy.args)
  BY <1>2, RoundTrip
<1>6. Program \in Seq(Chars) /\ Program # <<>>
  BY ProgramIsPlain
<1>7. args \in Words /\ args # <<>>
  <2>1. Tail(proxy.args) \in Words /\ proxy.args = <<Program>> \o Tail(proxy.args)
    BY <1>2, FirstAndTail
  <2>2. Kept(<<Program>> \o Tail(proxy.args)) = <<Program>> \o Kept(Tail(proxy.args))
    BY <1>6, <2>1, KeptFirst
  <2>3. Kept(Tail(proxy.args)) \in Words
    BY <2>1, KeptType
  <2>4. /\ <<Program>> \o Kept(Tail(proxy.args)) \in Words
        /\ <<Program>> \o Kept(Tail(proxy.args)) # <<>>
    BY <1>6, <2>3, FirstOfMany
  <2>5. args = <<Program>> \o Kept(Tail(proxy.args))
    BY <1>5, <2>1, <2>2
  <2> HIDE DEF args
  <2>6. QED
    BY <2>4, <2>5
<1>8. args = Apart(asked.application) \o Kept(Intended)
  <2>1. CASE asked.application = None
    <3>1. Apart(asked.application) = <<>>
      BY <2>1 DEF Apart
    <3>2. <<>> \o Intended = Intended
      BY <1>2, ConcatEmptySeq DEF Words
    <3>3. <<>> \o Kept(Intended) = Kept(Intended)
      BY <1>2, KeptType, ConcatEmptySeq DEF Words
    <3> HIDE DEF args
    <3>4. QED
      BY <1>2, <1>5, <3>1, <3>2, <3>3
  <2>2. CASE asked.application = Program
    <3>1. Apart(asked.application) = <<Program>>
      BY <2>2, ProgramAssumption DEF Apart
    <3>2. Kept(<<Program>> \o Intended) = <<Program>> \o Kept(Intended)
      BY <1>2, <1>6, KeptFirst
    <3> HIDE DEF args
    <3>3. QED
      BY <1>2, <1>5, <3>1, <3>2
  <2>3. QED
    BY <1>2, <2>1, <2>2
<1> HIDE DEF args, env
<1>9. /\ command' \in [id : 1..MaxId, args : Words, env : Seq(Entries)]
      /\ command.id' = lastId /\ command.args' = args /\ command.env' = env
  BY <1>1, <1>2, <1>4, <1>7
<1>10. Intended' = Intended
  BY <1>1 DEF Intended
<1>11. Kinds'
  BY <1>1, <1>7, <1>9, <1>10 DEF IInv, Kinds
<1>12. Named'
  BY <1>1, <1>2, <1>4, <1>9 DEF Named, Says
<1>13. Passed'
  BY <1>1, <1>8, <1>9, <1>10 DEF Passed
<1>14. QED
  BY <1>11, <1>12, <1>13 DEF IInv

\* The other steps change the stage, and the last id.
LEMMA OthersHold ==
  ASSUME IInv, DetourAsUser \/ Unnamed \/ Created \/ RunFails \/ UNCHANGED vars
  PROVE  IInv'
<1>1. /\ command' = command /\ asked' = asked /\ proxy' = proxy
      /\ Intended' = Intended
  BY DEF DetourAsUser, Unnamed, Created, RunFails, vars, Intended
<1>2. /\ stage' \in {"command", "proxy", "run", "free", "failed"}
      /\ lastId' \in 1..MaxId /\ (stage' = "proxy" => lastId' < MaxId)
      /\ (stage' = "command" => stage = "command")
      /\ (stage' \in {"proxy", "run"} => stage \in {"proxy", "run"})
  <2>1. /\ lastId \in 1..MaxId /\ (stage = "proxy" => lastId < MaxId)
        /\ stage \in {"command", "proxy", "run", "free", "failed"}
    BY DEF IInv, Kinds
  <2>2. CASE DetourAsUser
    BY <2>1, <2>2 DEF DetourAsUser
  <2>3. CASE Unnamed
    BY <2>1, <2>3 DEF Unnamed
  <2>4. CASE Created
    BY <2>1, <2>4, MaxIdAssumption DEF Created
  <2>5. CASE RunFails
    BY <2>1, <2>5 DEF RunFails
  <2>6. CASE UNCHANGED vars
    BY <2>1, <2>6 DEF vars
  <2>7. QED
    BY <2>2, <2>3, <2>4, <2>5, <2>6
<1>3. Kinds'
  BY <1>1, <1>2 DEF IInv, Kinds
<1>4. Named'
  BY <1>1, <1>2 DEF IInv, Named
<1>5. Passed'
  BY <1>1, <1>2 DEF IInv, Passed
<1>6. QED
  BY <1>3, <1>4, <1>5 DEF IInv

\* The invariant holds in every state, for every number of commands, every
\* line they may pass and every environment.
THEOREM HookCorrect == Spec => []IInv
<1>1. Init => IInv
  BY InitHolds
<1>2. IInv /\ [Next]_vars => IInv'
  <2>1. SUFFICES ASSUME IInv, [Next]_vars PROVE IInv'
    OBVIOUS
  <2>2. CASE \E application \in {None, Program}, rest \in Lines[lastId],
               block \in Blocks \cup {None} :
               Detour(application, (Program \o <<Blank>>) \o rest, block)
    BY <2>1, <2>2, DetourHolds
  <2>3. CASE Clears
    BY <2>1, <2>3, ClearsHolds
  <2>4. CASE Run
    BY <2>1, <2>4, RunHolds
  <2>5. CASE DetourAsUser \/ Unnamed \/ Created \/ RunFails \/ UNCHANGED vars
    BY <2>1, <2>5, OthersHold
  <2>6. QED
    BY <2>1, <2>2, <2>3, <2>4, <2>5 DEF Next
<1>3. QED
  BY <1>1, <1>2, PTL DEF Spec

\* Every variable holds a value of its kind, and the proxy is always told of a
\* program to run.
THEOREM TypeCorrect == Spec => []TypeOK
<1>1. IInv => TypeOK
  BY DEF IInv, Kinds, TypeOK, Value
<1>2. QED
  BY <1>1, HookCorrect, PTL

\* A command caught on its way arrives with the arguments of the call, but for
\* empty ones (CreateProcess, cmdline_of and the splitting of its result).
THEOREM EveryArgumentArrives == Spec => []ArgumentsArrive
<1>1. IInv => ArgumentsArrive
  BY DEF IInv, Passed, ArgumentsArrive, Apart
<1>2. QED
  BY <1>1, HookCorrect, PTL

\* The server is told of the command that made the call.
THEOREM TheCallerIsNamed == Spec => []CallerIsNamed
<1>1. IInv => CallerIsNamed
  <2>1. SUFFICES ASSUME IInv, Has(command.env, IdKey)
                 PROVE  Cardinality({i \in 1..Len(command.env) : command.env[i].key = IdKey}) = 1
    BY DEF IInv, Named, CallerIsNamed
  <2> DEFINE S == {i \in 1..Len(command.env) : command.env[i].key = IdKey}
  <2>2. PICK k \in 1..Len(command.env) : command.env[k].key = IdKey
    BY <2>1 DEF Has
  <2>3. S = {k}
    BY <2>1, <2>2 DEF IInv, Named, Once
  <2> HIDE DEF S
  <2>4. Cardinality(S) = 1
    BY <2>3, FS_Singleton
  <2>5. QED
    BY <2>4 DEF S
<1>2. QED
  BY <1>1, HookCorrect, PTL
=============================================================================
