--------------------------- MODULE OptParserProofs ---------------------------
(***************************************************************************)
(* Proofs about OptParser, for every table and every argument vector.      *)
(***************************************************************************)
EXTENDS OptParser, SequenceLemmas, FiniteSetTheorems

-----------------------------------------------------------------------------
(* Texts and tables.                                                       *)

\* What is left when the first n elements are dropped.
LEMMA DropIs ==
  ASSUME NEW E, NEW s \in Seq(E), NEW n \in Nat
  PROVE  /\ Drop(s, n) \in Seq(E)
         /\ Len(Drop(s, n)) = IF n <= Len(s) THEN Len(s) - n ELSE 0
         /\ \A i \in 1 .. Len(s) - n : Drop(s, n)[i] = s[n + i]
BY DEF Drop

\* The first n elements.
LEMMA TakeIs ==
  ASSUME NEW E, NEW s \in Seq(E), NEW n \in 0 .. Len(s)
  PROVE  /\ Take(s, n) \in Seq(E) /\ Len(Take(s, n)) = n
         /\ \A i \in 1 .. n : Take(s, n)[i] = s[i]
BY DEF Take

\* A prefix is what the elements begin with.
LEMMA PrefixIs ==
  ASSUME NEW E, NEW s \in Seq(E), NEW q \in Seq(E)
  PROVE  IsPrefix(q, s) <=> Len(q) <= Len(s) /\ \A i \in 1 .. Len(q) : q[i] = s[i]
BY DEF IsPrefix

\* The fields of an option.
LEMMA InfoIs ==
  ASSUME NEW o \in Info
  PROVE  /\ o.prefixes \in Seq(Text) /\ o.prefixed \in Text /\ o.kind \in Special \union Kinds
         /\ o.alias \in Nat /\ o.aliasArgs \in Seq(Text) /\ o.param \in Nat
         /\ Name(o) \in Text
<1>1. /\ o.prefixes \in Seq(Text) /\ o.prefixed \in Text /\ o.kind \in Special \union Kinds
      /\ o.alias \in Nat /\ o.aliasArgs \in Seq(Text) /\ o.param \in Nat
  BY DEF Info
<1>2. o.prefixes # <<>> => Len(o.prefixes[1]) \in Nat
  BY <1>1 DEF Text
<1>3. Name(o) \in Text
  BY <1>1, <1>2, DropIs DEF Name, Text
<1> QED
  BY <1>1, <1>3

\* The size of a match is that of the first prefix that matches, with the name.
LEMMA MatchIs ==
  ASSUME NEW o \in Info, NEW s \in Text
  PROVE  /\ MatchSize(o, s) \in 0 .. Len(s)
         /\ MatchSize(o, s) # 0 =>
              \E j \in DOMAIN o.prefixes :
                /\ Matches(o, s, o.prefixes[j])
                /\ \A i \in DOMAIN o.prefixes : Matches(o, s, o.prefixes[i]) => j <= i
                /\ MatchSize(o, s) = Len(o.prefixes[j]) + Len(Name(o))
<1> DEFINE hits == {j \in DOMAIN o.prefixes : Matches(o, s, o.prefixes[j])}
<1>1. CASE hits = {}
  <2>1. MatchSize(o, s) = 0
    BY <1>1 DEF MatchSize
  <2> QED
    BY <2>1 DEF Text
<1>2. CASE hits # {}
  <2> DEFINE m == Min(hits)
  <2>1. hits \in SUBSET Nat
    BY InfoIs
  <2>2. m \in hits /\ \A j \in hits : m <= j
    <3> HIDE DEF hits
    <3> QED
      BY <1>2, <2>1, MinIs
  <2>3. MatchSize(o, s) = Len(o.prefixes[m]) + Len(Name(o))
    BY <1>2 DEF MatchSize
  <2> HIDE DEF m
  <2>4. o.prefixes[m] \in Text
    BY <2>2, InfoIs
  <2>5. Len(o.prefixes[m]) + Len(Name(o)) <= Len(s)
    BY <2>2 DEF Matches
  <2> QED
    BY <2>2, <2>3, <2>4, <2>5, InfoIs DEF Text
<1> QED
  BY <1>1, <1>2

\* The table of a parser, its special options and those that are searched.
LEMMA TableIs ==
  ASSUME NEW n \in DOMAIN Parsers
  PROVE  LET q == Parsers[n]
             table == q.table
             b == Built[n]
         IN  /\ table \in Seq(Info) /\ q.grouped \in BOOLEAN /\ q.tablegen \in BOOLEAN
             /\ q.dashDash \in BOOLEAN /\ q.pack \in BOOLEAN
             /\ b.first \in 1 .. Len(table) + 1
             /\ b.input \in 1 .. b.first - 1 /\ b.unknown \in 1 .. b.first - 1
             /\ table[b.input].kind = "input" /\ table[b.unknown].kind = "unknown"
             /\ b.prefixes = UNION {ToSet(table[k].prefixes) : k \in b.first .. Len(table)}
             /\ \A k \in b.first .. Len(table) : table[k] \in Info /\ table[k].kind \in Kinds
<1> DEFINE q == Parsers[n]
           table == q.table
           searched == {k \in DOMAIN table : table[k].kind \notin Special} \union {Len(table) + 1}
           first == Min(searched)
           IdSet(kind) == {k \in 1 .. first - 1 : table[k].kind = kind} \union {Len(table) + 1}
<1>1. /\ table \in Seq(Info) /\ q.grouped \in BOOLEAN /\ q.tablegen \in BOOLEAN
      /\ q.dashDash \in BOOLEAN /\ q.pack \in BOOLEAN
  BY InputsAssumption DEF Parser
<1>2. Built[n].first = first /\ Built[n].input = Min(IdSet("input"))
      /\ Built[n].unknown = Min(IdSet("unknown"))
      /\ Built[n].prefixes = UNION {ToSet(table[k].prefixes) : k \in first .. Len(table)}
  BY DEF Built
<1>3. searched \in SUBSET (1 .. Len(table) + 1) /\ searched # {}
  <2>1. Len(table) \in Nat /\ DOMAIN table = 1 .. Len(table)
    BY <1>1
  <2> HIDE DEF table
  <2> QED
    BY <2>1
<1>4. first \in 1 .. Len(table) + 1
  <2>1. searched \in SUBSET Nat
    BY <1>1, <1>3
  <2>2. first \in searched
    <3> HIDE DEF searched
    <3> QED
      BY <1>3, <2>1, MinIs
  <2> QED
    BY <1>3, <2>2
<1> HIDE DEF first
<1>5. ASSUME NEW kind \in {"input", "unknown"}
      PROVE  Min(IdSet(kind)) \in 1 .. first - 1 /\ table[Min(IdSet(kind))].kind = kind
  <2>1. IdSet(kind) \in SUBSET Nat /\ IdSet(kind) # {}
    BY <1>1, <1>4
  <2>2. Min(IdSet(kind)) \in IdSet(kind) /\ \A x \in IdSet(kind) : Min(IdSet(kind)) <= x
    <3> HIDE DEF IdSet
    <3> QED
      BY <2>1, MinIs
  <2>3. PICK k \in 1 .. first - 1 : table[k].kind = kind
    BY <1>2, TablesAssumption
  <2>4. Min(IdSet(kind)) <= k
    BY <2>2, <2>3
  <2> DEFINE m == Min(IdSet(kind))
  <2> HIDE DEF m
  <2>5. m \in {j \in 1 .. first - 1 : table[j].kind = kind} \union {Len(table) + 1} /\ m <= k
    BY <2>2, <2>4 DEF m
  <2>6. Len(table) + 1 > k
    BY <1>1, <1>4, <2>3
  <2> QED
    BY <2>5, <2>6, <1>1, <1>4 DEF m
<1>6. \A k \in first .. Len(table) : table[k] \in Info /\ table[k].kind \in Kinds
  BY <1>1, <1>2, <1>4, TablesAssumption
<1> QED
  BY <1>1, <1>2, <1>4, <1>5, <1>6

\* The same of the parser at work, and of its arguments.
LEMMA StateIs ==
  ASSUME TypeOK
  PROVE  /\ t \in Seq(Info) /\ Len(t) \in Nat /\ p.grouped \in BOOLEAN /\ p.tablegen \in BOOLEAN
         /\ p.dashDash \in BOOLEAN /\ p.pack \in BOOLEAN
         /\ First \in 1 .. Len(t) + 1
         /\ InputId \in 1 .. First - 1 /\ UnknownId \in 1 .. First - 1 /\ InputId # UnknownId
         /\ \A k \in Searchable : k \in DOMAIN t /\ t[k] \in Info /\ t[k].kind \in Kinds
         /\ t[InputId].kind = "input" /\ t[UnknownId].kind = "unknown"
         /\ Len(argv) \in Nat /\ Len(argv) = Len(input.argv)
         /\ \A i \in 1 .. Len(argv) : argv[i] \in Text /\ input.argv[i] \in Text
<1> DEFINE n == input.parser
<1>1. n \in DOMAIN Parsers /\ input.argv \in Seq(Text)
  BY DEF TypeOK
<1>2. p = Parsers[n] /\ t = Parsers[n].table /\ First = Built[n].first
      /\ InputId = Built[n].input /\ UnknownId = Built[n].unknown
      /\ Searchable = Built[n].first .. Len(t)
  BY DEF p, t, First, InputId, UnknownId, Searchable
<1> HIDE DEF n
<1>3. /\ t \in Seq(Info) /\ p.grouped \in BOOLEAN /\ p.tablegen \in BOOLEAN
      /\ p.dashDash \in BOOLEAN /\ p.pack \in BOOLEAN
      /\ First \in 1 .. Len(t) + 1
      /\ InputId \in 1 .. First - 1 /\ UnknownId \in 1 .. First - 1
      /\ t[InputId].kind = "input" /\ t[UnknownId].kind = "unknown"
      /\ \A k \in Searchable : t[k] \in Info /\ t[k].kind \in Kinds
  BY <1>1, <1>2, TableIs
<1>4. InputId # UnknownId
  BY <1>3
<1>5. \A k \in Searchable : k \in DOMAIN t
  BY <1>3 DEF Searchable
<1> QED
  BY <1>1, <1>3, <1>4, <1>5 DEF TypeOK

-----------------------------------------------------------------------------
(* Option::accept.                                                         *)

\* What the remaining arguments are: up to the end or an empty one.
LEMMA RestEndIs ==
  ASSUME NEW a \in Seq(Text), NEW i \in 1 .. Len(a)
  PROVE  /\ RestEnd(a, i) \in i + 1 .. Len(a) + 1
         /\ \A j \in i + 1 .. RestEnd(a, i) - 1 : a[j] # <<>>
<1> DEFINE ends == {j \in i + 1 .. Len(a) : a[j] = <<>>} \union {Len(a) + 1}
           m == Min(ends)
<1>1. Len(a) \in Nat
  OBVIOUS
<1>2. ends \in SUBSET (i + 1 .. Len(a) + 1) /\ ends # {}
  BY <1>1
<1>3. m \in ends /\ \A j \in ends : m <= j
  <2>1. ends \in SUBSET Nat
    BY <1>1, <1>2
  <2> HIDE DEF ends
  <2> QED
    BY <1>2, <2>1, MinIs
<1>4. RestEnd(a, i) = m
  BY DEF RestEnd
<1> HIDE DEF m
<1>5. m \in i + 1 .. Len(a) + 1
  BY <1>2, <1>3
<1>6. ASSUME NEW j \in i + 1 .. m - 1
      PROVE  a[j] # <<>>
  <2>1. j \in i + 1 .. Len(a) /\ j < m
    BY <1>1, <1>5
  <2> QED
    BY <1>3, <2>1
<1> QED
  BY <1>4, <1>5, <1>6

\* Where each class resumes.
LEMMA ResumeFor ==
  ASSUME NEW a, NEW o, NEW i, NEW n, o.kind \in Kinds
  PROVE  /\ o.kind = "flag" => Resume(a, o, i, n) = IF Exact(a, i, n) THEN i + 1 ELSE i
         /\ o.kind = "separate" => Resume(a, o, i, n) = IF Exact(a, i, n) THEN i + 2 ELSE i
         /\ o.kind = "multiArg" => Resume(a, o, i, n) = IF Exact(a, i, n) THEN i + 1 + o.param ELSE i
         /\ o.kind = "remainingArgs" => Resume(a, o, i, n) = IF Exact(a, i, n) THEN RestEnd(a, i) ELSE i
         /\ o.kind = "joined" => Resume(a, o, i, n) = i + 1
         /\ o.kind = "commaJoined" => Resume(a, o, i, n) = i + 1
         /\ o.kind = "joinedOrSeparate" => Resume(a, o, i, n) = IF Exact(a, i, n) THEN i + 2 ELSE i + 1
         /\ o.kind = "joinedAndSeparate" => Resume(a, o, i, n) = i + 2
         /\ o.kind = "remainingArgsJoined" => Resume(a, o, i, n) = RestEnd(a, i)
BY DEF Resume, TakesJoined

\* What each class accepts.
LEMMA AcceptsFor ==
  ASSUME NEW a, NEW o, NEW i, NEW n, o.kind \in Kinds
  PROVE  /\ o.kind = "flag" => (Accepts(a, o, i, n) <=> Exact(a, i, n))
         /\ o.kind = "separate" => (Accepts(a, o, i, n) <=> Exact(a, i, n) /\ Given(a, i + 1))
         /\ o.kind = "multiArg" => (Accepts(a, o, i, n) <=> Exact(a, i, n) /\ i + o.param <= Len(a))
         /\ o.kind = "remainingArgs" => (Accepts(a, o, i, n) <=> Exact(a, i, n))
         /\ o.kind \in {"joined", "commaJoined", "remainingArgsJoined"} => Accepts(a, o, i, n)
         /\ o.kind = "joinedOrSeparate" => (Accepts(a, o, i, n) <=> ~Exact(a, i, n) \/ Given(a, i + 1))
         /\ o.kind = "joinedAndSeparate" => (Accepts(a, o, i, n) <=> Given(a, i + 1))
BY DEF Accepts, Exact, Given

\* Parsing resumes behind what was accepted, and within the arguments.
LEMMA ResumeIs ==
  ASSUME NEW a \in Seq(Text), NEW i \in 1 .. Len(a), NEW o \in Info, o.kind \in Kinds,
         NEW n \in 0 .. Len(a[i])
  PROVE  /\ Resume(a, o, i, n) \in Nat /\ Resume(a, o, i, n) >= i
         /\ Accepts(a, o, i, n) => Resume(a, o, i, n) \in i + 1 .. Len(a) + 1
<1>1. Len(a) \in Nat /\ o.param \in Nat
  BY InfoIs
<1>2. RestEnd(a, i) \in i + 1 .. Len(a) + 1
  BY RestEndIs
<1>3. o.kind \in {"joined", "commaJoined", "joinedOrSeparate", "joinedAndSeparate",
                  "remainingArgsJoined", "flag", "separate", "multiArg", "remainingArgs"}
  BY DEF Kinds, TakesJoined
<1>4. CASE o.kind = "flag"
  BY <1>4, <1>1, <1>2, ResumeFor, AcceptsFor DEF Given
<1>5. CASE o.kind = "separate"
  BY <1>5, <1>1, <1>2, ResumeFor, AcceptsFor DEF Given
<1>6. CASE o.kind = "multiArg"
  BY <1>6, <1>1, <1>2, ResumeFor, AcceptsFor DEF Given
<1>7. CASE o.kind = "remainingArgs"
  BY <1>7, <1>1, <1>2, ResumeFor, AcceptsFor DEF Given
<1>8. CASE o.kind = "joined"
  BY <1>8, <1>1, <1>2, ResumeFor, AcceptsFor DEF Given
<1>9. CASE o.kind = "commaJoined"
  BY <1>9, <1>1, <1>2, ResumeFor, AcceptsFor DEF Given
<1>10. CASE o.kind = "joinedOrSeparate"
  BY <1>10, <1>1, <1>2, ResumeFor, AcceptsFor DEF Given
<1>11. CASE o.kind = "joinedAndSeparate"
  BY <1>11, <1>1, <1>2, ResumeFor, AcceptsFor DEF Given
<1>12. CASE o.kind = "remainingArgsJoined"
  BY <1>12, <1>1, <1>2, ResumeFor, AcceptsFor DEF Given
<1> QED
  BY <1>3, <1>4, <1>5, <1>6, <1>7, <1>8, <1>9, <1>10, <1>11, <1>12

\* What is refused for good, and not for want of a value, is a text longer than
\* the option, by one that takes no joined value.
LEMMA RefusedIs ==
  ASSUME NEW a \in Seq(Text), NEW i \in 1 .. Len(a), NEW o \in Info, o.kind \in Kinds,
         NEW n \in 0 .. Len(a[i]),
         ~Accepts(a, o, i, n), Resume(a, o, i, n) = i
  PROVE  n < Len(a[i]) /\ o.kind \notin TakesJoined
<1>1. Len(a) \in Nat /\ o.param \in Nat /\ Len(a[i]) \in Nat
  BY InfoIs DEF Text
<1>2. RestEnd(a, i) \in i + 1 .. Len(a) + 1
  BY RestEndIs
<1>3. o.kind \in {"joined", "commaJoined", "joinedOrSeparate", "joinedAndSeparate",
                  "remainingArgsJoined", "flag", "separate", "multiArg", "remainingArgs"}
  BY DEF Kinds, TakesJoined
<1> QED
  BY <1>1, <1>2, <1>3, SMTT(30) DEF Resume, Accepts, Exact, TakesJoined

\* What is refused for want of a value lacks one.
LEMMA LackingIs ==
  ASSUME NEW a \in Seq(Text), NEW i \in 1 .. Len(a), NEW o \in Info, o.kind \in Kinds,
         NEW n \in 0 .. Len(a[i]),
         ~Accepts(a, o, i, n), Resume(a, o, i, n) # i
  PROVE  LET c == Resume(a, o, i, n) - i - 1
         IN  c > 0 /\ \E j \in i + 1 .. i + c : j > Len(a) \/ a[j] = <<>>
<1>1. Len(a) \in Nat /\ o.param \in Nat
  BY InfoIs
<1>2. RestEnd(a, i) \in i + 1 .. Len(a) + 1
  BY RestEndIs
<1>3. o.kind \in {"joined", "commaJoined", "joinedOrSeparate", "joinedAndSeparate",
                  "remainingArgsJoined", "flag", "separate", "multiArg", "remainingArgs"}
  BY DEF Kinds, TakesJoined
<1> DEFINE Short == Resume(a, o, i, n) = i + 2 /\ ~Given(a, i + 1)
           Few == Resume(a, o, i, n) = i + 1 + o.param /\ i + o.param > Len(a)
<1>4. o.kind = "flag" => Short \/ Few
  BY <1>1, ResumeFor, AcceptsFor DEF Exact
<1>5. o.kind = "separate" => Short \/ Few
  BY <1>1, ResumeFor, AcceptsFor DEF Exact
<1>6. o.kind = "multiArg" => Short \/ Few
  BY <1>1, ResumeFor, AcceptsFor DEF Exact
<1>7. o.kind = "remainingArgs" => Short \/ Few
  BY <1>1, ResumeFor, AcceptsFor DEF Exact
<1>8. o.kind = "joined" => Short \/ Few
  BY <1>1, ResumeFor, AcceptsFor DEF Exact
<1>9. o.kind = "commaJoined" => Short \/ Few
  BY <1>1, ResumeFor, AcceptsFor DEF Exact
<1>10. o.kind = "joinedOrSeparate" => Short \/ Few
  BY <1>1, ResumeFor, AcceptsFor DEF Exact
<1>11. o.kind = "joinedAndSeparate" => Short \/ Few
  BY <1>1, ResumeFor, AcceptsFor DEF Exact
<1>12. o.kind = "remainingArgsJoined" => Short \/ Few
  BY <1>1, ResumeFor, AcceptsFor DEF Exact
<1>13. Short \/ Few
  <2> HIDE DEF Short, Few
  <2> QED
    BY <1>3, <1>4, <1>5, <1>6, <1>7, <1>8, <1>9, <1>10, <1>11, <1>12
<1>14. CASE Short
  <2>1. Resume(a, o, i, n) - i - 1 = 1
    BY <1>14
  <2>2. i + 1 \in i + 1 .. i + 1 /\ (i + 1 > Len(a) \/ a[i + 1] = <<>>)
    BY <1>1, <1>14 DEF Given
  <2> QED
    BY <2>1, <2>2
<1>15. CASE Few
  <2>1. o.param > 0 /\ i + o.param \in i + 1 .. i + o.param
    BY <1>1, <1>15
  <2>2. Resume(a, o, i, n) - i - 1 = o.param
    BY <1>1, <1>15
  <2> QED
    BY <1>1, <1>15, <2>1, <2>2
<1> QED
  BY <1>13, <1>14, <1>15

\* The parts between separators are texts.
LEMMA PartsType ==
  ASSUME NEW s \in Text, NEW sep
  PROVE  Parts(s, sep) \in Seq(Text)
<1> DEFINE Begin(i) == Min({b \in 1 .. i : \A j \in b .. i : s[j] # sep})
           parts == [i \in 1 .. Len(s) |->
                       IF s[i] # sep /\ (i = Len(s) \/ s[i + 1] = sep)
                         THEN <<SubSeq(s, Begin(i), i)>> ELSE <<>>]
<1>1. ASSUME NEW i \in 1 .. Len(s)
      PROVE  parts[i] \in Seq(Text)
  <2>1. CASE s[i] # sep /\ (i = Len(s) \/ s[i + 1] = sep)
    <3> DEFINE B == {b \in 1 .. i : \A j \in b .. i : s[j] # sep}
    <3>1. i \in B /\ B \in SUBSET Nat
      <4>1. i \in 1 .. i /\ \A j \in i .. i : j = i
        OBVIOUS
      <4>2. \A j \in i .. i : s[j] # sep
        BY <2>1, <4>1
      <4>3. i \in B
        BY <4>1, <4>2, Zenon
      <4>4. B \subseteq 1 .. i
        OBVIOUS
      <4> HIDE DEF B
      <4> QED
        BY <4>3, <4>4
    <3>2. Min(B) \in B
      <4> HIDE DEF B
      <4> QED
        BY <3>1, MinIs
    <3>3. Begin(i) \in 1 .. i
      BY <3>2
    <3> HIDE DEF Begin
    <3>4. SubSeq(s, Begin(i), i) \in Text
      BY <3>3 DEF Text
    <3>5. parts[i] = <<SubSeq(s, Begin(i), i)>>
      BY <2>1
    <3> DEFINE x == SubSeq(s, Begin(i), i)
    <3> HIDE DEF x, parts
    <3>6. <<x>> \in Seq(Text)
      BY <3>4 DEF x
    <3> QED
      BY <3>5, <3>6 DEF x
  <2>2. CASE ~(s[i] # sep /\ (i = Len(s) \/ s[i + 1] = sep))
    <3>1. parts[i] = <<>>
      BY <2>2
    <3> HIDE DEF parts
    <3> QED
      BY <3>1
  <2> QED
    BY <2>1, <2>2
<1>2. Len(s) \in Nat
  BY DEF Text
<1>3. parts = [i \in 1 .. Len(s) |-> parts[i]]
  OBVIOUS
<1> HIDE DEF parts
<1>4. parts \in Seq(Seq(Text)) /\ Len(parts) = Len(s)
  BY <1>1, <1>2, <1>3
<1>5. FlattenSeq(parts) \in Seq(Text)
  BY <1>2, <1>4, FlattenType
<1> QED
  BY <1>5 DEF Parts, parts

\* The values of an option are texts.
LEMMA ValuesType ==
  ASSUME NEW a \in Seq(Text), NEW i \in 1 .. Len(a), NEW o \in Info, o.kind \in Kinds,
         NEW n \in 0 .. Len(a[i]), Accepts(a, o, i, n)
  PROVE  Values(a, o, i, n) \in Seq(Text)
<1> DEFINE joined == Drop(a[i], n)
           after == SubSeq(a, i + 1, Resume(a, o, i, n) - 1)
<1>1. Resume(a, o, i, n) \in i + 1 .. Len(a) + 1
  BY ResumeIs
<1>2. joined \in Text
  BY DropIs DEF Text
<1>3. after \in Seq(Text)
  BY <1>1
<1>4. Parts(joined, ",") \in Seq(Text)
  BY <1>2, PartsType
<1>5. Values(a, o, i, n) \in {<<>>, <<joined>>, Parts(joined, ","), <<joined>> \o after, after}
  BY DEF Values
<1> HIDE DEF joined, after
<1>6. <<>> \in Seq(Text) /\ <<joined>> \in Seq(Text)
  BY <1>2
<1>7. <<joined>> \o after \in Seq(Text)
  BY <1>3, <1>6, ConcatProperties
<1> QED
  BY <1>3, <1>4, <1>5, <1>6, <1>7

\* The results handed to the callback.
LEMMA PlainIs ==
  ASSUME NEW id \in Nat, NEW s \in Text, NEW vals \in Seq(Text), NEW i \in Nat
  PROVE  /\ Plain(id, s, vals, i) \in Result
         /\ Plain(id, s, vals, i).id = id /\ Plain(id, s, vals, i).spelling = s
         /\ Plain(id, s, vals, i).values = vals /\ Plain(id, s, vals, i).index = i
<1>1. <<>> \in Seq(Text)
  OBVIOUS
<1> QED
  BY <1>1 DEF Plain, Result

LEMMA PlainFields ==
  ASSUME NEW id, NEW s, NEW vals, NEW i
  PROVE  /\ Plain(id, s, vals, i).id = id /\ Plain(id, s, vals, i).spelling = s
         /\ Plain(id, s, vals, i).values = vals /\ Plain(id, s, vals, i).index = i
BY DEF Plain

LEMMA PlainEmptyIs ==
  ASSUME NEW id \in Nat, NEW s \in Text, NEW i \in Nat
  PROVE  /\ Plain(id, s, <<>>, i) \in Result /\ Plain(id, s, <<>>, i).id = id
         /\ Plain(id, s, <<>>, i).spelling = s /\ Plain(id, s, <<>>, i).values = <<>>
         /\ Plain(id, s, <<>>, i).index = i
<1>1. <<>> \in Seq(Text)
  BY EmptySeq
<1> QED
  BY <1>1 DEF Plain, Result

LEMMA AcceptedIs ==
  ASSUME TypeOK, NEW k \in Searchable, NEW s \in Text, NEW vals \in Seq(Text), NEW i \in Nat
  PROVE  /\ Accepted(k, s, vals, i) \in Result
         /\ Accepted(k, s, vals, i).id = k /\ Accepted(k, s, vals, i).spelling = s
         /\ Accepted(k, s, vals, i).values = vals /\ Accepted(k, s, vals, i).index = i
<1>1. k \in Nat /\ t[k].alias \in Nat /\ t[k].aliasArgs \in Seq(Text)
  BY StateIs, InfoIs DEF Searchable
<1>2. Added(t[k]) \in Seq(Text)
  <2>1. <<<<>>>> \in Seq(Text) /\ <<>> \in Seq(Text)
    BY DEF Text
  <2> QED
    BY <1>1, <2>1 DEF Added
<1> DEFINE r == Plain(k, s, vals, i)
           u == t[k].alias
           v == Added(t[k])
<1>3. r = [id |-> k, spelling |-> s, values |-> vals, index |-> i, unaliased |-> 0, added |-> <<>>]
  BY DEF Plain
<1>4. Accepted(k, s, vals, i) = [r EXCEPT !.unaliased = u, !.added = v]
  BY DEF Accepted
<1> HIDE DEF r, u, v
<1>5. Accepted(k, s, vals, i) =
        [id |-> k, spelling |-> s, values |-> vals, index |-> i, unaliased |-> u, added |-> v]
  BY <1>3, <1>4
<1> QED
  BY <1>1, <1>2, <1>5 DEF Result, u, v

-----------------------------------------------------------------------------
(* The types, and what is known while the table is searched.               *)

\* What the search stands at: an option of the table, for an argument that is
\* none of the input; the flag remembered is the first letter of a longer text.
SearchOK ==
  pc \in {"search", "missing", "threw"} =>
    /\ start \in First .. Len(t) + 1
    /\ Str # <<>> /\ ~IsInput(Str)
    /\ fallback # 0 =>
         p.grouped /\ fallback \in Searchable /\ LetterFlag(t[fallback], Str) /\ Len(Str) > 2
    /\ pc = "missing" =>
         start <= Len(t) /\ ~Accepts(argv, Opt, index, Size) /\ Resume(argv, Opt, index, Size) # index

\* Results are added and the next argument is looked at.
LEMMA ReportType ==
  ASSUME TypeOK, NEW rs \in Seq(Result), NEW n \in 1 .. Len(argv) + 1, Report(rs, n),
         argv' \in Seq(Text), Len(argv') = Len(argv), stop' \in 0 .. Len(argv),
         UNCHANGED <<input, start, fallback>>
  PROVE  TypeOK' /\ SearchOK'
<1>1. out' \in Seq(Result) /\ index' = n /\ pc' = "args"
  BY ConcatProperties DEF Report, TypeOK
<1>2. t' = t
  BY DEF t, p
<1>3. TypeOK'
  BY <1>1, <1>2 DEF TypeOK, Ended
<1>4. SearchOK'
  BY <1>1 DEF SearchOK
<1> QED
  BY <1>3, <1>4

\* The argument looked at.
LEMMA StrIs ==
  ASSUME TypeOK, index <= Len(argv)
  PROVE  /\ index \in 1 .. Len(argv) /\ index \in Nat /\ Str \in Text /\ Str = argv[index]
         /\ Len(Str) \in Nat
         /\ Str # <<>> => Len(Str) > 0
<1>1. index \in 1 .. Len(argv) /\ index \in Nat
  BY DEF TypeOK
<1>2. Str \in Text /\ Str = argv[index]
  BY <1>1 DEF Str, TypeOK
<1> QED
  BY <1>1, <1>2 DEF Text

\* Where the binary search begins.
LEMMA LowerBoundType ==
  ASSUME TypeOK, NEW s
  PROVE  LowerBound(s) \in First .. Len(t) + 1
<1> DEFINE L == {k \in Searchable : Before(Name(t[k]), Trimmed(s))}
<1>1. First \in 1 .. Len(t) + 1 /\ Len(t) \in Nat
  BY StateIs
<1>2. IsFiniteSet(First .. Len(t)) /\ Cardinality(First .. Len(t)) = Len(t) - First + 1
  <2>1. First \in Int /\ Len(t) \in Int /\ First <= Len(t) + 1
    BY <1>1
  <2>2. /\ IsFiniteSet(First .. Len(t))
        /\ Cardinality(First .. Len(t)) = IF First > Len(t) THEN 0 ELSE Len(t) - First + 1
    BY <2>1, FS_Interval, Zenon
  <2>3. First > Len(t) => Len(t) - First + 1 = 0
    BY <2>1
  <2> QED
    BY <2>2, <2>3, Zenon
<1>3. L \subseteq First .. Len(t)
  BY DEF Searchable
<1> HIDE DEF L
<1>4. IsFiniteSet(L) /\ Cardinality(L) \in Nat /\ Cardinality(L) <= Len(t) - First + 1
  <2>1. IsFiniteSet(L) /\ Cardinality(L) <= Cardinality(First .. Len(t))
    BY <1>2, <1>3, FS_Subset
  <2>2. Cardinality(L) \in Nat
    BY <2>1, FS_CardinalityType
  <2> QED
    BY <1>2, <2>1, <2>2
<1>5. LowerBound(s) = First + Cardinality(L)
  BY DEF LowerBound, L
<1> QED
  BY <1>1, <1>4, <1>5

\* The parser at work never changes.
LEMMA ParserKept ==
  ASSUME input' = input
  PROVE  /\ p' = p /\ t' = t /\ First' = First /\ InputId' = InputId /\ UnknownId' = UnknownId
         /\ Searchable' = Searchable
         /\ \A s : IsInput(s)' <=> IsInput(s)
         /\ \A o, s : MatchSize(o, s)' = MatchSize(o, s)
         /\ \A o, s : LetterFlag(o, s)' <=> LetterFlag(o, s)
         /\ \A o : Excluded(o)' <=> Excluded(o)
         /\ \A o, s : Untaken(o, s)' <=> Untaken(o, s)
<1>1. p' = p /\ t' = t /\ First' = First /\ InputId' = InputId /\ UnknownId' = UnknownId
      /\ Searchable' = Searchable /\ PrefixesUnion' = PrefixesUnion
  BY DEF p, t, First, InputId, UnknownId, Searchable, PrefixesUnion
<1>2. \A s : IsInput(s)' <=> IsInput(s)
  BY <1>1 DEF IsInput
<1>3. \A o, s, q : Matches(o, s, q)' <=> Matches(o, s, q)
  BY <1>1 DEF Matches, Same
<1>4. \A o, s : MatchSize(o, s)' = MatchSize(o, s)
  BY <1>3 DEF MatchSize
<1>5. \A o, s : LetterFlag(o, s)' <=> LetterFlag(o, s)
  BY <1>4 DEF LetterFlag
<1>6. \A o : Excluded(o)' <=> Excluded(o)
  BY <1>1 DEF Excluded
<1>7. \A o, s : Untaken(o, s)' <=> Untaken(o, s)
  BY <1>4, <1>6 DEF Untaken
<1> QED
  BY <1>1, <1>2, <1>4, <1>5, <1>6, <1>7

\* The option that is looked at.
LEMMA LookingIs ==
  ASSUME TypeOK, SearchOK, Looking
  PROVE  /\ start \in Searchable /\ start \in 1 .. Len(t)
         /\ Opt \in Info /\ Opt.kind \in Kinds
         /\ argv \in Seq(Text) /\ index \in 1 .. Len(argv) /\ Str = argv[index]
         /\ Size \in 0 .. Len(Str) /\ Size \in 0 .. Len(argv[index])
<1>1. index <= Len(argv) /\ start \in First .. Len(t) + 1 /\ start <= Len(t)
  BY DEF Looking, SearchOK, TypeOK
<1>2. start \in Searchable /\ start \in 1 .. Len(t)
  BY <1>1, StateIs DEF Searchable
<1>3. Opt \in Info /\ Opt.kind \in Kinds
  BY <1>2, StateIs DEF Opt
<1>4. argv \in Seq(Text) /\ index \in 1 .. Len(argv) /\ Str = argv[index] /\ Str \in Text
  BY <1>1, StrIs DEF TypeOK
<1>5. Size \in 0 .. Len(Str)
  BY <1>3, <1>4, MatchIs DEF Size
<1> QED
  BY <1>2, <1>3, <1>4, <1>5

\* A flag is remembered for its first letter: the text is longer.
LEMMA RefusedFlagIs ==
  ASSUME TypeOK, SearchOK, Refuse, fallback' # fallback
  PROVE  p.grouped /\ fallback' = start /\ LetterFlag(Opt, Str) /\ Len(Str) > 2
<1>1. Looking /\ ~Accepts(argv, Opt, index, Size) /\ Resume(argv, Opt, index, Size) = index
  BY DEF Refuse, Candidate
<1>2. p.grouped /\ fallback' = start /\ Size = 2 /\ Opt.kind = "flag"
  BY DEF Refuse
<1>3. Size < Len(Str)
  BY <1>1, LookingIs, RefusedIs
<1> QED
  BY <1>2, <1>3, LookingIs DEF LetterFlag, Size

\* The search goes on, and nothing else changes.
LEMMA SearchType ==
  ASSUME TypeOK, SearchOK, Looking, start' \in {start, start + 1},
         UNCHANGED <<input, argv, index, out, stop>>,
         pc' \in {"search", "missing"},
         \/ fallback' = fallback
         \/ fallback' = start /\ p.grouped /\ LetterFlag(Opt, Str) /\ Len(Str) > 2,
         pc' = "missing" => start' = start /\ ~Accepts(argv, Opt, index, Size)
                              /\ Resume(argv, Opt, index, Size) # index
  PROVE  TypeOK' /\ SearchOK'
<1>1. start \in Searchable /\ start \in 1 .. Len(t) /\ index <= Len(argv) /\ Len(t) \in Nat
      /\ First \in 1 .. Len(t) + 1
  BY LookingIs, StateIs
<1>2. p' = p /\ t' = t /\ First' = First /\ Searchable' = Searchable /\ Str' = Str
  BY ParserKept DEF Str
<1>3. start' \in First .. Len(t) + 1 /\ start' \in Nat \ {0}
  BY <1>1 DEF Searchable
<1>4. fallback' \in 0 .. Len(t)
  BY <1>1 DEF TypeOK
<1>5. TypeOK'
  <2>1. /\ input \in [parser: DOMAIN Parsers, argv: Seq(Text)]
        /\ argv \in Seq(Text) /\ Len(argv) = Len(input.argv)
        /\ index \in 1 .. Len(argv) + 1
        /\ out \in Seq(Result)
        /\ stop \in 0 .. Len(argv)
    BY DEF TypeOK
  <2>2. pc' \in {"args", "search"} \union Ended
    BY DEF Ended
  <2>3. input' = input /\ argv' = argv /\ index' = index /\ out' = out /\ stop' = stop
    OBVIOUS
  <2> QED
    BY <1>1, <1>2, <1>3, <1>4, <2>1, <2>2, <2>3, Zenon DEF TypeOK
<1>6. Str # <<>> /\ ~IsInput(Str)
  BY DEF SearchOK, Looking
<1>7. Str' # <<>> /\ ~IsInput(Str)'
  BY <1>2, <1>6, ParserKept
<1>8. fallback' # 0 => p.grouped /\ fallback' \in Searchable
                        /\ LetterFlag(t[fallback'], Str) /\ Len(Str) > 2
  BY <1>1 DEF SearchOK, Looking, Opt
<1>9. (fallback # 0 =>
         p.grouped /\ fallback \in Searchable /\ LetterFlag(t[fallback], Str) /\ Len(Str) > 2)'
  BY <1>2, <1>8, ParserKept
<1>10. (pc = "missing" =>
          start <= Len(t) /\ ~Accepts(argv, Opt, index, Size)
          /\ Resume(argv, Opt, index, Size) # index)'
  <2> SUFFICES ASSUME pc' = "missing" PROVE (start <= Len(t) /\ ~Accepts(argv, Opt, index, Size)
                                             /\ Resume(argv, Opt, index, Size) # index)'
    OBVIOUS
  <2>1. Opt' = Opt
    BY <1>2 DEF Opt
  <2>2. Size' = Size
    BY <2>1, <1>2, ParserKept DEF Size
  <2>3. Accepts(argv, Opt, index, Size)' <=> Accepts(argv, Opt, index, Size)
    BY <2>1, <2>2 DEF Accepts, Exact, Given
  <2>4. Resume(argv, Opt, index, Size)' = Resume(argv, Opt, index, Size)
    BY <2>1, <2>2 DEF Resume, RestEnd, Exact
  <2>5. (start <= Len(t))'
    BY <1>1, <1>2
  <2>6. index' = index
    OBVIOUS
  <2> QED
    BY <2>3, <2>4, <2>5, <2>6
<1> QED
  BY <1>2, <1>3, <1>5, <1>7, <1>9, <1>10 DEF SearchOK

\* Cutting a letter changes the argument looked at.
LEMMA CutIs ==
  ASSUME TypeOK, index <= Len(argv), CutLetter
  PROVE  /\ argv' \in Seq(Text) /\ Len(argv') = Len(argv)
         /\ argv'[index] = <<"-">> \o Drop(Str, 2)
         /\ \A j \in 1 .. Len(argv) : j # index => argv'[j] = argv[j]
<1>1. argv \in Seq(Text) /\ index \in 1 .. Len(argv) /\ Str \in Text
  BY StrIs DEF TypeOK
<1>2. Drop(Str, 2) \in Text /\ <<"-">> \in Text
  BY <1>1, DropIs, InputsAssumption DEF Text
<1>3. <<"-">> \o Drop(Str, 2) \in Text
  BY <1>2, ConcatProperties DEF Text
<1>4. argv' = [argv EXCEPT ![index] = <<"-">> \o Drop(Str, 2)]
  BY DEF CutLetter
<1> DEFINE x == <<"-">> \o Drop(Str, 2)
<1> HIDE DEF x
<1>5. x \in Text /\ argv' = [argv EXCEPT ![index] = x]
  BY <1>3, <1>4 DEF x
<1>6. /\ argv' \in Seq(Text) /\ Len(argv') = Len(argv) /\ argv'[index] = x
      /\ \A j \in 1 .. Len(argv) : j # index => argv'[j] = argv[j]
  BY <1>1, <1>5, ExceptSeq
<1> QED
  BY <1>6 DEF x

\* One result about the argument looked at, r: the argument is done with, or it
\* is a group that has lost a letter.
Takes(r) ==
  /\ index \in 1 .. Len(argv) /\ Str # <<>>
  /\ r \in Result /\ r.index = index /\ IsPrefix(r.spelling, Str)
  /\ out' = Append(out, r) /\ pc' = "args"
  /\ UNCHANGED <<input, start, fallback, stop>>
  /\ \/ argv' = argv /\ index' \in index + 1 .. Len(argv) + 1
     \/ /\ p.grouped /\ CutLetter /\ index' = index
        /\ Len(Str) > 1 /\ r.spelling = Take(Str, 2) /\ r.values = <<>>

\* The whole of an argument, or its beginning, is a prefix of it.
LEMMA BeginningIs ==
  ASSUME NEW s \in Text, NEW n \in 0 .. Len(s)
  PROVE  IsPrefix(s, s) /\ Take(s, n) \in Text /\ IsPrefix(Take(s, n), s)
BY TakeIs, PrefixIs DEF Text

LEMMA OneResult ==
  ASSUME TypeOK, index <= Len(argv), Str # <<>>, NEW r \in Result, NEW n,
         r.index = index, IsPrefix(r.spelling, Str),
         Report(<<r>>, n), UNCHANGED <<input, start, fallback, stop>>,
         \/ argv' = argv /\ n \in index + 1 .. Len(argv) + 1
         \/ /\ p.grouped /\ CutLetter /\ n = index
            /\ Len(Str) > 1 /\ r.spelling = Take(Str, 2) /\ r.values = <<>>
  PROVE  Takes(r)
<1>1. index \in 1 .. Len(argv) /\ index' = n /\ pc' = "args"
  BY StrIs DEF Report
<1>2. out' = Append(out, r)
  BY AppendIsConcat DEF Report, TypeOK
<1> QED
  BY <1>1, <1>2 DEF Takes

\* The actions that report one result.
LEMMA TakeInputTakes ==
  ASSUME TypeOK, TakeInput
  PROVE  Takes(Plain(InputId, Str, <<>>, index))
<1>1. index <= Len(argv) /\ Str # <<>> /\ Str \in Text /\ index \in 1 .. Len(argv) /\ index \in Nat
      /\ Len(argv) \in Nat /\ Len(Str) \in Nat
  BY StrIs, StateIs DEF TakeInput, Begins
<1> DEFINE r == Plain(InputId, Str, <<>>, index)
<1>2. r \in Result /\ r.index = index /\ r.spelling = Str
  <2>1. InputId \in Nat
    BY StateIs
  <2> QED
    BY <1>1, <2>1, PlainEmptyIs
<1>3. IsPrefix(Str, Str)
  BY <1>1, BeginningIs
<1>4. Report(<<r>>, index + 1) /\ UNCHANGED <<input, argv, start, fallback, stop>>
  BY DEF TakeInput
<1>5. index + 1 \in index + 1 .. Len(argv) + 1
  BY <1>1
<1> HIDE DEF r
<1> QED
  BY <1>1, <1>2, <1>3, <1>4, <1>5, OneResult DEF r

LEMMA AcceptTakes ==
  ASSUME TypeOK, SearchOK, Accept
  PROVE  /\ Values(argv, Opt, index, Size) \in Seq(Text)
         /\ Resume(argv, Opt, index, Size) \in index + 1 .. Len(argv) + 1
         /\ Takes(Accepted(start, Take(Str, Size), Values(argv, Opt, index, Size), index))
<1>1. Looking /\ Accepts(argv, Opt, index, Size)
  BY DEF Accept, Candidate
<1>2. /\ start \in Searchable /\ Opt \in Info /\ Opt.kind \in Kinds
      /\ argv \in Seq(Text) /\ index \in 1 .. Len(argv) /\ Str = argv[index]
      /\ Size \in 0 .. Len(Str) /\ Size \in 0 .. Len(argv[index])
  BY <1>1, LookingIs
<1>3. index <= Len(argv) /\ Str # <<>> /\ Str \in Text /\ index \in Nat
  BY <1>1, <1>2, StrIs DEF Looking, SearchOK
<1>4. Values(argv, Opt, index, Size) \in Seq(Text)
      /\ Resume(argv, Opt, index, Size) \in index + 1 .. Len(argv) + 1
  BY <1>1, <1>2, ValuesType, ResumeIs
<1>5. Take(Str, Size) \in Text /\ IsPrefix(Take(Str, Size), Str)
  BY <1>2, <1>3, BeginningIs
<1> DEFINE x == Take(Str, Size)
           v == Values(argv, Opt, index, Size)
           n == Resume(argv, Opt, index, Size)
           r == Accepted(start, x, v, index)
<1>6. Report(<<r>>, n) /\ UNCHANGED <<input, argv, start, fallback, stop>>
  BY DEF Accept
<1> HIDE DEF x, v, n
<1>7. r \in Result /\ r.index = index /\ r.spelling = x
  BY <1>2, <1>3, <1>4, <1>5, AcceptedIs DEF x, v
<1> HIDE DEF r
<1>8. Takes(r)
  BY <1>3, <1>4, <1>5, <1>6, <1>7, OneResult DEF x, n
<1> QED
  BY <1>4, <1>8 DEF r, x, v

\* What is known when no option took the argument.
LEMMA ExhaustedIs ==
  ASSUME TypeOK, SearchOK, Exhausted
  PROVE  /\ index <= Len(argv) /\ index \in 1 .. Len(argv) /\ index \in Nat
         /\ Str \in Text /\ Str # <<>> /\ Len(Str) \in Nat /\ Len(Str) > 0 /\ Len(argv) \in Nat
         /\ fallback # 0 => fallback \in Searchable /\ Len(Str) > 2
         /\ IsPrefix(Str, Str)
         /\ Len(Str) > 1 => Take(Str, 2) \in Text /\ IsPrefix(Take(Str, 2), Str)
         /\ index + 1 \in index + 1 .. Len(argv) + 1
<1>1. index <= Len(argv) /\ Str # <<>>
  BY DEF Exhausted, SearchOK, TypeOK
<1>2. /\ index \in 1 .. Len(argv) /\ index \in Nat /\ Str \in Text /\ Len(Str) \in Nat
      /\ Len(Str) > 0 /\ Len(argv) \in Nat
  BY <1>1, StrIs, StateIs
<1>3. IsPrefix(Str, Str) /\ (Len(Str) > 1 => Take(Str, 2) \in Text /\ IsPrefix(Take(Str, 2), Str))
  BY <1>2, BeginningIs
<1>4. index + 1 \in index + 1 .. Len(argv) + 1
  BY <1>2
<1> QED
  BY <1>1, <1>2, <1>3, <1>4 DEF SearchOK, Exhausted

LEMMA NotFoundTakes ==
  ASSUME TypeOK, SearchOK, NotFound
  PROVE  \E id \in {InputId, UnknownId} : Takes(Plain(id, Str, <<>>, index))
<1>1. Exhausted /\ UNCHANGED <<input, argv, start, fallback, stop>>
  BY DEF NotFound
<1> DEFINE id == IF Str[1] = "/" THEN InputId ELSE UnknownId
           r == Plain(id, Str, <<>>, index)
<1>2. Report(<<r>>, index + 1)
  BY DEF NotFound
<1>3. id \in {InputId, UnknownId} /\ id \in Nat
  BY StateIs
<1> HIDE DEF id
<1>4. r \in Result /\ r.index = index /\ r.spelling = Str
  BY <1>1, <1>3, ExhaustedIs, PlainEmptyIs
<1> HIDE DEF r
<1>5. Takes(r)
  BY <1>1, <1>2, <1>4, ExhaustedIs, OneResult
<1> QED
  BY <1>3, <1>5 DEF r

LEMMA TakeLetterTakes ==
  ASSUME TypeOK, SearchOK, TakeLetter
  PROVE  fallback \in Searchable /\ Takes(Accepted(fallback, Take(Str, 2), <<>>, index))
<1>1. Exhausted /\ fallback # 0 /\ p.grouped /\ CutLetter /\ UNCHANGED <<input, start, fallback, stop>>
  BY DEF TakeLetter
<1>2. fallback \in Searchable /\ Len(Str) > 2 /\ Len(Str) > 1
  BY <1>1, ExhaustedIs
<1> DEFINE x == Take(Str, 2)
           r == Accepted(fallback, x, <<>>, index)
<1>3. Report(<<r>>, index)
  BY DEF TakeLetter
<1>4. x \in Text /\ IsPrefix(x, Str)
  BY <1>1, <1>2, ExhaustedIs
<1> HIDE DEF x
<1>5. r \in Result /\ r.index = index /\ r.spelling = x /\ r.values = <<>>
  <2>1. PICK e \in Seq(Text) : e = <<>>
    BY EmptySeq
  <2> DEFINE a == Accepted(fallback, x, e, index)
  <2>2. a \in Result /\ a.index = index /\ a.spelling = x /\ a.values = e
    <3>1. fallback \in Searchable /\ index \in Nat /\ e \in Seq(Text) /\ x \in Text
      BY <1>1, <1>2, <1>4, <2>1, ExhaustedIs
    <3> QED
      BY <3>1, AcceptedIs
  <2> QED
    BY <2>1, <2>2
<1> HIDE DEF r
<1>6. Takes(r)
  BY <1>1, <1>2, <1>3, <1>4, <1>5, ExhaustedIs, OneResult DEF x
<1> QED
  BY <1>2, <1>6 DEF r, x

LEMMA UnknownLetterTakes ==
  ASSUME TypeOK, SearchOK, UnknownLetter
  PROVE  Takes(Plain(UnknownId, Take(Str, 2), <<>>, index))
<1>1. Exhausted /\ p.grouped /\ Len(Str) > 1 /\ CutLetter /\ UNCHANGED <<input, start, fallback, stop>>
  BY DEF UnknownLetter
<1> DEFINE x == Take(Str, 2)
           r == Plain(UnknownId, x, <<>>, index)
<1>2. Report(<<r>>, index)
  BY DEF UnknownLetter
<1>3. x \in Text /\ IsPrefix(x, Str)
  BY <1>1, ExhaustedIs
<1> HIDE DEF x
<1>4. UnknownId \in Nat /\ <<>> \in Seq(Text)
  BY StateIs
<1>5. r \in Result /\ r.index = index /\ r.spelling = x /\ r.values = <<>>
  BY <1>1, <1>3, <1>4, ExhaustedIs, PlainEmptyIs
<1> HIDE DEF r
<1>6. Takes(r)
  BY <1>1, <1>2, <1>3, <1>5, ExhaustedIs, OneResult DEF x
<1> QED
  BY <1>6 DEF r, x

LEMMA UnknownWholeTakes ==
  ASSUME TypeOK, SearchOK, UnknownWhole
  PROVE  Takes(Plain(UnknownId, Str, <<>>, index))
<1>1. Exhausted /\ UNCHANGED <<input, argv, start, fallback, stop>>
  BY DEF UnknownWhole
<1> DEFINE r == Plain(UnknownId, Str, <<>>, index)
<1>2. Report(<<r>>, index + 1)
  BY DEF UnknownWhole
<1>3. UnknownId \in Nat /\ <<>> \in Seq(Text)
  BY StateIs
<1>4. r \in Result /\ r.index = index /\ r.spelling = Str
  BY <1>1, <1>3, ExhaustedIs, PlainEmptyIs
<1> HIDE DEF r
<1>5. Takes(r)
  BY <1>1, <1>2, <1>4, ExhaustedIs, OneResult
<1> QED
  BY <1>5 DEF r

\* The types after one result.
LEMMA TakesType ==
  ASSUME TypeOK, NEW r, Takes(r)
  PROVE  TypeOK' /\ SearchOK'
<1>1. /\ index \in 1 .. Len(argv) /\ r \in Result /\ pc' = "args"
      /\ UNCHANGED <<input, start, fallback, stop>> /\ out' = Append(out, r)
  BY DEF Takes
<1>2. out' \in Seq(Result)
  BY <1>1, AppendProperties DEF TypeOK
<1>3. argv' \in Seq(Text) /\ Len(argv') = Len(argv)
  BY <1>1, CutIs DEF Takes, TypeOK
<1>4. index' \in 1 .. Len(argv) + 1
  BY <1>1, StateIs, SMTT(30) DEF Takes
<1>5. t' = t
  BY <1>1 DEF t, p
<1>6. TypeOK'
  BY <1>1, <1>2, <1>3, <1>4, <1>5 DEF TypeOK, Ended
<1>7. SearchOK'
  BY <1>1 DEF SearchOK
<1> QED
  BY <1>6, <1>7

\* What follows a "--": its results, and that nothing is left.
LEMMA DashDashIs ==
  ASSUME TypeOK, DashDash
  PROVE  /\ index \in 1 .. Len(argv) /\ Str \in Text /\ Str # <<>>
         /\ pc' = "args" /\ index' = Len(argv) + 1
         /\ UNCHANGED <<input, argv, start, fallback>> /\ stop' = index
         /\ \E rs \in Seq(Result) :
              /\ out' = out \o rs
              /\ \/ /\ p.pack /\ Len(rs) = 1
                    /\ rs[1] = Plain(InputId, Str, Drop(argv, index), index)
                 \/ /\ ~p.pack /\ Len(rs) = Len(argv) - index
                    /\ \A k \in 1 .. Len(rs) : rs[k] = Plain(InputId, argv[index + k], <<>>, index + k)
<1>1. index <= Len(argv) /\ Str = <<"-", "-">>
  BY DEF DashDash, IsDashDash
<1>2. /\ index \in 1 .. Len(argv) /\ index \in Nat /\ Str \in Text /\ Str # <<>>
      /\ InputId \in Nat /\ argv \in Seq(Text) /\ Len(argv) \in Nat
  BY <1>1, StrIs, StateIs DEF TypeOK
<1> DEFINE rest == Drop(argv, index)
<1>3. /\ rest \in Seq(Text) /\ Len(rest) = Len(argv) - index
      /\ \A k \in 1 .. Len(argv) - index : rest[k] = argv[index + k]
  BY <1>2, DropIs
<1>4. pc' = "args" /\ index' = Len(argv) + 1 /\ UNCHANGED <<input, argv, start, fallback>> /\ stop' = index
  BY DEF DashDash, Report
<1>5. CASE p.pack
  <2> DEFINE r == Plain(InputId, Str, rest, index)
  <2>1. r \in Result
    BY <1>2, <1>3, PlainIs
  <2>2. out' = out \o <<r>>
    BY <1>5 DEF DashDash, Report
  <2> HIDE DEF r
  <2>3. <<r>> \in Seq(Result) /\ Len(<<r>>) = 1 /\ <<r>>[1] = r
    BY <2>1
  <2> QED
    BY <1>2, <1>4, <1>5, <2>2, <2>3 DEF r
<1>6. CASE ~p.pack
  <2> DEFINE e(k) == Plain(InputId, rest[k], <<>>, index + k)
             rs == [k \in 1 .. Len(rest) |-> e(k)]
  <2>1. out' = out \o rs
    BY <1>6 DEF DashDash, Report
  <2>2. ASSUME NEW k \in 1 .. Len(rest) PROVE e(k) \in Result
    <3>1. index + k \in Nat /\ rest[k] \in Text
      BY <1>2, <1>3
    <3> QED
      BY <1>2, <3>1, PlainEmptyIs
  <2>3. ASSUME NEW k \in 1 .. Len(rest)
        PROVE  rs[k] = Plain(InputId, argv[index + k], <<>>, index + k)
    BY <1>3
  <2>4. Len(rest) \in Nat
    BY <1>3
  <2> HIDE DEF e, rest
  <2>5. rs \in Seq(Result)
    BY <2>2, <2>4
  <2>6. Len(rs) = Len(rest)
    BY <2>4
  <2> HIDE DEF rs
  <2>7. Len(rs) = Len(argv) - index
    BY <1>3, <2>6 DEF rest
  <2> QED
    BY <1>2, <1>4, <1>6, <2>1, <2>3, <2>5, <2>6, <2>7
<1> QED
  BY <1>2, <1>5, <1>6, StateIs

LEMMA SameType ==
  ASSUME TypeOK, SearchOK, UNCHANGED vars
  PROVE  TypeOK' /\ SearchOK'
<1>1. p' = p /\ t' = t /\ First' = First /\ Searchable' = Searchable /\ Str' = Str /\ Opt' = Opt
  BY ParserKept DEF Str, vars, Opt
<1>2. TypeOK'
  BY <1>1 DEF TypeOK, vars
<1>3. Size' = Size
  BY <1>1, ParserKept DEF Size, vars
<1>4. SearchOK'
  <2>1. Accepts(argv, Opt, index, Size)' <=> Accepts(argv, Opt, index, Size)
    BY <1>1, <1>3 DEF Accepts, Exact, Given, vars
  <2>2. Resume(argv, Opt, index, Size)' = Resume(argv, Opt, index, Size)
    BY <1>1, <1>3 DEF Resume, RestEnd, Exact, vars
  <2>3. UNCHANGED <<pc, start, fallback, index, argv>> /\ input' = input
    BY DEF vars
  <2>4. (IsInput(Str)' <=> IsInput(Str)) /\ (LetterFlag(t[fallback], Str)' <=> LetterFlag(t[fallback], Str))
    BY <1>1, <2>3, ParserKept
  <2> QED
    BY <1>1, <2>1, <2>2, <2>3, <2>4 DEF SearchOK
<1> QED
  BY <1>2, <1>4

\* The types, step by step.
LEMMA TypeStep ==
  ASSUME TypeOK, SearchOK, [Next]_vars
  PROVE  TypeOK' /\ SearchOK'
<1>1. CASE SkipEmpty
  <2>1. index <= Len(argv) /\ index' = index + 1 /\ pc' = "args"
        /\ UNCHANGED <<input, argv, start, fallback, out, stop>>
    BY <1>1 DEF SkipEmpty
  <2>2. index' \in 1 .. Len(argv) + 1
    BY <2>1, StrIs, StateIs
  <2>3. t' = t
    BY <2>1, ParserKept
  <2>4. TypeOK'
    BY <2>1, <2>2, <2>3 DEF TypeOK, Ended
  <2> QED
    BY <2>1, <2>4 DEF SearchOK
<1>2. CASE DashDash
  <2>1. PICK rs \in Seq(Result) : out' = out \o rs
    BY <1>2, DashDashIs
  <2>2. out' \in Seq(Result)
    BY <2>1, ConcatProperties DEF TypeOK
  <2>3. /\ index \in 1 .. Len(argv) /\ pc' = "args" /\ index' = Len(argv) + 1
        /\ UNCHANGED <<input, argv, start, fallback>> /\ stop' = index
    BY <1>2, DashDashIs
  <2>4. t' = t
    BY <2>3, ParserKept
  <2>5. Len(argv) + 1 \in 1 .. Len(argv) + 1 /\ index \in 0 .. Len(argv)
    BY <2>3, StateIs
  <2>6. TypeOK'
    BY <2>2, <2>3, <2>4, <2>5 DEF TypeOK, Ended
  <2> QED
    BY <2>3, <2>6 DEF SearchOK
<1>3. CASE TakeInput
  BY <1>3, TakeInputTakes, TakesType
<1>4. CASE BeginSearch
  <2>1. index <= Len(argv) /\ Str # <<>> /\ ~IsInput(Str) /\ pc' = "search" /\ fallback' = 0
        /\ UNCHANGED <<input, argv, index, out, stop>>
    BY <1>4 DEF BeginSearch, Begins
  <2>2. start' \in First .. Len(t) + 1
    BY <1>4, LowerBoundType, StateIs DEF BeginSearch
  <2>3. start' \in Nat \ {0} /\ 0 \in 0 .. Len(t)
    BY <2>2, StateIs
  <2>4. t' = t /\ First' = First /\ Str' = Str /\ (IsInput(Str)' <=> IsInput(Str))
    BY <2>1, ParserKept DEF Str
  <2>5. TypeOK'
    BY <2>1, <2>3, <2>4 DEF TypeOK, Ended
  <2>6. SearchOK'
    BY <2>1, <2>2, <2>4 DEF SearchOK
  <2> QED
    BY <2>5, <2>6
<1>5. CASE NextOption
  BY <1>5, SearchType DEF NextOption, Looking
<1>6. CASE Accept
  BY <1>6, AcceptTakes, TakesType
<1>7. CASE Refuse
  <2>1. fallback' = fallback \/ (fallback' = start /\ p.grouped /\ LetterFlag(Opt, Str) /\ Len(Str) > 2)
    BY <1>7, RefusedFlagIs
  <2> QED
    BY <1>7, <2>1, SearchType DEF Refuse, Candidate, Looking
<1>8. CASE Missing
  BY <1>8, SearchType DEF Missing, Candidate
<1>9. CASE NotFound
  BY <1>9, NotFoundTakes, TakesType
<1>10. CASE TakeLetter
  BY <1>10, TakeLetterTakes, TakesType
<1>11. CASE UnknownLetter
  BY <1>11, UnknownLetterTakes, TakesType
<1>12. CASE UnknownWhole
  BY <1>12, UnknownWholeTakes, TakesType
<1>13. CASE LonePrefix
  <2>1. pc' = "threw" /\ Exhausted /\ UNCHANGED <<input, argv, index, start, fallback, out, stop>>
    BY <1>13 DEF LonePrefix
  <2>2. t' = t /\ p' = p /\ First' = First /\ Searchable' = Searchable /\ Str' = Str
        /\ (IsInput(Str)' <=> IsInput(Str))
        /\ (LetterFlag(t[fallback], Str)' <=> LetterFlag(t[fallback], Str))
    BY <2>1, ParserKept DEF Str
  <2>3. index <= Len(argv)
    BY <2>1 DEF Exhausted, TypeOK
  <2>4. TypeOK'
    BY <2>1, <2>2, <2>3 DEF TypeOK, Ended
  <2>5. SearchOK'
    BY <2>1, <2>2 DEF SearchOK, Exhausted
  <2> QED
    BY <2>4, <2>5
<1>14. CASE Finish
  <2>1. pc' = "done" /\ UNCHANGED <<input, argv, index, start, fallback, out, stop>>
    BY <1>14 DEF Finish
  <2>2. t' = t
    BY <2>1, ParserKept
  <2>3. TypeOK'
    BY <2>1, <2>2 DEF TypeOK, Ended
  <2> QED
    BY <2>1, <2>3 DEF SearchOK
<1>15. CASE UNCHANGED vars
  BY <1>15, SameType
<1> QED
  BY <1>1, <1>2, <1>3, <1>4, <1>5, <1>6, <1>7, <1>8, <1>9, <1>10, <1>11, <1>12, <1>13, <1>14, <1>15
  DEF Next

\* The types hold from the beginning.
LEMMA TypeInit ==
  ASSUME Init
  PROVE  TypeOK /\ SearchOK
<1>1. /\ input \in Inputs /\ argv = input.argv /\ index = 1 /\ start = 1 /\ fallback = 0 /\ stop = 0
      /\ out = <<>> /\ pc = "args"
  BY DEF Init
<1>2. input \in [parser: DOMAIN Parsers, argv: Seq(Text)]
  BY <1>1, InputsAssumption
<1>3. argv \in Seq(Text) /\ Len(argv) \in Nat
  BY <1>1, <1>2
<1>4. t \in Seq(Info) /\ Len(t) \in Nat
  BY <1>2, TableIs DEF t, p
<1>5. out \in Seq(Result)
  BY <1>1, EmptySeq
<1>6. TypeOK
  BY <1>1, <1>2, <1>3, <1>4, <1>5 DEF TypeOK, Ended
<1> QED
  BY <1>1, <1>6 DEF SearchOK

\* The types and the search, at all times.
LEMMA Typed == Spec => [](TypeOK /\ SearchOK)
<1>1. Init => TypeOK /\ SearchOK
  BY TypeInit
<1>2. (TypeOK /\ SearchOK) /\ [Next]_vars => (TypeOK /\ SearchOK)'
  BY TypeStep
<1> QED
  BY <1>1, <1>2, PTL DEF Spec

-----------------------------------------------------------------------------
(* The theorems about types and missing values.                            *)

\* The state is always well typed: no argument is looked at that is not there,
\* no option of the table is looked at that is not there, and parsing never
\* resumes behind the end (the indices parse_args and accept_internal compute).
THEOREM WellTyped == Spec => []TypeOK
<1>1. TypeOK /\ SearchOK => TypeOK
  OBVIOUS
<1> QED
  BY <1>1, Typed, PTL

\* A missing value is reported only where one is missing (missing_arg_index and
\* missing_arg_count of parse_args), whatever the table and the arguments are.
THEOREM OnlyTheMissingAreReported == Spec => []MissingIsTrue
<1>1. ASSUME TypeOK, SearchOK
      PROVE  MissingIsTrue
  <2> SUFFICES ASSUME pc = "missing"
               PROVE  /\ MissingCount > 0
                      /\ \E j \in index + 1 .. index + MissingCount : j > Len(argv) \/ argv[j] = <<>>
    BY DEF MissingIsTrue
  <2>1. index <= Len(argv) /\ start \in First .. Len(t) + 1 /\ start <= Len(t)
        /\ ~Accepts(argv, Opt, index, Size) /\ Resume(argv, Opt, index, Size) # index
    BY <1>1 DEF SearchOK, TypeOK
  <2>2. start \in Searchable
    BY <1>1, <2>1, StateIs DEF Searchable
  <2>3. Opt \in Info /\ Opt.kind \in Kinds
    BY <1>1, <2>2, StateIs DEF Opt
  <2>4. argv \in Seq(Text) /\ index \in 1 .. Len(argv) /\ Str \in Text /\ Str = argv[index]
    BY <1>1, <2>1, StrIs DEF TypeOK
  <2>5. Size \in 0 .. Len(argv[index])
    BY <2>3, <2>4, MatchIs DEF Size
  <2> DEFINE o == Opt
             n == Size
             c == Resume(argv, o, index, n) - index - 1
  <2>6. MissingCount = c
    BY DEF MissingCount
  <2> HIDE DEF o, n
  <2>7. c > 0 /\ \E j \in index + 1 .. index + c : j > Len(argv) \/ argv[j] = <<>>
    BY <2>1, <2>3, <2>4, <2>5, LackingIs DEF o, n
  <2> QED
    BY <2>6, <2>7
<1>2. TypeOK /\ SearchOK => MissingIsTrue
  BY <1>1
<1> QED
  BY <1>2, Typed, PTL

-----------------------------------------------------------------------------
(* Where the results point.                                                *)

\* Each step does one of four things: it reports nothing and stays where it is,
\* skips an argument, ends the options, or reports one result.
LEMMA Steps ==
  ASSUME TypeOK, SearchOK, [Next]_vars
  PROVE  \/ UNCHANGED <<input, argv, index, out, stop>>
         \/ SkipEmpty
         \/ DashDash
         \/ \E r : Takes(r)
<1>1. TakeInput => \E r : Takes(r)
  BY TakeInputTakes
<1>2. Accept => \E r : Takes(r)
  BY AcceptTakes
<1>3. NotFound => \E r : Takes(r)
  BY NotFoundTakes
<1>4. TakeLetter => \E r : Takes(r)
  BY TakeLetterTakes
<1>5. UnknownLetter => \E r : Takes(r)
  BY UnknownLetterTakes
<1>6. UnknownWhole => \E r : Takes(r)
  BY UnknownWholeTakes
<1>7. BeginSearch \/ NextOption \/ Refuse \/ Missing \/ LonePrefix \/ Finish \/ UNCHANGED vars
      => UNCHANGED <<input, argv, index, out, stop>>
  BY DEF BeginSearch, NextOption, Refuse, Missing, LonePrefix, Finish, vars
<1> QED
  BY <1>1, <1>2, <1>3, <1>4, <1>5, <1>6, <1>7 DEF Next

\* How many of the first n results are about argument i.
About(rs, n, i) == Cardinality({j \in 1 .. n : rs[j].index = i})

LEMMA AboutIs ==
  ASSUME NEW rs, NEW n \in Nat, NEW i
  PROVE  /\ About(rs, n, i) \in Nat
         /\ (\A j \in 1 .. n : rs[j].index # i) => About(rs, n, i) = 0
         /\ (\E j \in 1 .. n : rs[j].index = i) => About(rs, n, i) # 0
         /\ About(rs, n + 1, i) =
              IF rs[n + 1].index = i THEN About(rs, n, i) + 1 ELSE About(rs, n, i)
<1> DEFINE S(m) == {j \in 1 .. m : rs[j].index = i}
<1>1. ASSUME NEW m \in Nat PROVE IsFiniteSet(S(m)) /\ Cardinality(S(m)) \in Nat
  <2>1. IsFiniteSet(1 .. m)
    BY FS_Interval
  <2>2. S(m) \in SUBSET (1 .. m)
    OBVIOUS
  <2> QED
    BY <2>1, <2>2, FS_Subset, FS_CardinalityType
<1>2. IsFiniteSet(S(n)) /\ Cardinality(S(n)) \in Nat
  BY <1>1
<1>3. (\A j \in 1 .. n : rs[j].index # i) => Cardinality(S(n)) = 0
  <2> SUFFICES ASSUME \A j \in 1 .. n : rs[j].index # i PROVE Cardinality(S(n)) = 0
    OBVIOUS
  <2>1. S(n) = {}
    OBVIOUS
  <2> QED
    BY <2>1, FS_EmptySet
<1>4. (\E j \in 1 .. n : rs[j].index = i) => Cardinality(S(n)) # 0
  <2> SUFFICES ASSUME \E j \in 1 .. n : rs[j].index = i PROVE Cardinality(S(n)) # 0
    OBVIOUS
  <2>1. S(n) # {}
    OBVIOUS
  <2> HIDE DEF S
  <2> QED
    BY <1>2, <2>1, FS_EmptySet
<1>5. Cardinality(S(n + 1)) = IF rs[n + 1].index = i THEN Cardinality(S(n)) + 1 ELSE Cardinality(S(n))
  <2>1. CASE rs[n + 1].index = i
    <3>1. S(n + 1) = S(n) \union {n + 1} /\ n + 1 \notin S(n)
      BY <2>1
    <3> HIDE DEF S
    <3> QED
      BY <1>2, <2>1, <3>1, FS_AddElement
  <2>2. CASE rs[n + 1].index # i
    <3>1. S(n + 1) = S(n)
      BY <2>2
    <3> QED
      BY <2>2, <3>1
  <2> QED
    BY <2>1, <2>2
<1> QED
  BY <1>2, <1>3, <1>4, <1>5 DEF About

LEMMA NoneAbout ==
  ASSUME NEW rs, NEW n \in Nat, NEW i, \A j \in 1 .. n : rs[j].index # i
  PROVE  About(rs, n, i) = 0
BY AboutIs

\* Only what the first results say counts.
LEMMA AboutKept ==
  ASSUME NEW rs, NEW qs, NEW n \in Nat, \A j \in 1 .. n : qs[j] = rs[j]
  PROVE  \A i : About(qs, n, i) = About(rs, n, i)
<1> SUFFICES ASSUME NEW i PROVE About(qs, n, i) = About(rs, n, i)
  OBVIOUS
<1>1. {j \in 1 .. n : qs[j].index = i} = {j \in 1 .. n : rs[j].index = i}
  OBVIOUS
<1> QED
  BY <1>1 DEF About

\* Behind the position every argument is as given; of the argument looked at, one
\* letter is gone for each result about it, and only a group can have one.
ArgsOK ==
  /\ \A i \in 1 .. Len(argv) : i > index => argv[i] = input.argv[i]
  /\ \A k \in 1 .. Len(out) : out[k].index \in 1 .. Len(argv) /\ out[k].index <= index
  /\ index <= Len(argv) => Str = Rest(index, About(out, Len(out), index))
  /\ index <= Len(argv) /\ About(out, Len(out), index) # 0 => p.grouped

\* What Located says of one result.
LocatedAt(k) ==
  /\ out[k].index \in DOMAIN argv
  /\ \A j \in 1 .. k - 1 : out[j].index <= out[k].index
  /\ InGroup(k) => p.grouped
  /\ IsPrefix(out[k].spelling, ReadFrom(k))

\* Results are added behind those there are.
Extended ==
  /\ input' = input /\ Len(argv') = Len(argv) /\ out' \in Seq(Result)
  /\ Len(out) <= Len(out') /\ \A k \in 1 .. Len(out) : out'[k] = out[k]

\* Added results change nothing of the earlier ones.
LEMMA EarlierKept ==
  ASSUME TypeOK, Extended, TypeOK', NEW k \in 1 .. Len(out)
  PROVE  /\ out'[k] = out[k] /\ ReadFrom(k)' = ReadFrom(k)
         /\ LocatedAt(k) => LocatedAt(k)'
<1>1. Len(out) \in Nat /\ Len(out') \in Nat /\ out'[k] = out[k]
      /\ \A j \in 1 .. k - 1 : out'[j] = out[j]
  <2>1. out \in Seq(Result) /\ out' \in Seq(Result)
    BY DEF TypeOK
  <2>2. \A j \in 1 .. Len(out) : out'[j] = out[j]
    BY DEF Extended
  <2> QED
    BY <2>1, <2>2
<1>2. About(out', k - 1, out[k].index) = About(out, k - 1, out[k].index)
  <2>1. k - 1 \in Nat
    BY <1>1
  <2> QED
    BY <1>1, <2>1, AboutKept
<1> DEFINE i == out[k].index
           c == About(out, k - 1, i)
<1>3. ReadFrom(k) = IF c = 0 THEN input.argv[i] ELSE <<"-">> \o Drop(input.argv[i], c + 1)
  BY DEF ReadFrom, About, Rest
<1>4. ReadFrom(k)' = IF c = 0 THEN input.argv[i] ELSE <<"-">> \o Drop(input.argv[i], c + 1)
  <2>1. i' = i /\ About(out', k - 1, i) = c
    BY <1>1, <1>2
  <2>2. ReadFrom(k)' = IF About(out', k - 1, out'[k].index) = 0 THEN input'.argv[out'[k].index]
                       ELSE <<"-">> \o Drop(input'.argv[out'[k].index],
                                            About(out', k - 1, out'[k].index) + 1)
    BY DEF ReadFrom, About, Rest
  <2> HIDE DEF c
  <2> QED
    BY <1>1, <2>1, <2>2 DEF Extended
<1>5. ReadFrom(k)' = ReadFrom(k)
  BY <1>3, <1>4
<1>6. p' = p /\ DOMAIN argv' = DOMAIN argv
  <2>1. DOMAIN argv = 1 .. Len(argv) /\ DOMAIN argv' = 1 .. Len(argv')
    <3>1. argv \in Seq(Text) /\ argv' \in Seq(Text)
      BY DEF TypeOK
    <3> QED
      BY <3>1
  <2> QED
    BY <2>1 DEF Extended, p
<1>7. InGroup(k)' <=> InGroup(k)
  <2>1. k > 1 => k - 1 \in 1 .. k - 1
    BY <1>1
  <2> QED
    BY <1>1, <2>1 DEF InGroup
<1>8. LocatedAt(k) => LocatedAt(k)'
  BY <1>1, <1>5, <1>6, <1>7 DEF LocatedAt
<1> QED
  BY <1>1, <1>5, <1>8

\* Dropping from what is left of a group.
LEMMA DropBehind ==
  ASSUME NEW E, NEW s \in Seq(E), NEW e \in E, NEW m \in Nat, 1 < Len(<<e>> \o Drop(s, m))
  PROVE  Drop(<<e>> \o Drop(s, m), 2) = Drop(s, m + 1)
<1>1. /\ Drop(s, m) \in Seq(E) /\ Drop(s, m + 1) \in Seq(E) /\ <<e>> \in Seq(E) /\ Len(<<e>>) = 1
      /\ Len(Drop(s, m)) = (IF m <= Len(s) THEN Len(s) - m ELSE 0)
      /\ \A i \in 1 .. Len(s) - m : Drop(s, m)[i] = s[m + i]
  <2>1. m + 1 \in Nat
    OBVIOUS
  <2>2. <<e>> \in Seq(E) /\ Len(<<e>>) = 1
    OBVIOUS
  <2>3. Drop(s, m + 1) \in Seq(E)
    BY <2>1, DropIs
  <2>4. /\ Drop(s, m) \in Seq(E)
        /\ Len(Drop(s, m)) = (IF m <= Len(s) THEN Len(s) - m ELSE 0)
        /\ \A i \in 1 .. Len(s) - m : Drop(s, m)[i] = s[m + i]
    BY DropIs
  <2> QED
    BY <2>2, <2>3, <2>4
<1> DEFINE d == Drop(s, m)
           r == <<e>> \o d
<1>2. /\ r \in Seq(E) /\ Len(r) = 1 + Len(d)
      /\ \A i \in 1 .. Len(d) : r[1 + i] = d[i]
  BY <1>1, ConcatProperties
<1>3. Len(d) >= 1 /\ Len(d) = Len(s) - m
  BY <1>1, <1>2
<1>4. /\ Drop(r, 2) \in Seq(E) /\ Len(Drop(r, 2)) = Len(d) - 1
      /\ \A i \in 1 .. Len(d) - 1 : Drop(r, 2)[i] = r[2 + i]
  <2> HIDE DEF r, d
  <2>1. 2 \in Nat /\ r \in Seq(E)
    BY <1>2
  <2>2. /\ Drop(r, 2) \in Seq(E)
        /\ Len(Drop(r, 2)) = (IF 2 <= Len(r) THEN Len(r) - 2 ELSE 0)
        /\ \A i \in 1 .. Len(r) - 2 : Drop(r, 2)[i] = r[2 + i]
    BY <2>1, DropIs
  <2>3. Len(r) - 2 = Len(d) - 1 /\ 2 <= Len(r)
    BY <1>2, <1>3
  <2> QED
    BY <2>2, <2>3
<1>5. /\ Len(Drop(s, m + 1)) = Len(d) - 1
      /\ \A i \in 1 .. Len(d) - 1 : Drop(s, m + 1)[i] = s[m + 1 + i]
  <2>1. m + 1 \in Nat /\ m + 1 <= Len(s) /\ Len(s) - (m + 1) = Len(d) - 1
    BY <1>3
  <2> DEFINE n == m + 1
  <2> HIDE DEF n
  <2>2. /\ Len(Drop(s, n)) = (IF n <= Len(s) THEN Len(s) - n ELSE 0)
        /\ \A i \in 1 .. Len(s) - n : Drop(s, n)[i] = s[n + i]
    BY <2>1, DropIs DEF n
  <2> HIDE DEF d
  <2> QED
    BY <2>1, <2>2 DEF n
<1>6. ASSUME NEW i \in 1 .. Len(d) - 1
      PROVE  Drop(r, 2)[i] = Drop(s, m + 1)[i]
  <2>1. Drop(r, 2)[i] = r[1 + (i + 1)]
    BY <1>4, SMTT(30)
  <2>2. r[1 + (i + 1)] = d[i + 1]
    BY <1>2, <1>3
  <2>3. d[i + 1] = s[m + (i + 1)]
    BY <1>1, <1>3
  <2> HIDE DEF d, r
  <2> QED
    BY <1>5, <2>1, <2>2, <2>3
<1> HIDE DEF d, r
<1>7. Drop(r, 2) = Drop(s, m + 1)
  BY <1>1, <1>4, <1>5, <1>6, SeqEqual
<1> QED
  BY <1>7 DEF r, d

\* One result is added, and it is read from the argument looked at.
LEMMA TakesExtends ==
  ASSUME TypeOK, ArgsOK, NEW r, Takes(r), NEW n \in Nat, n = Len(out)
  PROVE  /\ Extended /\ Len(out') = n + 1 /\ out'[n + 1] = r
         /\ ReadFrom(n + 1)' = Str
         /\ InGroup(n + 1)' => p.grouped
<1>1. /\ index \in 1 .. Len(argv) /\ r \in Result /\ r.index = index /\ input' = input
      /\ out' = Append(out, r) /\ out \in Seq(Result)
  BY DEF Takes, TypeOK
<1>2. Len(argv') = Len(argv)
  BY <1>1, CutIs DEF Takes
<1>3. /\ out' \in Seq(Result) /\ Len(out') = n + 1 /\ out'[n + 1] = r
      /\ \A j \in 1 .. n : out'[j] = out[j]
  BY <1>1, AppendProperties
<1>4. Len(argv) \in Nat /\ index <= Len(argv)
  BY <1>1, StateIs
<1>5. Extended
  BY <1>1, <1>2, <1>3, <1>4 DEF Extended
<1> DEFINE c == About(out, n, index)
<1>6. Str = Rest(index, c) /\ (c # 0 => p.grouped)
  BY <1>4 DEF ArgsOK
<1>7. ReadFrom(n + 1)' = Str
  <2>1. ReadFrom(n + 1)' = IF About(out', n, index) = 0 THEN input.argv[index]
                           ELSE <<"-">> \o Drop(input.argv[index], About(out', n, index) + 1)
    <3>1. out'[n + 1].index = index /\ (n + 1) - 1 = n
      BY <1>1, <1>3, <1>4
    <3>2. ReadFrom(n + 1)' =
            LET i == out'[n + 1].index
                m == About(out', (n + 1) - 1, i)
            IN  IF m = 0 THEN input'.argv[i] ELSE <<"-">> \o Drop(input'.argv[i], m + 1)
      BY DEF ReadFrom, About, Rest
    <3> QED
      BY <1>1, <3>1, <3>2
  <2>2. About(out', n, index) = c
    BY <1>3, <1>4, AboutKept
  <2> HIDE DEF c
  <2> QED
    BY <2>1, <2>2, <1>6 DEF Rest
<1>8. InGroup(n + 1)' => p.grouped
  <2> SUFFICES ASSUME InGroup(n + 1)' PROVE p.grouped
    OBVIOUS
  <2>1. n + 1 > 1 /\ out'[n + 1].index = out'[(n + 1) - 1].index
    BY DEF InGroup
  <2>2. (n + 1) - 1 = n /\ n \in 1 .. n
    BY <2>1
  <2>3. out[n].index = index
    BY <1>1, <1>3, <2>1, <2>2
  <2>4. c # 0
    BY <1>4, <2>2, <2>3, AboutIs
  <2> QED
    BY <1>6, <2>4
<1> QED
  BY <1>3, <1>5, <1>7, <1>8

\* Results about arguments before the next one: that is as given.
LEMMA NextArgument ==
  ASSUME TypeOK, ArgsOK, TypeOK', UNCHANGED <<input, argv>>,
         index' > index, NEW n \in Nat, n = Len(out'),
         \A k \in 1 .. n : out'[k].index \in 1 .. Len(argv) /\ out'[k].index < index'
  PROVE  ArgsOK'
<1>1. index' \in 1 .. Len(argv) + 1 /\ index \in 1 .. Len(argv) + 1 /\ Len(argv) \in Nat
  BY StateIs DEF TypeOK
<1>2. \A i \in 1 .. Len(argv) : i > index' => argv[i] = input.argv[i]
  BY <1>1 DEF ArgsOK
<1>3. About(out', n, index') = 0
  <2>1. \A k \in 1 .. n : out'[k].index # index'
    BY <1>1
  <2> QED
    BY <2>1, NoneAbout, Zenon
<1>4. index' <= Len(argv) => Str' = input.argv[index']
  BY <1>1 DEF ArgsOK, Str
<1>5. index' <= Len(argv) => Str' = Rest(index', 0)
  BY <1>4 DEF Rest
<1>6. (index <= Len(argv) => Str = Rest(index, About(out, Len(out), index)))'
  BY <1>3, <1>4 DEF Rest
<1>7. (index <= Len(argv) /\ About(out, Len(out), index) # 0 => p.grouped)'
  BY <1>3
<1>8. (\A k \in 1 .. Len(out) : out[k].index \in 1 .. Len(argv) /\ out[k].index <= index)'
  <2>1. \A k \in 1 .. n : out'[k].index <= index'
    BY <1>1
  <2> QED
    BY <2>1
<1> QED
  BY <1>2, <1>6, <1>7, <1>8 DEF ArgsOK

LEMMA TakesArgs ==
  ASSUME TypeOK, ArgsOK, NEW r, Takes(r), TypeOK'
  PROVE  ArgsOK'
<1>1. PICK n \in Nat : n = Len(out)
  BY SMTT(30) DEF TypeOK
<1>2. /\ Extended /\ Len(out') = n + 1 /\ out'[n + 1] = r
  BY <1>1, TakesExtends
<1>3. /\ index \in 1 .. Len(argv) /\ Len(argv) \in Nat /\ Len(argv') = Len(argv) /\ input' = input
      /\ r.index = index
  BY <1>2, StateIs DEF Takes, Extended
<1>4. \A k \in 1 .. n + 1 : out'[k].index \in 1 .. Len(argv) /\ out'[k].index <= index
  <2> SUFFICES ASSUME NEW k \in 1 .. n + 1
               PROVE  out'[k].index \in 1 .. Len(argv) /\ out'[k].index <= index
    OBVIOUS
  <2>1. CASE k = n + 1
    BY <1>2, <1>3, <2>1
  <2>2. CASE k \in 1 .. n
    BY <1>1, <1>2, <2>2 DEF Extended, ArgsOK
  <2> QED
    BY <1>1, <2>1, <2>2
<1>5. CASE argv' = argv /\ index' \in index + 1 .. Len(argv) + 1
  <2>1. \A k \in 1 .. n + 1 : out'[k].index \in 1 .. Len(argv) /\ out'[k].index < index'
    BY <1>3, <1>4, <1>5
  <2>2. index' > index
    BY <1>3, <1>5
  <2> QED
    BY <1>1, <1>2, <1>3, <1>5, <2>1, <2>2, NextArgument
<1>6. CASE p.grouped /\ CutLetter /\ index' = index /\ Len(Str) > 1
  <2> DEFINE c == About(out, n, index)
  <2>1. c \in Nat /\ About(out', n + 1, index) = c + 1
    <3>1. About(out', n, index) = c
      BY <1>1, <1>2, AboutKept DEF Extended
    <3>2. out'[n + 1].index = index
      BY <1>2, <1>3
    <3> QED
      BY <1>1, <3>1, <3>2, AboutIs
  <2>2. Str = Rest(index, c)
    BY <1>1, <1>3 DEF ArgsOK
  <2>3. /\ argv'[index] = <<"-">> \o Drop(Str, 2)
        /\ \A j \in 1 .. Len(argv) : j # index => argv'[j] = argv[j]
    BY <1>3, <1>6, CutIs
  <2> DEFINE a == input.argv[index]
  <2>4. a \in Seq(Symbols) /\ "-" \in Symbols
    BY <1>3, StateIs, InputsAssumption DEF Text
  <2> HIDE DEF c
  <2>5. Drop(Str, 2) = Drop(a, c + 2)
    <3>1. CASE c = 0
      BY <2>2, <3>1 DEF Rest
    <3>2. CASE c # 0
      <4>1. Str = <<"-">> \o Drop(a, c + 1) /\ c + 1 \in Nat /\ (c + 1) + 1 = c + 2
        BY <2>1, <2>2, <3>2 DEF Rest
      <4> DEFINE m == c + 1
      <4> HIDE DEF m, a
      <4>2. Drop(<<"-">> \o Drop(a, m), 2) = Drop(a, m + 1)
        BY <1>6, <2>4, <4>1, DropBehind DEF m
      <4> QED
        BY <4>1, <4>2 DEF m
    <3> QED
      BY <3>1, <3>2
  <2>6. Str' = <<"-">> \o Drop(a, c + 2)
    BY <1>6, <2>3, <2>5 DEF Str
  <2>7. (index <= Len(argv) => Str = Rest(index, About(out, Len(out), index)))'
    <3>1. (c + 1) + 1 = c + 2 /\ c + 1 # 0
      BY <2>1
    <3>2. About(out', Len(out'), index') = c + 1
      BY <1>2, <1>6, <2>1
    <3> HIDE DEF a
    <3>3. Rest(index, About(out, Len(out), index))' = <<"-">> \o Drop(input'.argv[index'], (c + 1) + 1)
      BY <3>1, <3>2 DEF Rest
    <3> QED
      BY <1>3, <1>6, <2>6, <3>1, <3>3 DEF a
  <2>8. (\A i \in 1 .. Len(argv) : i > index => argv[i] = input.argv[i])'
    BY <1>3, <1>6, <2>3 DEF ArgsOK
  <2>9. (\A k \in 1 .. Len(out) : out[k].index \in 1 .. Len(argv) /\ out[k].index <= index)'
    BY <1>2, <1>3, <1>4, <1>6
  <2>10. p'.grouped
    BY <1>3, <1>6 DEF p
  <2> QED
    BY <2>7, <2>8, <2>9, <2>10 DEF ArgsOK
<1> QED
  BY <1>5, <1>6 DEF Takes

LEMMA DashDashExtends ==
  ASSUME TypeOK, ArgsOK, DashDash, TypeOK', NEW n \in Nat, n = Len(out)
  PROVE  /\ Extended /\ Len(out') \in Nat
         /\ \A k \in 1 .. Len(out') : k > n =>
              /\ out'[k].index \in index .. Len(argv) /\ out'[k].id = InputId
              /\ \A j \in n + 1 .. k - 1 : out'[j].index < out'[k].index
              /\ ReadFrom(k)' = out'[k].spelling /\ out'[k].spelling \in Text
              /\ InGroup(k)' => p.grouped
<1>1. /\ index \in 1 .. Len(argv) /\ Str \in Text /\ UNCHANGED <<input, argv, start, fallback>>
      /\ InputId \in Nat /\ Len(argv) \in Nat /\ argv \in Seq(Text) /\ index \in Nat
  <2>1. InputId \in Nat /\ Len(argv) \in Nat
    BY StateIs
  <2>2. index \in 1 .. Len(argv) /\ Str \in Text /\ UNCHANGED <<input, argv, start, fallback>>
    BY DashDashIs
  <2>3. argv \in Seq(Text) /\ index \in Nat
    BY DEF TypeOK
  <2> QED
    BY <2>1, <2>2, <2>3
<1>2. PICK rs \in Seq(Result) :
        /\ out' = out \o rs
        /\ \/ /\ p.pack /\ Len(rs) = 1
              /\ rs[1] = Plain(InputId, Str, Drop(argv, index), index)
           \/ /\ ~p.pack /\ Len(rs) = Len(argv) - index
              /\ \A k \in 1 .. Len(rs) : rs[k] = Plain(InputId, argv[index + k], <<>>, index + k)
  BY DashDashIs
<1>3. /\ out' \in Seq(Result) /\ Len(out') = n + Len(rs) /\ Len(rs) \in Nat
      /\ \A j \in 1 .. n : out'[j] = out[j]
      /\ \A k \in 1 .. Len(rs) : out'[n + k] = rs[k]
  <2>1. out \in Seq(Result)
    BY DEF TypeOK
  <2> QED
    BY <1>2, <2>1, ConcatProperties
<1>4. Extended
  BY <1>1, <1>3 DEF Extended
<1>5. Str = Rest(index, About(out, n, index)) /\ (About(out, n, index) # 0 => p.grouped)
      /\ \A k \in 1 .. n : out[k].index <= index
  BY <1>1 DEF ArgsOK
<1>6. ASSUME NEW k \in 1 .. Len(out'), NEW m \in Nat, k = n + m, m > 0, NEW i \in Nat,
             out'[k].index = i, i >= index,
             \A j \in n + 1 .. k - 1 : out'[j].index # i,
             i = index \/ (i > index /\ i <= Len(argv))
      PROVE  /\ ReadFrom(k)' = (IF i = index THEN Str ELSE argv[i])
             /\ i # index => ~InGroup(k)'
             /\ InGroup(k)' => p.grouped
  <2> DEFINE c == About(out', k - 1, i)
  <2>1. ReadFrom(k)' = IF c = 0 THEN input.argv[i] ELSE <<"-">> \o Drop(input.argv[i], c + 1)
    BY <1>1, <1>6 DEF ReadFrom, About, Rest
  <2>2. c = About(out, n, i)
    <3>1. {j \in 1 .. k - 1 : out'[j].index = i} = {j \in 1 .. n : out[j].index = i}
      <4>1. ASSUME NEW j \in 1 .. k - 1, out'[j].index = i
            PROVE  j \in 1 .. n /\ out[j].index = i
        BY <1>3, <1>6, <4>1
      <4>2. ASSUME NEW j \in 1 .. n, out[j].index = i
            PROVE  j \in 1 .. k - 1 /\ out'[j].index = i
        BY <1>3, <1>6, <4>2
      <4> QED
        BY <4>1, <4>2
    <3> QED
      BY <3>1 DEF About
  <2> HIDE DEF c
  <2>3. CASE i = index
    <3>1. ReadFrom(k)' = Str
      BY <1>5, <2>1, <2>2, <2>3 DEF Rest
    <3>2. InGroup(k)' => p.grouped
      <4> SUFFICES ASSUME InGroup(k)' PROVE p.grouped
        OBVIOUS
      <4>1. k > 1 /\ out'[k].index = out'[k - 1].index
        BY DEF InGroup
      <4>2. k - 1 \in 1 .. n
        <5>1. n \in Nat /\ k \in Nat /\ out'[k - 1].index = i
          BY <1>3, <1>6, <4>1
        <5>2. ~(k - 1 \in n + 1 .. k - 1)
          BY <1>6, <5>1
        <5> QED
          BY <4>1, <5>1, <5>2
      <4>3. out[k - 1].index = index
        BY <1>3, <1>6, <2>3, <4>1, <4>2
      <4>4. About(out, n, index) # 0
        BY <4>2, <4>3, AboutIs
      <4> QED
        BY <1>5, <4>4
    <3> QED
      BY <2>3, <3>1, <3>2
  <2>4. CASE i # index
    <3>1. \A j \in 1 .. n : out[j].index # i
      BY <1>1, <1>5, <1>6, <2>4 DEF ArgsOK
    <3>2. c = 0
      BY <2>2, <3>1, NoneAbout
    <3>3. argv[i] = input.argv[i]
      BY <1>1, <1>6, <2>4 DEF ArgsOK
    <3>4. ~InGroup(k)'
      <4> SUFFICES ASSUME InGroup(k)' PROVE FALSE
        OBVIOUS
      <4>1. k > 1 /\ out'[k - 1].index = i
        BY <1>6 DEF InGroup
      <4>2. k - 1 \in 1 .. n \/ k - 1 \in n + 1 .. k - 1
        BY <1>6, <4>1
      <4> QED
        BY <1>3, <1>6, <3>1, <4>1, <4>2
    <3> QED
      BY <2>1, <2>4, <3>2, <3>3, <3>4
  <2> QED
    BY <2>3, <2>4
<1>7. ASSUME NEW k \in 1 .. Len(out'), k > n
      PROVE  /\ out'[k].index \in index .. Len(argv) /\ out'[k].id = InputId
             /\ \A j \in n + 1 .. k - 1 : out'[j].index < out'[k].index
             /\ ReadFrom(k)' = out'[k].spelling /\ out'[k].spelling \in Text
             /\ InGroup(k)' => p.grouped
  <2> DEFINE m == k - n
  <2>1. m \in 1 .. Len(rs) /\ k = n + m /\ m \in Nat /\ m > 0 /\ out'[k] = rs[m]
    <3>1. m \in 1 .. Len(rs) /\ k = n + m /\ m \in Nat /\ m > 0
      BY <1>3, <1>7
    <3> HIDE DEF m
    <3>2. out'[n + m] = rs[m]
      BY <1>3, <3>1
    <3> QED
      BY <3>1, <3>2
  <2> HIDE DEF m
  <2>2. CASE p.pack
    <3>1. m = 1 /\ rs[1] = Plain(InputId, Str, Drop(argv, index), index)
      <4>1. Len(rs) = 1 /\ rs[1] = Plain(InputId, Str, Drop(argv, index), index)
        BY <1>2, <2>2, Zenon
      <4> QED
        BY <2>1, <4>1
    <3>2. Drop(argv, index) \in Seq(Text)
      BY <1>1, DropIs
    <3>3. out'[k].index = index /\ out'[k].spelling = Str /\ out'[k].id = InputId
      BY <2>1, <3>1, PlainFields
    <3>4. ReadFrom(k)' = Str /\ (InGroup(k)' => p.grouped)
      BY <1>1, <1>6, <2>1, <3>1, <3>3
    <3> QED
      BY <1>1, <2>1, <3>1, <3>3, <3>4
  <2>3. CASE ~p.pack
    <3>1. Len(rs) = Len(argv) - index
          /\ \A l \in 1 .. Len(rs) : rs[l] = Plain(InputId, argv[index + l], <<>>, index + l)
      BY <1>2, <2>3
    <3>2. ASSUME NEW l \in 1 .. Len(rs)
          PROVE  /\ out'[n + l].index = index + l /\ out'[n + l].spelling = argv[index + l]
                 /\ out'[n + l].id = InputId
      <4>1. argv[index + l] \in Text /\ index + l \in Nat
        BY <1>1, <3>1
      <4> QED
        <5>1. rs[l] = Plain(InputId, argv[index + l], <<>>, index + l) /\ out'[n + l] = rs[l]
          BY <1>3, <3>1
        <5> QED
          BY <5>1, PlainFields
    <3>3. /\ out'[k].index = index + m /\ out'[k].spelling = argv[index + m] /\ out'[k].id = InputId
          /\ index + m \in index + 1 .. Len(argv) /\ argv[index + m] \in Text
      <4>1. out'[n + m].index = index + m /\ out'[n + m].spelling = argv[index + m]
            /\ out'[n + m].id = InputId
        BY <2>1, <3>2
      <4>2. index + m \in index + 1 .. Len(argv) /\ index + m \in 1 .. Len(argv)
        BY <1>1, <2>1, <3>1
      <4>3. argv[index + m] \in Text
        BY <1>1, <4>2
      <4> QED
        BY <2>1, <4>1, <4>2, <4>3, Zenon
    <3>4. \A j \in n + 1 .. k - 1 : out'[j].index < index + m
      <4> SUFFICES ASSUME NEW j \in n + 1 .. k - 1 PROVE out'[j].index < index + m
        OBVIOUS
      <4>1. j - n \in 1 .. Len(rs) /\ j = n + (j - n) /\ j - n < m
        BY <2>1
      <4>2. out'[n + (j - n)].index = index + (j - n)
        BY <3>2, <4>1
      <4> QED
        BY <1>1, <2>1, <4>1, <4>2
    <3> DEFINE i == index + m
    <3>5. i \in Nat /\ i > index /\ i <= Len(argv) /\ i # index
      BY <1>1, <2>1, <3>3
    <3>6. ~InGroup(k)' /\ ReadFrom(k)' = argv[i]
      <4>1. \A j \in n + 1 .. k - 1 : out'[j].index # i
        <5> SUFFICES ASSUME NEW j \in n + 1 .. k - 1 PROVE out'[j].index # i
          OBVIOUS
        <5>1. out'[j].index < i
          BY <3>4
        <5> QED
          BY <3>5, <5>1
      <4>2. out'[k].index = i
        BY <3>3
      <4> HIDE DEF i
      <4>3. k \in 1 .. Len(out') /\ i >= index
        BY <1>1, <3>5
      <4> QED
        BY <1>6, <2>1, <3>5, <4>1, <4>2, <4>3
    <3> QED
      BY <1>1, <3>3, <3>4, <3>6
  <2> QED
    BY <2>2, <2>3
<1> QED
  BY <1>3, <1>4, <1>7

\* Where the results point, step by step.
LEMMA ArgsStep ==
  ASSUME TypeOK, SearchOK, ArgsOK, [Next]_vars
  PROVE  ArgsOK'
<1>1. TypeOK'
  BY TypeStep
<1>2. CASE UNCHANGED <<input, argv, index, out, stop>>
  <2>1. input' = input /\ argv' = argv /\ index' = index /\ out' = out /\ p' = p /\ Str' = Str
    BY <1>2, ParserKept DEF Str
  <2>2. Rest(index, About(out, Len(out), index))' = Rest(index, About(out, Len(out), index))
    BY <2>1 DEF Rest
  <2> QED
    BY <2>1, <2>2 DEF ArgsOK
<1>3. CASE SkipEmpty
  <2>1. index <= Len(argv) /\ index' = index + 1 /\ UNCHANGED <<input, argv, out>>
    BY <1>3 DEF SkipEmpty
  <2>2. index \in Nat /\ index' > index
    BY <2>1, StrIs
  <2>3. PICK n \in Nat : n = Len(out')
    BY <1>1, SMTT(30) DEF TypeOK
  <2>4. \A k \in 1 .. n : out'[k].index \in 1 .. Len(argv) /\ out'[k].index < index'
    BY <2>1, <2>2, <2>3 DEF ArgsOK
  <2> QED
    BY <1>1, <2>1, <2>2, <2>3, <2>4, NextArgument
<1>4. CASE DashDash
  <2>1. PICK m \in Nat : m = Len(out)
    BY DEF TypeOK
  <2>2. PICK n \in Nat : n = Len(out')
    BY <1>1, SMTT(30) DEF TypeOK
  <2>3. /\ index \in 1 .. Len(argv) /\ Len(argv) \in Nat /\ index' = Len(argv) + 1 /\ argv' = argv
        /\ input' = input
    BY <1>4, DashDashIs, StateIs
  <2>4. ASSUME NEW k \in 1 .. n
        PROVE  out'[k].index \in 1 .. Len(argv) /\ out'[k].index < index'
    <3>1. CASE k > m
      BY <1>1, <1>4, <2>1, <2>2, <2>3, <3>1, DashDashExtends
    <3>2. CASE k \in 1 .. m
      <4>1. out'[k] = out[k]
        BY <1>1, <1>4, <2>1, <3>2, DashDashExtends DEF Extended
      <4> QED
        BY <2>1, <2>3, <3>2, <4>1 DEF ArgsOK
    <3> QED
      BY <2>1, <3>1, <3>2
  <2>5. index' > index
    BY <2>3
  <2> QED
    BY <1>1, <2>2, <2>3, <2>4, <2>5, NextArgument
<1>5. CASE \E r : Takes(r)
  BY <1>1, <1>5, TakesArgs
<1> QED
  BY <1>2, <1>3, <1>4, <1>5, Steps

\* Every result is located if the new ones are.
LEMMA LocatedFrom ==
  ASSUME TypeOK, TypeOK', Extended, Located, NEW n \in Nat, n = Len(out),
         \A k \in 1 .. Len(out') : k > n => LocatedAt(k)'
  PROVE  Located'
<1>1. DOMAIN out = 1 .. n /\ DOMAIN out' = 1 .. Len(out') /\ Len(out') \in Nat
  BY SMTT(30) DEF TypeOK
<1>2. ASSUME NEW k \in 1 .. Len(out') PROVE LocatedAt(k)'
  <2>1. CASE k \in 1 .. n
    <3>1. LocatedAt(k)
      BY <1>1, <2>1 DEF Located, LocatedAt
    <3> QED
      BY <2>1, <3>1, EarlierKept
  <2>2. CASE k > n
    BY <2>2
  <2> QED
    BY <1>1, <2>1, <2>2
<1>3. (\A k \in DOMAIN out : LocatedAt(k))'
  BY <1>1, <1>2
<1> QED
  BY <1>3 DEF Located, LocatedAt

LEMMA LocatedStep ==
  ASSUME TypeOK, SearchOK, ArgsOK, Located, [Next]_vars
  PROVE  Located'
<1>1. TypeOK'
  BY TypeStep
<1>2. PICK n \in Nat : n = Len(out)
  BY DEF TypeOK
<1>3. DOMAIN argv = 1 .. Len(argv) /\ DOMAIN argv' = 1 .. Len(argv') /\ Len(argv) \in Nat
  BY <1>1, SMTT(30) DEF TypeOK
<1>4. CASE out' = out /\ input' = input /\ argv' = argv
  <2>1. Extended
    BY <1>2, <1>4 DEF Extended, TypeOK
  <2> QED
    BY <1>1, <1>2, <1>4, <2>1, LocatedFrom
<1>5. CASE DashDash
  <2>1. Extended /\ Len(out') \in Nat
    BY <1>1, <1>2, <1>5, DashDashExtends
  <2>2. index \in 1 .. Len(argv) /\ input' = input
    BY <1>5, DashDashIs
  <2>3. ASSUME NEW k \in 1 .. Len(out'), k > n PROVE LocatedAt(k)'
    <3>1. /\ out'[k].index \in index .. Len(argv)
          /\ \A j \in n + 1 .. k - 1 : out'[j].index < out'[k].index
          /\ ReadFrom(k)' = out'[k].spelling /\ out'[k].spelling \in Text
          /\ InGroup(k)' => p.grouped
      BY <1>1, <1>2, <1>5, <2>3, DashDashExtends
    <3>2. IsPrefix(out'[k].spelling, out'[k].spelling)
      BY <3>1, BeginningIs DEF Text
    <3>3. ASSUME NEW j \in 1 .. k - 1 PROVE out'[j].index <= out'[k].index
      <4>1. CASE j \in 1 .. n
        <5>1. out'[j].index \in 1 .. Len(argv) /\ out'[j].index <= index
          BY <1>2, <2>1, <4>1 DEF Extended, ArgsOK
        <5> QED
          BY <1>3, <2>2, <3>1, <5>1
      <4>2. CASE j \in n + 1 .. k - 1
        <5>1. out'[j].index \in index .. Len(argv)
          BY <1>1, <1>2, <1>5, <2>3, <4>2, DashDashExtends
        <5> QED
          BY <1>3, <2>2, <3>1, <4>2, <5>1, SMTT(30)
      <4> QED
        BY <1>2, <2>1, <4>1, <4>2
    <3>4. out'[k].index \in DOMAIN argv'
      BY <1>3, <2>1, <2>2, <3>1 DEF Extended
    <3>5. p'.grouped = p.grouped
      BY <2>2, ParserKept
    <3>6. (IsPrefix(out[k].spelling, ReadFrom(k)))'
      BY <3>1, <3>2
    <3> QED
      BY <3>1, <3>3, <3>4, <3>5, <3>6 DEF LocatedAt
  <2> QED
    BY <1>1, <1>2, <2>1, <2>3, LocatedFrom
<1>6. ASSUME NEW r, Takes(r) PROVE Located'
  <2>1. /\ Extended /\ Len(out') = n + 1 /\ out'[n + 1] = r
        /\ ReadFrom(n + 1)' = Str /\ (InGroup(n + 1)' => p.grouped)
    BY <1>2, <1>6, TakesExtends
  <2>2. index \in 1 .. Len(argv) /\ r.index = index /\ IsPrefix(r.spelling, Str) /\ input' = input
    BY <1>6 DEF Takes
  <2>3. LocatedAt(n + 1)'
    <3>1. \A j \in 1 .. (n + 1) - 1 : out'[j].index <= out'[n + 1].index
      BY <1>2, <2>1, <2>2 DEF Extended, ArgsOK
    <3>2. out'[n + 1].index \in DOMAIN argv'
      BY <1>3, <2>1, <2>2 DEF Extended
    <3>3. p'.grouped = p.grouped
      BY <2>2, ParserKept
    <3>4. IsPrefix(out'[n + 1].spelling, ReadFrom(n + 1)')
      BY <2>1, <2>2
    <3> QED
      BY <2>1, <3>1, <3>2, <3>3, <3>4 DEF LocatedAt
  <2>4. \A k \in 1 .. Len(out') : k > n => LocatedAt(k)'
    <3> SUFFICES ASSUME NEW k \in 1 .. Len(out'), k > n PROVE LocatedAt(k)'
      OBVIOUS
    <3>1. k = n + 1
      BY <2>1
    <3> QED
      BY <2>3, <3>1
  <2> QED
    BY <1>1, <1>2, <2>1, <2>4, LocatedFrom
<1>7. SkipEmpty => out' = out /\ input' = input /\ argv' = argv
  BY DEF SkipEmpty
<1> QED
  BY <1>4, <1>5, <1>6, <1>7, Steps

\* Where the results point, at all times.
LEMMA Placed == Spec => [](TypeOK /\ SearchOK /\ ArgsOK /\ Located)
<1> DEFINE I == TypeOK /\ SearchOK /\ ArgsOK /\ Located
<1>1. Init => I
  <2> SUFFICES ASSUME Init PROVE I
    OBVIOUS
  <2>1. /\ input \in Inputs /\ argv = input.argv /\ index = 1 /\ out = <<>>
    BY DEF Init
  <2>2. TypeOK /\ SearchOK
    BY TypeInit
  <2>3. Len(out) = 0 /\ 0 \in Nat
    BY <2>1
  <2>4. About(out, 0, 1) = 0
    BY <2>3, NoneAbout
  <2>5. ArgsOK
    BY <2>1, <2>3, <2>4 DEF ArgsOK, Rest, Str
  <2>6. Located
    BY <2>1 DEF Located
  <2> QED
    BY <2>2, <2>5, <2>6
<1>2. I /\ [Next]_vars => I'
  BY TypeStep, ArgsStep, LocatedStep
<1> QED
  BY <1>1, <1>2, PTL DEF Spec

\* Every result points at the argument it came from, however many results came
\* from a group before it, and positions never go back (the index given to
\* ParsedArgument in parse_one_arg and parse_one_arg_grouped).
THEOREM ResultsPointBack == Spec => []Located
<1>1. TypeOK /\ SearchOK /\ ArgsOK /\ Located => Located
  OBVIOUS
<1> QED
  BY <1>1, Placed, PTL

-----------------------------------------------------------------------------
(* The order of the names, and the binary search.                          *)

\* a comes before b because of position d: they agree up to there, and there b
\* has ended or has the greater character.
BeforeAt(a, b, d) ==
  /\ d \in 1 .. Len(a) /\ d <= Len(b) + 1
  /\ \A i \in 1 .. d - 1 : Lower[a[i]] = Lower[b[i]]
  /\ d <= Len(b) => Rank[Lower[a[d]]] < Rank[Lower[b[d]]]

LEMMA BeforeIs ==
  ASSUME NEW a \in Text, NEW b \in Text
  PROVE  Before(a, b) <=> \E d \in Nat : BeforeAt(a, b, d)
<1> DEFINE diff == {j \in DOMAIN a \intersect DOMAIN b : Lower[a[j]] # Lower[b[j]]}
<1>1. /\ Len(a) \in Nat /\ Len(b) \in Nat /\ DOMAIN a = 1 .. Len(a) /\ DOMAIN b = 1 .. Len(b)
      /\ \A i \in 1 .. Len(a) : a[i] \in Symbols
      /\ \A i \in 1 .. Len(b) : b[i] \in Symbols
  BY DEF Text
<1>2. Before(a, b) <=> IF diff = {} THEN Len(a) > Len(b)
                       ELSE Rank[Lower[a[Min(diff)]]] < Rank[Lower[b[Min(diff)]]]
  BY DEF Before
<1>3. \A j : j \in diff <=> j \in 1 .. Len(a) /\ j \in 1 .. Len(b) /\ Lower[a[j]] # Lower[b[j]]
  BY <1>1
<1> HIDE DEF diff
<1>4. CASE diff = {}
  <2>1. ASSUME Len(a) > Len(b) PROVE BeforeAt(a, b, Len(b) + 1)
    BY <1>1, <1>3, <1>4, <2>1 DEF BeforeAt
  <2>2. ASSUME NEW d \in Nat, BeforeAt(a, b, d) PROVE Len(a) > Len(b)
    <3>1. ~(d <= Len(b))
      <4> SUFFICES ASSUME d <= Len(b) PROVE FALSE
        OBVIOUS
      <4>1. d \in 1 .. Len(a) /\ d \in 1 .. Len(b) /\ Lower[a[d]] = Lower[b[d]]
        BY <1>1, <1>3, <1>4, <2>2 DEF BeforeAt
      <4>2. Lower[a[d]] \in Symbols /\ Rank[Lower[a[d]]] \in Nat
        BY <1>1, <4>1, InputsAssumption
      <4> QED
        BY <2>2, <4>1, <4>2 DEF BeforeAt
    <3> QED
      BY <1>1, <2>2, <3>1 DEF BeforeAt
  <2>3. Len(b) + 1 \in Nat
    BY <1>1
  <2> QED
    BY <1>2, <1>4, <2>1, <2>2, <2>3
<1>5. CASE diff # {}
  <2> DEFINE m == Min(diff)
  <2>1. m \in diff /\ \A j \in diff : m <= j
    <3>1. diff \in SUBSET Nat
      BY <1>3
    <3> QED
      BY <1>5, <3>1, MinIs
  <2> HIDE DEF m
  <2>2. m \in 1 .. Len(a) /\ m \in 1 .. Len(b) /\ Lower[a[m]] # Lower[b[m]]
    BY <1>3, <2>1
  <2>3. ASSUME Rank[Lower[a[m]]] < Rank[Lower[b[m]]] PROVE BeforeAt(a, b, m)
    <3>1. ASSUME NEW i \in 1 .. m - 1 PROVE Lower[a[i]] = Lower[b[i]]
      <4>1. i \in 1 .. Len(a) /\ i \in 1 .. Len(b) /\ ~(m <= i)
        BY <1>1, <2>2
      <4> QED
        BY <1>3, <2>1, <4>1
    <3> QED
      BY <1>1, <2>2, <2>3, <3>1 DEF BeforeAt
  <2>4. ASSUME NEW d \in Nat, BeforeAt(a, b, d) PROVE Rank[Lower[a[m]]] < Rank[Lower[b[m]]]
    <3>1. d <= m
      <4> SUFFICES ASSUME m < d PROVE FALSE
        BY <2>2
      <4>1. m \in 1 .. d - 1
        BY <2>2
      <4> QED
        BY <2>2, <2>4, <4>1 DEF BeforeAt
    <3>2. d \in 1 .. Len(a) /\ d \in 1 .. Len(b) /\ Rank[Lower[a[d]]] < Rank[Lower[b[d]]]
      BY <1>1, <2>2, <2>4, <3>1 DEF BeforeAt
    <3>3. Lower[a[d]] # Lower[b[d]]
      <4>1. Lower[a[d]] \in Symbols /\ Rank[Lower[a[d]]] \in Nat
        BY <1>1, <3>2, InputsAssumption
      <4> QED
        BY <3>2, <4>1
    <3>4. m = d
      BY <1>3, <2>1, <2>2, <3>1, <3>2, <3>3
    <3> QED
      BY <3>2, <3>4
  <2>5. m \in Nat
    BY <2>2
  <2> QED
    BY <1>2, <1>5, <2>3, <2>4, <2>5 DEF m
<1> QED
  BY <1>4, <1>5

\* What comes before the third comes before the second, or the second does.
LEMMA BeforeSplits ==
  ASSUME NEW a \in Text, NEW b \in Text, NEW c \in Text, Before(a, c)
  PROVE  Before(a, b) \/ Before(b, c)
<1>1. /\ Len(a) \in Nat /\ Len(b) \in Nat /\ Len(c) \in Nat
      /\ \A i \in 1 .. Len(a) : a[i] \in Symbols
      /\ \A i \in 1 .. Len(b) : b[i] \in Symbols
      /\ \A i \in 1 .. Len(c) : c[i] \in Symbols
  BY DEF Text
<1>2. PICK d \in Nat : BeforeAt(a, c, d)
  BY BeforeIs
<1>3. /\ d \in 1 .. Len(a) /\ d <= Len(c) + 1
      /\ \A i \in 1 .. d - 1 : Lower[a[i]] = Lower[c[i]]
      /\ d <= Len(c) => Rank[Lower[a[d]]] < Rank[Lower[c[d]]]
  BY <1>2 DEF BeforeAt
<1> DEFINE D == {i \in 1 .. d : i > Len(b) \/ Lower[b[i]] # Lower[a[i]]}
<1>4. CASE D = {}
  <2>1. \A i \in 1 .. d : i <= Len(b) /\ Lower[b[i]] = Lower[a[i]]
    BY <1>1, <1>4, SMTT(30)
  <2>2. d \in 1 .. Len(b) /\ Lower[b[d]] = Lower[a[d]]
    BY <1>1, <1>3, <2>1
  <2>3. BeforeAt(b, c, d)
    BY <1>1, <1>3, <2>1, <2>2 DEF BeforeAt
  <2> QED
    BY <2>3, BeforeIs
<1>5. CASE D # {}
  <2> DEFINE e == Min(D)
  <2>1. e \in D /\ \A i \in D : e <= i
    <3>1. D \in SUBSET Nat
      OBVIOUS
    <3> HIDE DEF D
    <3> QED
      BY <1>5, <3>1, MinIs
  <2> HIDE DEF e
  <2>2. e \in 1 .. d /\ (e > Len(b) \/ Lower[b[e]] # Lower[a[e]])
    BY <2>1
  <2>3. \A i \in 1 .. e - 1 : i <= Len(b) /\ Lower[b[i]] = Lower[a[i]]
    <3> SUFFICES ASSUME NEW i \in 1 .. e - 1 PROVE i <= Len(b) /\ Lower[b[i]] = Lower[a[i]]
      OBVIOUS
    <3>1. i \in 1 .. d /\ ~(e <= i)
      BY <2>2
    <3>2. i \notin D
      BY <2>1, <3>1
    <3> QED
      BY <1>1, <3>1, <3>2
  <2> HIDE DEF D
  <2>4. e \in Nat /\ e \in 1 .. Len(a) /\ e <= Len(b) + 1
    <3>1. e \in Nat /\ e \in 1 .. Len(a)
      BY <1>1, <1>3, <2>2
    <3>2. e - 1 <= Len(b)
      <4>1. CASE e = 1
        BY <1>1, <4>1
      <4>2. CASE e # 1
        <5>1. e - 1 \in 1 .. e - 1
          BY <3>1, <4>2
        <5> QED
          BY <2>3, <5>1
      <4> QED
        BY <4>1, <4>2
    <3> QED
      BY <1>1, <3>1, <3>2
  <2>5. CASE e > Len(b)
    <3>1. BeforeAt(a, b, e)
      BY <1>1, <2>3, <2>4, <2>5 DEF BeforeAt
    <3> QED
      BY <2>4, <3>1, BeforeIs
  <2>6. CASE e <= Len(b)
    <3>1. Lower[b[e]] # Lower[a[e]]
      BY <1>1, <2>2, <2>4, <2>6
    <3>2. /\ a[e] \in Symbols /\ b[e] \in Symbols /\ Lower[a[e]] \in Symbols /\ Lower[b[e]] \in Symbols
          /\ Rank[Lower[a[e]]] \in Nat /\ Rank[Lower[b[e]]] \in Nat
      <4>1. a[e] \in Symbols /\ b[e] \in Symbols
        BY <1>1, <2>4, <2>6
      <4> QED
        BY <4>1, InputsAssumption
    <3>3. Rank[Lower[a[e]]] # Rank[Lower[b[e]]]
      BY <3>1, <3>2, InputsAssumption
    <3>4. CASE Rank[Lower[a[e]]] < Rank[Lower[b[e]]]
      <4>1. BeforeAt(a, b, e)
        BY <2>3, <2>4, <3>4 DEF BeforeAt
      <4> QED
        BY <2>4, <4>1, BeforeIs
    <3>5. CASE Rank[Lower[b[e]]] < Rank[Lower[a[e]]]
      <4>1. \A i \in 1 .. e - 1 : Lower[b[i]] = Lower[c[i]]
        BY <1>3, <2>2, <2>3
      <4>2. e <= Len(c) + 1
        BY <1>1, <1>3, <2>2
      <4>3. e <= Len(c) => Rank[Lower[b[e]]] < Rank[Lower[c[e]]]
        <5>1. CASE e = d
          <6> SUFFICES ASSUME e <= Len(c) PROVE Rank[Lower[b[e]]] < Rank[Lower[c[e]]]
            OBVIOUS
          <6>1. c[e] \in Symbols /\ Lower[c[e]] \in Symbols /\ Rank[Lower[c[e]]] \in Nat
            <7>1. c[e] \in Symbols
              BY <1>1, <2>4
            <7> QED
              BY <7>1, InputsAssumption
          <6> QED
            BY <1>3, <3>2, <3>5, <5>1, <6>1
        <5>2. CASE e # d
          <6>1. e \in 1 .. d - 1
            BY <1>3, <2>2, <5>2
          <6> QED
            BY <1>3, <3>5, <6>1
        <5> QED
          BY <5>1, <5>2
      <4>4. BeforeAt(b, c, e)
        BY <2>4, <2>6, <4>1, <4>2, <4>3 DEF BeforeAt
      <4> QED
        BY <2>4, <4>4, BeforeIs
    <3> QED
      BY <3>2, <3>3, <3>4, <3>5
  <2> QED
    BY <1>1, <2>4, <2>5, <2>6
<1> QED
  BY <1>4, <1>5

\* Trimming gives a text.
LEMMA TrimmedIs ==
  ASSUME NEW s \in Text
  PROVE  /\ Trimmed(s) \in Text
         /\ \A n \in 0 .. Len(s) - 1 :
              (\A i \in 1 .. n : s[i] \in PrefixChars) /\ s[n + 1] \notin PrefixChars
              => Trimmed(s) = Drop(s, n)
<1> DEFINE kept == {j \in DOMAIN s : s[j] \notin PrefixChars}
<1>1. Len(s) \in Nat /\ DOMAIN s = 1 .. Len(s) /\ s \in Seq(Symbols)
  BY DEF Text
<1>2. \A j : j \in kept <=> j \in 1 .. Len(s) /\ s[j] \notin PrefixChars
  BY <1>1
<1>3. Trimmed(s) = IF kept = {} THEN <<>> ELSE Drop(s, Min(kept) - 1)
  BY DEF Trimmed
<1> HIDE DEF kept
<1>4. kept # {} => Min(kept) \in kept /\ \A j \in kept : Min(kept) <= j
  <2>1. kept \in SUBSET Nat
    BY <1>2
  <2> QED
    BY <2>1, MinIs
<1>5. kept # {} => Min(kept) \in 1 .. Len(s) /\ Min(kept) - 1 \in Nat
  BY <1>1, <1>2, <1>4
<1>6. Trimmed(s) \in Text
  <2>1. CASE kept = {}
    BY <1>3, <2>1 DEF Text
  <2>2. CASE kept # {}
    <3>1. Drop(s, Min(kept) - 1) \in Seq(Symbols)
      BY <1>1, <1>5, <2>2, DropIs
    <3> QED
      BY <1>3, <2>2, <3>1 DEF Text
  <2> QED
    BY <2>1, <2>2
<1>7. ASSUME NEW n \in 0 .. Len(s) - 1,
             \A i \in 1 .. n : s[i] \in PrefixChars, s[n + 1] \notin PrefixChars
      PROVE  Trimmed(s) = Drop(s, n)
  <2>1. n + 1 \in kept
    BY <1>1, <1>2, <1>7
  <2>2. Min(kept) = n + 1
    <3>1. Min(kept) \in kept /\ Min(kept) <= n + 1
      BY <1>4, <2>1
    <3>2. Min(kept) \notin 1 .. n
      BY <1>2, <1>7, <3>1
    <3> QED
      BY <1>5, <2>1, <3>1, <3>2
  <2>3. Min(kept) - 1 = n
    BY <2>2
  <2> QED
    BY <1>3, <2>1, <2>3
<1> QED
  BY <1>6, <1>7

\* The prefixes in use, and their characters.
LEMMA PrefixCharsAre ==
  ASSUME TypeOK, NEW k \in Searchable, NEW i \in DOMAIN t[k].prefixes,
         NEW l \in 1 .. Len(t[k].prefixes[i])
  PROVE  t[k].prefixes[i] \in Text /\ t[k].prefixes[i][l] \in PrefixChars
<1> DEFINE q == t[k].prefixes[i]
<1>1. t[k] \in Info
  BY StateIs
<1>2. q \in Text
  BY <1>1, InfoIs
<1>3. PrefixesUnion = UNION {ToSet(t[m].prefixes) : m \in Searchable}
  <2>1. input.parser \in DOMAIN Parsers
    BY DEF TypeOK
  <2> QED
    BY <2>1, TableIs DEF PrefixesUnion, t, p, Searchable, First
<1>4. q \in ToSet(t[k].prefixes)
  BY DEF ToSet
<1>5. q \in PrefixesUnion
  BY <1>3, <1>4
<1> HIDE DEF q
<1>6. q[l] \in ToSet(q)
  <2>1. l \in DOMAIN q
    BY <1>2 DEF Text, q
  <2> QED
    BY <2>1 DEF ToSet
<1>7. q[l] \in PrefixChars
  BY <1>5, <1>6 DEF PrefixChars
<1> QED
  BY <1>2, <1>7 DEF q

\* In a generated table the names keep apart from the prefixes, and are sorted.
LEMMA GeneratedIs ==
  ASSUME TypeOK, p.tablegen, NEW k \in Searchable
  PROVE  /\ Apart(Name(t[k]), PrefixChars)
         /\ \A j \in First .. k : ~Before(Name(t[k]), Name(t[j]))
<1>1. input.parser \in DOMAIN Parsers
  BY DEF TypeOK
<1> DEFINE n == input.parser
<1>2. /\ First = Built[n].first /\ t = Parsers[n].table /\ Parsers[n].tablegen
      /\ PrefixChars = UNION {ToSet(q) : q \in Built[n].prefixes}
      /\ k \in Built[n].first .. Len(Parsers[n].table)
  BY DEF First, t, p, PrefixChars, PrefixesUnion, Searchable
<1> HIDE DEF n
<1>3. n \in DOMAIN Parsers
  BY <1>1 DEF n
<1> QED
  BY <1>2, <1>3, SortedAssumption

\* An option that matches does not come before the text that is searched for.
LEMMA MatchedNotBefore ==
  ASSUME TypeOK, p.tablegen, NEW k \in Searchable, NEW s \in Text, MatchSize(t[k], s) # 0
  PROVE  ~Before(Name(t[k]), Trimmed(s))
<1> DEFINE o == t[k]
           N == Name(o)
           T == Trimmed(s)
<1>1. o \in Info /\ N \in Text /\ T \in Text /\ Len(s) \in Nat /\ Len(N) \in Nat /\ Len(T) \in Nat
      /\ DOMAIN N = 1 .. Len(N) /\ (\A i \in 1 .. Len(N) : N[i] \in Symbols)
      /\ \A i \in 1 .. Len(s) : s[i] \in Symbols
  <2>1. o \in Info /\ N \in Text /\ T \in Text
    BY StateIs, InfoIs, TrimmedIs
  <2> QED
    BY <2>1 DEF Text
<1>2. PICK i \in DOMAIN o.prefixes : Matches(o, s, o.prefixes[i])
  BY <1>1, MatchIs
<1> DEFINE q == o.prefixes[i]
<1>3. q \in Text /\ Len(q) \in Nat /\ \A l \in 1 .. Len(q) : q[l] \in PrefixChars
  <2>1. q \in Text
    BY <1>1, InfoIs
  <2> QED
    BY <2>1, PrefixCharsAre DEF Text
<1>4. /\ IsPrefix(q, s) /\ Len(q) + Len(N) <= Len(s)
      /\ \A j \in DOMAIN N : Same(s[Len(q) + j], N[j])
  BY <1>2 DEF Matches
<1>5. Apart(N, PrefixChars)
  BY GeneratedIs
<1> HIDE DEF o, N, T, q
<1>6. \A l \in 1 .. Len(q) : s[l] \in PrefixChars
  BY <1>3, <1>4, PrefixIs DEF Text
<1>7. \A j \in 1 .. Len(N) : Lower[s[Len(q) + j]] = Lower[N[j]]
  BY <1>1, <1>4 DEF Same
<1>8. SUFFICES ASSUME NEW d \in Nat, BeforeAt(N, T, d) PROVE FALSE
  BY <1>1, BeforeIs DEF N, T, o
<1>9. d \in 1 .. Len(N) /\ d <= Len(T) + 1
      /\ (d <= Len(T) => Rank[Lower[N[d]]] < Rank[Lower[T[d]]])
  BY <1>8 DEF BeforeAt
<1>10. N # <<>> /\ 1 \in 1 .. Len(N)
  BY <1>1, <1>9
<1>11. s[Len(q) + 1] \notin PrefixChars
  <2>1. \A c \in PrefixChars : Lower[c] # Lower[N[1]]
    BY <1>5, <1>10 DEF Apart
  <2> QED
    BY <1>7, <1>10, <2>1
<1>12. T = Drop(s, Len(q))
  <2>1. Len(q) \in 0 .. Len(s) - 1
    BY <1>1, <1>3, <1>4, <1>10
  <2> QED
    BY <1>6, <1>11, <2>1, TrimmedIs DEF T
<1>13. Len(T) = Len(s) - Len(q) /\ \A j \in 1 .. Len(T) : T[j] = s[Len(q) + j]
  <2> DEFINE n == Len(q)
  <2> HIDE DEF n
  <2>1. n \in Nat /\ n <= Len(s) /\ s \in Seq(Symbols)
    BY <1>1, <1>3, <1>4 DEF n, Text
  <2>2. /\ Len(Drop(s, n)) = (IF n <= Len(s) THEN Len(s) - n ELSE 0)
        /\ \A j \in 1 .. Len(s) - n : Drop(s, n)[j] = s[n + j]
    BY <2>1, DropIs
  <2> QED
    BY <1>12, <2>1, <2>2 DEF n
<1>14. d \in 1 .. Len(T) /\ T[d] = s[Len(q) + d] /\ Lower[T[d]] = Lower[N[d]]
  BY <1>1, <1>3, <1>4, <1>7, <1>9, <1>13
<1>15. Lower[N[d]] \in Symbols /\ Rank[Lower[N[d]]] \in Nat
  <2>1. N[d] \in Symbols
    BY <1>1, <1>9
  <2> QED
    BY <2>1, InputsAssumption
<1> QED
  BY <1>9, <1>14, <1>15

\* The binary search skips only options that do not match.
LEMMA SkippedNotMatched ==
  ASSUME TypeOK, p.tablegen, NEW s \in Text, NEW j \in First .. LowerBound(s) - 1
  PROVE  j \in Searchable /\ MatchSize(t[j], s) = 0
<1> DEFINE T == Trimmed(s)
           B == {k \in Searchable : Before(Name(t[k]), T)}
<1>1. /\ First \in Nat /\ Len(t) \in Nat /\ LowerBound(s) \in First .. Len(t) + 1
      /\ LowerBound(s) = First + Cardinality(B)
  <2>1. First \in Nat /\ Len(t) \in Nat
    BY StateIs
  <2>2. LowerBound(s) \in First .. Len(t) + 1
    BY LowerBoundType
  <2>3. LowerBound(s) = First + Cardinality(B)
    BY DEF LowerBound
  <2> QED
    BY <2>1, <2>2, <2>3
<1>2. T \in Text /\ \A k \in Searchable : Name(t[k]) \in Text
  BY TrimmedIs, StateIs, InfoIs
<1> HIDE DEF T
<1>3. j \in Searchable /\ j \in Nat
  BY <1>1 DEF Searchable
<1>4. ASSUME NEW k \in B, j <= k PROVE j \in B
  <2>1. k \in Searchable /\ Before(Name(t[k]), T)
    OBVIOUS
  <2>2. j \in First .. k
    BY <1>1, <1>4, <2>1 DEF Searchable
  <2>3. ~Before(Name(t[k]), Name(t[j]))
    BY <2>1, <2>2, GeneratedIs
  <2>4. Before(Name(t[j]), T)
    BY <1>2, <1>3, <2>1, <2>3, BeforeSplits
  <2> QED
    BY <1>3, <2>4
<1>5. j \in B
  <2> SUFFICES ASSUME j \notin B PROVE FALSE
    OBVIOUS
  <2>1. B \subseteq First .. j - 1
    <3> SUFFICES ASSUME NEW k \in B PROVE k \in First .. j - 1
      OBVIOUS
    <3>1. k \in Searchable /\ ~(j <= k)
      BY <1>4
    <3> QED
      BY <1>1, <1>3, <3>1 DEF Searchable
  <2> HIDE DEF B
  <2>2. IsFiniteSet(First .. j - 1) /\ Cardinality(First .. j - 1) = j - First
    <3>1. First \in Int /\ j - 1 \in Int /\ First <= j /\ (First > j - 1 => j - First = 0)
          /\ (j - 1) - First + 1 = j - First
      BY <1>1, <1>3
    <3> DEFINE e == j - 1
    <3> HIDE DEF e
    <3>2. IsFiniteSet(First .. e) /\ Cardinality(First .. e) = IF First > e THEN 0 ELSE e - First + 1
      BY <3>1, FS_Interval DEF e
    <3> QED
      BY <3>1, <3>2 DEF e
  <2>3. Cardinality(B) <= j - First /\ Cardinality(B) \in Nat
    BY <2>1, <2>2, FS_Subset, FS_CardinalityType
  <2> QED
    BY <1>1, <1>3, <2>3
<1>6. Before(Name(t[j]), T)
  BY <1>5
<1> QED
  BY <1>3, <1>6, MatchedNotBefore DEF T

-----------------------------------------------------------------------------
(* What is called unknown.                                                 *)

\* No option the search has passed would take the argument; and of a group, no
\* flag passed is its first letter while none is remembered.
UntakenOK ==
  pc = "search" =>
    \A j \in First .. start - 1 :
      /\ Untaken(t[j], Str)
      /\ fallback = 0 /\ p.grouped => ~LetterFlag(t[j], Str)

LEMMA UntakenStep ==
  ASSUME TypeOK, SearchOK, UntakenOK, [Next]_vars
  PROVE  UntakenOK'
<1> SUFFICES ASSUME pc' = "search" PROVE UntakenOK'
  BY DEF UntakenOK
<1>1. BeginSearch \/ NextOption \/ Refuse \/ UNCHANGED vars
  BY DEF Next, SkipEmpty, DashDash, TakeInput, Accept, Missing, NotFound, TakeLetter,
         UnknownLetter, UnknownWhole, LonePrefix, Finish, Report
<1>2. input' = input /\ Str' = Str
  BY <1>1 DEF BeginSearch, NextOption, Refuse, vars, Str
<1>3. p' = p /\ t' = t /\ First' = First
  BY <1>2, ParserKept
<1> SUFFICES ASSUME NEW j \in First .. start' - 1
             PROVE  /\ Untaken(t[j], Str)
                    /\ fallback' = 0 /\ p.grouped => ~LetterFlag(t[j], Str)
  <2>1. ASSUME \A j \in First .. start' - 1 :
                 /\ Untaken(t[j], Str)
                 /\ fallback' = 0 /\ p.grouped => ~LetterFlag(t[j], Str)
        PROVE  (\A j \in First .. start - 1 :
                  /\ Untaken(t[j], Str)
                  /\ fallback = 0 /\ p.grouped => ~LetterFlag(t[j], Str))'
    BY <1>2, <1>3, <2>1, ParserKept
  <2> QED
    BY <2>1 DEF UntakenOK
<1>4. CASE UNCHANGED vars
  BY <1>4 DEF UntakenOK, vars
<1>5. CASE BeginSearch
  <2>1. Str \in Text
    BY <1>5, StrIs DEF BeginSearch, Begins
  <2>2. CASE p.tablegen
    <3>1. start' = LowerBound(Str)
      BY <1>5, <2>2 DEF BeginSearch
    <3>2. MatchSize(t[j], Str) = 0
      BY <2>1, <2>2, <3>1, SkippedNotMatched
    <3> QED
      BY <3>2 DEF Untaken, LetterFlag
  <2>3. CASE ~p.tablegen
    <3>1. start' = First
      BY <1>5, <2>3 DEF BeginSearch
    <3> QED
      BY <3>1, StateIs
  <2> QED
    BY <2>2, <2>3
<1>6. CASE NextOption \/ Refuse
  <2>1. Looking /\ start' = start + 1
    BY <1>6 DEF NextOption, Refuse, Candidate
  <2>2. /\ start \in Searchable /\ start \in Nat /\ First \in Nat
        /\ argv \in Seq(Text) /\ index \in 1 .. Len(argv) /\ Str = argv[index]
        /\ Opt \in Info /\ Opt.kind \in Kinds /\ Size \in 0 .. Len(argv[index])
    <3>1. /\ start \in Searchable /\ start \in 1 .. Len(t)
          /\ argv \in Seq(Text) /\ index \in 1 .. Len(argv) /\ Str = argv[index]
          /\ Opt \in Info /\ Opt.kind \in Kinds /\ Size \in 0 .. Len(argv[index])
      BY <2>1, LookingIs
    <3>2. First \in Nat
      BY StateIs
    <3> QED
      BY <3>1, <3>2
  <2>3. j \in First .. start - 1 \/ j = start
    BY <2>1, <2>2
  <2>4. CASE j \in First .. start - 1
    <3>1. pc = "search"
      BY <2>1 DEF Looking
    <3>2. Untaken(t[j], Str) /\ (fallback = 0 /\ p.grouped => ~LetterFlag(t[j], Str))
      BY <2>4, <3>1 DEF UntakenOK
    <3>3. fallback' = 0 => fallback = 0
      <4>1. start # 0
        BY <2>2, StateIs DEF Searchable
      <4> QED
        BY <1>6, <4>1 DEF NextOption, Refuse
    <3> QED
      BY <3>2, <3>3
  <2>5. CASE j = start
    <3>1. t[j] = Opt /\ MatchSize(t[j], Str) = Size
      BY <2>5 DEF Opt, Size
    <3>2. CASE NextOption
      BY <3>1, <3>2 DEF NextOption, Untaken, LetterFlag, Excluded
    <3>3. CASE Refuse
      <4>1. ~Accepts(argv, Opt, index, Size) /\ Resume(argv, Opt, index, Size) = index
        BY <3>3 DEF Refuse
      <4>2. Size < Len(Str) /\ Opt.kind \notin TakesJoined
        BY <2>2, <4>1, RefusedIs
      <4>3. fallback' = 0 /\ p.grouped => ~LetterFlag(t[j], Str)
        <5> SUFFICES ASSUME fallback' = 0, p.grouped, LetterFlag(t[j], Str) PROVE FALSE
          OBVIOUS
        <5>1. fallback' = start
          BY <3>1, <3>3 DEF Refuse, LetterFlag
        <5> QED
          BY <2>2, <5>1, StateIs DEF Searchable
      <4> QED
        BY <3>1, <4>2, <4>3 DEF Untaken
    <3> QED
      BY <1>6, <3>2, <3>3
  <2> QED
    BY <2>3, <2>4, <2>5
<1> QED
  BY <1>1, <1>4, <1>5, <1>6

\* What UnknownIsTrue says of one result.
UnknownAt(k) ==
  out[k].id = UnknownId =>
    /\ \A j \in Searchable : Untaken(t[j], ReadFrom(k))
    /\ \/ out[k].spelling = ReadFrom(k)
       \/ /\ p.grouped /\ out[k].spelling = Take(ReadFrom(k), 2)
          /\ \A j \in Searchable : ~LetterFlag(t[j], ReadFrom(k))

LEMMA UnknownKept ==
  ASSUME TypeOK, TypeOK', Extended, NEW k \in 1 .. Len(out), UnknownAt(k)
  PROVE  UnknownAt(k)'
<1>1. out'[k] = out[k] /\ ReadFrom(k)' = ReadFrom(k) /\ input' = input
  BY EarlierKept DEF Extended
<1>2. p' = p /\ t' = t /\ Searchable' = Searchable /\ UnknownId' = UnknownId
  BY <1>1, ParserKept
<1>3. \A o, s : (Untaken(o, s)' <=> Untaken(o, s)) /\ (LetterFlag(o, s)' <=> LetterFlag(o, s))
  BY <1>1, ParserKept
<1> QED
  BY <1>1, <1>2, <1>3 DEF UnknownAt

LEMMA UnknownFrom ==
  ASSUME TypeOK, TypeOK', Extended, UnknownIsTrue, NEW n \in Nat, n = Len(out),
         \A k \in 1 .. Len(out') : k > n => UnknownAt(k)'
  PROVE  UnknownIsTrue'
<1>1. DOMAIN out = 1 .. n /\ DOMAIN out' = 1 .. Len(out') /\ Len(out') \in Nat
  BY SMTT(30) DEF TypeOK
<1>2. ASSUME NEW k \in 1 .. Len(out') PROVE UnknownAt(k)'
  <2>1. CASE k \in 1 .. n
    <3>1. UnknownAt(k)
      BY <1>1, <2>1 DEF UnknownIsTrue, UnknownAt
    <3> QED
      BY <2>1, <3>1, UnknownKept
  <2>2. CASE k > n
    BY <2>2
  <2> QED
    BY <1>1, <2>1, <2>2
<1>3. (\A k \in DOMAIN out : UnknownAt(k))'
  BY <1>1, <1>2
<1> QED
  BY <1>3 DEF UnknownIsTrue, UnknownAt

\* One result: if it is called unknown, then nothing would take what is left of
\* the argument, and of a group no flag the first letter.
LEMMA UnknownOne ==
  ASSUME TypeOK, SearchOK, ArgsOK, TypeOK', UnknownIsTrue, NEW r, Takes(r),
         r.id = UnknownId =>
           /\ \A j \in Searchable : Untaken(t[j], Str)
           /\ \/ r.spelling = Str
              \/ /\ p.grouped /\ r.spelling = Take(Str, 2)
                 /\ \A j \in Searchable : ~LetterFlag(t[j], Str)
  PROVE  UnknownIsTrue'
<1>1. PICK n \in Nat : n = Len(out)
  BY SMTT(30) DEF TypeOK
<1>2. /\ Extended /\ Len(out') = n + 1 /\ out'[n + 1] = r /\ ReadFrom(n + 1)' = Str
  BY <1>1, TakesExtends
<1>3. p' = p /\ t' = t /\ Searchable' = Searchable /\ UnknownId' = UnknownId /\ input' = input
  BY <1>2, ParserKept DEF Extended
<1>4. \A o, s : (Untaken(o, s)' <=> Untaken(o, s)) /\ (LetterFlag(o, s)' <=> LetterFlag(o, s))
  BY <1>3, ParserKept
<1>5. UnknownAt(n + 1)'
  BY <1>2, <1>3, <1>4 DEF UnknownAt, Take
<1>6. \A k \in 1 .. Len(out') : k > n => UnknownAt(k)'
  <2> SUFFICES ASSUME NEW k \in 1 .. Len(out'), k > n PROVE UnknownAt(k)'
    OBVIOUS
  <2>1. k = n + 1
    BY <1>2
  <2> QED
    BY <1>5, <2>1
<1> QED
  BY <1>1, <1>2, <1>6, UnknownFrom

LEMMA UnknownStep ==
  ASSUME TypeOK, SearchOK, ArgsOK, UntakenOK, UnknownIsTrue, [Next]_vars
  PROVE  UnknownIsTrue'
<1>1. TypeOK'
  BY TypeStep
<1>2. PICK n \in Nat : n = Len(out)
  BY DEF TypeOK
<1>3. UnknownId # InputId /\ \A k \in Searchable : k # UnknownId
  <2>1. UnknownId \in 1 .. First - 1 /\ First \in 1 .. Len(t) + 1 /\ InputId # UnknownId
    BY StateIs
  <2> QED
    BY <2>1 DEF Searchable
<1>4. CASE out' = out /\ input' = input /\ argv' = argv
  <2>1. Extended
    BY <1>2, <1>4 DEF Extended, TypeOK
  <2> QED
    BY <1>1, <1>2, <1>4, <2>1, UnknownFrom
<1>5. CASE DashDash
  <2>1. Extended /\ Len(out') \in Nat /\ \A k \in 1 .. Len(out') : k > n => out'[k].id = InputId
    BY <1>1, <1>2, <1>5, DashDashExtends
  <2>2. UnknownId' = UnknownId
    BY <2>1, ParserKept DEF Extended
  <2>3. \A k \in 1 .. Len(out') : k > n => UnknownAt(k)'
    BY <1>3, <2>1, <2>2 DEF UnknownAt
  <2> QED
    BY <1>1, <1>2, <2>1, <2>3, UnknownFrom
<1>6. CASE TakeInput
  <2>1. Plain(InputId, Str, <<>>, index).id # UnknownId
    BY <1>3, PlainFields
  <2> QED
    BY <1>1, <1>6, <2>1, TakeInputTakes, UnknownOne
<1>7. CASE Accept
  <2> DEFINE r == Accepted(start, Take(Str, Size), Values(argv, Opt, index, Size), index)
  <2>1. Takes(r) /\ Values(argv, Opt, index, Size) \in Seq(Text)
    BY <1>7, AcceptTakes
  <2>2. r.id = start /\ start \in Searchable
    <3>1. Looking
      BY <1>7 DEF Accept, Candidate
    <3>2. start \in Searchable
      BY <3>1, LookingIs
    <3> QED
      BY <3>2 DEF Accepted, Plain
  <2> HIDE DEF r
  <2> QED
    BY <1>1, <1>3, <2>1, <2>2, UnknownOne
<1>8. CASE TakeLetter
  <2> DEFINE r == Accepted(fallback, Take(Str, 2), <<>>, index)
  <2>1. Takes(r) /\ fallback \in Searchable
    BY <1>8, TakeLetterTakes
  <2>2. r.id = fallback
    BY DEF Accepted, Plain
  <2> HIDE DEF r
  <2> QED
    BY <1>1, <1>3, <2>1, <2>2, UnknownOne
<1>9. ASSUME Exhausted
      PROVE  /\ \A j \in Searchable : Untaken(t[j], Str)
             /\ fallback = 0 /\ p.grouped => \A j \in Searchable : ~LetterFlag(t[j], Str)
  <2>1. \A j \in Searchable : j \in First .. start - 1
    <3>1. Len(t) \in Nat /\ First \in Nat /\ start \in Nat /\ start > Len(t)
      BY <1>9, StateIs DEF TypeOK, Exhausted
    <3> QED
      BY <3>1 DEF Searchable
  <2> QED
    BY <1>9, <2>1 DEF UntakenOK, Exhausted
<1>10. CASE NotFound
  <2>1. PICK id \in {InputId, UnknownId} : Takes(Plain(id, Str, <<>>, index))
    BY <1>10, NotFoundTakes
  <2>2. \A j \in Searchable : Untaken(t[j], Str)
    BY <1>9, <1>10 DEF NotFound
  <2>3. Plain(id, Str, <<>>, index).spelling = Str
    BY PlainFields
  <2> QED
    BY <1>1, <2>1, <2>2, <2>3, UnknownOne
<1>11. CASE UnknownLetter
  <2>1. /\ \A j \in Searchable : Untaken(t[j], Str)
        /\ p.grouped /\ \A j \in Searchable : ~LetterFlag(t[j], Str)
    BY <1>9, <1>11 DEF UnknownLetter
  <2>2. Plain(UnknownId, Take(Str, 2), <<>>, index).spelling = Take(Str, 2)
    BY PlainFields
  <2> QED
    BY <1>1, <1>11, <2>1, <2>2, UnknownLetterTakes, UnknownOne
<1>12. CASE UnknownWhole
  <2>1. \A j \in Searchable : Untaken(t[j], Str)
    BY <1>9, <1>12 DEF UnknownWhole
  <2>2. Plain(UnknownId, Str, <<>>, index).spelling = Str
    BY PlainFields
  <2> QED
    BY <1>1, <1>12, <2>1, <2>2, UnknownWholeTakes, UnknownOne
<1>13. SkipEmpty \/ BeginSearch \/ NextOption \/ Refuse \/ Missing \/ LonePrefix \/ Finish \/ UNCHANGED vars
       => out' = out /\ input' = input /\ argv' = argv
  BY DEF SkipEmpty, BeginSearch, NextOption, Refuse, Missing, LonePrefix, Finish, vars
<1> QED
  BY <1>4, <1>5, <1>6, <1>7, <1>8, <1>10, <1>11, <1>12, <1>13 DEF Next

\* What is called unknown is unknown: whatever the table, no visible option would
\* take the argument, and of a group no flag the letter; in particular the binary
\* search of a generated table skips no option that matches (lower_bound over a
\* table sorted by str_cmp_opt_name, on a text that ltrim_all_of has trimmed).
THEOREM TheUnknownAreUnknown == Spec => []UnknownIsTrue
<1> DEFINE J == UntakenOK /\ UnknownIsTrue
           P == TypeOK /\ SearchOK /\ ArgsOK /\ Located
<1>1. Init => J
  BY DEF Init, UntakenOK, UnknownIsTrue
<1>2. P /\ J /\ [Next]_vars => J'
  BY UntakenStep, UnknownStep
<1>3. Spec => []P
  BY Placed
<1>4. J => UnknownIsTrue
  OBVIOUS
<1> HIDE DEF J, P
<1> QED
  BY <1>1, <1>2, <1>3, <1>4, PTL DEF Spec

-----------------------------------------------------------------------------
(* The parts between separators.                                           *)

Comma == ","
Space == " "

\* Texts that are not empty and hold no separator.
Part(sep) == {s \in Text : s # <<>> /\ \A i \in 1 .. Len(s) : s[i] # sep}

\* Where the part that ends at i begins, and what is found at i.
PartFrom(s, i, sep) == Min({b \in 1 .. i : \A j \in b .. i : s[j] # sep})
PartEnds(s, i, sep) == s[i] # sep /\ (i = Len(s) \/ s[i + 1] = sep)
PartAt(s, i, sep) == IF PartEnds(s, i, sep) THEN <<SubSeq(s, PartFrom(s, i, sep), i)>> ELSE <<>>
PartsOf(s, sep) == [i \in 1 .. Len(s) |-> PartAt(s, i, sep)]

LEMMA PartFromIs ==
  ASSUME NEW sep, NEW s, NEW i \in Nat \ {0}, s[i] # sep
  PROVE  /\ PartFrom(s, i, sep) \in 1 .. i
         /\ \A j \in PartFrom(s, i, sep) .. i : s[j] # sep
         /\ \A b \in 1 .. i : (\A j \in b .. i : s[j] # sep) => PartFrom(s, i, sep) <= b
<1> DEFINE B == {b \in 1 .. i : \A j \in b .. i : s[j] # sep}
<1>1. i \in B
  <2>1. \A j \in i .. i : s[j] # sep
    <3> SUFFICES ASSUME NEW j \in i .. i PROVE s[j] # sep
      OBVIOUS
    <3>1. j = i
      OBVIOUS
    <3> QED
      BY <3>1
  <2>2. i \in 1 .. i
    OBVIOUS
  <2> QED
    BY <2>1, <2>2, Zenon
<1>2. B \in SUBSET Nat
  OBVIOUS
<1>3. Min(B) \in B /\ \A b \in B : Min(B) <= b
  <2> HIDE DEF B
  <2> QED
    BY <1>1, <1>2, MinIs
<1>4. PartFrom(s, i, sep) = Min(B)
  BY DEF PartFrom
<1> DEFINE m == Min(B)
<1> HIDE DEF m
<1>5. m \in B /\ \A b \in B : m <= b
  BY <1>3 DEF m
<1> QED
  BY <1>4, <1>5 DEF m

\* Each part is one, and Parts is made of them.
LEMMA PartsAre ==
  ASSUME NEW sep, NEW s \in Text
  PROVE  /\ PartsOf(s, sep) \in Seq(Seq(Part(sep))) /\ Len(PartsOf(s, sep)) = Len(s)
         /\ \A i \in 1 .. Len(s) : PartsOf(s, sep)[i] = PartAt(s, i, sep)
         /\ Parts(s, sep) = FlattenSeq(PartsOf(s, sep))
         /\ Parts(s, sep) \in Seq(Part(sep))
<1>1. Len(s) \in Nat /\ s \in Seq(Symbols)
  BY DEF Text
<1>2. ASSUME NEW i \in 1 .. Len(s)
      PROVE  PartAt(s, i, sep) \in Seq(Part(sep))
  <2>1. CASE PartEnds(s, i, sep)
    <3>1. s[i] # sep
      BY <2>1 DEF PartEnds
    <3> DEFINE b == PartFrom(s, i, sep)
               x == SubSeq(s, b, i)
    <3>2. b \in 1 .. i /\ \A j \in b .. i : s[j] # sep
      BY <3>1, PartFromIs
    <3> HIDE DEF b
    <3>3. x \in Text /\ Len(x) = i - b + 1 /\ \A j \in 1 .. i - b + 1 : x[j] = s[b + j - 1]
      BY <1>1, <3>2 DEF Text
    <3>4. \A j \in 1 .. Len(x) : x[j] # sep
      <4> SUFFICES ASSUME NEW j \in 1 .. i - b + 1 PROVE s[b + j - 1] # sep
        BY <3>3
      <4>1. b + j - 1 \in b .. i
        BY <3>2
      <4> QED
        BY <3>2, <4>1
    <3>5. x # <<>>
      <4>1. Len(x) > 0
        BY <3>2, <3>3
      <4> HIDE DEF x
      <4> QED
        BY <4>1
    <3> HIDE DEF x
    <3>6. x \in Part(sep)
      BY <3>3, <3>4, <3>5 DEF Part
    <3>7. <<x>> \in Seq(Part(sep))
      BY <3>6
    <3> QED
      BY <2>1, <3>7 DEF PartAt, x, b
  <2>2. CASE ~PartEnds(s, i, sep)
    BY <2>2 DEF PartAt
  <2> QED
    BY <2>1, <2>2
<1>3. PartsOf(s, sep) \in Seq(Seq(Part(sep))) /\ Len(PartsOf(s, sep)) = Len(s)
      /\ \A i \in 1 .. Len(s) : PartsOf(s, sep)[i] = PartAt(s, i, sep)
  BY <1>1, <1>2 DEF PartsOf
<1>4. Parts(s, sep) = FlattenSeq(PartsOf(s, sep))
  BY DEF Parts, PartsOf, PartAt, PartEnds, PartFrom
<1>5. FlattenSeq(PartsOf(s, sep)) \in Seq(Part(sep))
  BY <1>1, <1>3, FlattenType
<1> QED
  BY <1>3, <1>4, <1>5

\* Behind a separator nothing changes the parts before it.
LEMMA PartsBefore ==
  ASSUME NEW sep, NEW s \in Text, NEW u \in Text, Len(s) < Len(u),
         \A i \in 1 .. Len(s) : u[i] = s[i], u[Len(s) + 1] = sep
  PROVE  \A i \in 1 .. Len(s) : PartAt(u, i, sep) = PartAt(s, i, sep)
<1>1. Len(s) \in Nat /\ Len(u) \in Nat /\ s \in Seq(Symbols) /\ u \in Seq(Symbols)
  BY DEF Text
<1> SUFFICES ASSUME NEW i \in 1 .. Len(s) PROVE PartAt(u, i, sep) = PartAt(s, i, sep)
  OBVIOUS
<1>2. i \in Nat \ {0}
  BY <1>1
<1>3. PartEnds(u, i, sep) <=> PartEnds(s, i, sep)
  <2>1. CASE i = Len(s)
    BY <1>1, <2>1 DEF PartEnds
  <2>2. CASE i # Len(s)
    <3>1. i + 1 \in 1 .. Len(s) /\ i # Len(u)
      BY <1>1, <2>2
    <3> QED
      BY <2>2, <3>1 DEF PartEnds
  <2> QED
    BY <2>1, <2>2
<1>4. \A j \in 1 .. i : u[j] = s[j]
  BY <1>1
<1>5. PartFrom(u, i, sep) = PartFrom(s, i, sep)
  <2>1. {b \in 1 .. i : \A j \in b .. i : u[j] # sep} = {b \in 1 .. i : \A j \in b .. i : s[j] # sep}
    BY <1>4
  <2> QED
    BY <2>1 DEF PartFrom
<1>6. PartEnds(s, i, sep) => SubSeq(u, PartFrom(s, i, sep), i) = SubSeq(s, PartFrom(s, i, sep), i)
  <2> SUFFICES ASSUME PartEnds(s, i, sep)
               PROVE  SubSeq(u, PartFrom(s, i, sep), i) = SubSeq(s, PartFrom(s, i, sep), i)
    OBVIOUS
  <2> DEFINE b == PartFrom(s, i, sep)
  <2>1. b \in 1 .. i
    BY <1>2, PartFromIs DEF PartEnds
  <2> HIDE DEF b
  <2> QED
    BY <1>1, <1>4, <2>1 DEF b
<1> QED
  BY <1>3, <1>5, <1>6 DEF PartAt

\* A separator and one more part behind a text add that part.
LEMMA PartsGrow ==
  ASSUME NEW sep \in Symbols, NEW s \in Text, NEW e \in Part(sep)
  PROVE  /\ s \o (<<sep>> \o e) \in Text
         /\ Parts(s \o (<<sep>> \o e), sep) = Append(Parts(s, sep), e)
<1> DEFINE L == Len(s)
           f == <<sep>> \o e
           u == s \o f
           n == Len(u)
<1>1. /\ e \in Seq(Symbols) /\ Len(e) \in Nat /\ Len(e) > 0 /\ L \in Nat /\ s \in Seq(Symbols)
      /\ \A i \in 1 .. Len(e) : e[i] # sep
  BY DEF Part, Text
<1>2. /\ f \in Seq(Symbols) /\ Len(f) = Len(e) + 1 /\ f[1] = sep
      /\ \A i \in 1 .. Len(e) : f[i + 1] = e[i]
  BY <1>1
<1> HIDE DEF f
<1>3. /\ u \in Seq(Symbols) /\ n = L + 1 + Len(e)
      /\ (\A i \in 1 .. L : u[i] = s[i]) /\ u[L + 1] = sep
      /\ \A i \in 1 .. Len(e) : u[L + 1 + i] = e[i]
  <2>1. u \in Seq(Symbols) /\ Len(u) = L + Len(f)
        /\ \A i \in 1 .. L + Len(f) : u[i] = IF i <= L THEN s[i] ELSE f[i - L]
    BY <1>1, <1>2, ConcatProperties
  <2> HIDE DEF u
  <2>2. ASSUME NEW i \in 1 .. L PROVE u[i] = s[i]
    <3>1. i \in 1 .. L + Len(f) /\ i <= L
      BY <1>1, <1>2
    <3> QED
      BY <2>1, <3>1
  <2>3. u[L + 1] = sep
    <3>1. L + 1 \in 1 .. L + Len(f) /\ ~(L + 1 <= L) /\ (L + 1) - L = 1
      BY <1>1, <1>2
    <3> QED
      BY <1>2, <2>1, <3>1
  <2>4. ASSUME NEW i \in 1 .. Len(e) PROVE u[L + 1 + i] = e[i]
    <3>1. L + 1 + i \in 1 .. L + Len(f) /\ ~(L + 1 + i <= L) /\ (L + 1 + i) - L = i + 1
      BY <1>1, <1>2
    <3> QED
      BY <1>2, <2>1, <3>1
  <2> QED
    BY <1>2, <2>1, <2>2, <2>3, <2>4
<1> HIDE DEF u
<1>4. u \in Text /\ L \in Nat /\ n \in Nat
  BY <1>1, <1>3 DEF Text
<1> DEFINE U == PartsOf(u, sep)
           S == PartsOf(s, sep)
<1>5. /\ U \in Seq(Seq(Part(sep))) /\ Len(U) = n /\ (\A i \in 1 .. n : U[i] = PartAt(u, i, sep))
      /\ Parts(u, sep) = FlattenSeq(U)
  BY <1>4, PartsAre
<1>6. /\ S \in Seq(Seq(Part(sep))) /\ Len(S) = L /\ (\A i \in 1 .. L : S[i] = PartAt(s, i, sep))
      /\ Parts(s, sep) = FlattenSeq(S) /\ Parts(s, sep) \in Seq(Part(sep))
  BY PartsAre
<1>7. \A i \in 1 .. L : U[i] = S[i]
  <2>1. Len(s) < Len(u)
    BY <1>1, <1>3
  <2>2. \A i \in 1 .. L : PartAt(u, i, sep) = PartAt(s, i, sep)
    BY <1>3, <1>4, <2>1, PartsBefore
  <2>3. \A i \in 1 .. L : i \in 1 .. n
    BY <1>1, <1>3
  <2> QED
    BY <1>5, <1>6, <2>2, <2>3
<1>8. ASSUME NEW i \in L + 1 .. n - 1 PROVE U[i] = <<>>
  <2>1. i \in 1 .. n /\ i # n
    BY <1>1, <1>3
  <2>2. ~PartEnds(u, i, sep)
    <3>1. CASE i = L + 1
      BY <1>3, <3>1 DEF PartEnds
    <3>2. CASE i # L + 1
      <4>1. i - L \in 1 .. Len(e) /\ i + 1 = L + 1 + (i - L)
        BY <1>1, <1>3, <3>2
      <4>2. u[L + 1 + (i - L)] = e[i - L]
        BY <1>3, <4>1
      <4>3. e[i - L] # sep
        BY <1>1, <4>1
      <4>4. u[i + 1] # sep
        BY <4>1, <4>2, <4>3
      <4> QED
        BY <2>1, <4>4 DEF PartEnds
    <3> QED
      BY <3>1, <3>2
  <2> QED
    BY <1>5, <2>1, <2>2 DEF PartAt
<1>9. U[n] = <<e>>
  <2>1. n \in 1 .. n /\ n \in Nat \ {0} /\ n = L + 1 + Len(e)
    BY <1>1, <1>3
  <2>2. u[n] # sep
    BY <1>1, <1>3, <2>1
  <2>3. PartEnds(u, n, sep)
    BY <2>2 DEF PartEnds
  <2> DEFINE b == PartFrom(u, n, sep)
  <2>4. /\ b \in 1 .. n /\ (\A j \in b .. n : u[j] # sep)
        /\ \A c \in 1 .. n : (\A j \in c .. n : u[j] # sep) => b <= c
    BY <2>1, <2>2, PartFromIs
  <2> HIDE DEF b
  <2>5. b = L + 2
    <3>1. ~(b <= L + 1)
      <4>1. L + 1 \in Nat /\ L + 1 <= n
        BY <1>1, <2>1
      <4>2. b <= L + 1 => L + 1 \in b .. n
        BY <2>4, <4>1
      <4> QED
        BY <1>3, <2>4, <4>2
    <3>2. \A j \in L + 2 .. n : u[j] # sep
      <4> SUFFICES ASSUME NEW j \in L + 2 .. n PROVE u[j] # sep
        OBVIOUS
      <4>1. j - (L + 1) \in 1 .. Len(e) /\ j = L + 1 + (j - (L + 1))
        BY <1>1, <2>1
      <4>2. u[L + 1 + (j - (L + 1))] = e[j - (L + 1)]
        BY <1>3, <4>1
      <4>3. e[j - (L + 1)] # sep
        BY <1>1, <4>1
      <4> QED
        BY <4>1, <4>2, <4>3
    <3>3. L + 2 \in 1 .. n
      BY <1>1, <2>1
    <3>4. b <= L + 2
      BY <2>4, <3>2, <3>3
    <3> QED
      BY <1>1, <2>4, <3>1, <3>4
  <2>6. SubSeq(u, L + 2, n) = e
    <3> DEFINE z == SubSeq(u, L + 2, n)
    <3>1. z \in Seq(Symbols) /\ Len(z) = Len(e) /\ \A i \in 1 .. Len(e) : z[i] = u[L + 2 + i - 1]
      BY <1>1, <1>3, <2>1
    <3>2. \A i \in 1 .. Len(e) : z[i] = e[i]
      <4> SUFFICES ASSUME NEW i \in 1 .. Len(e) PROVE z[i] = e[i]
        OBVIOUS
      <4>1. L + 2 + i - 1 = L + 1 + i
        BY <1>1
      <4> HIDE DEF z
      <4> QED
        BY <1>3, <3>1, <4>1
    <3> HIDE DEF z
    <3>3. z = e
      BY <1>1, <3>1, <3>2, SeqEqual
    <3> QED
      BY <3>3 DEF z
  <2> QED
    BY <1>5, <2>1, <2>3, <2>5, <2>6 DEF PartAt, b
<1>10. FlattenSeq(U) = FlattenSeq(S) \o <<e>>
  <2> HIDE DEF U, S, n, L
  <2>1. n - 1 \in Nat /\ (n - 1) + 1 = n /\ n <= Len(U) /\ n - 1 <= Len(U) /\ L <= n - 1
    BY <1>1, <1>3, <1>4, <1>5
  <2>2. SubSeq(U, 1, n) = U
    BY <1>5
  <2>3. FlattenSeq(SubSeq(U, 1, (n - 1) + 1)) = FlattenSeq(SubSeq(U, 1, n - 1)) \o U[(n - 1) + 1]
    <3> DEFINE k == n - 1
    <3>1. k \in Nat /\ k + 1 <= Len(U)
      BY <2>1
    <3> HIDE DEF k
    <3>2. FlattenSeq(SubSeq(U, 1, k + 1)) = FlattenSeq(SubSeq(U, 1, k)) \o U[k + 1]
      BY <1>5, <3>1, FlattenLonger
    <3> QED
      BY <3>2 DEF k
  <2>4. FlattenSeq(SubSeq(U, 1, n - 1)) = FlattenSeq(SubSeq(U, 1, L))
    <3> DEFINE k == n - 1
    <3>1. k \in Nat /\ L \in Nat /\ L <= k /\ k <= Len(U) /\ \A i \in L + 1 .. k : U[i] = <<>>
      BY <1>4, <1>8, <2>1
    <3> HIDE DEF k
    <3>2. FlattenSeq(SubSeq(U, 1, k)) = FlattenSeq(SubSeq(U, 1, L))
      BY <1>5, <3>1, FlattenBlanks
    <3> QED
      BY <3>2 DEF k
  <2>5. SubSeq(U, 1, L) = S
    <3> DEFINE z == SubSeq(U, 1, L)
    <3>1. z \in Seq(Seq(Part(sep))) /\ Len(z) = L /\ \A i \in 1 .. L : z[i] = U[i]
      BY <1>4, <1>5, <2>1
    <3> HIDE DEF z
    <3>2. z = S
      BY <1>6, <1>7, <3>1, SeqEqual
    <3> QED
      BY <3>2 DEF z
  <2> QED
    BY <1>9, <2>1, <2>2, <2>3, <2>4, <2>5
<1>11. FlattenSeq(S) \o <<e>> = Append(FlattenSeq(S), e)
  <2> DEFINE z == FlattenSeq(S)
  <2>1. z \in Seq(Part(sep))
    BY <1>6
  <2> HIDE DEF z
  <2>2. z \o <<e>> = Append(z, e)
    BY <2>1, AppendIsConcat
  <2> QED
    BY <2>2 DEF z
<1> QED
  BY <1>4, <1>5, <1>6, <1>10, <1>11 DEF u, f

\* A text without separators is one part.
LEMMA PartsWhole ==
  ASSUME NEW sep, NEW e \in Part(sep)
  PROVE  Parts(e, sep) = <<e>>
<1> DEFINE n == Len(e)
           U == PartsOf(e, sep)
<1>1. e \in Text /\ e \in Seq(Symbols) /\ n \in Nat /\ n > 0 /\ \A i \in 1 .. n : e[i] # sep
  BY DEF Part, Text
<1>2. /\ U \in Seq(Seq(Part(sep))) /\ Len(U) = n /\ (\A i \in 1 .. n : U[i] = PartAt(e, i, sep))
      /\ Parts(e, sep) = FlattenSeq(U)
  BY <1>1, PartsAre
<1> HIDE DEF U
<1>3. U[n] = <<e>>
  <2>1. PartEnds(e, n, sep)
    BY <1>1 DEF PartEnds
  <2> DEFINE b == PartFrom(e, n, sep)
  <2>2. b \in 1 .. n /\ \A c \in 1 .. n : (\A j \in c .. n : e[j] # sep) => b <= c
    BY <1>1, PartFromIs
  <2> HIDE DEF b
  <2>3. b = 1
    <3>1. b <= 1
      BY <1>1, <2>2
    <3> QED
      BY <1>1, <2>2, <3>1
  <2>4. SubSeq(e, 1, n) = e
    BY <1>1
  <2>5. PartAt(e, n, sep) = <<e>>
    BY <2>1, <2>3, <2>4 DEF PartAt, b
  <2>6. n \in 1 .. n
    BY <1>1
  <2> QED
    BY <1>2, <2>5, <2>6
<1> DEFINE k == n - 1
<1>4. k \in Nat /\ k + 1 = n /\ n \in Nat /\ k + 1 <= n
  BY <1>1
<1>5. \A i \in 0 + 1 .. k : U[i] = <<>>
  <2> SUFFICES ASSUME NEW i \in 1 .. k PROVE U[i] = <<>>
    OBVIOUS
  <2>1. i \in 1 .. n /\ i + 1 \in 1 .. n /\ i # n
    BY <1>1
  <2>2. ~PartEnds(e, i, sep)
    BY <1>1, <2>1 DEF PartEnds
  <2> QED
    BY <1>2, <2>1, <2>2 DEF PartAt
<1> HIDE DEF k, n
<1>6. FlattenSeq(SubSeq(U, 1, k + 1)) = FlattenSeq(SubSeq(U, 1, k)) \o U[k + 1]
  BY <1>2, <1>4, FlattenLonger
<1>7. FlattenSeq(SubSeq(U, 1, k)) = FlattenSeq(SubSeq(U, 1, 0))
  <2> DEFINE z == 0
  <2>1. z \in Nat /\ z <= k /\ k <= Len(U) /\ \A i \in z + 1 .. k : U[i] = <<>>
    BY <1>1, <1>2, <1>4, <1>5
  <2> HIDE DEF z
  <2>2. FlattenSeq(SubSeq(U, 1, k)) = FlattenSeq(SubSeq(U, 1, z))
    BY <1>2, <1>4, <2>1, FlattenBlanks
  <2> QED
    BY <2>2 DEF z
<1>8. SubSeq(U, 1, 0) = <<>> /\ SubSeq(U, 1, n) = U
  BY <1>2, SubSeqAll
<1>9. <<>> \o <<e>> = <<e>>
  OBVIOUS
<1> QED
  BY <1>2, <1>3, <1>4, <1>6, <1>7, <1>8, <1>9, FlattenEmpty

\* One more value behind its separator.
LEMMA BehindGrows ==
  ASSUME NEW sep \in Symbols, NEW a \in Seq(Part(sep)), NEW e \in Part(sep)
  PROVE  Behind(sep, Append(a, e)) = Behind(sep, a) \o (<<sep>> \o e)
<1> DEFINE S == [k \in DOMAIN a |-> <<sep>> \o a[k]]
           f == <<sep>> \o e
           U == [k \in DOMAIN Append(a, e) |-> <<sep>> \o Append(a, e)[k]]
<1>1. f \in Seq(Symbols)
  BY ConcatProperties DEF Part, Text
<1>2. S \in Seq(Seq(Symbols)) /\ Len(S) = Len(a) /\ \A k \in 1 .. Len(a) : S[k] = <<sep>> \o a[k]
  <2>1. ASSUME NEW k \in 1 .. Len(a) PROVE <<sep>> \o a[k] \in Seq(Symbols)
    <3>1. a[k] \in Part(sep)
      OBVIOUS
    <3>2. a[k] \in Seq(Symbols) /\ <<sep>> \in Seq(Symbols)
      BY <3>1 DEF Part, Text
    <3> QED
      BY <3>2, ConcatProperties
  <2>2. DOMAIN a = 1 .. Len(a) /\ Len(a) \in Nat
    OBVIOUS
  <2> QED
    BY <2>1, <2>2
<1>3. DOMAIN Append(a, e) = 1 .. Len(a) + 1 /\ (\A k \in 1 .. Len(a) : Append(a, e)[k] = a[k])
      /\ Append(a, e)[Len(a) + 1] = e /\ Len(a) \in Nat
  BY AppendProperties
<1>4. U = Append(S, f)
  <2>1. /\ Append(S, f) \in Seq(Seq(Symbols)) /\ Len(Append(S, f)) = Len(a) + 1
        /\ (\A k \in 1 .. Len(a) : Append(S, f)[k] = S[k]) /\ Append(S, f)[Len(a) + 1] = f
    <3> HIDE DEF S, f
    <3> QED
      BY <1>1, <1>2, AppendProperties
  <2>2. ASSUME NEW k \in 1 .. Len(a) + 1 PROVE U[k] = Append(S, f)[k]
    <3>1. U[k] = <<sep>> \o Append(a, e)[k]
      BY <1>3
    <3>2. CASE k = Len(a) + 1
      BY <1>3, <2>1, <3>1, <3>2
    <3>3. CASE k \in 1 .. Len(a)
      <4>1. Append(S, f)[k] = S[k] /\ S[k] = <<sep>> \o a[k] /\ Append(a, e)[k] = a[k]
        BY <1>2, <1>3, <2>1, <3>3
      <4> QED
        BY <3>1, <4>1
    <3>4. k = Len(a) + 1 \/ k \in 1 .. Len(a)
      BY <1>3
    <3> QED
      BY <3>2, <3>3, <3>4
  <2>3. DOMAIN U = 1 .. Len(a) + 1 /\ U = [k \in 1 .. Len(a) + 1 |-> U[k]]
    BY <1>3
  <2> HIDE DEF U
  <2>4. Append(S, f) = [k \in 1 .. Len(a) + 1 |-> Append(S, f)[k]]
    <3> DEFINE z == Append(S, f)
    <3> HIDE DEF z
    <3>1. z \in Seq(Seq(Symbols)) /\ Len(z) = Len(a) + 1
      BY <2>1 DEF z
    <3>2. z = [k \in 1 .. Len(a) + 1 |-> z[k]]
      BY <3>1
    <3> QED
      BY <3>2 DEF z
  <2> QED
    BY <2>2, <2>3, <2>4
<1>5. FlattenSeq(Append(S, f)) = FlattenSeq(S) \o f
  <2> HIDE DEF S, f
  <2> QED
    BY <1>1, <1>2, FlattenAppend, Zenon
<1> QED
  BY <1>4, <1>5 DEF Behind

\* Written behind a text, each behind a separator, parts are found again.
LEMMA PartsAgain ==
  ASSUME NEW sep \in Symbols, NEW s \in Text, NEW v \in Seq(Part(sep))
  PROVE  /\ Behind(sep, v) \in Text /\ s \o Behind(sep, v) \in Text
         /\ Parts(s \o Behind(sep, v), sep) = Parts(s, sep) \o v
<1> DEFINE B(i) == Behind(sep, SubSeq(v, 1, i))
           P(i) == /\ B(i) \in Seq(Symbols) /\ s \o B(i) \in Text
                   /\ Parts(s \o B(i), sep) = Parts(s, sep) \o SubSeq(v, 1, i)
           T == {i \in Nat : i <= Len(v) => P(i)}
<1>1. Len(v) \in Nat /\ s \in Seq(Symbols) /\ Parts(s, sep) \in Seq(Part(sep))
  BY PartsAre DEF Text
<1>2. 0 \in T
  <2>1. SubSeq(v, 1, 0) = <<>>
    OBVIOUS
  <2>2. Behind(sep, <<>>) = <<>>
    <3>1. [k \in DOMAIN <<>> |-> <<sep>> \o <<>>[k]] = <<>>
      OBVIOUS
    <3> QED
      BY <3>1, FlattenEmpty DEF Behind
  <2>3. s \o <<>> = s /\ Parts(s, sep) \o <<>> = Parts(s, sep) /\ <<>> \in Seq(Symbols)
    BY <1>1, ConcatEmptySeq
  <2>4. P(0)
    BY <2>1, <2>2, <2>3
  <2> HIDE DEF P
  <2> QED
    BY <2>4
<1>3. ASSUME NEW i \in T PROVE i + 1 \in T
  <2>1. CASE i + 1 <= Len(v)
    <3> DEFINE a == SubSeq(v, 1, i)
               b == Behind(sep, a)
               e == v[i + 1]
               f == <<sep>> \o e
               q == Parts(s, sep)
    <3>1. a \in Seq(Part(sep)) /\ e \in Part(sep) /\ SubSeq(v, 1, i + 1) = Append(a, e)
      BY <1>1, <2>1, Longer
    <3>2. P(i)
      <4> HIDE DEF P
      <4> QED
        BY <1>1, <2>1
    <3>3. b \in Seq(Symbols) /\ s \o b \in Text /\ Parts(s \o b, sep) = q \o a
      BY <3>2
    <3>4. Behind(sep, Append(a, e)) = b \o f
      <4> HIDE DEF a, e
      <4> QED
        BY <3>1, BehindGrows
    <3> HIDE DEF a, b, e
    <3>5. f \in Seq(Symbols) /\ b \o f \in Seq(Symbols)
      <4>1. e \in Seq(Symbols) /\ <<sep>> \in Seq(Symbols)
        BY <3>1 DEF Part, Text
      <4> QED
        BY <3>3, <4>1, ConcatProperties
    <3> HIDE DEF q
    <3>6. (s \o b) \o f \in Text /\ Parts((s \o b) \o f, sep) = Append(q \o a, e)
      <4> DEFINE y == s \o b
      <4>1. y \in Text /\ Parts(y, sep) = q \o a
        BY <3>3
      <4> HIDE DEF y
      <4>2. y \o f \in Text /\ Parts(y \o f, sep) = Append(Parts(y, sep), e)
        BY <3>1, <4>1, PartsGrow
      <4> QED
        BY <4>1, <4>2 DEF y
    <3> HIDE DEF f
    <3>7. s \o (b \o f) = (s \o b) \o f
      <4>1. s \in Seq(Symbols) /\ b \in Seq(Symbols) /\ f \in Seq(Symbols)
        BY <1>1, <3>3, <3>5
      <4> QED
        BY <4>1, ConcatAssociative, SMTT(30)
    <3>8. Append(q \o a, e) = q \o Append(a, e)
      <4> DEFINE E == Part(sep)
      <4>1. q \in Seq(E) /\ a \in Seq(E) /\ e \in E
        BY <1>1, <3>1 DEF q
      <4> HIDE DEF E
      <4>2. q \o Append(a, e) = Append(q \o a, e)
        BY <4>1, AppendBehind
      <4> QED
        BY <4>2
    <3>9. B(i + 1) = b \o f
      BY <3>1, <3>4
    <3>10. P(i + 1)
      BY <3>1, <3>5, <3>6, <3>7, <3>8, <3>9 DEF q
    <3> HIDE DEF P
    <3> QED
      BY <3>10
  <2>2. CASE ~(i + 1 <= Len(v))
    <3> HIDE DEF P
    <3> QED
      BY <1>1, <2>2
  <2> QED
    BY <2>1, <2>2
<1> HIDE DEF P
<1>4. T = Nat
  <2>1. T \in SUBSET Nat
    OBVIOUS
  <2> HIDE DEF T
  <2> QED
    BY <1>2, <1>3, <2>1, Induct, Zenon
<1>5. P(Len(v))
  BY <1>1, <1>4
<1>6. SubSeq(v, 1, Len(v)) = v
  OBVIOUS
<1> QED
  BY <1>5, <1>6 DEF P, Text

\* By themselves, too.
LEMMA PartsFound ==
  ASSUME NEW sep \in Symbols, NEW v \in Seq(Part(sep))
  PROVE  Behind(sep, v) \in Text /\ Parts(Behind(sep, v), sep) = v
<1> DEFINE j == Behind(sep, v)
           z == <<>>
<1>1. z \in Text /\ Len(z) = 0
  BY DEF Text
<1>2. Parts(z, sep) = <<>>
  <2>1. Parts(z, sep) = FlattenSeq(PartsOf(z, sep)) /\ PartsOf(z, sep) \in Seq(Seq(Part(sep)))
        /\ Len(PartsOf(z, sep)) = 0
    BY <1>1, PartsAre
  <2>2. PartsOf(z, sep) = <<>>
    BY <2>1
  <2> QED
    BY <2>1, <2>2, FlattenEmpty
<1>3. j \in Text /\ Parts(z \o j, sep) = Parts(z, sep) \o v
  BY <1>1, PartsAgain
<1> HIDE DEF j
<1>4. z \o j = j
  BY <1>3, ConcatEmptySeq DEF Text
<1>5. <<>> \o v = v
  BY ConcatEmptySeq
<1> QED
  BY <1>2, <1>3, <1>4, <1>5 DEF j

-----------------------------------------------------------------------------
(* Writing a result out and reading it again.                              *)

\* The size of a match when some prefix matches.
LEMMA HitIs ==
  ASSUME NEW o \in Info, NEW s \in Text, NEW h \in DOMAIN o.prefixes, Matches(o, s, o.prefixes[h])
  PROVE  \E j \in DOMAIN o.prefixes :
           /\ Matches(o, s, o.prefixes[j])
           /\ \A i \in DOMAIN o.prefixes : Matches(o, s, o.prefixes[i]) => j <= i
           /\ MatchSize(o, s) = Len(o.prefixes[j]) + Len(Name(o))
<1> DEFINE hits == {j \in DOMAIN o.prefixes : Matches(o, s, o.prefixes[j])}
           m == Min(hits)
<1>1. hits \in SUBSET Nat /\ hits # {}
  BY InfoIs
<1>2. MatchSize(o, s) = Len(o.prefixes[m]) + Len(Name(o))
  BY <1>1 DEF MatchSize
<1>3. m \in hits /\ \A j \in hits : m <= j
  <2> HIDE DEF hits
  <2> QED
    BY <1>1, MinIs
<1> HIDE DEF m
<1> QED
  BY <1>2, <1>3

\* An option matches what it took of a text, by the same prefix.
LEMMA MatchAgain ==
  ASSUME NEW o \in Info, NEW s \in Text, NEW m, m = MatchSize(o, s), m # 0
  PROVE  /\ m \in 1 .. Len(s) /\ Take(s, m) \in Text /\ Len(Take(s, m)) = m
         /\ MatchSize(o, Take(s, m)) = m
<1>1. m \in 1 .. Len(s) /\ Len(s) \in Nat
  BY MatchIs DEF Text
<1> DEFINE u == Take(s, m)
<1>2. u \in Text /\ Len(u) = m /\ \A i \in 1 .. m : u[i] = s[i]
  BY <1>1, TakeIs DEF Text
<1> HIDE DEF u
<1>3. PICK j \in DOMAIN o.prefixes :
        /\ Matches(o, s, o.prefixes[j])
        /\ \A i \in DOMAIN o.prefixes : Matches(o, s, o.prefixes[i]) => j <= i
        /\ m = Len(o.prefixes[j]) + Len(Name(o))
  BY MatchIs
<1>4. /\ \A i \in DOMAIN o.prefixes : o.prefixes[i] \in Text /\ Len(o.prefixes[i]) \in Nat
      /\ DOMAIN Name(o) = 1 .. Len(Name(o)) /\ Len(Name(o)) \in Nat /\ j \in Nat /\ DOMAIN o.prefixes \subseteq Nat
  <2>1. o.prefixes \in Seq(Text) /\ Name(o) \in Text
    BY InfoIs
  <2> QED
    BY <2>1 DEF Text
<1>5. ASSUME NEW i \in DOMAIN o.prefixes, Matches(o, u, o.prefixes[i])
      PROVE  Matches(o, s, o.prefixes[i])
  <2> DEFINE q == o.prefixes[i]
  <2>1. q \in Text /\ Len(q) \in Nat /\ IsPrefix(q, u) /\ Len(q) + Len(Name(o)) <= m
        /\ \A l \in DOMAIN Name(o) : Same(u[Len(q) + l], Name(o)[l])
    BY <1>2, <1>4, <1>5 DEF Matches
  <2> HIDE DEF q
  <2>2. IsPrefix(q, s)
    BY <1>1, <1>2, <2>1, PrefixIs, SMTT(30) DEF Text
  <2>3. \A l \in DOMAIN Name(o) : Same(s[Len(q) + l], Name(o)[l])
    <3> SUFFICES ASSUME NEW l \in DOMAIN Name(o) PROVE Same(s[Len(q) + l], Name(o)[l])
      OBVIOUS
    <3>1. Len(q) + l \in 1 .. m
      BY <1>1, <1>4, <2>1
    <3> QED
      BY <1>2, <2>1, <3>1
  <2>4. Len(q) + Len(Name(o)) <= Len(s)
    BY <1>1, <1>4, <2>1
  <2> QED
    BY <2>2, <2>3, <2>4 DEF Matches, q
<1>6. Matches(o, u, o.prefixes[j])
  <2> DEFINE q == o.prefixes[j]
  <2>1. q \in Text /\ Len(q) \in Nat /\ IsPrefix(q, s) /\ Len(q) + Len(Name(o)) = m
        /\ \A l \in DOMAIN Name(o) : Same(s[Len(q) + l], Name(o)[l])
    BY <1>3, <1>4 DEF Matches
  <2> HIDE DEF q
  <2>2. IsPrefix(q, u)
    BY <1>1, <1>2, <1>4, <2>1, PrefixIs DEF Text
  <2>3. \A l \in DOMAIN Name(o) : Same(u[Len(q) + l], Name(o)[l])
    <3> SUFFICES ASSUME NEW l \in DOMAIN Name(o) PROVE Same(u[Len(q) + l], Name(o)[l])
      OBVIOUS
    <3>1. Len(q) + l \in 1 .. m
      BY <1>1, <1>4, <2>1
    <3> QED
      BY <1>2, <2>1, <3>1
  <2>4. Len(q) + Len(Name(o)) <= Len(u)
    BY <1>2, <2>1
  <2> QED
    BY <2>2, <2>3, <2>4 DEF Matches, q
<1>7. PICK h \in DOMAIN o.prefixes :
        /\ Matches(o, u, o.prefixes[h])
        /\ \A i \in DOMAIN o.prefixes : Matches(o, u, o.prefixes[i]) => h <= i
        /\ MatchSize(o, u) = Len(o.prefixes[h]) + Len(Name(o))
  BY <1>2, <1>6, HitIs
<1>8. h = j
  <2>1. h <= j /\ j <= h
    BY <1>3, <1>5, <1>6, <1>7
  <2> QED
    BY <1>4, <2>1
<1> QED
  BY <1>1, <1>2, <1>3, <1>7, <1>8 DEF u

\* A comma-joined option matches just as much of every text that begins so.
LEMMA CommaMatch ==
  ASSUME TypeOK, NEW k \in Searchable, t[k].kind = "commaJoined",
         NEW s \in Text, NEW u \in Text, NEW m, m = MatchSize(t[k], s), m # 0,
         Len(u) >= m, \A i \in 1 .. m : u[i] = s[i]
  PROVE  MatchSize(t[k], u) = m
<1> DEFINE o == t[k]
           N == Name(o)
<1>1. o \in Info /\ N \in Text /\ Len(N) \in Nat /\ DOMAIN N = 1 .. Len(N)
      /\ DOMAIN o.prefixes \subseteq Nat
      /\ (\A i \in DOMAIN o.prefixes : o.prefixes[i] \in Text /\ Len(o.prefixes[i]) \in Nat)
      /\ Len(s) \in Nat /\ Len(u) \in Nat /\ m \in Nat
  <2>1. o \in Info
    BY StateIs
  <2>2. N \in Text /\ o.prefixes \in Seq(Text) /\ m \in 0 .. Len(s)
    BY <2>1, InfoIs, MatchIs
  <2> HIDE DEF N, o
  <2> QED
    BY <2>1, <2>2 DEF Text
<1>2. N # <<>> /\ Apart(N, PrefixChars)
  <2> DEFINE n == input.parser
  <2>1. /\ t = Parsers[n].table /\ n \in DOMAIN Parsers
        /\ PrefixChars = UNION {ToSet(q) : q \in Built[n].prefixes}
        /\ k \in Built[n].first .. Len(Parsers[n].table)
    BY DEF First, t, p, PrefixChars, PrefixesUnion, Searchable, TypeOK
  <2> HIDE DEF n
  <2> QED
    BY <2>1, SortedAssumption
<1>3. Len(N) > 0 /\ \A c \in PrefixChars : Lower[c] # Lower[N[1]]
  BY <1>1, <1>2 DEF Apart, Text
<1>4. \A i \in DOMAIN o.prefixes : \A l \in 1 .. Len(o.prefixes[i]) : o.prefixes[i][l] \in PrefixChars
  BY PrefixCharsAre
<1>5. PICK j \in DOMAIN o.prefixes : Matches(o, s, o.prefixes[j]) /\ m = Len(o.prefixes[j]) + Len(N)
  BY <1>1, MatchIs, ZenonT(30)
<1> DEFINE q == o.prefixes[j]
<1>6. /\ q \in Text /\ Len(q) \in Nat /\ IsPrefix(q, s) /\ m = Len(q) + Len(N)
      /\ \A l \in DOMAIN N : Same(s[Len(q) + l], N[l])
      /\ \A l \in 1 .. Len(q) : q[l] \in PrefixChars
  BY <1>1, <1>4, <1>5 DEF Matches
<1> HIDE DEF q
<1>7. (\A i \in 1 .. Len(q) : q[i] = s[i]) /\ Len(q) <= Len(s)
  BY <1>6, PrefixIs DEF Text
<1>8. \A i \in 1 .. Len(q) : u[i] = q[i]
  BY <1>1, <1>6, <1>7
<1>9. Matches(o, u, q)
  <2>1. IsPrefix(q, u)
    <3>1. Len(q) <= Len(u)
      BY <1>1, <1>6
    <3> QED
      BY <1>6, <1>8, <3>1, PrefixIs DEF Text
  <2>2. \A l \in DOMAIN N : Same(u[Len(q) + l], N[l])
    <3> SUFFICES ASSUME NEW l \in DOMAIN N PROVE Same(u[Len(q) + l], N[l])
      OBVIOUS
    <3>1. Len(q) + l \in 1 .. m
      BY <1>1, <1>6
    <3> QED
      BY <1>6, <3>1
  <2>3. Len(q) + Len(N) <= Len(u)
    BY <1>6
  <2> QED
    BY <2>1, <2>2, <2>3 DEF Matches
<1>10. PICK h \in DOMAIN o.prefixes :
         Matches(o, u, o.prefixes[h]) /\ MatchSize(o, u) = Len(o.prefixes[h]) + Len(N)
  <2>1. j \in DOMAIN o.prefixes /\ Matches(o, u, o.prefixes[j])
    BY <1>9 DEF q
  <2> QED
    BY <1>1, <2>1, HitIs, ZenonT(30)
<1> DEFINE g == o.prefixes[h]
<1>11. /\ g \in Text /\ Len(g) \in Nat /\ IsPrefix(g, u)
       /\ \A l \in DOMAIN N : Same(u[Len(g) + l], N[l])
       /\ \A l \in 1 .. Len(g) : g[l] \in PrefixChars
  BY <1>1, <1>4, <1>10 DEF Matches
<1> HIDE DEF g
<1>12. (\A i \in 1 .. Len(g) : g[i] = u[i]) /\ Len(g) <= Len(u)
  BY <1>11, PrefixIs DEF Text
<1>13. Lower[u[Len(g) + 1]] = Lower[N[1]] /\ Lower[u[Len(q) + 1]] = Lower[N[1]]
  <2>1. 1 \in DOMAIN N /\ Len(q) + 1 \in 1 .. m
    BY <1>1, <1>3, <1>6
  <2>2. Same(u[Len(g) + 1], N[1]) /\ Same(s[Len(q) + 1], N[1]) /\ u[Len(q) + 1] = s[Len(q) + 1]
    BY <1>6, <1>11, <2>1
  <2> QED
    BY <2>2 DEF Same
<1>14. Len(g) = Len(q)
  <2>1. ~(Len(g) < Len(q))
    <3> SUFFICES ASSUME Len(g) < Len(q) PROVE FALSE
      OBVIOUS
    <3>1. Len(g) + 1 \in 1 .. Len(q)
      BY <1>6, <1>11
    <3>2. u[Len(g) + 1] \in PrefixChars
      BY <1>6, <1>8, <3>1
    <3> QED
      BY <1>3, <1>13, <3>2
  <2>2. ~(Len(q) < Len(g))
    <3> SUFFICES ASSUME Len(q) < Len(g) PROVE FALSE
      OBVIOUS
    <3>1. Len(q) + 1 \in 1 .. Len(g)
      BY <1>6, <1>11
    <3>2. u[Len(q) + 1] \in PrefixChars
      BY <1>11, <1>12, <3>1
    <3> QED
      BY <1>3, <1>13, <3>2
  <2> QED
    BY <1>6, <1>11, <2>1, <2>2
<1> QED
  BY <1>6, <1>10, <1>14 DEF g

\* The values that each class gives.
LEMMA ValuesFor ==
  ASSUME NEW a, NEW o, NEW i, NEW n, o.kind \in Kinds
  PROVE  LET joined == Drop(a[i], n)
             after == SubSeq(a, i + 1, Resume(a, o, i, n) - 1)
         IN  /\ o.kind = "flag" => Values(a, o, i, n) = <<>>
             /\ o.kind = "joined" => Values(a, o, i, n) = <<joined>>
             /\ o.kind = "commaJoined" => Values(a, o, i, n) = Parts(joined, Comma)
             /\ o.kind \in {"joinedOrSeparate", "remainingArgsJoined"} =>
                  Values(a, o, i, n) = IF Exact(a, i, n) THEN after ELSE <<joined>> \o after
             /\ o.kind \in {"separate", "multiArg", "remainingArgs"} => Values(a, o, i, n) = after
             /\ o.kind = "joinedAndSeparate" => Values(a, o, i, n) = <<joined>> \o after
<1>1. /\ o.kind = "flag" => Values(a, o, i, n) = <<>>
      /\ o.kind = "joined" => Values(a, o, i, n) = <<Drop(a[i], n)>>
      /\ o.kind = "commaJoined" => Values(a, o, i, n) = Parts(Drop(a[i], n), Comma)
  BY DEF Values, Comma
<1>2. o.kind \in {"joinedOrSeparate", "remainingArgsJoined"} =>
        Values(a, o, i, n) = IF Exact(a, i, n) THEN SubSeq(a, i + 1, Resume(a, o, i, n) - 1)
                             ELSE <<Drop(a[i], n)>> \o SubSeq(a, i + 1, Resume(a, o, i, n) - 1)
  BY DEF Values
<1>3. o.kind \in {"separate", "multiArg", "remainingArgs"} =>
        Values(a, o, i, n) = SubSeq(a, i + 1, Resume(a, o, i, n) - 1)
  BY DEF Values
<1>4. o.kind = "joinedAndSeparate" =>
        Values(a, o, i, n) = <<Drop(a[i], n)>> \o SubSeq(a, i + 1, Resume(a, o, i, n) - 1)
  BY DEF Values
<1> QED
  BY <1>1, <1>2, <1>3, <1>4

LEMMA JoinedValues ==
  ASSUME NEW a, NEW o, NEW i, NEW n
  PROVE  /\ o.kind = "joined" => Accepts(a, o, i, n) /\ Values(a, o, i, n) = <<Drop(a[i], n)>>
         /\ o.kind = "commaJoined" => Accepts(a, o, i, n) /\ Values(a, o, i, n) = Parts(Drop(a[i], n), Comma)
BY DEF Values, Accepts, Comma

\* A word and values behind it.
LEMMA WordAndValues ==
  ASSUME NEW x \in Text, NEW v \in Seq(Text)
  PROVE  LET w == <<x>> \o v
         IN  /\ w \in Seq(Text) /\ Len(w) = Len(v) + 1 /\ w[1] = x
             /\ \A l \in 1 .. Len(v) : w[l + 1] = v[l]
             /\ SubSeq(w, 2, Len(v) + 1) = v
<1>1. <<x>> \in Seq(Text) /\ Len(<<x>>) = 1 /\ Len(v) \in Nat
  OBVIOUS
<1> DEFINE w == <<x>> \o v
<1>2. w \in Seq(Text) /\ Len(w) = Len(v) + 1 /\ w[1] = x
  BY <1>1, ConcatProperties
<1>3. \A l \in 1 .. Len(v) : w[l + 1] = v[l]
  BY <1>1, ConcatProperties
<1> HIDE DEF w
<1>4. SubSeq(w, 2, Len(v) + 1) = v
  <2> DEFINE u == SubSeq(w, 2, Len(v) + 1)
  <2>1. u \in Seq(Text) /\ Len(u) = Len(v)
    BY <1>1, <1>2
  <2>2. ASSUME NEW l \in 1 .. Len(v) PROVE u[l] = v[l]
    <3>1. u[l] = w[l + 1]
      BY <1>1, <1>2
    <3> QED
      BY <1>3, <3>1
  <2> HIDE DEF u
  <2>3. u = v
    BY <2>1, <2>2, SeqEqual
  <2> QED
    BY <2>3 DEF u
<1> QED
  BY <1>2, <1>3, <1>4 DEF w

\* Values as many and as full as the class takes.
Suits(o, v) ==
  \/ o.kind = "flag" /\ v = <<>>
  \/ o.kind \in {"separate", "joinedOrSeparate"} /\ Len(v) = 1 /\ v[1] # <<>>
  \/ o.kind = "multiArg" /\ Len(v) = o.param
  \/ o.kind \in {"remainingArgs", "remainingArgsJoined"} /\ \A l \in 1 .. Len(v) : v[l] # <<>>

\* The words w are read as option o, n symbols of the first, with values v.
ReadAs(w, o, n, v) == Accepts(w, o, 1, n) /\ Values(w, o, 1, n) = v

\* Values written as words behind the option are read again, if they are as many
\* and as full as its class takes.
LEMMA SeparateKeeps ==
  ASSUME NEW o \in Info, NEW x \in Text, NEW v \in Seq(Text), NEW n, n = Len(x),
         NEW w, w = <<x>> \o v, Suits(o, v)
  PROVE  ReadAs(w, o, n, v)
<1>1. /\ w \in Seq(Text) /\ Len(w) = Len(v) + 1 /\ w[1] = x /\ Len(v) \in Nat
      /\ \A l \in 1 .. Len(v) : w[l + 1] = v[l]
      /\ SubSeq(w, 2, Len(v) + 1) = v
  BY WordAndValues
<1>2. Exact(w, 1, n) /\ o.kind \in Kinds
  BY <1>1 DEF Exact, Kinds, TakesJoined, Suits
<1>3. o.param \in Nat
  BY InfoIs
<1>4. ASSUME o.kind = "flag" /\ v = <<>> PROVE Accepts(w, o, 1, n) /\ Values(w, o, 1, n) = v
  BY <1>1, <1>2, <1>4, AcceptsFor, ValuesFor
<1>5. ASSUME o.kind \in {"separate", "joinedOrSeparate"} /\ Len(v) = 1 /\ v[1] # <<>>
      PROVE  Accepts(w, o, 1, n) /\ Values(w, o, 1, n) = v
  <2>1. Given(w, 2)
    BY <1>1, <1>5 DEF Given
  <2>2. Accepts(w, o, 1, n)
    BY <1>2, <1>5, <2>1, AcceptsFor
  <2>3. Resume(w, o, 1, n) = 3
    BY <1>2, <1>5, ResumeFor
  <2>4. SubSeq(w, 1 + 1, Resume(w, o, 1, n) - 1) = v
    BY <1>1, <1>5, <2>3
  <2>5. Values(w, o, 1, n) = SubSeq(w, 1 + 1, Resume(w, o, 1, n) - 1)
    BY <1>2, <1>5, ValuesFor
  <2> QED
    BY <1>1, <2>2, <2>4, <2>5
<1>6. ASSUME o.kind = "multiArg" /\ Len(v) = o.param
      PROVE  Accepts(w, o, 1, n) /\ Values(w, o, 1, n) = v
  <2>1. 1 + o.param <= Len(w)
    BY <1>1, <1>3, <1>6
  <2>2. Accepts(w, o, 1, n)
    BY <1>2, <1>6, <2>1, AcceptsFor
  <2>3. Resume(w, o, 1, n) = Len(v) + 2
    BY <1>2, <1>3, <1>6, ResumeFor
  <2>4. SubSeq(w, 1 + 1, Resume(w, o, 1, n) - 1) = v
    <3>1. 1 + 1 = 2 /\ Resume(w, o, 1, n) - 1 = Len(v) + 1
      BY <1>1, <2>3
    <3> QED
      BY <1>1, <3>1, Zenon
  <2>5. Values(w, o, 1, n) = SubSeq(w, 1 + 1, Resume(w, o, 1, n) - 1)
    BY <1>2, <1>6, ValuesFor
  <2> QED
    BY <1>1, <2>2, <2>4, <2>5
<1>7. ASSUME o.kind \in {"remainingArgs", "remainingArgsJoined"} /\ \A l \in 1 .. Len(v) : v[l] # <<>>
      PROVE  Accepts(w, o, 1, n) /\ Values(w, o, 1, n) = v
  <2>1. Accepts(w, o, 1, n)
    BY <1>2, <1>7, AcceptsFor
  <2>2. RestEnd(w, 1) = Len(v) + 2
    <3> DEFINE ends == {j \in 1 + 1 .. Len(w) : w[j] = <<>>}
    <3>1. ASSUME NEW j \in 1 + 1 .. Len(w) PROVE w[j] # <<>>
      <4> DEFINE l == j - 1
      <4>1. l \in 1 .. Len(v) /\ j = l + 1
        BY <1>1
      <4> HIDE DEF l
      <4> QED
        BY <1>1, <1>7, <4>1
    <3>2. ends = {}
      BY <3>1
    <3>3. RestEnd(w, 1) = Min({Len(w) + 1})
      BY <3>2 DEF RestEnd
    <3> DEFINE e == Len(w) + 1
    <3>4. e \in Nat /\ e = Len(v) + 2
      BY <1>1
    <3>5. Min({e}) \in {e}
      <4>1. {e} \in SUBSET Nat /\ {e} # {}
        BY <3>4
      <4> HIDE DEF e
      <4> QED
        BY <4>1, MinIs
    <3> QED
      BY <3>3, <3>4, <3>5
  <2>3. Resume(w, o, 1, n) = Len(v) + 2
    BY <1>2, <1>7, <2>2, ResumeFor
  <2>4. SubSeq(w, 1 + 1, Resume(w, o, 1, n) - 1) = v
    <3>1. 1 + 1 = 2 /\ Resume(w, o, 1, n) - 1 = Len(v) + 1
      BY <1>1, <2>3
    <3> QED
      BY <1>1, <3>1, Zenon
  <2>5. Values(w, o, 1, n) = SubSeq(w, 1 + 1, Resume(w, o, 1, n) - 1)
    BY <1>2, <1>7, ValuesFor
  <2> QED
    BY <1>1, <2>1, <2>4, <2>5
<1>8. Accepts(w, o, 1, n) /\ Values(w, o, 1, n) = v
  BY <1>4, <1>5, <1>6, <1>7 DEF Suits
<1> QED
  BY <1>8 DEF ReadAs

\* What an option that takes its values from the arguments behind it was given.
LEMMA GivenValues ==
  ASSUME NEW a \in Seq(Text), NEW i \in 1 .. Len(a), NEW o \in Info,
         o.kind \in Kinds \ {"joined", "commaJoined", "joinedAndSeparate"},
         NEW n \in 0 .. Len(a[i]), Accepts(a, o, i, n), NEW v, v = Values(a, o, i, n)
  PROVE  v \in Seq(Text) /\ Suits(o, v)
<1> DEFINE joined == Drop(a[i], n)
           m == Resume(a, o, i, n)
           after == SubSeq(a, i + 1, m - 1)
<1>1. /\ v \in Seq(Text) /\ o.param \in Nat /\ Len(a) \in Nat /\ i \in Nat /\ a[i] \in Text
      /\ m \in i + 1 .. Len(a) + 1
      /\ o.kind \in {"flag", "separate", "joinedOrSeparate", "multiArg", "remainingArgs", "remainingArgsJoined"}
  BY ValuesType, ResumeIs, InfoIs DEF Kinds, TakesJoined
<1>2. joined \in Text /\ (~Exact(a, i, n) => joined # <<>>)
  <2>1. Len(a[i]) \in Nat /\ a[i] \in Seq(Symbols) /\ n \in Nat /\ n <= Len(a[i])
    BY <1>1 DEF Text
  <2>2. joined \in Seq(Symbols) /\ Len(joined) = Len(a[i]) - n
    BY <2>1, DropIs
  <2> HIDE DEF joined
  <2> QED
    BY <2>1, <2>2 DEF Exact, Text
<1>3. after \in Seq(Text) /\ Len(after) = m - i - 1 /\ \A l \in 1 .. Len(after) : after[l] = a[i + l]
  <2> HIDE DEF m
  <2>1. m - 1 \in Int /\ m - 1 >= i /\ m - 1 <= Len(a)
    BY <1>1
  <2>2. after \in Seq(Text)
    BY <1>1, <2>1
  <2>3. Len(after) = m - 1 - (i + 1) + 1
    BY <1>1, <2>1
  <2>4. \A l \in 1 .. Len(after) : after[l] = a[i + l]
    BY <1>1, <2>1, <2>3
  <2> QED
    BY <1>1, <2>2, <2>3, <2>4
<1>4. m = Resume(a, o, i, n)
  OBVIOUS
<1>5. /\ o.kind \in {"joinedOrSeparate", "remainingArgsJoined"} =>
           v = IF Exact(a, i, n) THEN after ELSE <<joined>> \o after
      /\ o.kind \in {"separate", "multiArg", "remainingArgs"} => v = after
  BY ValuesFor
<1> HIDE DEF joined, m, after
<1>6. CASE o.kind = "flag"
  BY <1>1, <1>6, ValuesFor DEF Suits
<1>7. CASE o.kind \in {"separate", "joinedOrSeparate"} /\ Exact(a, i, n)
  <2>1. Given(a, i + 1)
    BY <1>7, AcceptsFor
  <2>2. m = i + 2
    BY <1>4, <1>7, ResumeFor
  <2>3. v = after
    BY <1>5, <1>7
  <2> QED
    BY <1>1, <1>3, <1>7, <2>1, <2>2, <2>3 DEF Given, Suits
<1>8. CASE o.kind = "separate" /\ ~Exact(a, i, n)
  BY <1>8, AcceptsFor
<1>9. CASE o.kind = "joinedOrSeparate" /\ ~Exact(a, i, n)
  <2>1. m = i + 1
    BY <1>4, <1>9, ResumeFor
  <2>2. Len(after) = 0
    BY <1>1, <1>3, <2>1
  <2>3. v = <<joined>> \o after
    BY <1>5, <1>9
  <2>4. Len(v) = 1 /\ v[1] = joined
    BY <1>2, <1>3, <2>2, <2>3, WordAndValues
  <2> QED
    BY <1>1, <1>2, <1>9, <2>4 DEF Suits
<1>10. CASE o.kind = "multiArg"
  <2>1. Exact(a, i, n)
    BY <1>10, AcceptsFor
  <2>2. m = i + 1 + o.param
    BY <1>4, <1>10, <2>1, ResumeFor
  <2> QED
    BY <1>1, <1>3, <1>5, <1>10, <2>2, SMTT(30) DEF Suits
<1>11. CASE o.kind \in {"remainingArgs", "remainingArgsJoined"}
  <2>1. m = RestEnd(a, i)
    <3>1. o.kind = "remainingArgs" => Exact(a, i, n)
      BY <1>11, AcceptsFor
    <3> QED
      BY <1>4, <1>11, <3>1, ResumeFor
  <2>2. \A j \in i + 1 .. m - 1 : a[j] # <<>>
    BY <2>1, RestEndIs
  <2>3. \A l \in 1 .. Len(after) : after[l] # <<>>
    <3> SUFFICES ASSUME NEW l \in 1 .. Len(after) PROVE after[l] # <<>>
      OBVIOUS
    <3>1. i + l \in i + 1 .. m - 1
      BY <1>1, <1>3
    <3> QED
      BY <1>3, <2>2, <3>1
  <2>4. CASE v = after
    BY <1>1, <1>11, <2>3, <2>4 DEF Suits
  <2>5. CASE v = <<joined>> \o after /\ ~Exact(a, i, n)
    <3>1. ASSUME NEW l \in 1 .. Len(v) PROVE v[l] # <<>>
      <4>1. Len(v) = Len(after) + 1 /\ v[1] = joined /\ \A j \in 1 .. Len(after) : v[j + 1] = after[j]
        BY <1>2, <1>3, <2>5, WordAndValues
      <4>2. CASE l = 1
        BY <1>2, <2>5, <4>1, <4>2
      <4>3. CASE l # 1
        <5> DEFINE j == l - 1
        <5>1. j \in 1 .. Len(after) /\ l = j + 1
          BY <1>3, <4>1, <4>3
        <5> HIDE DEF j
        <5> QED
          BY <2>3, <4>1, <5>1
      <4> QED
        BY <4>2, <4>3
    <3> QED
      BY <1>1, <1>11, <3>1 DEF Suits
  <2>6. v = after \/ (v = <<joined>> \o after /\ ~Exact(a, i, n))
    BY <1>5, <1>11
  <2> QED
    BY <2>4, <2>5, <2>6
<1> QED
  BY <1>1, <1>6, <1>7, <1>8, <1>9, <1>10, <1>11 DEF Suits

\* What RenderKeepsMeaning says of result r of option o.
Written(o, r) ==
  /\ o.kind \in Kinds \ {"joinedAndSeparate"}
  /\ RenderStyle(o) = ClassStyle(o)
  /\ Writable(o, r)
Kept(o, r) ==
  LET w == Parts(Rendered(o, r), Space)
      n == MatchSize(o, w[1])
  IN  Written(o, r) => n # 0 /\ Accepts(w, o, 1, n) /\ Values(w, o, 1, n) = r.values

\* A text without blanks is a word.
NoSpace == Symbols \ {Space}

LEMMA WordIs ==
  ASSUME NEW s \in Text, Space \notin ToSet(s)
  PROVE  s \in Seq(NoSpace)
<1>1. s \in Seq(Symbols) /\ DOMAIN s = 1 .. Len(s) /\ Len(s) \in Nat
  BY DEF Text
<1>2. \A i \in 1 .. Len(s) : s[i] \in NoSpace
  BY <1>1 DEF ToSet, NoSpace
<1> QED
  BY <1>1, <1>2

LEMMA WordIsPart ==
  ASSUME NEW s \in Seq(NoSpace), s # <<>>
  PROVE  s \in Part(Space)
<1>1. s \in Text
  BY DEF Text, NoSpace
<1>2. \A i \in 1 .. Len(s) : s[i] # Space
  BY DEF NoSpace
<1> QED
  BY <1>1, <1>2 DEF Part

\* The words of what is written for a result.
LEMMA WordsFor ==
  ASSUME NEW o, NEW r, Written(o, r), r.spelling \in Text, r.spelling # <<>>,
         r.values \in Seq(Text)
  PROVE  /\ o.kind = "joined" /\ r.values # <<>> =>
              Parts(Rendered(o, r), Space) = <<r.spelling \o r.values[1]>>
         /\ o.kind = "commaJoined" =>
              Parts(Rendered(o, r), Space) = <<r.spelling \o Behind(Comma, r.values)>>
         /\ o.kind \notin {"joined", "commaJoined"} =>
              Parts(Rendered(o, r), Space) = <<r.spelling>> \o r.values
<1> DEFINE x == r.spelling
           v == r.values
<1>1. x \in Text /\ x # <<>> /\ v \in Seq(Text) /\ x = r.spelling /\ v = r.values
  OBVIOUS
<1> HIDE DEF x, v
<1>2. o.kind \in Kinds \ {"joinedAndSeparate"} /\ o.kind \notin Special
  BY DEF Written, Kinds, TakesJoined, Special
<1>3. /\ o.kind = "joined" => RenderStyle(o) = "joined"
      /\ o.kind = "commaJoined" => RenderStyle(o) = "commaJoined"
      /\ o.kind \notin {"joined", "commaJoined"} => RenderStyle(o) = "separate"
  BY <1>2 DEF Written, ClassStyle
<1>4. /\ o.kind = "joined" => Rendered(o, r) = x \o v[1]
      /\ o.kind = "commaJoined" => Rendered(o, r) = x \o Behind(Comma, v)
      /\ o.kind \notin {"joined", "commaJoined"} => Rendered(o, r) = x \o Behind(Space, v)
  BY <1>3, <1>1 DEF Rendered, Comma, Space
<1>5. \A k \in 1 .. Len(v) : v[k] \in Text /\ v[k] \in ToSet(v)
  BY <1>1 DEF ToSet
<1>6. x \in Seq(NoSpace) /\ \A k \in 1 .. Len(v) : v[k] \in Seq(NoSpace)
  <2>1. \A s \in {x} \union ToSet(v) : Space \notin ToSet(s)
    BY <1>1 DEF Written, Writable, Space
  <2> QED
    BY <1>5, <1>1, <2>1, WordIs
<1>7. ASSUME NEW u \in Seq(NoSpace) PROVE Parts(x \o u, Space) = <<x \o u>>
  <2>1. x \o u \in Seq(NoSpace) /\ x \o u # <<>>
    BY <1>6, <1>1, ConcatProperties, ConcatEqualIffEmpty
  <2>2. x \o u \in Part(Space)
    <3> DEFINE y == x \o u
    <3> HIDE DEF y
    <3>1. y \in Part(Space)
      BY <2>1, WordIsPart DEF y
    <3> QED
      BY <3>1 DEF y
  <2> QED
    BY <2>2, PartsWhole
<1>8. CASE o.kind = "joined" /\ v # <<>>
  <2>1. 1 \in 1 .. Len(v)
    BY <1>8, <1>1
  <2> QED
    BY <1>4, <1>6, <1>7, <1>8, <2>1, <1>1
<1>9. CASE o.kind = "commaJoined"
  <2> DEFINE S == [k \in DOMAIN v |-> <<Comma>> \o v[k]]
  <2>1. ASSUME NEW k \in 1 .. Len(v) PROVE <<Comma>> \o v[k] \in Seq(NoSpace)
    <3>1. Comma \in NoSpace
      BY SeparatorAssumption DEF NoSpace, Comma, Space
    <3>2. <<Comma>> \in Seq(NoSpace) /\ v[k] \in Seq(NoSpace)
      BY <1>6, <3>1
    <3> QED
      BY <3>2, ConcatProperties
  <2>2. S \in Seq(Seq(NoSpace)) /\ Len(S) = Len(v) /\ Len(v) \in Nat
    <3>1. DOMAIN v = 1 .. Len(v) /\ Len(v) \in Nat
      BY <1>1
    <3> QED
      BY <2>1, <3>1
  <2> HIDE DEF S
  <2>3. FlattenSeq(S) \in Seq(NoSpace)
    BY <2>2, FlattenType
  <2>4. Behind(Comma, v) = FlattenSeq(S)
    BY Zenon DEF Behind, S
  <2> QED
    BY <1>4, <1>7, <1>9, <2>3, <2>4, <1>1
<1>10. CASE o.kind \notin {"joined", "commaJoined"}
  <2>1. \A k \in 1 .. Len(v) : v[k] # <<>>
    <3>1. <<>> \notin ToSet(v)
      BY <1>3, <1>10, <1>1 DEF Written, Writable
    <3> QED
      BY <1>5, <3>1
  <2>2. x \in Part(Space) /\ \A k \in 1 .. Len(v) : v[k] \in Part(Space)
    BY <1>6, <1>1, <2>1, WordIsPart
  <2>3. v \in Seq(Part(Space)) /\ Space \in Symbols
    <3>1. Space \in Symbols
      BY SeparatorAssumption DEF Space
    <3>2. v \in Seq(Part(Space))
      BY <1>1, <2>2
    <3> QED
      BY <3>1, <3>2
  <2>4. Parts(x \o Behind(Space, v), Space) = Parts(x, Space) \o v
    BY <1>1, <2>3, PartsAgain
  <2>5. Parts(x, Space) = <<x>>
    BY <2>2, PartsWhole
  <2> QED
    BY <1>4, <1>10, <2>4, <2>5, <1>1
<1> QED
  BY <1>8, <1>9, <1>10, <1>1

\* A sequence is what was taken of it and what was not.
LEMMA TakeAndDrop ==
  ASSUME NEW E, NEW s \in Seq(E), NEW n \in 0 .. Len(s)
  PROVE  Take(s, n) \o Drop(s, n) = s
<1>1. Take(s, n) \in Seq(E) /\ Len(Take(s, n)) = n /\ \A i \in 1 .. n : Take(s, n)[i] = s[i]
  BY TakeIs
<1>2. Drop(s, n) \in Seq(E) /\ Len(Drop(s, n)) = Len(s) - n
      /\ \A i \in 1 .. Len(s) - n : Drop(s, n)[i] = s[n + i]
  BY DropIs
<1> DEFINE x == Take(s, n)
           y == Drop(s, n)
           u == x \o y
<1> HIDE DEF x, y
<1>3. Len(s) \in Nat /\ n \in Nat /\ n <= Len(s)
  OBVIOUS
<1>4. u \in Seq(E) /\ Len(u) = Len(s)
      /\ (\A i \in 1 .. n : u[i] = x[i]) /\ (\A i \in n + 1 .. Len(s) : u[i] = y[i - n])
  BY <1>1, <1>2, <1>3, ConcatProperties DEF x, y
<1> HIDE DEF u
<1>5. ASSUME NEW i \in 1 .. Len(s) PROVE u[i] = s[i]
  <2>1. CASE i <= n
    BY <1>1, <1>3, <1>4, <2>1 DEF x
  <2>2. CASE i > n
    <3> DEFINE j == i - n
    <3>1. j \in 1 .. Len(s) - n /\ i = n + j /\ i \in n + 1 .. Len(s)
      BY <1>3, <2>2
    <3>2. u[i] = y[j]
      BY <1>4, <3>1
    <3> HIDE DEF j
    <3> QED
      BY <1>2, <3>1, <3>2 DEF y
  <2> QED
    BY <1>3, <2>1, <2>2
<1>6. u = s
  BY <1>3, <1>4, <1>5, SeqEqual
<1> QED
  BY <1>6 DEF u, x, y

\* What an option accepts keeps its meaning.
LEMMA AcceptKeeps ==
  ASSUME TypeOK, NEW k \in Searchable, NEW a \in Seq(Text), NEW i \in 1 .. Len(a),
         NEW m, m = MatchSize(t[k], a[i]), m # 0, Accepts(a, t[k], i, m), NEW r,
         r.spelling = Take(a[i], m), r.values = Values(a, t[k], i, m)
  PROVE  Kept(t[k], r)
<1> SUFFICES ASSUME Written(t[k], r)
             PROVE  Kept(t[k], r)
  BY DEF Kept
<1> DEFINE o == t[k]
           s == a[i]
           x == Take(s, m)
           y == Drop(s, m)
           v == Values(a, o, i, m)
<1>1. o \in Info /\ o.kind \in Kinds /\ s \in Text /\ Len(s) \in Nat /\ s \in Seq(Symbols)
  BY StateIs, SMTT(30) DEF Text
<1>2. m \in 1 .. Len(s) /\ x \in Text /\ Len(x) = m /\ MatchSize(o, x) = m
  <2> HIDE DEF o, s
  <2> QED
    BY <1>1, MatchAgain DEF o, s
<1>3. y \in Text /\ x \o y = s
  <2>1. m \in Nat /\ m \in 0 .. Len(s)
    BY <1>1, <1>2
  <2> HIDE DEF s
  <2>2. y \in Text
    BY <1>1, <2>1, DropIs DEF Text
  <2>3. x \o y = s
    BY <1>1, <2>1, TakeAndDrop DEF Text
  <2> QED
    BY <2>2, <2>3
<1>4. r.spelling = x /\ r.values = v /\ Accepts(a, o, i, m) /\ m \in 0 .. Len(s) /\ m # 0
  BY <1>1, <1>2
<1>5. m = MatchSize(o, s) /\ a[i] = s /\ k \in Searchable
  OBVIOUS
<1> HIDE DEF x, y, v, s
<1>6. Written(o, r) /\ x # <<>> /\ x \in Text /\ x = r.spelling /\ v = r.values
  <2>1. x # <<>>
    BY <1>2
  <2> QED
    BY <1>2, <1>4, <2>1
<1>7. CASE o.kind = "joined"
  <2>1. v = <<y>>
    BY <1>7, JoinedValues DEF v, y, s
  <2>2. Parts(Rendered(o, r), Space) = <<s>>
    <3>1. v \in Seq(Text) /\ v # <<>> /\ v[1] = y
      BY <1>3, <2>1
    <3>2. Written(o, r) /\ r.spelling \in Text /\ r.spelling # <<>>
          /\ r.values \in Seq(Text) /\ r.values # <<>>
      BY <1>6, <3>1
    <3> HIDE DEF o
    <3>3. Parts(Rendered(o, r), Space) = <<r.spelling \o r.values[1]>>
      BY <1>7, <3>2, WordsFor
    <3> QED
      BY <1>3, <1>4, <3>1, <3>3
  <2> DEFINE w == <<s>>
  <2>3. w[1] = s
    OBVIOUS
  <2>4. Accepts(w, o, 1, m)
    BY <1>7, JoinedValues
  <2>5. Values(w, o, 1, m) = <<Drop(w[1], m)>>
    BY <1>7, JoinedValues
  <2>6. Values(w, o, 1, m) = v
    BY <2>1, <2>3, <2>5 DEF y
  <2> HIDE DEF w, o
  <2> QED
    BY <1>4, <1>5, <2>2, <2>3, <2>4, <2>6 DEF Kept, w, o
<1>8. CASE o.kind = "commaJoined"
  <2>1. v = Parts(y, Comma)
    BY <1>8, JoinedValues DEF v, y, s
  <2>2. v \in Seq(Part(Comma))
    BY <1>3, <2>1, PartsAre
  <2>3. Comma \in Symbols
    BY Zenon, SeparatorAssumption DEF Comma
  <2> DEFINE j == Behind(Comma, v)
             u == x \o j
             w == <<u>>
  <2>4. j \in Text /\ Parts(j, Comma) = v
    BY <2>2, <2>3, PartsFound
  <2> HIDE DEF j
  <2>5. /\ u \in Text /\ Len(u) = m + Len(j) /\ Len(j) \in Nat
        /\ (\A l \in 1 .. m : u[l] = x[l]) /\ \A l \in 1 .. Len(j) : u[m + l] = j[l]
    <3>1. x \in Seq(Symbols) /\ j \in Seq(Symbols) /\ Len(j) \in Nat /\ Len(x) = m
      BY <1>2, <2>4 DEF Text
    <3>2. /\ u \in Seq(Symbols) /\ Len(u) = Len(x) + Len(j)
          /\ (\A l \in 1 .. Len(x) : u[l] = x[l]) /\ \A l \in 1 .. Len(j) : u[Len(x) + l] = j[l]
      <4>1. u \in Seq(Symbols) /\ Len(u) = Len(x) + Len(j)
        BY <3>1, ConcatProperties
      <4>3. \A l \in 1 .. Len(x) : u[l] = x[l]
        BY <1>2, <3>1
      <4>2. ASSUME NEW l \in 1 .. Len(j) PROVE u[Len(x) + l] = j[l]
        <5> DEFINE h == Len(x) + l
        <5>1. h \in 1 .. Len(x) + Len(j) /\ h > Len(x) /\ h - Len(x) = l
          BY <1>2, <3>1
        <5> HIDE DEF h
        <5>2. u[h] = j[h - Len(x)]
          BY <3>1, <5>1, ConcatProperties
        <5> QED
          BY <5>1, <5>2 DEF h
      <4> QED
        BY <4>1, <4>2, <4>3
    <3> HIDE DEF u
    <3> QED
      BY <3>1, <3>2 DEF Text
  <2> HIDE DEF u
  <2>6. MatchSize(o, u) = m
    <3>1. \A l \in 1 .. m : u[l] = s[l]
      <4>1. m \in 0 .. Len(s)
        BY <1>1, <1>2
      <4>2. \A l \in 1 .. m : x[l] = s[l]
        BY <1>1, <4>1, TakeIs DEF x
      <4> QED
        BY <2>5, <4>2
    <3>2. Len(u) >= m
      BY <1>2, <2>5
    <3> QED
      BY <1>1, <1>4, <1>5, <1>8, <2>5, <3>1, <3>2, CommaMatch
  <2>7. Drop(u, m) = j
    <3> DEFINE d == Drop(u, m)
    <3>1. u \in Seq(Symbols) /\ m \in Nat /\ m <= Len(u)
      BY <1>2, <2>5 DEF Text
    <3>2. d \in Seq(Symbols) /\ Len(d) = Len(j) /\ \A l \in 1 .. Len(u) - m : d[l] = u[m + l]
      <4>1. /\ d \in Seq(Symbols) /\ Len(d) = IF m <= Len(u) THEN Len(u) - m ELSE 0
            /\ \A l \in 1 .. Len(u) - m : d[l] = u[m + l]
        BY <3>1, DropIs, Zenon
      <4>2. m <= Len(u) /\ Len(u) - m = Len(j)
        BY <2>5, <3>1
      <4> QED
        BY <4>1, <4>2
    <3> HIDE DEF d
    <3>3. j \in Seq(Symbols) /\ \A l \in 1 .. Len(j) : d[l] = j[l]
      <4>1. j \in Seq(Symbols)
        BY <2>4 DEF Text
      <4> QED
        BY <2>5, <3>1, <3>2, <4>1
    <3>4. d = j
      BY <3>2, <3>3, SeqEqual
    <3> QED
      BY <3>4 DEF d
  <2>8. Parts(Rendered(o, r), Space) = w
    <3>1. v \in Seq(Text)
      BY <2>2 DEF Part
    <3>2. Written(o, r) /\ r.spelling \in Text /\ r.spelling # <<>> /\ r.values \in Seq(Text)
      BY <1>6, <3>1
    <3> HIDE DEF o
    <3>3. Parts(Rendered(o, r), Space) = <<r.spelling \o Behind(Comma, r.values)>>
      BY <1>8, <3>2, WordsFor
    <3> QED
      BY <1>4, <3>3 DEF u, j
  <2>9. w[1] = u
    OBVIOUS
  <2>10. Accepts(w, o, 1, m)
    BY <1>8, JoinedValues
  <2>11. Values(w, o, 1, m) = Parts(Drop(w[1], m), Comma)
    BY <1>8, JoinedValues
  <2>12. Values(w, o, 1, m) = v
    BY <2>4, <2>7, <2>9, <2>11
  <2> HIDE DEF w, o
  <2> QED
    BY <1>4, <2>6, <2>8, <2>9, <2>10, <2>12 DEF Kept, o
<1>9. CASE o.kind \in Kinds \ {"joined", "commaJoined", "joinedAndSeparate"}
  <2> HIDE DEF o
  <2>1. v \in Seq(Text) /\ Suits(o, v)
    BY <1>1, <1>4, <1>9, GivenValues DEF v, s
  <2> DEFINE w == <<x>> \o v
  <2>4. w[1] = x
    BY <1>2, <2>1, WordAndValues
  <2>2. ReadAs(w, o, m, v)
    <3>1. o \in Info /\ x \in Text /\ v \in Seq(Text) /\ m = Len(x) /\ w = <<x>> \o v
      BY <1>1, <1>2, <2>1
    <3> HIDE DEF w
    <3> QED
      BY <2>1, <3>1, SeparateKeeps
  <2>3. Parts(Rendered(o, r), Space) = w
    <3>1. Written(o, r) /\ r.spelling \in Text /\ r.spelling # <<>> /\ r.values \in Seq(Text)
      BY <1>6, <2>1
    <3>2. Parts(Rendered(o, r), Space) = <<r.spelling>> \o r.values
      BY <1>9, <3>1, WordsFor
    <3> QED
      BY <1>4, <3>2
  <2> HIDE DEF w
  <2> QED
    BY <1>2, <1>4, <2>2, <2>3, <2>4 DEF Kept, ReadAs, o
<1>10. CASE o.kind = "joinedAndSeparate"
  BY <1>10 DEF Written
<1> QED
  BY <1>1, <1>7, <1>8, <1>9, <1>10

\* A letter of a group, too.
LEMMA LetterKeeps ==
  ASSUME TypeOK, NEW k \in Searchable, NEW s \in Text, LetterFlag(t[k], s), NEW r,
         r.spelling = Take(s, 2), r.values = <<>>
  PROVE  Kept(t[k], r)
<1> SUFFICES ASSUME Written(t[k], r)
             PROVE  Kept(t[k], r)
  BY DEF Kept
<1> DEFINE o == t[k]
           x == Take(s, 2)
           w == <<x>> \o <<>>
<1>1. o \in Info /\ o.kind = "flag" /\ MatchSize(o, s) = 2
  BY StateIs DEF LetterFlag
<1>2. x \in Text /\ Len(x) = 2 /\ MatchSize(o, x) = 2
  <2> DEFINE m == 2
  <2>1. m = MatchSize(o, s) /\ m # 0
    BY <1>1
  <2> HIDE DEF o, m
  <2>2. Take(s, m) \in Text /\ Len(Take(s, m)) = m /\ MatchSize(o, Take(s, m)) = m
    BY <1>1, <2>1, MatchAgain
  <2> QED
    BY <2>2 DEF m
<1> HIDE DEF x
<1>3. w[1] = x /\ Accepts(w, o, 1, 2) /\ Values(w, o, 1, 2) = <<>>
  <2>1. PICK v \in Seq(Text) : v = <<>>
    BY EmptySeq
  <2> HIDE DEF o
  <2> DEFINE n == 2
  <2>2. n = Len(x) /\ w = <<x>> \o v
    BY <1>2, <2>1
  <2> HIDE DEF n, w
  <2>4. w[1] = x
    BY <1>2, <2>1, <2>2, WordAndValues
  <2>3. ReadAs(w, o, n, v)
    <3>1. o \in Info /\ x \in Text /\ Suits(o, v)
      BY <1>1, <1>2, <2>1 DEF Suits
    <3> HIDE DEF o
    <3> QED
      BY <2>1, <2>2, <3>1, SeparateKeeps
  <2> QED
    BY <2>1, <2>3, <2>4 DEF n, ReadAs
<1>4. Parts(Rendered(o, r), Space) = w
  <2>1. PICK v \in Seq(Text) : v = <<>>
    BY EmptySeq
  <2>2. o.kind = "flag" /\ Written(o, r) /\ x # <<>> /\ x = r.spelling /\ v = r.values
    <3>1. x # <<>>
      BY <1>2, SMTT(30)
    <3> QED
      BY <1>1, <2>1, <3>1 DEF x
  <2> HIDE DEF o
  <2>3. Parts(Rendered(o, r), Space) = <<x>> \o v
    <3>1. r.spelling \in Text /\ r.spelling # <<>> /\ r.values \in Seq(Text)
      BY <1>2, <2>2
    <3>2. Parts(Rendered(o, r), Space) = <<r.spelling>> \o r.values
      BY <2>2, <3>1, WordsFor
    <3> QED
      BY <2>2, <3>2
  <2> QED
    BY <2>1, <2>3
<1> HIDE DEF w
<1> QED
  BY <1>2, <1>3, <1>4 DEF Kept

LEMMA KeptKept ==
  ASSUME input' = input
  PROVE  \A o, r : Kept(o, r)' <=> Kept(o, r)
<1>1. \A o, s : MatchSize(o, s)' = MatchSize(o, s)
  BY ParserKept
<1> QED
  BY <1>1 DEF Kept

KeptAt(k) == Kept(t[out[k].id], out[k])

LEMMA KeepsFrom ==
  ASSUME TypeOK, TypeOK', Extended, RenderKeepsMeaning, NEW n \in Nat, n = Len(out),
         \A k \in 1 .. Len(out') : k > n => KeptAt(k)'
  PROVE  RenderKeepsMeaning'
<1>1. DOMAIN out = 1 .. n /\ DOMAIN out' = 1 .. Len(out') /\ Len(out') \in Nat
  BY SMTT(30) DEF TypeOK
<1>2. ASSUME NEW k \in 1 .. Len(out') PROVE KeptAt(k)'
  <2>1. CASE k \in 1 .. n
    <3>1. KeptAt(k)
      BY <1>1, <2>1 DEF RenderKeepsMeaning, KeptAt, Kept, Written, Space
    <3>2. out'[k] = out[k] /\ input' = input
      BY <2>1, EarlierKept DEF Extended
    <3>3. t' = t
      BY <3>2, ParserKept
    <3>4. \A o, r : Kept(o, r)' <=> Kept(o, r)
      BY <3>2, KeptKept
    <3> QED
      BY <3>1, <3>2, <3>3, <3>4 DEF KeptAt
  <2>2. CASE k > n
    BY <2>2
  <2> QED
    BY <1>1, <2>1, <2>2
<1>3. (\A k \in DOMAIN out : KeptAt(k))'
  BY <1>1, <1>2
<1> QED
  BY <1>3 DEF RenderKeepsMeaning, KeptAt, Kept, Written, Space

LEMMA KeepsOne ==
  ASSUME TypeOK, ArgsOK, TypeOK', RenderKeepsMeaning, NEW r, Takes(r), Kept(t[r.id], r)
  PROVE  RenderKeepsMeaning'
<1>1. PICK n \in Nat : n = Len(out)
  BY SMTT(30) DEF TypeOK
<1>2. /\ Extended /\ Len(out') = n + 1 /\ out'[n + 1] = r
  BY <1>1, TakesExtends
<1>3. t' = t /\ input' = input
  BY <1>2, ParserKept DEF Extended
<1>4. \A o, x : Kept(o, x)' <=> Kept(o, x)
  BY <1>3, KeptKept
<1>5. KeptAt(n + 1)'
  BY <1>2, <1>3, <1>4 DEF KeptAt
<1>6. \A k \in 1 .. Len(out') : k > n => KeptAt(k)'
  <2> SUFFICES ASSUME NEW k \in 1 .. Len(out'), k > n PROVE KeptAt(k)'
    OBVIOUS
  <2>1. k = n + 1
    BY <1>2
  <2> QED
    BY <1>5, <2>1
<1> QED
  BY <1>1, <1>2, <1>6, KeepsFrom

\* A result that is no option's says nothing here.
LEMMA NoOptionKept ==
  ASSUME TypeOK, NEW id \in {InputId, UnknownId}, NEW r
  PROVE  Kept(t[id], r)
<1>1. t[id].kind \in {"input", "unknown"}
  BY StateIs
<1> QED
  BY <1>1 DEF Kept, Written, Kinds, TakesJoined

LEMMA KeepsStep ==
  ASSUME TypeOK, SearchOK, ArgsOK, RenderKeepsMeaning, [Next]_vars
  PROVE  RenderKeepsMeaning'
<1>1. TypeOK'
  BY TypeStep
<1>2. PICK n \in Nat : n = Len(out)
  BY DEF TypeOK
<1>3. ASSUME NEW id \in {InputId, UnknownId}, NEW s, NEW vals, Takes(Plain(id, s, vals, index))
      PROVE  RenderKeepsMeaning'
  <2> DEFINE r == Plain(id, s, vals, index)
  <2>1. Takes(r) /\ r.id = id
    BY <1>3, PlainFields
  <2> HIDE DEF r
  <2> QED
    BY <1>1, <2>1, NoOptionKept, KeepsOne
<1>4. CASE out' = out /\ input' = input /\ argv' = argv
  <2>1. Extended
    BY <1>2, <1>4 DEF Extended, TypeOK
  <2> QED
    BY <1>1, <1>2, <1>4, <2>1, KeepsFrom
<1>5. CASE DashDash
  <2>1. Extended /\ Len(out') \in Nat /\ \A k \in 1 .. Len(out') : k > n => out'[k].id = InputId
    BY <1>1, <1>2, <1>5, DashDashExtends
  <2>2. t' = t /\ input' = input
    BY <2>1, ParserKept DEF Extended
  <2>3. \A r : Kept(t[InputId], r)
    BY NoOptionKept
  <2>4. \A o, r : Kept(o, r)' <=> Kept(o, r)
    BY <2>2, KeptKept
  <2>5. \A k \in 1 .. Len(out') : k > n => KeptAt(k)'
    BY <2>1, <2>2, <2>3, <2>4 DEF KeptAt
  <2> QED
    BY <1>1, <1>2, <2>1, <2>5, KeepsFrom
<1>6. CASE TakeInput
  BY <1>3, <1>6, TakeInputTakes
<1>7. CASE Accept
  <2> DEFINE v == Values(argv, Opt, index, Size)
             r == Accepted(start, Take(Str, Size), v, index)
  <2>1. Takes(r) /\ v \in Seq(Text)
    BY <1>7, AcceptTakes
  <2>2. Looking /\ Size # 0 /\ Accepts(argv, Opt, index, Size)
    BY <1>7 DEF Accept, Candidate
  <2>3. /\ start \in Searchable /\ argv \in Seq(Text) /\ index \in 1 .. Len(argv)
        /\ Str = argv[index]
    BY <2>2, LookingIs
  <2>4. r.id = start /\ r.spelling = Take(Str, Size) /\ r.values = v
    BY DEF Accepted, Plain
  <2> HIDE DEF r, v
  <2>5. Kept(t[start], r)
    <3> DEFINE m == Size
    <3>1. m = MatchSize(t[start], argv[index]) /\ m # 0
      BY <2>2, <2>3 DEF Size, Opt
    <3>2. /\ Accepts(argv, t[start], index, m)
          /\ r.spelling = Take(argv[index], m) /\ r.values = Values(argv, t[start], index, m)
      BY <2>2, <2>3, <2>4 DEF Opt, v
    <3> HIDE DEF m
    <3> QED
      BY <2>3, <3>1, <3>2, AcceptKeeps
  <2> QED
    BY <1>1, <2>1, <2>4, <2>5, KeepsOne
<1>8. CASE TakeLetter
  <2> DEFINE r == Accepted(fallback, Take(Str, 2), <<>>, index)
  <2>1. Takes(r) /\ fallback \in Searchable
    BY <1>8, TakeLetterTakes
  <2>2. r.id = fallback /\ r.spelling = Take(Str, 2) /\ r.values = <<>>
    BY DEF Accepted, Plain
  <2> HIDE DEF r
  <2>3. LetterFlag(t[fallback], Str) /\ Str \in Text
    BY <1>8, StrIs, ExhaustedIs DEF TakeLetter, Exhausted, SearchOK
  <2>4. Kept(t[fallback], r)
    BY <2>1, <2>2, <2>3, LetterKeeps
  <2> QED
    BY <1>1, <2>1, <2>2, <2>4, KeepsOne
<1>10. CASE NotFound
  BY <1>3, <1>10, NotFoundTakes
<1>11. CASE UnknownLetter
  BY <1>3, <1>11, UnknownLetterTakes
<1>12. CASE UnknownWhole
  BY <1>3, <1>12, UnknownWholeTakes
<1>13. SkipEmpty \/ BeginSearch \/ NextOption \/ Refuse \/ Missing \/ LonePrefix \/ Finish \/ UNCHANGED vars
       => out' = out /\ input' = input /\ argv' = argv
  BY DEF SkipEmpty, BeginSearch, NextOption, Refuse, Missing, LonePrefix, Finish, vars
<1> QED
  BY <1>4, <1>5, <1>6, <1>7, <1>8, <1>10, <1>11, <1>12, <1>13 DEF Next

\* An option takes the words of what was written for a result of it, and finds
\* the same values in them, whatever the table (to_arg_str against Option::accept):
\* between blanks the spelling and the values are found again, between commas the
\* parts, and the values are as many and as full as the class must have them.
THEOREM RenderedMeansTheSame == Spec => []RenderKeepsMeaning
<1> DEFINE P == TypeOK /\ SearchOK /\ ArgsOK /\ Located
<1>1. Init => RenderKeepsMeaning
  <2>1. Init => DOMAIN out = {}
    BY DEF Init
  <2> QED
    BY <2>1 DEF RenderKeepsMeaning
<1>2. P /\ RenderKeepsMeaning /\ [Next]_vars => RenderKeepsMeaning'
  BY KeepsStep
<1>3. Spec => []P
  BY Placed
<1> HIDE DEF P
<1> QED
  BY <1>1, <1>2, <1>3, PTL DEF Spec

-----------------------------------------------------------------------------
(* Nothing is lost: texts without their commas.                            *)

Bit(c) == IF c = Comma THEN <<>> ELSE <<c>>
Bits(s) == [k \in 1 .. Len(s) |-> Bit(s[k])]

LEMMA BitsAre ==
  ASSUME NEW s \in Text
  PROVE  /\ Bits(s) \in Seq(Text) /\ Len(Bits(s)) = Len(s) /\ \A k \in 1 .. Len(s) : Bits(s)[k] = Bit(s[k])
         /\ NoCommas(s) = FlattenSeq(Bits(s)) /\ NoCommas(s) \in Text
<1>1. s \in Seq(Symbols) /\ Len(s) \in Nat
  BY DEF Text
<1>2. ASSUME NEW k \in 1 .. Len(s) PROVE Bit(s[k]) \in Seq(Symbols)
  <2>1. s[k] \in Symbols
    BY <1>1
  <2>2. <<s[k]>> \in Seq(Symbols) /\ <<>> \in Seq(Symbols)
    BY <2>1
  <2> QED
    BY <2>2 DEF Bit
<1>3. /\ Bits(s) \in Seq(Seq(Symbols)) /\ Len(Bits(s)) = Len(s)
      /\ \A k \in 1 .. Len(s) : Bits(s)[k] = Bit(s[k])
  BY <1>1, <1>2 DEF Bits
<1>4. NoCommas(s) = FlattenSeq(Bits(s))
  BY DEF NoCommas, Bits, Bit, Comma
<1>5. FlattenSeq(Bits(s)) \in Seq(Symbols)
  BY <1>1, <1>3, FlattenType
<1> QED
  BY <1>3, <1>4, <1>5 DEF Text

\* The parts of a whole keep their places.
LEMMA BehindIs ==
  ASSUME NEW E, NEW a \in Seq(E), NEW b \in Seq(E)
  PROVE  /\ a \o b \in Seq(E) /\ Len(a \o b) = Len(a) + Len(b)
         /\ \A i \in 1 .. Len(a) : (a \o b)[i] = a[i]
         /\ \A i \in 1 .. Len(b) : (a \o b)[Len(a) + i] = b[i]
<1>1. Len(a) \in Nat /\ Len(b) \in Nat
  OBVIOUS
<1>2. a \o b \in Seq(E) /\ Len(a \o b) = Len(a) + Len(b)
  BY ConcatProperties
<1>3. \A i \in 1 .. Len(a) : (a \o b)[i] = a[i]
  BY <1>1
<1>4. ASSUME NEW i \in 1 .. Len(b) PROVE (a \o b)[Len(a) + i] = b[i]
  <2> DEFINE h == Len(a) + i
  <2>1. h \in 1 .. Len(a) + Len(b) /\ ~(h <= Len(a)) /\ h - Len(a) = i
    BY <1>1
  <2> HIDE DEF h
  <2>2. (a \o b)[h] = b[h - Len(a)]
    BY <1>1, <2>1, ConcatProperties
  <2> QED
    BY <2>1, <2>2 DEF h
<1> QED
  BY <1>2, <1>3, <1>4

LEMMA NoCommasBoth ==
  ASSUME NEW a \in Text, NEW b \in Text
  PROVE  a \o b \in Text /\ NoCommas(a \o b) = NoCommas(a) \o NoCommas(b)
<1> DEFINE c == a \o b
           A == Bits(a)
           B == Bits(b)
           C == Bits(c)
<1>1. a \in Seq(Symbols) /\ b \in Seq(Symbols) /\ Len(a) \in Nat /\ Len(b) \in Nat
  BY DEF Text
<1>2. /\ c \in Text /\ Len(c) = Len(a) + Len(b) /\ \A i \in 1 .. Len(a) : c[i] = a[i]
      /\ \A i \in 1 .. Len(b) : c[Len(a) + i] = b[i]
  BY <1>1, BehindIs DEF Text
<1> HIDE DEF c
<1>3. /\ A \in Seq(Text) /\ Len(A) = Len(a) /\ (\A k \in 1 .. Len(a) : A[k] = Bit(a[k]))
      /\ NoCommas(a) = FlattenSeq(A)
  BY BitsAre
<1>4. /\ B \in Seq(Text) /\ Len(B) = Len(b) /\ (\A k \in 1 .. Len(b) : B[k] = Bit(b[k]))
      /\ NoCommas(b) = FlattenSeq(B)
  BY BitsAre
<1>5. /\ C \in Seq(Text) /\ Len(C) = Len(c) /\ (\A k \in 1 .. Len(c) : C[k] = Bit(c[k]))
      /\ NoCommas(c) = FlattenSeq(C)
  BY <1>2, BitsAre
<1> HIDE DEF A, B, C
<1>6. C = A \o B
  <2> DEFINE D == A \o B
  <2>1. /\ D \in Seq(Text) /\ Len(D) = Len(a) + Len(b) /\ \A i \in 1 .. Len(a) : D[i] = A[i]
        /\ \A i \in 1 .. Len(b) : D[Len(a) + i] = B[i]
    <3>1. /\ D \in Seq(Text) /\ Len(D) = Len(A) + Len(B) /\ \A i \in 1 .. Len(A) : D[i] = A[i]
          /\ \A i \in 1 .. Len(B) : D[Len(A) + i] = B[i]
      <4>1. A \in Seq(Text) /\ B \in Seq(Text)
        BY <1>3, <1>4
      <4>2. D \in Seq(Text) /\ Len(D) = Len(A) + Len(B)
        BY <4>1, BehindIs
      <4>3. \A i \in 1 .. Len(A) : D[i] = A[i]
        BY <4>1, BehindIs
      <4>4. \A i \in 1 .. Len(B) : D[Len(A) + i] = B[i]
        BY <4>1, BehindIs
      <4> QED
        BY <4>2, <4>3, <4>4
    <3> HIDE DEF D
    <3> QED
      BY <1>3, <1>4, <3>1
  <2> HIDE DEF D
  <2>2. ASSUME NEW i \in 1 .. Len(c) PROVE C[i] = D[i]
    <3>1. CASE i \in 1 .. Len(a)
      BY <1>2, <1>3, <1>5, <2>1, <3>1
    <3>2. CASE i \notin 1 .. Len(a)
      <4>1. PICK j \in 1 .. Len(b) : i = Len(a) + j
        <5>1. i - Len(a) \in 1 .. Len(b) /\ i = Len(a) + (i - Len(a))
          BY <1>1, <1>2, <3>2
        <5> QED
          BY <5>1
      <4>2. C[i] = Bit(c[i]) /\ c[Len(a) + j] = b[j] /\ D[Len(a) + j] = B[j] /\ B[j] = Bit(b[j])
        BY <1>2, <1>4, <1>5, <2>1
      <4> QED
        BY <4>1, <4>2
    <3> QED
      BY <3>1, <3>2
  <2>3. C = D
    BY <1>2, <1>5, <2>1, <2>2, SeqEqual
  <2> QED
    BY <2>3 DEF D
<1>7. FlattenSeq(A \o B) = FlattenSeq(A) \o FlattenSeq(B)
  BY <1>3, <1>4, FlattenBoth DEF Text
<1> QED
  BY <1>2, <1>3, <1>4, <1>5, <1>6, <1>7 DEF c

LEMMA NoCommasOf ==
  /\ NoCommas(<<>>) = <<>>
  /\ Comma \in Symbols => NoCommas(<<Comma>>) = <<>>
<1>1. NoCommas(<<>>) = <<>>
  <2>1. PICK s \in Text : s = <<>>
    BY EmptySeq DEF Text
  <2>2. Bits(s) \in Seq(Text) /\ Len(Bits(s)) = 0 /\ NoCommas(s) = FlattenSeq(Bits(s))
    BY <2>1, BitsAre
  <2>3. Bits(s) = <<>>
    BY <2>2
  <2> QED
    BY <2>1, <2>2, <2>3, FlattenEmpty
<1>2. ASSUME Comma \in Symbols PROVE NoCommas(<<Comma>>) = <<>>
  <2>1. PICK s \in Text : s = <<Comma>>
    <3>1. <<Comma>> \in Seq(Symbols)
      BY <1>2
    <3> QED
      BY <3>1, Zenon DEF Text
  <2>2. Len(s) = 1 /\ s[1] = Comma
    BY <2>1
  <2>3. /\ Bits(s) \in Seq(Text) /\ Len(Bits(s)) = 1 /\ Bits(s)[1] = Bit(s[1])
        /\ NoCommas(s) = FlattenSeq(Bits(s))
    BY <2>2, BitsAre
  <2>4. Bits(s)[1] = <<>>
    BY <2>2, <2>3 DEF Bit
  <2> DEFINE b == Bits(s)
  <2> HIDE DEF b
  <2>5. b = <<b[1]>>
    BY <2>3 DEF b
  <2>6. PICK e \in Seq(Symbols) : e = <<>>
    BY EmptySeq
  <2>7. FlattenSeq(<<e>>) = e
    BY FlattenOne
  <2> QED
    BY <2>1, <2>3, <2>4, <2>5, <2>6, <2>7 DEF b
<1> QED
  BY <1>1, <1>2

\* A comma at the end adds no part.
LEMMA PartsComma ==
  ASSUME NEW s \in Text, Comma \in Symbols
  PROVE  s \o <<Comma>> \in Text /\ Parts(s \o <<Comma>>, Comma) = Parts(s, Comma)
<1> DEFINE L == Len(s)
           f == <<Comma>>
           u == s \o f
           U == PartsOf(u, Comma)
           S == PartsOf(s, Comma)
<1>1. L \in Nat /\ s \in Seq(Symbols) /\ f \in Seq(Symbols) /\ Len(f) = 1 /\ f[1] = Comma
  BY DEF Text
<1> HIDE DEF f
<1>2. u \in Seq(Symbols) /\ Len(u) = L + 1 /\ (\A i \in 1 .. L : u[i] = s[i]) /\ u[L + 1] = Comma
  <2>1. u \in Seq(Symbols) /\ Len(u) = L + Len(f) /\ (\A i \in 1 .. L : u[i] = s[i])
        /\ \A i \in 1 .. Len(f) : u[L + i] = f[i]
    <3>1. u \in Seq(Symbols) /\ Len(u) = L + Len(f)
      BY <1>1, BehindIs
    <3>2. \A i \in 1 .. L : u[i] = s[i]
      BY <1>1, BehindIs
    <3>3. \A i \in 1 .. Len(f) : u[L + i] = f[i]
      <4>1. s \in Seq(Symbols) /\ f \in Seq(Symbols)
        BY <1>1
      <4> QED
        BY <4>1, BehindIs
    <3> QED
      BY <3>1, <3>2, <3>3
  <2> HIDE DEF u, L
  <2> QED
    BY <1>1, <2>1
<1> HIDE DEF u
<1>3. u \in Text
  BY <1>2 DEF Text
<1>4. /\ U \in Seq(Seq(Part(Comma))) /\ Len(U) = L + 1 /\ (\A i \in 1 .. L + 1 : U[i] = PartAt(u, i, Comma))
      /\ Parts(u, Comma) = FlattenSeq(U)
  BY <1>2, <1>3, PartsAre
<1>5. /\ S \in Seq(Seq(Part(Comma))) /\ Len(S) = L /\ (\A i \in 1 .. L : S[i] = PartAt(s, i, Comma))
      /\ Parts(s, Comma) = FlattenSeq(S)
  BY PartsAre
<1> HIDE DEF U, S
<1>6. \A i \in 1 .. L : U[i] = S[i]
  <2>1. Len(s) < Len(u)
    BY <1>1, <1>2
  <2>2. \A i \in 1 .. L : PartAt(u, i, Comma) = PartAt(s, i, Comma)
    BY <1>2, <1>3, <2>1, PartsBefore
  <2> QED
    BY <1>1, <1>4, <1>5, <2>2
<1>7. \A i \in L + 1 .. L + 1 : U[i] = <<>>
  <2>1. ~PartEnds(u, L + 1, Comma)
    BY <1>2 DEF PartEnds
  <2>2. PartAt(u, L + 1, Comma) = <<>>
    BY <2>1 DEF PartAt
  <2>3. U[L + 1] = <<>>
    BY <1>1, <1>4, <2>2
  <2> QED
    BY <1>1, <2>3
<1>8. FlattenSeq(U) = FlattenSeq(S)
  <2> DEFINE n == L + 1
  <2>1. n \in Nat /\ L \in Nat /\ L <= n /\ n <= Len(U) /\ n = Len(U) /\ \A i \in L + 1 .. n : U[i] = <<>>
    BY <1>1, <1>4, <1>7
  <2> HIDE DEF n, L
  <2>2. FlattenSeq(SubSeq(U, 1, n)) = FlattenSeq(SubSeq(U, 1, L))
    BY <1>4, <2>1, FlattenBlanks
  <2>3. SubSeq(U, 1, n) = U
    BY <1>4, <2>1
  <2>4. SubSeq(U, 1, L) = S
    <3> DEFINE z == SubSeq(U, 1, L)
    <3>1. z \in Seq(Seq(Part(Comma))) /\ Len(z) = L /\ \A i \in 1 .. L : z[i] = U[i]
      BY <1>4, <2>1
    <3> HIDE DEF z
    <3>2. z = S
      BY <1>5, <1>6, <3>1, SeqEqual
    <3> QED
      BY <3>2 DEF z
  <2> QED
    BY <2>2, <2>3, <2>4
<1> QED
  BY <1>3, <1>4, <1>5, <1>8 DEF u, f

\* The parts of x hold what x holds.
HoldsAll(x) == NoCommas(FlattenSeq(Parts(x, Comma))) = NoCommas(x)

\* x ends in a text without commas, behind a comma or from its beginning.
Bare == {s \in Text : \A i \in 1 .. Len(s) : s[i] # Comma}
Open(x) ==
  \E e \in Bare : \/ x = e
                  \/ \E s \in Text : HoldsAll(s) /\ x = s \o (<<Comma>> \o e)

LEMMA PartsText ==
  ASSUME NEW s \in Text
  PROVE  Parts(s, Comma) \in Seq(Text) /\ FlattenSeq(Parts(s, Comma)) \in Text
<1>1. Parts(s, Comma) \in Seq(Seq(Symbols)) /\ Parts(s, Comma) \in Seq(Text)
  BY PartsType DEF Text
<1> DEFINE v == Parts(s, Comma)
<1> HIDE DEF v
<1>2. FlattenSeq(v) \in Seq(Symbols)
  <2>1. v \in Seq(Seq(Symbols)) /\ Len(v) \in Nat
    BY <1>1 DEF v
  <2> QED
    BY <2>1, FlattenType
<1> QED
  BY <1>1, <1>2 DEF v, Text

LEMMA OpenIs ==
  ASSUME NEW x \in Text, Open(x), Comma \in Symbols
  PROVE  HoldsAll(x)
<1>1. PICK e \in Bare : x = e \/ \E s \in Text : HoldsAll(s) /\ x = s \o (<<Comma>> \o e)
  BY DEF Open
<1>2. e \in Text /\ e \in Seq(Symbols) /\ (e # <<>> => e \in Part(Comma))
  BY <1>1 DEF Bare, Part, Text
<1>3. CASE x = e /\ e = <<>>
  <2>1. Parts(x, Comma) = FlattenSeq(PartsOf(x, Comma)) /\ PartsOf(x, Comma) \in Seq(Seq(Part(Comma))) /\ Len(PartsOf(x, Comma)) = 0
    BY <1>3, PartsAre
  <2>2. PartsOf(x, Comma) = <<>>
    BY <2>1
  <2> QED
    BY <1>3, <2>1, <2>2, FlattenEmpty DEF HoldsAll
<1>4. CASE x = e /\ e # <<>>
  <2>1. Parts(x, Comma) = <<e>>
    BY <1>2, <1>4, PartsWhole
  <2>2. FlattenSeq(<<e>>) = e
    BY <1>2, FlattenOne
  <2> QED
    BY <1>4, <2>1, <2>2 DEF HoldsAll
<1>5. ASSUME NEW s \in Text, HoldsAll(s), x = s \o (<<Comma>> \o e)
      PROVE  HoldsAll(x)
  <2> DEFINE c == <<Comma>>
             v == Parts(s, Comma)
  <2>1. c \in Text /\ c \in Seq(Symbols) /\ s \in Seq(Symbols) /\ v \in Seq(Text) /\ FlattenSeq(v) \in Text
    BY PartsText DEF Text
  <2>2. NoCommas(x) = NoCommas(s) \o NoCommas(e)
    <3> HIDE DEF c, v
    <3> DEFINE f == c \o e
    <3>1. f \in Text /\ NoCommas(f) = NoCommas(c) \o NoCommas(e)
      BY <1>2, <2>1, NoCommasBoth
    <3> HIDE DEF f
    <3>2. NoCommas(s \o f) = NoCommas(s) \o NoCommas(f)
      BY <3>1, NoCommasBoth
    <3>3. NoCommas(c) = <<>>
      BY NoCommasOf DEF c
    <3>4. NoCommas(e) \in Seq(Symbols)
      BY <1>2, BitsAre DEF Text
    <3>5. <<>> \o NoCommas(e) = NoCommas(e)
      BY <3>4
    <3> QED
      BY <1>5, <3>1, <3>2, <3>3, <3>5 DEF f, c
  <2>3. CASE e = <<>>
    <3>1. x = s \o c
      <4>1. c \o <<>> = c
        BY <2>1
      <4> QED
        BY <1>5, <2>3, <4>1
    <3>2. Parts(x, Comma) = v
      BY <3>1, PartsComma
    <3>3. NoCommas(s) \o NoCommas(e) = NoCommas(s)
      <4>1. NoCommas(s) \in Seq(Symbols)
        BY BitsAre DEF Text
      <4>2. NoCommas(s) \o <<>> = NoCommas(s)
        BY <4>1
      <4> QED
        BY <2>3, <4>2, NoCommasOf
    <3> QED
      BY <1>5, <2>2, <3>2, <3>3 DEF HoldsAll
  <2>4. CASE e # <<>>
    <3>1. Parts(x, Comma) = Append(v, e)
      BY <1>2, <1>5, <2>4, PartsGrow
    <3>2. FlattenSeq(Append(v, e)) = FlattenSeq(v) \o e
      <4> HIDE DEF v
      <4>1. v \in Seq(Seq(Symbols))
        BY <2>1 DEF Text
      <4> QED
        BY <1>2, <4>1, FlattenAppend
    <3>3. NoCommas(FlattenSeq(v) \o e) = NoCommas(FlattenSeq(v)) \o NoCommas(e)
      <4> HIDE DEF v
      <4> QED
        BY <1>2, <2>1, NoCommasBoth
    <3> QED
      BY <1>5, <2>2, <3>1, <3>2, <3>3 DEF HoldsAll
  <2> QED
    BY <2>3, <2>4
<1> QED
  BY <1>1, <1>3, <1>4, <1>5

LEMMA OpenGrows ==
  ASSUME NEW x \in Text, Open(x), NEW c \in Symbols, Comma \in Symbols
  PROVE  Append(x, c) \in Text /\ Open(Append(x, c))
<1>1. x \in Seq(Symbols) /\ Append(x, c) \in Seq(Symbols)
  BY DEF Text
<1>2. CASE c = Comma
  <2>1. HoldsAll(x)
    BY OpenIs
  <2>2. PICK e \in Bare : e = <<>>
    <3>1. <<>> \in Text /\ Len(<<>>) = 0
      BY EmptySeq DEF Text
    <3>2. <<>> \in Bare
      BY <3>1 DEF Bare
    <3> QED
      BY <3>2
  <2>3. <<c>> \o e = <<c>>
    BY <2>2
  <2>4. Append(x, c) = x \o <<c>>
    BY <1>1, AppendIsConcat
  <2>5. Append(x, c) = x \o (<<Comma>> \o e)
    BY <1>2, <2>3, <2>4
  <2> QED
    BY <1>1, <2>1, <2>5 DEF Open, Text
<1>3. CASE c # Comma
  <2>1. PICK e \in Bare : x = e \/ \E s \in Text : HoldsAll(s) /\ x = s \o (<<Comma>> \o e)
    BY DEF Open
  <2> DEFINE g == Append(e, c)
  <2>2. e \in Seq(Symbols) /\ Len(e) \in Nat /\ \A i \in 1 .. Len(e) : e[i] # Comma
    BY DEF Bare, Text
  <2>3. g \in Seq(Symbols) /\ Len(g) = Len(e) + 1 /\ (\A i \in 1 .. Len(e) : g[i] = e[i]) /\ g[Len(e) + 1] = c
    BY <2>2, AppendProperties
  <2> HIDE DEF g
  <2>4. g \in Bare
    BY <1>3, <2>2, <2>3 DEF Bare, Text
  <2>5. CASE x = e
    <3>1. Append(x, c) = g
      BY <2>5 DEF g
    <3> QED
      BY <1>1, <2>4, <3>1 DEF Open, Text
  <2>6. ASSUME NEW s \in Text, HoldsAll(s), x = s \o (<<Comma>> \o e)
        PROVE  Append(x, c) = s \o (<<Comma>> \o g)
    <3> DEFINE d == <<Comma>>
               f == d \o e
    <3>1. d \in Seq(Symbols) /\ f \in Seq(Symbols) /\ s \in Seq(Symbols)
      BY <2>2, ConcatProperties DEF Text
    <3> HIDE DEF d, f
    <3>2. s \o Append(f, c) = Append(s \o f, c)
      BY <3>1, AppendBehind
    <3>3. d \o Append(e, c) = Append(d \o e, c)
      BY <2>2, <3>1, AppendBehind
    <3> QED
      BY <2>6, <3>2, <3>3 DEF d, f, g
  <2> QED
    BY <1>1, <2>1, <2>4, <2>5, <2>6 DEF Open, Text
<1> QED
  BY <1>1, <1>2, <1>3 DEF Text

\* The parts of a text are the text but for the commas.
LEMMA PartsHold ==
  ASSUME NEW x \in Text
  PROVE  NoCommas(FlattenSeq(Parts(x, Comma))) = NoCommas(x)
<1> DEFINE P(i) == SubSeq(x, 1, i) \in Text /\ Open(SubSeq(x, 1, i))
           T == {i \in Nat : i <= Len(x) => P(i)}
<1>1. x \in Seq(Symbols) /\ Len(x) \in Nat
  BY DEF Text
<1>2. Comma \in Symbols
  BY Zenon, SeparatorAssumption DEF Comma
<1>3. 0 \in T
  <2>1. SubSeq(x, 1, 0) = <<>>
    BY <1>1, SubSeqAll
  <2>2. <<>> \in Text /\ Len(<<>>) = 0
    BY EmptySeq DEF Text
  <2>3. <<>> \in Bare
    BY <2>2 DEF Bare
  <2>4. P(0)
    BY <2>1, <2>2, <2>3 DEF Open
  <2> HIDE DEF P
  <2> QED
    BY <2>4
<1>4. ASSUME NEW i \in T PROVE i + 1 \in T
  <2>1. CASE i + 1 <= Len(x)
    <3> DEFINE y == SubSeq(x, 1, i)
               c == x[i + 1]
    <3>1. c \in Symbols /\ SubSeq(x, 1, i + 1) = Append(y, c)
      BY <1>1, <2>1, Longer
    <3>2. P(i)
      <4> HIDE DEF P
      <4> QED
        BY <1>1, <2>1
    <3>3. y \in Text /\ Open(y)
      BY <3>2
    <3> HIDE DEF y, c
    <3>4. P(i + 1)
      BY <1>2, <3>1, <3>3, OpenGrows
    <3> HIDE DEF P
    <3> QED
      BY <3>4
  <2>2. CASE ~(i + 1 <= Len(x))
    <3> HIDE DEF P
    <3> QED
      BY <1>1, <2>2
  <2> QED
    BY <2>1, <2>2
<1> HIDE DEF P
<1>5. T = Nat
  <2>1. T \in SUBSET Nat
    OBVIOUS
  <2> HIDE DEF T
  <2> QED
    BY <1>3, <1>4, <2>1, Induct, Zenon
<1>6. P(Len(x))
  BY <1>1, <1>5
<1>7. SubSeq(x, 1, Len(x)) = x
  BY <1>1, SubSeqAll
<1>8. Open(x)
  BY <1>6, <1>7 DEF P
<1> QED
  BY <1>2, <1>8, OpenIs DEF HoldsAll

LEMMA FlatText ==
  ASSUME NEW S \in Seq(Text)
  PROVE  FlattenSeq(S) \in Text
<1>1. S \in Seq(Seq(Symbols)) /\ Len(S) \in Nat
  BY DEF Text
<1>2. FlattenSeq(S) \in Seq(Symbols)
  BY <1>1, FlattenType
<1> QED
  BY <1>2 DEF Text

\* The arguments from position i on.
LEMMA FromIs ==
  ASSUME NEW a \in Seq(Text), NEW i \in 1 .. Len(a) + 1
  PROVE  /\ Drop(a, i - 1) \in Seq(Text) /\ Drop(a, i) \in Seq(Text)
         /\ FlattenSeq(Drop(a, i - 1)) = IF i > Len(a) THEN <<>> ELSE a[i] \o FlattenSeq(Drop(a, i))
<1> DEFINE y == Drop(a, i - 1)
           z == Drop(a, i)
<1>1. Len(a) \in Nat /\ i \in Nat /\ i - 1 \in Nat /\ i - 1 <= Len(a)
  OBVIOUS
<1>2. y \in Seq(Text) /\ Len(y) = Len(a) - (i - 1) /\ \A l \in 1 .. Len(a) - (i - 1) : y[l] = a[(i - 1) + l]
  <2> DEFINE k == i - 1
  <2>1. k \in Nat /\ k <= Len(a)
    BY <1>1
  <2> HIDE DEF k
  <2>2. Drop(a, k) \in Seq(Text) /\ Len(Drop(a, k)) = Len(a) - k /\ \A l \in 1 .. Len(a) - k : Drop(a, k)[l] = a[k + l]
    BY <2>1, DropIs
  <2> QED
    BY <2>2 DEF k
<1>3. z \in Seq(Text) /\ (i <= Len(a) => Len(z) = Len(a) - i) /\ \A l \in 1 .. Len(a) - i : z[l] = a[i + l]
  BY <1>1, DropIs
<1> HIDE DEF y, z
<1>4. CASE i > Len(a)
  <2>1. Len(y) = 0
    BY <1>1, <1>2, <1>4
  <2>2. y = <<>>
    BY <1>2, <2>1
  <2> QED
    BY <1>2, <1>3, <1>4, <2>2, FlattenEmpty DEF y, z
<1>5. CASE i <= Len(a)
  <2>1. a[i] \in Seq(Symbols) /\ a[i] \in Text /\ z \in Seq(Seq(Symbols))
    BY <1>1, <1>3, <1>5 DEF Text
  <2> DEFINE u == <<a[i]>> \o z
  <2>2. u \in Seq(Text) /\ Len(u) = Len(z) + 1 /\ u[1] = a[i] /\ \A l \in 1 .. Len(z) : u[l + 1] = z[l]
    BY <1>3, <2>1, WordAndValues
  <2> HIDE DEF u
  <2>3. ASSUME NEW l \in 1 .. Len(y) PROVE y[l] = u[l]
    <3>1. CASE l = 1
      <4>1. y[1] = a[(i - 1) + 1] /\ (i - 1) + 1 = i
        BY <1>1, <1>2, <1>5
      <4> QED
        BY <2>2, <3>1, <4>1
    <3>2. CASE l # 1
      <4> DEFINE k == l - 1
      <4>1. k \in 1 .. Len(z) /\ k \in 1 .. Len(a) - i /\ l = k + 1 /\ (i - 1) + l = i + k /\ l \in 1 .. Len(a) - (i - 1)
        BY <1>1, <1>2, <1>3, <1>5, <3>2
      <4> HIDE DEF k
      <4>2. y[l] = a[i + k] /\ z[k] = a[i + k] /\ u[k + 1] = z[k]
        BY <1>2, <1>3, <2>2, <4>1
      <4> QED
        BY <4>1, <4>2
    <3> QED
      BY <3>1, <3>2
  <2>4. Len(y) = Len(u)
    <3>1. Len(z) = Len(a) - i /\ Len(y) = Len(a) - (i - 1) /\ Len(u) = Len(z) + 1
      BY <1>2, <1>3, <1>5, <2>2
    <3> QED
      BY <1>1, <3>1
  <2>5. y = u
    BY <1>2, <2>2, <2>3, <2>4, SeqEqual
  <2>6. FlattenSeq(<<a[i]>> \o z) = a[i] \o FlattenSeq(z)
    BY <2>1, FlattenFirst
  <2>7. FlattenSeq(y) = a[i] \o FlattenSeq(z)
    BY <2>5, <2>6 DEF u
  <2>8. ~(i > Len(a))
    BY <1>1, <1>5
  <2> QED
    BY <1>2, <1>3, <2>7, <2>8 DEF y, z
<1> QED
  BY <1>1, <1>4, <1>5

\* The arguments behind position i: those up to position m, and the others.
LEMMA BehindSplits ==
  ASSUME NEW a \in Seq(Text), NEW i \in 1 .. Len(a), NEW m \in i + 1 .. Len(a) + 1
  PROVE  /\ SubSeq(a, i + 1, m - 1) \in Seq(Text)
         /\ FlattenSeq(Drop(a, i)) = FlattenSeq(SubSeq(a, i + 1, m - 1)) \o FlattenSeq(Drop(a, m - 1))
<1> DEFINE k == m - 1
           x == SubSeq(a, i + 1, k)
           y == Drop(a, k)
           z == Drop(a, i)
<1>1. Len(a) \in Nat /\ i \in Nat /\ k \in Nat /\ i <= k /\ k <= Len(a) /\ k = m - 1
  OBVIOUS
<1> HIDE DEF k
<1>2. x \in Seq(Text) /\ Len(x) = k - i /\ \A l \in 1 .. k - i : x[l] = a[i + l]
  <2>1. x \in Seq(Text)
    BY <1>1
  <2>2. Len(x) = k - i
    BY <1>1
  <2>3. \A l \in 1 .. k - i : x[l] = a[i + l]
    BY <1>1
  <2> QED
    BY <2>1, <2>2, <2>3
<1>3. y \in Seq(Text) /\ Len(y) = Len(a) - k /\ \A l \in 1 .. Len(a) - k : y[l] = a[k + l]
  BY <1>1, DropIs
<1>4. z \in Seq(Text) /\ Len(z) = Len(a) - i /\ \A l \in 1 .. Len(a) - i : z[l] = a[i + l]
  BY <1>1, DropIs
<1> HIDE DEF x, y, z
<1> DEFINE u == x \o y
<1>5. /\ u \in Seq(Text) /\ Len(u) = Len(x) + Len(y)
      /\ (\A l \in 1 .. Len(x) : u[l] = x[l]) /\ \A l \in 1 .. Len(y) : u[Len(x) + l] = y[l]
  <2>1. x \in Seq(Text) /\ y \in Seq(Text)
    BY <1>2, <1>3
  <2>2. u \in Seq(Text) /\ Len(u) = Len(x) + Len(y)
    BY <2>1, BehindIs
  <2>3. \A l \in 1 .. Len(x) : u[l] = x[l]
    BY <2>1, BehindIs
  <2>4. \A l \in 1 .. Len(y) : u[Len(x) + l] = y[l]
    BY <2>1, BehindIs
  <2> QED
    BY <2>2, <2>3, <2>4
<1> HIDE DEF u
<1>6. ASSUME NEW l \in 1 .. Len(z) PROVE z[l] = u[l]
  <2>1. CASE l <= k - i
    <3>1. l \in 1 .. k - i /\ l \in 1 .. Len(x)
      BY <1>1, <1>2, <1>4, <2>1
    <3> QED
      BY <1>2, <1>4, <1>5, <3>1
  <2>2. CASE l > k - i
    <3> DEFINE h == l - (k - i)
    <3>1. h \in 1 .. Len(y) /\ l = Len(x) + h /\ i + l = k + h /\ h \in 1 .. Len(a) - k
      BY <1>1, <1>2, <1>3, <1>4, <2>2
    <3> HIDE DEF h
    <3>2. z[l] = a[i + l] /\ y[h] = a[k + h] /\ u[Len(x) + h] = y[h]
      BY <1>3, <1>4, <1>5, <3>1
    <3> QED
      BY <3>1, <3>2
  <2> QED
    BY <1>1, <1>4, <2>1, <2>2
<1>7. Len(z) = Len(u)
  BY <1>1, <1>2, <1>3, <1>4, <1>5, SMTT(30)
<1>8. z = u
  BY <1>4, <1>5, <1>6, <1>7, SeqEqual
<1>9. FlattenSeq(x \o y) = FlattenSeq(x) \o FlattenSeq(y)
  BY <1>2, <1>3, FlattenBoth DEF Text
<1> QED
  BY <1>1, <1>2, <1>8, <1>9 DEF u, x, y, z

LEMMA Reorder ==
  ASSUME NEW a \in Text, NEW b \in Text, NEW c \in Text
  PROVE  a \o b \in Text /\ (a \o b) \o c = a \o (b \o c)
<1>1. a \in Seq(Symbols) /\ b \in Seq(Symbols) /\ c \in Seq(Symbols)
  BY DEF Text
<1>2. a \o b \in Seq(Symbols)
  BY <1>1, ConcatProperties
<1>3. (a \o b) \o c = a \o (b \o c)
  BY <1>1, ConcatAssociative
<1> QED
  BY <1>2, <1>3 DEF Text

LEMMA Blank ==
  ASSUME NEW a \in Text
  PROVE  <<>> \in Text /\ <<>> \o a = a /\ a \o <<>> = a
<1>1. a \in Seq(Symbols) /\ <<>> \in Seq(Symbols)
  BY EmptySeq DEF Text
<1>2. <<>> \o a = a /\ a \o <<>> = a
  BY <1>1, ConcatEmptySeq
<1> QED
  BY <1>1, <1>2 DEF Text

\* One text behind another, without the definition of sequences.
Cat(a, b) == a \o b

LEMMA CatIs ==
  /\ \A a, b \in Text : Cat(a, b) \in Text /\ NoCommas(Cat(a, b)) = Cat(NoCommas(a), NoCommas(b))
  /\ \A a, b, c \in Text : Cat(Cat(a, b), c) = Cat(a, Cat(b, c))
  /\ \A a \in Text : NoCommas(a) \in Text /\ Cat(<<>>, a) = a /\ Cat(a, <<>>) = a
<1>1. ASSUME NEW a \in Text, NEW b \in Text
      PROVE  Cat(a, b) \in Text /\ NoCommas(Cat(a, b)) = Cat(NoCommas(a), NoCommas(b))
  BY NoCommasBoth DEF Cat
<1>2. ASSUME NEW a \in Text, NEW b \in Text, NEW c \in Text
      PROVE  Cat(Cat(a, b), c) = Cat(a, Cat(b, c))
  BY Reorder, ZenonT(30) DEF Cat
<1>3. ASSUME NEW a \in Text
      PROVE  NoCommas(a) \in Text /\ Cat(<<>>, a) = a /\ Cat(a, <<>>) = a
  BY BitsAre, Blank DEF Cat
<1> QED
  BY <1>1, <1>2, <1>3

\* What is told, T, is told also of an argument s \o d with arguments W behind it,
\* by its beginning s and the values V; R is what is left.
LEMMA Rebalance ==
  ASSUME NEW T \in Text, NEW s \in Text, NEW V \in Text, NEW R \in Text, NEW d \in Text, NEW W \in Text,
         NoCommas(V) = NoCommas(Cat(d, W))
  PROVE  NoCommas(Cat(Cat(T, Cat(s, V)), R)) = NoCommas(Cat(T, Cat(Cat(s, d), Cat(W, R))))
<1> DEFINE x == Cat(s, Cat(V, R))
           y == Cat(s, Cat(Cat(d, W), R))
<1>1. /\ Cat(V, R) \in Text /\ Cat(d, W) \in Text /\ Cat(Cat(d, W), R) \in Text
      /\ x \in Text /\ y \in Text /\ Cat(W, R) \in Text /\ Cat(s, V) \in Text
  BY CatIs
<1>2. Cat(Cat(T, Cat(s, V)), R) = Cat(T, x)
  BY <1>1, CatIs
<1>3. Cat(T, Cat(Cat(s, d), Cat(W, R))) = Cat(T, y)
  BY <1>1, CatIs
<1>4. NoCommas(x) = NoCommas(y)
  <2>1. NoCommas(x) = Cat(NoCommas(s), Cat(NoCommas(V), NoCommas(R)))
    BY <1>1, CatIs
  <2>2. NoCommas(y) = Cat(NoCommas(s), Cat(NoCommas(Cat(d, W)), NoCommas(R)))
    BY <1>1, CatIs
  <2> QED
    BY <2>1, <2>2
<1> HIDE DEF x, y
<1>5. NoCommas(Cat(T, x)) = Cat(NoCommas(T), NoCommas(x)) /\ NoCommas(Cat(T, y)) = Cat(NoCommas(T), NoCommas(y))
  BY <1>1, CatIs
<1> QED
  BY <1>2, <1>3, <1>4, <1>5

\* The values of an option hold what it took: the rest of its argument and the
\* arguments up to where parsing resumes.
LEMMA AcceptHolds ==
  ASSUME NEW a \in Seq(Text), NEW i \in 1 .. Len(a), NEW o \in Info, o.kind \in Kinds,
         NEW n \in 0 .. Len(a[i]), Accepts(a, o, i, n)
  PROVE  NoCommas(FlattenSeq(Values(a, o, i, n)))
           = NoCommas(Drop(a[i], n) \o FlattenSeq(SubSeq(a, i + 1, Resume(a, o, i, n) - 1)))
<1> DEFINE v == Values(a, o, i, n)
           d == Drop(a[i], n)
           m == Resume(a, o, i, n)
           w == SubSeq(a, i + 1, m - 1)
<1>1. /\ Len(a) \in Nat /\ i \in Nat /\ m \in i + 1 .. Len(a) + 1
      /\ a[i] \in Text /\ a[i] \in Seq(Symbols) /\ Len(a[i]) \in Nat /\ n \in Nat /\ n <= Len(a[i])
  BY ResumeIs DEF Text
<1>2. d \in Seq(Symbols) /\ d \in Text /\ Len(d) = Len(a[i]) - n
  BY <1>1, DropIs DEF Text
<1>3. w \in Seq(Text)
  BY <1>1, BehindSplits
<1>4. m = i + 1 => w = <<>>
  <2> SUFFICES ASSUME m = i + 1 PROVE w = <<>>
    OBVIOUS
  <2>1. Len(w) = 0
    BY <1>1
  <2> HIDE DEF w
  <2> QED
    BY <1>3, <2>1
<1>5. Exact(a, i, n) => d = <<>>
  <2> HIDE DEF d
  <2> QED
    BY <1>1, <1>2 DEF Exact
<1>6. /\ o.kind = "flag" => v = <<>> /\ Exact(a, i, n) /\ m = i + 1
      /\ o.kind = "joined" => v = <<d>> /\ m = i + 1
      /\ o.kind = "commaJoined" => v = Parts(d, Comma) /\ m = i + 1
      /\ o.kind \in {"joinedOrSeparate", "remainingArgsJoined"} => v = IF Exact(a, i, n) THEN w ELSE <<d>> \o w
      /\ o.kind \in {"separate", "multiArg", "remainingArgs"} => v = w /\ Exact(a, i, n)
      /\ o.kind = "joinedAndSeparate" => v = <<d>> \o w
  <2>1. /\ o.kind = "flag" => v = <<>>
        /\ o.kind \in {"joinedOrSeparate", "remainingArgsJoined"} => v = IF Exact(a, i, n) THEN w ELSE <<d>> \o w
        /\ o.kind \in {"separate", "multiArg", "remainingArgs"} => v = w
        /\ o.kind = "joinedAndSeparate" => v = <<d>> \o w
    BY ValuesFor
  <2>2. /\ o.kind = "joined" => v = <<d>>
        /\ o.kind = "commaJoined" => v = Parts(d, Comma)
    BY JoinedValues
  <2>3. o.kind \in {"flag", "separate", "multiArg", "remainingArgs"} => Exact(a, i, n)
    BY AcceptsFor
  <2>4. o.kind \in {"joined", "commaJoined"} => m = i + 1
    BY ResumeFor
  <2>5. o.kind = "flag" /\ Exact(a, i, n) => m = i + 1
    BY ResumeFor
  <2> HIDE DEF v, d, m, w
  <2> QED
    BY <2>1, <2>2, <2>3, <2>4, <2>5
<1> HIDE DEF v, d, m, w
<1>7. FlattenSeq(w) \in Text
  BY <1>3, FlatText
<1>8. CASE v = w /\ d = <<>>
  BY <1>7, <1>8, Blank DEF v, d, m, w
<1>9. CASE v = <<d>> \o w
  <2>1. FlattenSeq(<<d>> \o w) = d \o FlattenSeq(w)
    BY <1>2, <1>3, FlattenFirst DEF Text
  <2> QED
    BY <1>9, <2>1 DEF v, d, m, w
<1>10. CASE v = <<d>> /\ w = <<>>
  <2>1. FlattenSeq(<<d>>) = d
    BY <1>2, FlattenOne
  <2> QED
    BY <1>2, <1>10, <2>1, Blank, FlattenEmpty DEF v, d, m, w
<1>11. CASE v = Parts(d, Comma) /\ w = <<>>
  <2>1. NoCommas(FlattenSeq(Parts(d, Comma))) = NoCommas(d)
    BY <1>2, PartsHold
  <2>2. d \o FlattenSeq(w) = d
    BY <1>2, <1>11, Blank, FlattenEmpty
  <2> QED
    BY <1>11, <2>1, <2>2 DEF v, d, m, w
<1>12. o.kind \in {"joined", "commaJoined", "joinedOrSeparate", "joinedAndSeparate",
                   "remainingArgsJoined", "flag", "separate", "multiArg", "remainingArgs"}
  BY DEF Kinds, TakesJoined
<1>13. (v = w /\ d = <<>>) \/ v = <<d>> \o w \/ (v = <<d>> /\ w = <<>>) \/ (v = Parts(d, Comma) /\ w = <<>>)
  BY <1>4, <1>5, <1>6, <1>12
<1> QED
  BY <1>8, <1>9, <1>10, <1>11, <1>13

\* What is told by one result, and by all; what is left to read of arguments a at
\* position i.
Mid(rs, i) == rs # <<>> /\ rs[Len(rs)].index = i
Left(rs, i, s) == IF Mid(rs, i) THEN Drop(s, 1) ELSE s
SaidOf(rs, k) ==
  Cat(IF k > 1 /\ rs[k].index = rs[k - 1].index THEN Drop(rs[k].spelling, 1) ELSE rs[k].spelling,
      FlattenSeq(rs[k].values))
SaidsOf(rs) == [k \in 1 .. Len(rs) |-> SaidOf(rs, k)]
ToldOf(rs) == FlattenSeq(SaidsOf(rs))
UnreadOf(a, i, rs) ==
  IF i > Len(a) THEN <<>> ELSE Cat(Left(rs, i, a[i]), FlattenSeq(Drop(a, i)))

LEMMA ToldIs == Told = ToldOf(out) /\ Told' = ToldOf(out')
BY DEF Told, ToldOf, SaidsOf, SaidOf, InGroup, Cat

LEMMA UnreadIs ==
  ASSUME TypeOK, TypeOK'
  PROVE  Unread = UnreadOf(argv, index, out) /\ Unread' = UnreadOf(argv', index', out')
<1>1. index \in Nat /\ Len(argv) \in Nat /\ index' \in Nat /\ Len(argv') \in Nat
  BY SMTT(30) DEF TypeOK
<1>2. Unread = UnreadOf(argv, index, out)
  <2>1. CASE index > Len(argv)
    BY <2>1 DEF Unread, UnreadOf
  <2>2. CASE index <= Len(argv)
    <3>1. MidGroup <=> Mid(out, index)
      BY <2>2 DEF MidGroup, Mid
    <3>2. ~(index > Len(argv))
      BY <1>1, <2>2
    <3> QED
      BY <3>1, <3>2 DEF Unread, UnreadOf, Left, Str, Cat
  <2> QED
    BY <1>1, <2>1, <2>2
<1>3. Unread' = UnreadOf(argv', index', out')
  <2>1. CASE index' > Len(argv')
    BY <2>1 DEF Unread, UnreadOf
  <2>2. CASE index' <= Len(argv')
    <3>1. MidGroup' <=> Mid(out', index')
      BY <2>2 DEF MidGroup, Mid
    <3>2. ~(index' > Len(argv'))
      BY <1>1, <2>2
    <3> QED
      BY <3>1, <3>2 DEF Unread, UnreadOf, Left, Str, Cat
  <2> QED
    BY <1>1, <2>1, <2>2
<1> QED
  BY <1>2, <1>3

LEMMA SaidsAre ==
  ASSUME NEW rs \in Seq(Result)
  PROVE  /\ SaidsOf(rs) \in Seq(Text) /\ Len(SaidsOf(rs)) = Len(rs)
         /\ \A k \in 1 .. Len(rs) : SaidsOf(rs)[k] = SaidOf(rs, k)
         /\ ToldOf(rs) \in Text
<1>1. Len(rs) \in Nat
  OBVIOUS
<1>2. ASSUME NEW k \in 1 .. Len(rs) PROVE SaidOf(rs, k) \in Text
  <2>1. rs[k].spelling \in Text /\ rs[k].values \in Seq(Text)
    <3>1. rs[k] \in Result
      OBVIOUS
    <3> QED
      BY <3>1 DEF Result
  <2>2. Drop(rs[k].spelling, 1) \in Text
    BY <2>1, DropIs DEF Text
  <2>3. FlattenSeq(rs[k].values) \in Text
    BY <2>1, FlatText
  <2> QED
    BY <2>1, <2>2, <2>3, CatIs DEF SaidOf
<1>3. /\ SaidsOf(rs) \in Seq(Text) /\ Len(SaidsOf(rs)) = Len(rs)
      /\ \A k \in 1 .. Len(rs) : SaidsOf(rs)[k] = SaidOf(rs, k)
  BY <1>1, <1>2 DEF SaidsOf
<1>4. ToldOf(rs) \in Text
  BY <1>3, FlatText DEF ToldOf
<1> QED
  BY <1>3, <1>4

\* Results added behind the others add what they say.
LEMMA ToldGrows ==
  ASSUME NEW rs \in Seq(Result), NEW qs \in Seq(Result), NEW S \in Seq(Text), NEW n \in Nat,
         n = Len(rs), Len(qs) = n + Len(S), \A k \in 1 .. n : qs[k] = rs[k],
         \A j \in 1 .. Len(S) : SaidOf(qs, n + j) = S[j]
  PROVE  ToldOf(qs) = Cat(ToldOf(rs), FlattenSeq(S))
<1> DEFINE A == SaidsOf(rs)
           B == SaidsOf(qs)
           C == A \o S
<1>1. Len(S) \in Nat
  OBVIOUS
<1>2. A \in Seq(Text) /\ Len(A) = n /\ \A k \in 1 .. n : A[k] = SaidOf(rs, k)
  BY SaidsAre
<1>3. B \in Seq(Text) /\ Len(B) = n + Len(S) /\ \A k \in 1 .. n + Len(S) : B[k] = SaidOf(qs, k)
  BY SaidsAre
<1> HIDE DEF A, B
<1>4. /\ C \in Seq(Text) /\ Len(C) = n + Len(S) /\ (\A k \in 1 .. n : C[k] = A[k])
      /\ \A k \in 1 .. Len(S) : C[n + k] = S[k]
  <2>1. A \in Seq(Text)
    BY <1>2
  <2>2. C \in Seq(Text) /\ Len(C) = Len(A) + Len(S)
    BY <2>1, BehindIs
  <2>3. \A k \in 1 .. Len(A) : C[k] = A[k]
    BY <2>1, BehindIs
  <2>4. \A k \in 1 .. Len(S) : C[Len(A) + k] = S[k]
    BY <2>1, BehindIs
  <2> HIDE DEF C
  <2> QED
    BY <1>2, <2>2, <2>3, <2>4
<1> HIDE DEF C
<1>5. ASSUME NEW k \in 1 .. Len(B) PROVE B[k] = C[k]
  <2>1. CASE k \in 1 .. n
    <3>1. qs[k] = rs[k] /\ (k > 1 => qs[k - 1] = rs[k - 1])
      <4>1. k > 1 => k - 1 \in 1 .. n
        BY <2>1
      <4> QED
        BY <2>1, <4>1
    <3>2. SaidOf(qs, k) = SaidOf(rs, k)
      BY <3>1 DEF SaidOf
    <3>3. k \in 1 .. n + Len(S)
      BY <1>1, <2>1
    <3> QED
      BY <1>2, <1>3, <1>4, <2>1, <3>2, <3>3
  <2>2. CASE k \notin 1 .. n
    <3> DEFINE j == k - n
    <3>1. j \in 1 .. Len(S) /\ k = n + j /\ k \in 1 .. n + Len(S)
      BY <1>1, <1>3, <2>2
    <3> HIDE DEF j
    <3>2. B[k] = SaidOf(qs, n + j) /\ C[n + j] = S[j] /\ SaidOf(qs, n + j) = S[j]
      BY <1>3, <1>4, <3>1
    <3> QED
      BY <3>1, <3>2
  <2> QED
    BY <2>1, <2>2
<1>6. B = C
  BY <1>3, <1>4, <1>5, SeqEqual
<1>7. FlattenSeq(A \o S) = FlattenSeq(A) \o FlattenSeq(S)
  BY <1>2, FlattenBoth DEF Text
<1> QED
  BY <1>6, <1>7 DEF ToldOf, Cat, A, B, C

LEMMA ToldOne ==
  ASSUME NEW rs \in Seq(Result), NEW r \in Result
  PROVE  ToldOf(Append(rs, r)) = Cat(ToldOf(rs), Cat(Left(rs, r.index, r.spelling), FlattenSeq(r.values)))
<1> DEFINE qs == Append(rs, r)
           x == Cat(Left(rs, r.index, r.spelling), FlattenSeq(r.values))
           S == <<x>>
<1>1. PICK n \in Nat : n = Len(rs)
  OBVIOUS
<1>2. qs \in Seq(Result) /\ Len(qs) = n + 1 /\ (\A k \in 1 .. n : qs[k] = rs[k]) /\ qs[n + 1] = r
  BY <1>1, AppendProperties
<1> HIDE DEF qs
<1>3. SaidOf(qs, n + 1) = x
  <2>1. n + 1 > 1 /\ qs[n + 1].index = qs[(n + 1) - 1].index <=> Mid(rs, r.index)
    <3>1. CASE n = 0
      <4>1. rs = <<>>
        <5>1. Len(rs) = 0
          BY <1>1, <3>1
        <5> QED
          BY <5>1
      <4> QED
        BY <3>1, <4>1 DEF Mid
    <3>2. CASE n # 0
      <4>1. n \in 1 .. n /\ n + 1 > 1 /\ (n + 1) - 1 = n /\ rs # <<>>
        BY <1>1, <3>2
      <4> QED
        BY <1>1, <1>2, <4>1 DEF Mid
    <3> QED
      BY <3>1, <3>2
  <2> QED
    BY <1>2, <2>1 DEF SaidOf, Left
<1>4. x \in Text
  <2>1. r.spelling \in Text /\ r.values \in Seq(Text)
    BY DEF Result
  <2>2. Drop(r.spelling, 1) \in Text /\ FlattenSeq(r.values) \in Text
    BY <2>1, DropIs, FlatText DEF Text
  <2> QED
    BY <2>1, <2>2, CatIs DEF Left
<1> HIDE DEF x
<1>5. S \in Seq(Text) /\ Len(S) = 1 /\ S[1] = x
  BY <1>4
<1> HIDE DEF S
<1>6. \A j \in 1 .. Len(S) : SaidOf(qs, n + j) = S[j]
  BY <1>3, <1>5
<1>7. ToldOf(qs) = Cat(ToldOf(rs), FlattenSeq(S))
  <2>1. Len(qs) = n + Len(S)
    BY <1>2, <1>5
  <2> QED
    BY <1>1, <1>2, <1>5, <1>6, <2>1, ToldGrows
<1>8. FlattenSeq(<<x>>) = x
  BY <1>4, FlattenOne DEF Text
<1> QED
  BY <1>7, <1>8 DEF qs, x, S

\* The first symbol is dropped from a text before another.
LEMMA DropBoth ==
  ASSUME NEW x \in Text, NEW y \in Text, 1 <= Len(x)
  PROVE  Drop(Cat(x, y), 1) = Cat(Drop(x, 1), y)
<1> DEFINE c == Cat(x, y)
           d == Drop(x, 1)
           e == Cat(d, y)
           f == Drop(c, 1)
<1>1. x \in Seq(Symbols) /\ y \in Seq(Symbols) /\ Len(x) \in Nat /\ Len(y) \in Nat /\ 1 \in Nat
  BY DEF Text
<1>2. d \in Seq(Symbols) /\ Len(d) = Len(x) - 1 /\ \A j \in 1 .. Len(x) - 1 : d[j] = x[1 + j]
  BY <1>1, DropIs
<1>3. c \in Seq(Symbols) /\ Len(c) = Len(x) + Len(y)
  BY <1>1, BehindIs DEF Cat
<1>4. (\A j \in 1 .. Len(x) : c[j] = x[j]) /\ \A j \in 1 .. Len(y) : c[Len(x) + j] = y[j]
  BY <1>1, BehindIs DEF Cat
<1> HIDE DEF c, d
<1>5. e \in Seq(Symbols) /\ Len(e) = Len(d) + Len(y)
  BY <1>1, <1>2, BehindIs DEF Cat
<1>6. (\A j \in 1 .. Len(d) : e[j] = d[j]) /\ \A j \in 1 .. Len(y) : e[Len(d) + j] = y[j]
  BY <1>1, <1>2, BehindIs DEF Cat
<1>7. f \in Seq(Symbols) /\ Len(f) = Len(c) - 1 /\ \A j \in 1 .. Len(c) - 1 : f[j] = c[1 + j]
  <2>1. 1 <= Len(c) /\ Len(c) \in Nat
    BY <1>1, <1>3
  <2>2. /\ f \in Seq(Symbols) /\ Len(f) = (IF 1 <= Len(c) THEN Len(c) - 1 ELSE 0)
        /\ \A j \in 1 .. Len(c) - 1 : f[j] = c[1 + j]
    BY <1>1, <1>3, DropIs, ZenonT(30)
  <2> HIDE DEF f
  <2> QED
    BY <2>1, <2>2
<1> HIDE DEF e, f
<1>8. ASSUME NEW j \in 1 .. Len(f) PROVE f[j] = e[j]
  <2>1. CASE j <= Len(d)
    <3>1. j \in 1 .. Len(d) /\ j \in 1 .. Len(x) - 1 /\ 1 + j \in 1 .. Len(x) /\ j \in 1 .. Len(c) - 1
      BY <1>1, <1>2, <1>3, <1>7, <2>1
    <3> QED
      BY <1>2, <1>4, <1>6, <1>7, <3>1
  <2>2. CASE j > Len(d)
    <3> DEFINE h == j - Len(d)
    <3>1. h \in 1 .. Len(y) /\ j = Len(d) + h /\ 1 + j = Len(x) + h /\ j \in 1 .. Len(c) - 1
      BY <1>1, <1>2, <1>3, <1>7, <2>2
    <3> HIDE DEF h
    <3>2. f[j] = c[1 + j] /\ c[Len(x) + h] = y[h] /\ e[Len(d) + h] = y[h]
      BY <1>4, <1>6, <1>7, <3>1
    <3> QED
      BY <3>1, <3>2
  <2> QED
    BY <1>1, <1>2, <1>7, <2>1, <2>2
<1>9. Len(f) = Len(e)
  BY <1>1, <1>2, <1>3, <1>5, <1>7
<1>10. f = e
  BY <1>5, <1>7, <1>8, <1>9, SeqEqual
<1> QED
  BY <1>10 DEF c, d, e, f

\* What is left of an argument is what is left of its beginning, and its end.
LEMMA LeftCut ==
  ASSUME NEW rs, NEW i, NEW s \in Text, NEW m \in 1 .. Len(s)
  PROVE  /\ Left(rs, i, Take(s, m)) \in Text /\ Drop(s, m) \in Text
         /\ Left(rs, i, s) = Cat(Left(rs, i, Take(s, m)), Drop(s, m))
<1> DEFINE x == Take(s, m)
           y == Drop(s, m)
<1>1. s \in Seq(Symbols) /\ m \in Nat /\ m \in 0 .. Len(s) /\ 1 \in Nat
  BY DEF Text
<1>2. x \in Text /\ Len(x) = m
  BY <1>1, TakeIs DEF Text
<1>3. y \in Text
  BY <1>1, DropIs DEF Text
<1>4. Cat(x, y) = s
  BY <1>1, TakeAndDrop DEF Cat, Text
<1> HIDE DEF x, y
<1>5. Drop(x, 1) \in Text
  BY <1>1, <1>2, DropIs DEF Text
<1>6. Drop(Cat(x, y), 1) = Cat(Drop(x, 1), y)
  BY <1>1, <1>2, <1>3, DropBoth
<1>7. Left(rs, i, x) \in Text
  BY <1>2, <1>5 DEF Left
<1>8. Left(rs, i, s) = Cat(Left(rs, i, x), y)
  BY <1>4, <1>6, Zenon DEF Left
<1> QED
  BY <1>3, <1>7, <1>8 DEF x, y

\* Of an argument no result is about yet, everything is left to read.
LEMMA Fresh ==
  ASSUME NEW a \in Seq(Text), NEW i \in 1 .. Len(a) + 1, NEW rs, ~Mid(rs, i)
  PROVE  UnreadOf(a, i, rs) = FlattenSeq(Drop(a, i - 1))
BY FromIs DEF UnreadOf, Left, Cat

\* What the results tell and what is left to read, but for commas.
Sum(a, i, rs) == NoCommas(Cat(ToldOf(rs), UnreadOf(a, i, rs)))

\* A result that takes its argument, and perhaps some behind it, tells them.
LEMMA WholeStep ==
  ASSUME TypeOK, NEW r, Takes(r), NEW m \in 1 .. Len(Str), NEW n \in index + 1 .. Len(argv) + 1,
         argv' = argv, index' = n, r.spelling = Take(Str, m),
         NoCommas(FlattenSeq(r.values))
           = NoCommas(Drop(Str, m) \o FlattenSeq(SubSeq(argv, index + 1, n - 1)))
  PROVE  Sum(argv', index', out') = Sum(argv, index, out)
<1>1. /\ index \in 1 .. Len(argv) /\ r \in Result /\ r.index = index /\ out' = Append(out, r)
      /\ out \in Seq(Result) /\ argv \in Seq(Text) /\ Str = argv[index] /\ Str \in Text
      /\ index \in Nat /\ Len(argv) \in Nat
  BY StrIs, StateIs, SMTT(30) DEF Takes, TypeOK, Str
<1> DEFINE T == ToldOf(out)
           s == Left(out, index, Take(Str, m))
           V == FlattenSeq(r.values)
           d == Drop(Str, m)
           W == FlattenSeq(SubSeq(argv, index + 1, n - 1))
           R == FlattenSeq(Drop(argv, n - 1))
<1>2. T \in Text
  BY <1>1, SaidsAre
<1>3. s \in Text /\ d \in Text /\ Left(out, index, Str) = Cat(s, d)
  <2>1. PICK x \in Text : x = Str
    BY <1>1
  <2>2. m \in 1 .. Len(x)
    BY <2>1
  <2>3. /\ Left(out, index, Take(x, m)) \in Text /\ Drop(x, m) \in Text
        /\ Left(out, index, x) = Cat(Left(out, index, Take(x, m)), Drop(x, m))
    BY <2>2, LeftCut, Zenon
  <2> QED
    BY <2>1, <2>3, Zenon
<1>4. V \in Text
  <2>1. r.values \in Seq(Text)
    BY <1>1 DEF Result
  <2> QED
    BY <2>1, FlatText
<1>5. W \in Text /\ FlattenSeq(Drop(argv, index)) = Cat(W, R)
  <2>1. SubSeq(argv, index + 1, n - 1) \in Seq(Text)
    BY <1>1, BehindSplits
  <2>2. FlattenSeq(Drop(argv, index)) = W \o R
    BY <1>1, BehindSplits
  <2> QED
    BY <2>1, <2>2, FlatText DEF Cat
<1>6. n \in 1 .. Len(argv) + 1
  BY <1>1
<1>7. R \in Text
  <2>1. Drop(argv, n - 1) \in Seq(Text)
    BY <1>1, <1>6, FromIs
  <2> QED
    BY <2>1, FlatText
<1>8. ToldOf(out') = Cat(T, Cat(s, V))
  <2>1. ToldOf(Append(out, r)) = Cat(ToldOf(out), Cat(Left(out, r.index, r.spelling), FlattenSeq(r.values)))
    BY <1>1, ToldOne
  <2> HIDE DEF T, s, V
  <2>2. r.spelling = Take(Str, m) /\ r.index = index /\ out' = Append(out, r)
    BY <1>1
  <2> QED
    BY <2>1, <2>2 DEF T, s, V
<1>9. UnreadOf(argv', index', out') = R
  <2>1. ~Mid(out', n)
    <3>1. Len(out') = Len(out) + 1 /\ out'[Len(out) + 1] = r
      BY <1>1, AppendProperties
    <3>2. out'[Len(out')].index = index
      BY <1>1, <3>1
    <3>3. index # n
      BY <1>1
    <3> QED
      BY <3>2, <3>3 DEF Mid
  <2>2. UnreadOf(argv, n, out') = FlattenSeq(Drop(argv, n - 1))
    BY <1>1, <1>6, <2>1, Fresh
  <2> QED
    BY <2>2
<1>10. UnreadOf(argv, index, out) = Cat(Cat(s, d), Cat(W, R))
  <2>1. ~(index > Len(argv))
    BY <1>1
  <2> HIDE DEF s, d, W, R
  <2> QED
    BY <1>1, <1>3, <1>5, <2>1 DEF UnreadOf
<1>11. NoCommas(V) = NoCommas(Cat(d, W))
  BY DEF Cat
<1> HIDE DEF T, s, V, d, W, R
<1>12. NoCommas(Cat(Cat(T, Cat(s, V)), R)) = NoCommas(Cat(T, Cat(Cat(s, d), Cat(W, R))))
  BY <1>2, <1>3, <1>4, <1>5, <1>7, <1>11, Rebalance
<1> QED
  BY <1>8, <1>9, <1>10, <1>12 DEF Sum, T

\* An argument that is told as a whole.
LEMMA PlainStep ==
  ASSUME TypeOK, NEW r, Takes(r), argv' = argv, index' = index + 1,
         r.spelling = Str, r.values = <<>>
  PROVE  Sum(argv', index', out') = Sum(argv, index, out)
<1>1. /\ index \in 1 .. Len(argv) /\ Str # <<>> /\ Str \in Text /\ index \in Nat /\ Len(argv) \in Nat
      /\ argv \in Seq(Text)
  BY StrIs, StateIs DEF Takes, TypeOK
<1> DEFINE m == Len(Str)
           n == index + 1
           W == SubSeq(argv, index + 1, n - 1)
<1>2. m \in 1 .. Len(Str) /\ m \in Nat /\ n \in index + 1 .. Len(argv) + 1
  BY <1>1 DEF Text
<1>3. Take(Str, m) = Str
  <2>1. PICK x \in Seq(Symbols) : x = Str
    BY <1>1 DEF Text
  <2>2. Len(x) \in 0 .. Len(x)
    OBVIOUS
  <2>3. Take(x, Len(x)) \in Seq(Symbols) /\ Len(Take(x, Len(x))) = Len(x)
        /\ \A i \in 1 .. Len(x) : Take(x, Len(x))[i] = x[i]
    BY <2>2, TakeIs
  <2>4. Take(x, Len(x)) = x
    BY <2>3, SeqEqual
  <2> QED
    BY <2>1, <2>4
<1>4. Drop(Str, m) = <<>>
  <2>1. PICK x \in Seq(Symbols) : x = Str
    BY <1>1 DEF Text
  <2>2. Drop(x, Len(x)) \in Seq(Symbols) /\ Len(Drop(x, Len(x))) = 0
    BY DropIs
  <2>3. Drop(x, Len(x)) = <<>>
    BY <2>2
  <2> QED
    BY <2>1, <2>3
<1>5. W = <<>>
  <2>1. W \in Seq(Text) /\ Len(W) = 0
    BY <1>1
  <2> HIDE DEF W
  <2> QED
    BY <2>1
<1>6. FlattenSeq(r.values) = Drop(Str, m) \o FlattenSeq(W)
  <2>1. FlattenSeq(r.values) = <<>>
    BY FlattenEmpty
  <2>2. FlattenSeq(W) = <<>>
    BY <1>5, FlattenEmpty
  <2>3. <<>> \o <<>> = <<>>
    BY <1>1, Blank
  <2> QED
    BY <1>4, <2>1, <2>2, <2>3
<1>7. r.spelling = Take(Str, m) /\ index' = n
  BY <1>3
<1>8. NoCommas(FlattenSeq(r.values)) = NoCommas(Drop(Str, m) \o FlattenSeq(W))
  BY <1>6
<1> HIDE DEF m
<1> QED
  BY <1>2, <1>7, <1>8, WholeStep

\* An argument that is told with what the option took behind it.
LEMMA AcceptStep ==
  ASSUME TypeOK, SearchOK, Accept
  PROVE  Sum(argv', index', out') = Sum(argv, index, out)
<1> DEFINE v == Values(argv, Opt, index, Size)
           n == Resume(argv, Opt, index, Size)
           r == Accepted(start, Take(Str, Size), v, index)
<1>1. Takes(r) /\ n \in index + 1 .. Len(argv) + 1
  BY AcceptTakes
<1>2. Looking /\ Size # 0 /\ Accepts(argv, Opt, index, Size)
  BY DEF Accept, Candidate
<1>3. /\ Opt \in Info /\ Opt.kind \in Kinds
      /\ argv \in Seq(Text) /\ index \in 1 .. Len(argv) /\ Str = argv[index]
      /\ Size \in 0 .. Len(Str) /\ Size \in 0 .. Len(argv[index])
  BY <1>2, LookingIs
<1>4. r.spelling = Take(Str, Size) /\ r.values = v
  BY DEF Accepted, Plain
<1>5. argv' = argv /\ index' = n
  BY DEF Accept, Report
<1>6. NoCommas(FlattenSeq(v)) = NoCommas(Drop(argv[index], Size) \o FlattenSeq(SubSeq(argv, index + 1, n - 1)))
  BY <1>2, <1>3, AcceptHolds
<1> HIDE DEF r, v, n
<1>7. Size \in 1 .. Len(Str)
  BY <1>2, <1>3
<1>8. NoCommas(FlattenSeq(r.values)) = NoCommas(Drop(Str, Size) \o FlattenSeq(SubSeq(argv, index + 1, n - 1)))
  BY <1>3, <1>4, <1>6
<1> QED
  BY <1>1, <1>4, <1>5, <1>7, <1>8, WholeStep

\* A letter of a group that is told, and cut.
LEMMA LetterStep ==
  ASSUME TypeOK, NEW r, Takes(r), CutLetter, index' = index, Len(Str) > 1,
         r.spelling = Take(Str, 2), r.values = <<>>
  PROVE  Sum(argv', index', out') = Sum(argv, index, out)
<1>1. /\ index \in 1 .. Len(argv) /\ r \in Result /\ r.index = index /\ out' = Append(out, r)
      /\ out \in Seq(Result) /\ argv \in Seq(Text) /\ Str = argv[index] /\ Str \in Text
      /\ index \in Nat /\ Len(argv) \in Nat /\ index <= Len(argv) /\ Len(Str) \in Nat
  BY StrIs, StateIs, SMTT(30) DEF Takes, TypeOK, Str
<1>2. /\ argv' \in Seq(Text) /\ Len(argv') = Len(argv)
      /\ argv'[index] = Cat(<<"-">>, Drop(Str, 2))
      /\ \A j \in 1 .. Len(argv) : j # index => argv'[j] = argv[j]
  BY <1>1, CutIs DEF Cat
<1> DEFINE T == ToldOf(out)
           s == Left(out, index, Take(Str, 2))
           d == Drop(Str, 2)
           F == FlattenSeq(Drop(argv, index))
<1>3. T \in Text
  BY <1>1, SaidsAre
<1>4. s \in Text /\ d \in Text /\ Left(out, index, Str) = Cat(s, d)
  <2>1. PICK x \in Text : x = Str
    BY <1>1
  <2>2. 2 \in 1 .. Len(x)
    BY <1>1, <2>1
  <2>3. /\ Left(out, index, Take(x, 2)) \in Text /\ Drop(x, 2) \in Text
        /\ Left(out, index, x) = Cat(Left(out, index, Take(x, 2)), Drop(x, 2))
    BY <2>2, LeftCut, Zenon
  <2> QED
    BY <2>1, <2>3, Zenon
<1>5. Drop(argv, index) \in Seq(Text) /\ F \in Text
  <2>1. Drop(argv, index) \in Seq(Text)
    BY <1>1, DropIs
  <2> QED
    BY <2>1, FlatText
<1>6. Drop(argv', index) = Drop(argv, index)
  <2>1. Drop(argv', index) \in Seq(Text) /\ Len(Drop(argv', index)) = Len(argv) - index
        /\ \A j \in 1 .. Len(argv) - index : Drop(argv', index)[j] = argv'[index + j]
    <3>1. PICK b \in Seq(Text) : b = argv'
      BY <1>2
    <3>2. Drop(b, index) \in Seq(Text) /\ Len(Drop(b, index)) = Len(b) - index
          /\ \A j \in 1 .. Len(b) - index : Drop(b, index)[j] = b[index + j]
      BY <1>1, <1>2, <3>1, DropIs
    <3> QED
      BY <1>2, <3>1, <3>2
  <2>2. Len(Drop(argv, index)) = Len(argv) - index
        /\ \A j \in 1 .. Len(argv) - index : Drop(argv, index)[j] = argv[index + j]
    BY <1>1, DropIs
  <2>3. \A j \in 1 .. Len(argv) - index : argv'[index + j] = argv[index + j]
    <3> SUFFICES ASSUME NEW j \in 1 .. Len(argv) - index PROVE argv'[index + j] = argv[index + j]
      OBVIOUS
    <3>1. index + j \in 1 .. Len(argv) /\ index + j # index
      BY <1>1
    <3> QED
      BY <1>2, <3>1
  <2> DEFINE x == Drop(argv', index)
             y == Drop(argv, index)
  <2>4. x \in Seq(Text) /\ y \in Seq(Text) /\ Len(x) = Len(y) /\ \A j \in 1 .. Len(x) : x[j] = y[j]
    BY <1>5, <2>1, <2>2, <2>3
  <2> HIDE DEF x, y
  <2>5. x = y
    BY <2>4, SeqEqual
  <2> QED
    BY <2>5 DEF x, y
<1>7. ToldOf(out') = Cat(T, s)
  <2>1. ToldOf(Append(out, r)) = Cat(ToldOf(out), Cat(Left(out, r.index, r.spelling), FlattenSeq(r.values)))
    BY <1>1, ToldOne
  <2>2. FlattenSeq(r.values) = <<>>
    BY FlattenEmpty
  <2>3. Cat(s, <<>>) = s
    BY <1>4, CatIs
  <2> HIDE DEF T, s
  <2>4. r.spelling = Take(Str, 2) /\ r.index = index /\ out' = Append(out, r)
    BY <1>1
  <2> QED
    BY <2>1, <2>2, <2>3, <2>4 DEF T, s
<1>8. Left(out', index, argv'[index]) = d
  <2>1. Mid(out', index)
    <3>1. Len(out') = Len(out) + 1 /\ out'[Len(out) + 1] = r /\ out' \in Seq(Result) /\ Len(out) \in Nat
      BY <1>1, AppendProperties
    <3>2. out'[Len(out')].index = index /\ out' # <<>>
      BY <1>1, <3>1
    <3> QED
      BY <3>2 DEF Mid
  <2>2. <<"-">> \in Text /\ 1 <= Len(<<"-">>)
    BY InputsAssumption DEF Text
  <2>3. Drop(Cat(<<"-">>, d), 1) = Cat(Drop(<<"-">>, 1), d)
    BY <1>4, <2>2, DropBoth
  <2>4. Drop(<<"-">>, 1) = <<>>
    <3>1. PICK x \in Seq(Symbols) : x = <<"-">> /\ Len(x) = 1
      <4>1. <<"-">> \in Seq(Symbols)
        BY <2>2 DEF Text
      <4>2. Len(<<"-">>) = 1
        OBVIOUS
      <4> QED
        BY <4>1, <4>2, Zenon
    <3>2. Drop(x, 1) \in Seq(Symbols) /\ Len(Drop(x, 1)) = 0
      <4>1. PICK n \in Nat : n = 1
        OBVIOUS
      <4>2. Drop(x, n) \in Seq(Symbols) /\ Len(Drop(x, n)) = (IF n <= Len(x) THEN Len(x) - n ELSE 0)
        BY DropIs
      <4> QED
        BY <3>1, <4>1, <4>2
    <3>3. Drop(x, 1) = <<>>
      BY <3>2
    <3> QED
      BY <3>1, <3>3, Zenon
  <2>5. Cat(<<>>, d) = d
    BY <1>4, CatIs
  <2> HIDE DEF d
  <2>6. Left(out', index, argv'[index]) = Drop(argv'[index], 1)
    BY <2>1 DEF Left
  <2>7. argv'[index] = Cat(<<"-">>, d)
    BY <1>2 DEF d
  <2> QED
    BY <2>3, <2>4, <2>5, <2>6, <2>7
<1>9. UnreadOf(argv', index', out') = Cat(d, F)
  <2>1. ~(index' > Len(argv'))
    BY <1>1, <1>2
  <2> HIDE DEF d, F
  <2>2. UnreadOf(argv', index, out') = Cat(Left(out', index, argv'[index]), FlattenSeq(Drop(argv', index)))
    BY <2>1 DEF UnreadOf
  <2> QED
    BY <1>6, <1>8, <2>2 DEF F
<1>10. UnreadOf(argv, index, out) = Cat(Cat(s, d), F)
  <2>1. ~(index > Len(argv))
    BY <1>1
  <2> HIDE DEF s, d, F
  <2> QED
    BY <1>1, <1>4, <2>1 DEF UnreadOf, F
<1> HIDE DEF T, s, d, F
<1>11. Cat(Cat(T, s), Cat(d, F)) = Cat(T, Cat(Cat(s, d), F))
  <2>1. Cat(d, F) \in Text /\ Cat(Cat(s, d), F) = Cat(s, Cat(d, F))
    BY <1>4, <1>5, CatIs
  <2>2. Cat(Cat(T, s), Cat(d, F)) = Cat(T, Cat(s, Cat(d, F)))
    BY <1>3, <1>4, <2>1, CatIs
  <2> QED
    BY <2>1, <2>2
<1> QED
  BY <1>7, <1>9, <1>10, <1>11 DEF Sum, T

\* A group that has lost letters is neither empty nor a "--" of the command line.
LEMMA MidIs ==
  ASSUME TypeOK, ArgsOK, index <= Len(argv), Mid(out, index)
  PROVE  Str # <<>> /\ (input.argv[index] = <<"-", "-">> => Len(Str) <= 1)
<1>1. PICK n \in Nat : n = Len(out)
  BY DEF TypeOK
<1>2. n \in 1 .. n /\ out[n].index = index
  <2>1. n # 0
    BY <1>1 DEF Mid, TypeOK
  <2> QED
    BY <1>1, <2>1 DEF Mid
<1> DEFINE c == About(out, n, index)
<1>3. c \in Nat /\ c # 0
  <2>1. n \in Nat /\ \E j \in 1 .. n : out[j].index = index
    BY <1>1, <1>2
  <2> QED
    BY <2>1, AboutIs, Zenon
<1>4. Str = Rest(index, c)
  BY <1>1 DEF ArgsOK
<1> HIDE DEF c
<1>5. Str = <<"-">> \o Drop(input.argv[index], c + 1)
  BY <1>3, <1>4 DEF Rest
<1>6. input.argv[index] \in Seq(Symbols) /\ "-" \in Symbols
  BY InputsAssumption DEF TypeOK, Text
<1> DEFINE s == input.argv[index]
           m == c + 1
<1>7. m \in Nat /\ m >= 2
  BY <1>3
<1>8. s \in Seq(Symbols)
  BY <1>6
<1> HIDE DEF s, m
<1>9. Drop(s, m) \in Seq(Symbols) /\ Len(Drop(s, m)) = IF m <= Len(s) THEN Len(s) - m ELSE 0
  BY <1>7, <1>8, DropIs
<1> DEFINE y == Drop(s, m)
           x == <<"-">>
<1>10. x \in Seq(Symbols) /\ Len(x) = 1
  BY <1>6
<1> HIDE DEF x, y
<1>11. x \o y \in Seq(Symbols) /\ Len(x \o y) = 1 + Len(y)
  <2>1. y \in Seq(Symbols)
    BY <1>9 DEF y
  <2> QED
    BY <1>10, <2>1, ConcatProperties, ZenonT(30)
<1>12. Str = x \o y
  BY <1>5 DEF x, y, s, m
<1>13. Len(y) \in Nat /\ (Len(s) = 2 => Len(y) = 0)
  <2>1. Len(y) = IF m <= Len(s) THEN Len(s) - m ELSE 0
    BY <1>9 DEF y
  <2>2. PICK k \in Nat : k = Len(s)
    BY <1>8
  <2>3. PICK l \in Nat : l = m /\ l >= 2
    BY <1>7
  <2>4. Len(y) = IF l <= k THEN k - l ELSE 0
    BY <2>1, <2>2, <2>3
  <2>5. (IF l <= k THEN k - l ELSE 0) \in Nat /\ (k = 2 => (IF l <= k THEN k - l ELSE 0) = 0)
    BY <2>3
  <2> QED
    BY <2>2, <2>4, <2>5
<1>14. Len(Str) = 1 + Len(y)
  BY <1>11, <1>12
<1>15. s = <<"-", "-">> => Len(s) = 2
  OBVIOUS
<1> QED
  BY <1>13, <1>14, <1>15 DEF s

\* An empty argument has nothing to tell.
LEMMA EmptyStep ==
  ASSUME TypeOK, ArgsOK, SkipEmpty
  PROVE  Sum(argv', index', out') = Sum(argv, index, out)
<1>1. /\ index <= Len(argv) /\ Str = <<>> /\ index' = index + 1 /\ argv' = argv /\ out' = out
  BY DEF SkipEmpty
<1>2. /\ index \in 1 .. Len(argv) /\ index \in Nat /\ argv \in Seq(Text) /\ Len(argv) \in Nat
      /\ out \in Seq(Result) /\ Str = argv[index]
  BY <1>1, StrIs, StateIs DEF TypeOK, Str
<1>3. ~Mid(out, index)
  BY <1>1, MidIs
<1>4. ~Mid(out, index + 1)
  <2> SUFFICES ASSUME Mid(out, index + 1) PROVE FALSE
    OBVIOUS
  <2>1. PICK n \in Nat : n = Len(out)
    BY <1>2
  <2>2. n # 0
    BY <1>2, <2>1 DEF Mid
  <2>3. n \in 1 .. Len(out)
    BY <2>1, <2>2
  <2>4. out[n].index <= index /\ out[n].index = index + 1
    BY <2>1, <2>3 DEF ArgsOK, Mid
  <2> QED
    BY <1>2, <2>4
<1>5. UnreadOf(argv, index, out) = FlattenSeq(Drop(argv, index))
  <2>1. Drop(argv, index) \in Seq(Text)
    BY <1>2, DropIs
  <2>2. Cat(<<>>, FlattenSeq(Drop(argv, index))) = FlattenSeq(Drop(argv, index))
    BY <2>1, FlatText, CatIs
  <2>3. ~(index > Len(argv)) /\ Left(out, index, argv[index]) = <<>>
    BY <1>1, <1>2, <1>3 DEF Left
  <2> QED
    BY <2>2, <2>3 DEF UnreadOf
<1>6. UnreadOf(argv, index + 1, out) = FlattenSeq(Drop(argv, index))
  <2> DEFINE i == index + 1
  <2>1. i \in 1 .. Len(argv) + 1 /\ i - 1 = index
    BY <1>2
  <2>2. ~Mid(out, i)
    BY <1>4
  <2> HIDE DEF i
  <2>3. UnreadOf(argv, i, out) = FlattenSeq(Drop(argv, i - 1))
    BY <1>2, <2>1, <2>2, Fresh
  <2> QED
    BY <2>1, <2>3 DEF i
<1> QED
  BY <1>1, <1>5, <1>6 DEF Sum

\* The arguments before and behind position i.
LEMMA Around ==
  ASSUME NEW a \in Seq(Text), NEW i \in 1 .. Len(a)
  PROVE  /\ FlattenSeq(Take(a, i - 1)) \in Text /\ FlattenSeq(Drop(a, i)) \in Text /\ a[i] \in Text
         /\ FlattenSeq(a) = Cat(FlattenSeq(Take(a, i - 1)), Cat(a[i], FlattenSeq(Drop(a, i))))
<1> DEFINE k == i - 1
           x == Take(a, k)
           y == Drop(a, k)
<1>1. Len(a) \in Nat /\ i \in Nat /\ k \in Nat /\ k \in 0 .. Len(a) /\ i \in 1 .. Len(a) + 1 /\ ~(i > Len(a))
  OBVIOUS
<1> HIDE DEF k
<1>2. x \in Seq(Text)
  BY <1>1, TakeIs
<1>3. y \in Seq(Text) /\ Drop(a, i) \in Seq(Text)
  BY <1>1, DropIs
<1>4. FlattenSeq(y) = a[i] \o FlattenSeq(Drop(a, i))
  BY <1>1, FromIs DEF k
<1>5. x \o y = a
  BY <1>1, TakeAndDrop
<1> HIDE DEF x, y
<1>6. FlattenSeq(x \o y) = FlattenSeq(x) \o FlattenSeq(y)
  BY <1>2, <1>3, FlattenBoth DEF Text
<1>7. FlattenSeq(a) = Cat(FlattenSeq(x), Cat(a[i], FlattenSeq(Drop(a, i))))
  BY <1>4, <1>5, <1>6 DEF Cat
<1>8. FlattenSeq(x) \in Text /\ FlattenSeq(Drop(a, i)) \in Text /\ a[i] \in Text
  BY <1>2, <1>3, FlatText
<1> QED
  BY <1>7, <1>8 DEF x, k

\* What comes before the same text is the same.
LEMMA CancelRight ==
  ASSUME NEW a \in Text, NEW b \in Text, NEW c \in Text, Cat(a, c) = Cat(b, c)
  PROVE  a = b
BY ConcatSimplifications DEF Cat, Text

\* What is left behind position i.
LEMMA DropGives ==
  ASSUME NEW E, NEW a \in Seq(E), NEW i \in 1 .. Len(a)
  PROVE  /\ Drop(a, i) \in Seq(E) /\ Len(Drop(a, i)) = Len(a) - i
         /\ \A j \in 1 .. Len(a) - i : Drop(a, i)[j] = a[i + j]
<1>1. PICK k \in Nat : k = i /\ k <= Len(a)
  OBVIOUS
<1>2. /\ Drop(a, k) \in Seq(E) /\ Len(Drop(a, k)) = (IF k <= Len(a) THEN Len(a) - k ELSE 0)
      /\ \A j \in 1 .. Len(a) - k : Drop(a, k)[j] = a[k + j]
  BY DropIs
<1> QED
  BY <1>1, <1>2

\* What the arguments are when the one that ended the options is left out.
LEMMA OriginalIs ==
  ASSUME NEW a \in Seq(Text), NEW b \in Seq(Text), NEW i \in 1 .. Len(a), Len(b) = Len(a),
         b[i] = <<>>, \A j \in 1 .. Len(a) : j # i => b[j] = a[j]
  PROVE  FlattenSeq(b) = Cat(FlattenSeq(Take(a, i - 1)), FlattenSeq(Drop(a, i)))
<1>1. Len(a) \in Nat /\ i \in Nat /\ i \in 1 .. Len(b) /\ i - 1 \in 0 .. Len(a) /\ i - 1 \in 0 .. Len(b)
  OBVIOUS
<1> DEFINE k == i - 1
           x == Take(a, k)
           y == Take(b, k)
           u == Drop(a, i)
           v == Drop(b, i)
<1>2. k \in Nat /\ k < i /\ k \in 0 .. Len(a) /\ k \in 0 .. Len(b)
  BY <1>1
<1> HIDE DEF k
<1>3. x \in Seq(Text) /\ Len(x) = k /\ \A j \in 1 .. k : x[j] = a[j]
  BY <1>2, TakeIs
<1>4. y \in Seq(Text) /\ Len(y) = k /\ \A j \in 1 .. k : y[j] = b[j]
  BY <1>2, TakeIs
<1>5. u \in Seq(Text) /\ Len(u) = Len(a) - i /\ \A j \in 1 .. Len(a) - i : u[j] = a[i + j]
  BY <1>1, DropGives
<1>6. v \in Seq(Text) /\ Len(v) = Len(b) - i /\ \A j \in 1 .. Len(b) - i : v[j] = b[i + j]
  BY <1>1, DropGives
<1> HIDE DEF x, y, u, v
<1>7. y = x
  <2>1. ASSUME NEW j \in 1 .. Len(y) PROVE y[j] = x[j]
    <3>1. j \in 1 .. k /\ j \in 1 .. Len(a) /\ j # i
      BY <1>1, <1>2, <1>4
    <3> QED
      BY <1>3, <1>4, <3>1
  <2>2. Len(y) = Len(x)
    BY <1>3, <1>4
  <2> QED
    BY <1>3, <1>4, <2>1, <2>2, SeqEqual
<1>8. v = u
  <2>1. ASSUME NEW j \in 1 .. Len(v) PROVE v[j] = u[j]
    <3>1. j \in 1 .. Len(a) - i /\ j \in 1 .. Len(b) - i /\ i + j \in 1 .. Len(a) /\ i + j # i
      BY <1>1, <1>6
    <3> QED
      BY <1>5, <1>6, <3>1
  <2>2. Len(v) = Len(u)
    BY <1>5, <1>6
  <2> QED
    BY <1>5, <1>6, <2>1, <2>2, SeqEqual
<1>9. FlattenSeq(b) = Cat(FlattenSeq(y), Cat(b[i], FlattenSeq(v)))
  BY <1>1, Around DEF y, v, k
<1>10. Cat(<<>>, FlattenSeq(u)) = FlattenSeq(u)
  BY <1>5, FlatText, CatIs
<1>11. FlattenSeq(b) = Cat(FlattenSeq(x), FlattenSeq(u))
  BY <1>7, <1>8, <1>9, <1>10
<1> QED
  BY <1>11 DEF x, u, k

\* The arguments behind the position are as given.
LEMMA BehindKept ==
  ASSUME TypeOK, ArgsOK, index <= Len(argv)
  PROVE  Drop(argv, index) = Drop(input.argv, index)
<1>1. /\ argv \in Seq(Text) /\ input.argv \in Seq(Text) /\ Len(input.argv) = Len(argv)
      /\ index \in Nat /\ Len(argv) \in Nat
  BY StateIs DEF TypeOK
<1> DEFINE u == Drop(argv, index)
           v == Drop(input.argv, index)
<1>2. u \in Seq(Text) /\ Len(u) = Len(argv) - index /\ \A j \in 1 .. Len(argv) - index : u[j] = argv[index + j]
  BY <1>1, DropIs
<1>3. /\ v \in Seq(Text) /\ Len(v) = Len(argv) - index
      /\ \A j \in 1 .. Len(argv) - index : v[j] = input.argv[index + j]
  <2>1. PICK b \in Seq(Text) : b = input.argv
    BY <1>1
  <2>2. Drop(b, index) \in Seq(Text) /\ Len(Drop(b, index)) = Len(b) - index
        /\ \A j \in 1 .. Len(b) - index : Drop(b, index)[j] = b[index + j]
    BY <1>1, <2>1, DropIs
  <2> QED
    BY <1>1, <2>1, <2>2
<1> HIDE DEF u, v
<1>4. ASSUME NEW j \in 1 .. Len(u) PROVE u[j] = v[j]
  <2>1. j \in 1 .. Len(argv) - index /\ index + j \in 1 .. Len(argv) /\ index + j > index
    BY <1>1, <1>2
  <2>2. argv[index + j] = input.argv[index + j]
    BY <2>1 DEF ArgsOK
  <2> QED
    BY <1>2, <1>3, <2>1, <2>2
<1>5. u = v
  BY <1>2, <1>3, <1>4, SeqEqual
<1> QED
  BY <1>5 DEF u, v

\* A "--" whose arguments are packed is told with them.
LEMMA PackStep ==
  ASSUME TypeOK, DashDash, p.pack
  PROVE  Sum(argv', index', out') = Sum(argv, index, out)
<1>1. /\ index \in 1 .. Len(argv) /\ Str \in Text /\ index' = Len(argv) + 1 /\ argv' = argv
      /\ argv \in Seq(Text) /\ out \in Seq(Result) /\ Str = argv[index] /\ index \in Nat /\ Len(argv) \in Nat
  BY DashDashIs, StateIs, SMTT(30) DEF TypeOK, Str
<1> DEFINE r == Plain(InputId, Str, Drop(argv, index), index)
           F == FlattenSeq(Drop(argv, index))
<1>2. PICK rs \in Seq(Result) : out' = out \o rs /\ Len(rs) = 1 /\ rs[1] = r
  BY DashDashIs
<1>3. r \in Result
  <2>1. 1 \in 1 .. Len(rs)
    BY <1>2
  <2>2. rs[1] \in Result
    BY <2>1
  <2> HIDE DEF r
  <2> QED
    BY <1>2, <2>2
<1>4. r.index = index /\ r.spelling = Str /\ r.values = Drop(argv, index)
  BY DEF Plain
<1> HIDE DEF r
<1>5. out' = Append(out, r)
  <2>1. rs = <<r>>
    BY <1>2
  <2> QED
    BY <1>1, <1>2, <1>3, <2>1, AppendIsConcat
<1>6. ToldOf(out') = Cat(ToldOf(out), Cat(Left(out, index, Str), F))
  <2>1. ToldOf(Append(out, r)) = Cat(ToldOf(out), Cat(Left(out, r.index, r.spelling), FlattenSeq(r.values)))
    BY <1>1, <1>3, ToldOne
  <2> QED
    BY <1>4, <1>5, <2>1
<1>7. UnreadOf(argv, index, out) = Cat(Left(out, index, Str), F)
  <2>1. ~(index > Len(argv))
    BY <1>1
  <2> QED
    BY <1>1, <2>1 DEF UnreadOf
<1>8. UnreadOf(argv', index', out') = <<>>
  <2>1. Len(argv) + 1 > Len(argv)
    BY <1>1
  <2> QED
    BY <1>1, <2>1 DEF UnreadOf
<1>9. Cat(ToldOf(out'), <<>>) = ToldOf(out')
  <2>1. out' \in Seq(Result)
    BY <1>1, <1>3, <1>5, AppendProperties
  <2>2. ToldOf(out') \in Text
    BY <2>1, SaidsAre
  <2> QED
    BY <2>2, CatIs
<1> HIDE DEF F
<1> QED
  BY <1>6, <1>7, <1>8, <1>9 DEF Sum

\* What follows a "--" that is not packed is told without it.
LEMMA ApartStep ==
  ASSUME TypeOK, ArgsOK, DashDash, ~p.pack
  PROVE  Sum(argv', index', out') = NoCommas(Cat(ToldOf(out), FlattenSeq(Drop(argv, index))))
<1>1. /\ index \in 1 .. Len(argv) /\ index' = Len(argv) + 1 /\ argv' = argv
      /\ argv \in Seq(Text) /\ out \in Seq(Result) /\ index \in Nat /\ Len(argv) \in Nat
  BY DashDashIs, StateIs DEF TypeOK
<1>2. PICK rs \in Seq(Result) :
        /\ out' = out \o rs /\ Len(rs) = Len(argv) - index
        /\ \A k \in 1 .. Len(rs) : rs[k] = Plain(InputId, argv[index + k], <<>>, index + k)
  BY DashDashIs
<1>3. PICK n \in Nat : n = Len(out)
  BY <1>1
<1> DEFINE S == Drop(argv, index)
           qs == out \o rs
<1>4. S \in Seq(Text) /\ Len(S) = Len(argv) - index /\ \A j \in 1 .. Len(argv) - index : S[j] = argv[index + j]
  BY <1>1, DropGives
<1>5. qs \in Seq(Result) /\ Len(qs) = n + Len(rs)
  BY <1>1, <1>3, BehindIs
<1>6. (\A k \in 1 .. n : qs[k] = out[k]) /\ \A k \in 1 .. Len(rs) : qs[n + k] = rs[k]
  BY <1>1, <1>3, BehindIs
<1> HIDE DEF S, qs
<1>7. ASSUME NEW j \in 1 .. Len(S) PROVE SaidOf(qs, n + j) = S[j]
  <2>1. j \in 1 .. Len(rs) /\ j \in 1 .. Len(argv) - index /\ j \in Nat
    BY <1>2, <1>4
  <2>2. /\ qs[n + j].index = index + j /\ qs[n + j].spelling = argv[index + j] /\ qs[n + j].values = <<>>
    BY <1>2, <1>6, <2>1 DEF Plain
  <2>3. n + j > 1 => qs[(n + j) - 1].index # index + j
    <3> SUFFICES ASSUME n + j > 1 PROVE qs[(n + j) - 1].index # index + j
      OBVIOUS
    <3>1. CASE j = 1
      <4>1. n \in 1 .. n /\ (n + j) - 1 = n
        BY <3>1
      <4>2. out[n].index \in 1 .. Len(argv) /\ out[n].index <= index
        BY <1>3, <4>1 DEF ArgsOK
      <4>3. qs[(n + j) - 1].index = out[n].index
        BY <1>6, <4>1
      <4> QED
        BY <1>1, <3>1, <4>2, <4>3
    <3>2. CASE j # 1
      <4> DEFINE h == j - 1
      <4>1. h \in 1 .. Len(rs) /\ (n + j) - 1 = n + h /\ index + h # index + j
        BY <1>1, <2>1, <3>2
      <4> HIDE DEF h
      <4>2. qs[n + h].index = index + h
        BY <1>2, <1>6, <4>1 DEF Plain
      <4> QED
        BY <4>1, <4>2
    <3> QED
      BY <3>1, <3>2
  <2>4. SaidOf(qs, n + j) = Cat(argv[index + j], FlattenSeq(<<>>))
    BY <2>2, <2>3 DEF SaidOf
  <2>5. S[j] = argv[index + j] /\ S[j] \in Text
    BY <1>4, <2>1
  <2> QED
    BY <2>4, <2>5, FlattenEmpty, CatIs
<1>8. ToldOf(qs) = Cat(ToldOf(out), FlattenSeq(S))
  <2>1. Len(qs) = n + Len(S)
    BY <1>2, <1>4, <1>5
  <2>2. PICK os \in Seq(Result) : os = out
    BY <1>1
  <2>3. n = Len(os) /\ \A k \in 1 .. n : qs[k] = os[k]
    BY <1>3, <1>6, <2>2
  <2>4. ToldOf(qs) = Cat(ToldOf(os), FlattenSeq(S))
    BY <1>4, <1>5, <1>7, <2>1, <2>3, ToldGrows, ZenonT(30)
  <2> QED
    BY <2>2, <2>4
<1>9. UnreadOf(argv', index', out') = <<>>
  <2>1. Len(argv) + 1 > Len(argv)
    BY <1>1
  <2> QED
    BY <1>1, <2>1 DEF UnreadOf
<1>10. Cat(ToldOf(qs), <<>>) = ToldOf(qs)
  BY <1>5, SaidsAre, CatIs
<1>11. out' = qs
  BY <1>2 DEF qs
<1> QED
  BY <1>8, <1>9, <1>10, <1>11 DEF Sum, S

\* The "--" that ends the options.
LEMMA EndStep ==
  ASSUME TypeOK, ArgsOK, DashDash, input.argv[index] = <<"-", "-">>,
         Sum(argv, index, out) = NoCommas(FlattenSeq(input.argv))
  PROVE  Sum(argv', index', out') = NoCommas(Original')
<1>1. /\ index \in 1 .. Len(argv) /\ argv' = argv /\ input' = input /\ stop' = index
      /\ argv \in Seq(Text) /\ input.argv \in Seq(Text) /\ Len(input.argv) = Len(argv)
      /\ out \in Seq(Result) /\ index \in Nat /\ Len(argv) \in Nat /\ index <= Len(argv)
  BY DashDashIs, StateIs DEF TypeOK
<1>2. p' = p
  BY <1>1 DEF p
<1>3. Str = <<"-", "-">> /\ Str = argv[index]
  BY DEF DashDash, IsDashDash, Str
<1> DEFINE b == [k \in DOMAIN argv |-> IF k = index /\ ~p.pack THEN <<>> ELSE input.argv[k]]
<1>4. Original' = FlattenSeq(b)
  BY <1>1, <1>2 DEF Original
<1>5. DOMAIN argv = 1 .. Len(argv) /\ DOMAIN input.argv = 1 .. Len(argv)
  BY <1>1
<1>6. b \in Seq(Text) /\ Len(b) = Len(argv)
  <2>1. ASSUME NEW k \in 1 .. Len(argv)
        PROVE (IF k = index /\ ~p.pack THEN <<>> ELSE input.argv[k]) \in Text
    <3>1. input.argv[k] \in Text
      BY <1>1
    <3>2. <<>> \in Text
      BY DEF Text
    <3> QED
      BY <3>1, <3>2
  <2> QED
    BY <1>1, <1>5, <2>1
<1>7. \A k \in 1 .. Len(argv) : b[k] = IF k = index /\ ~p.pack THEN <<>> ELSE input.argv[k]
  BY <1>5
<1> HIDE DEF b
<1>8. CASE p.pack
  <2>1. Sum(argv', index', out') = Sum(argv, index, out)
    BY <1>8, PackStep
  <2>2. b = input.argv
    BY <1>1, <1>6, <1>7, <1>8, SeqEqual
  <2> QED
    BY <1>4, <2>1, <2>2
<1>9. CASE ~p.pack
  <2> DEFINE T == ToldOf(out)
             A == FlattenSeq(Take(input.argv, index - 1))
             F == FlattenSeq(Drop(argv, index))
             D == input.argv[index]
  <2>1. Sum(argv', index', out') = NoCommas(Cat(T, F))
    BY <1>9, ApartStep
  <2>2. F = FlattenSeq(Drop(input.argv, index))
    BY <1>1, BehindKept
  <2>3. A \in Text /\ F \in Text /\ D \in Text /\ T \in Text
    BY <1>1, <2>2, Around, SaidsAre
  <2>4. FlattenSeq(input.argv) = Cat(A, Cat(D, F))
    BY <1>1, <2>2, Around
  <2>5. FlattenSeq(b) = Cat(A, F)
    <3>1. PICK a \in Seq(Text) : a = input.argv
      BY <1>1
    <3>2. /\ index \in 1 .. Len(a) /\ Len(b) = Len(a) /\ b[index] = <<>>
          /\ \A j \in 1 .. Len(a) : j # index => b[j] = a[j]
      BY <1>1, <1>6, <1>7, <1>9, <3>1
    <3>3. FlattenSeq(b) = Cat(FlattenSeq(Take(a, index - 1)), FlattenSeq(Drop(a, index)))
      BY <1>6, <3>2, OriginalIs
    <3> QED
      BY <2>2, <3>1, <3>3
  <2>6. UnreadOf(argv, index, out) = Cat(D, F)
    <3>1. ~Mid(out, index)
      <4> SUFFICES ASSUME Mid(out, index) PROVE FALSE
        OBVIOUS
      <4>1. Len(Str) <= 1
        BY <1>1, MidIs
      <4>2. Len(<<"-", "-">>) = 2
        OBVIOUS
      <4> QED
        BY <1>3, <4>1, <4>2
    <3>2. Left(out, index, argv[index]) = D
      BY <1>3, <3>1 DEF Left
    <3>3. ~(index > Len(argv))
      BY <1>1
    <3> HIDE DEF D
    <3> QED
      BY <3>2, <3>3 DEF UnreadOf
  <2> HIDE DEF T, A, F, D
  <2>7. NoCommas(Cat(T, Cat(D, F))) = NoCommas(Cat(A, Cat(D, F)))
    BY <2>4, <2>6 DEF Sum, T
  <2> DEFINE x == NoCommas(Cat(D, F))
             g == NoCommas(T)
             h == NoCommas(A)
  <2>8. Cat(D, F) \in Text
    BY <2>3, CatIs
  <2>9. x \in Text /\ g \in Text /\ h \in Text
    BY <2>3, <2>8, CatIs
  <2>10. Cat(g, x) = Cat(h, x)
    BY <2>3, <2>7, <2>8, CatIs
  <2>11. g = h
    <3> HIDE DEF x, g, h
    <3> QED
      BY <2>9, <2>10, CancelRight
  <2>12. NoCommas(Cat(T, F)) = Cat(g, NoCommas(F)) /\ NoCommas(Cat(A, F)) = Cat(h, NoCommas(F))
    BY <2>3, CatIs
  <2>13. NoCommas(Cat(T, F)) = NoCommas(Cat(A, F))
    <3> HIDE DEF g, h
    <3> QED
      BY <2>11, <2>12
  <2> QED
    BY <1>4, <2>1, <2>5, <2>13
<1> QED
  BY <1>8, <1>9

\* Until the options end, nothing is lost of what was given; then there is nothing
\* left to read.
Balanced ==
  /\ stop = 0 => Sum(argv, index, out) = NoCommas(FlattenSeq(input.argv))
  /\ stop # 0 => index > Len(argv)
                 /\ (input.argv[stop] = <<"-", "-">> => Sum(argv, index, out) = NoCommas(Original))

LEMMA BalancedFrom ==
  ASSUME TypeOK, Balanced, UNCHANGED <<input, stop>>, Sum(argv', index', out') = Sum(argv, index, out),
         \/ UNCHANGED <<argv, index>>
         \/ index <= Len(argv)
  PROVE  Balanced'
<1>1. CASE stop = 0
  BY <1>1 DEF Balanced
<1>2. CASE stop # 0
  <2>1. UNCHANGED <<argv, index>>
    BY <1>2, StateIs DEF Balanced, TypeOK
  <2>2. Original' = Original
    BY <2>1 DEF Original, p
  <2> QED
    BY <1>2, <2>1, <2>2 DEF Balanced
<1> QED
  BY <1>1, <1>2

LEMMA BalancedStep ==
  ASSUME TypeOK, SearchOK, ArgsOK, Balanced, [Next]_vars
  PROVE  Balanced'
<1>1. CASE UNCHANGED <<input, argv, index, out, stop>>
  <2>1. Sum(argv', index', out') = Sum(argv, index, out)
    BY <1>1
  <2> QED
    BY <1>1, <2>1, BalancedFrom
<1>2. CASE SkipEmpty
  <2>1. Sum(argv', index', out') = Sum(argv, index, out)
    BY <1>2, EmptyStep
  <2>2. index <= Len(argv) /\ UNCHANGED <<input, stop>>
    BY <1>2 DEF SkipEmpty
  <2> QED
    BY <2>1, <2>2, BalancedFrom
<1>3. CASE DashDash
  <2>1. /\ index \in 1 .. Len(argv) /\ index' = Len(argv) + 1 /\ argv' = argv /\ input' = input
        /\ stop' = index /\ index \in Nat /\ Len(argv) \in Nat
    BY <1>3, DashDashIs, StateIs
  <2>2. stop = 0 /\ stop' # 0 /\ index' > Len(argv')
    BY <2>1 DEF Balanced
  <2>3. input.argv[index] = <<"-", "-">> => Sum(argv', index', out') = NoCommas(Original')
    BY <1>3, <2>2, EndStep DEF Balanced
  <2> QED
    BY <2>1, <2>2, <2>3 DEF Balanced
<1>4. ASSUME NEW r, Takes(r), Sum(argv', index', out') = Sum(argv, index, out)
      PROVE  Balanced'
  <2>1. UNCHANGED <<input, stop>> /\ index <= Len(argv)
    BY <1>4, StateIs DEF Takes
  <2> QED
    BY <1>4, <2>1, BalancedFrom
<1>5. ASSUME NEW id, NEW s, Takes(Plain(id, s, <<>>, index)), s = Str, argv' = argv, index' = index + 1
      PROVE  Balanced'
  <2> DEFINE r == Plain(id, s, <<>>, index)
  <2>1. Takes(r) /\ r.spelling = Str /\ r.values = <<>>
    BY <1>5 DEF Plain
  <2> HIDE DEF r
  <2>2. Sum(argv', index', out') = Sum(argv, index, out)
    BY <1>5, <2>1, PlainStep
  <2> QED
    BY <1>4, <2>1, <2>2
<1>6. CASE TakeInput
  <2>1. argv' = argv /\ index' = index + 1
    BY <1>6 DEF TakeInput, Report
  <2> QED
    BY <1>5, <1>6, <2>1, TakeInputTakes
<1>7. CASE Accept
  BY <1>4, <1>7, AcceptStep, AcceptTakes
<1>8. CASE NotFound
  <2>1. argv' = argv /\ index' = index + 1
    BY <1>8 DEF NotFound, Report
  <2> QED
    BY <1>5, <1>8, <2>1, NotFoundTakes
<1>9. CASE UnknownWhole
  <2>1. argv' = argv /\ index' = index + 1
    BY <1>9 DEF UnknownWhole, Report
  <2> QED
    BY <1>5, <1>9, <2>1, UnknownWholeTakes
<1>10. CASE TakeLetter
  <2> DEFINE r == Accepted(fallback, Take(Str, 2), <<>>, index)
  <2>1. Takes(r)
    BY <1>10, TakeLetterTakes
  <2>2. r.spelling = Take(Str, 2) /\ r.values = <<>>
    BY DEF Accepted, Plain
  <2>3. CutLetter /\ index' = index /\ Exhausted /\ fallback # 0
    BY <1>10 DEF TakeLetter, Report
  <2>4. Len(Str) > 1
    BY <2>3, ExhaustedIs
  <2> HIDE DEF r
  <2>5. Sum(argv', index', out') = Sum(argv, index, out)
    BY <2>1, <2>2, <2>3, <2>4, LetterStep
  <2> QED
    BY <1>4, <2>1, <2>5
<1>11. CASE UnknownLetter
  <2> DEFINE r == Plain(UnknownId, Take(Str, 2), <<>>, index)
  <2>1. Takes(r)
    BY <1>11, UnknownLetterTakes
  <2>2. r.spelling = Take(Str, 2) /\ r.values = <<>>
    BY DEF Plain
  <2>3. CutLetter /\ index' = index /\ Len(Str) > 1
    BY <1>11 DEF UnknownLetter, Report
  <2> HIDE DEF r
  <2>4. Sum(argv', index', out') = Sum(argv, index, out)
    BY <2>1, <2>2, <2>3, LetterStep
  <2> QED
    BY <1>4, <2>1, <2>4
<1>12. BeginSearch \/ NextOption \/ Refuse \/ Missing \/ LonePrefix \/ Finish \/ UNCHANGED vars
       => UNCHANGED <<input, argv, index, out, stop>>
  BY DEF BeginSearch, NextOption, Refuse, Missing, LonePrefix, Finish, vars
<1> QED
  BY <1>1, <1>2, <1>3, <1>6, <1>7, <1>8, <1>9, <1>10, <1>11, <1>12 DEF Next

\* Nothing of the command line is lost, repeated or reordered, whatever the table,
\* the classes of the options and the arguments (parse_args and Option::accept):
\* what the results say and what is still to be read make up what was given.
THEOREM NothingIsLost == Spec => []Accounted
<1> DEFINE P == TypeOK /\ SearchOK /\ ArgsOK /\ Located
<1>1. Init => Balanced
  <2> SUFFICES ASSUME Init PROVE Balanced
    OBVIOUS
  <2>1. /\ argv = input.argv /\ index = 1 /\ out = <<>> /\ stop = 0 /\ argv \in Seq(Text)
    BY TypeInit DEF Init, TypeOK
  <2>2. ~Mid(out, 1) /\ Len(argv) \in Nat /\ 1 \in 1 .. Len(argv) + 1
    BY <2>1 DEF Mid
  <2>3. ToldOf(out) = <<>>
    <3>1. out \in Seq(Result)
      BY <2>1
    <3>2. SaidsOf(out) \in Seq(Text) /\ Len(SaidsOf(out)) = 0
      BY <2>1, <3>1, SaidsAre
    <3>3. SaidsOf(out) = <<>>
      BY <3>2
    <3> QED
      BY <3>3, FlattenEmpty DEF ToldOf
  <2>4. UnreadOf(argv, 1, out) = FlattenSeq(Drop(argv, 0))
    <3>1. UnreadOf(argv, 1, out) = FlattenSeq(Drop(argv, 1 - 1))
      BY <2>1, <2>2, Fresh
    <3> QED
      BY <3>1
  <2>5. Drop(argv, 0) = argv
    BY <2>1 DEF Drop
  <2>6. Cat(<<>>, FlattenSeq(argv)) = FlattenSeq(argv)
    BY <2>1, FlatText, CatIs
  <2> QED
    BY <2>1, <2>3, <2>4, <2>5, <2>6 DEF Balanced, Sum
<1>2. P /\ Balanced /\ [Next]_vars => Balanced'
  BY BalancedStep
<1>3. P /\ P' /\ Balanced => Accounted
  <2> SUFFICES ASSUME P, P', Balanced, stop # 0 => input.argv[stop] = <<"-", "-">>
               PROVE  NoCommas(Told \o Unread) = NoCommas(Original)
    BY DEF Accounted
  <2>1. NoCommas(Told \o Unread) = Sum(argv, index, out)
    BY ToldIs, UnreadIs DEF Sum, Cat
  <2>2. stop = 0 => Original = FlattenSeq(input.argv)
    <3> SUFFICES ASSUME stop = 0 PROVE Original = FlattenSeq(input.argv)
      OBVIOUS
    <3>1. DOMAIN argv = 1 .. Len(argv) /\ input.argv \in Seq(Text) /\ Len(input.argv) = Len(argv)
      BY DEF TypeOK
    <3> DEFINE b == [k \in DOMAIN argv |-> IF k = stop /\ ~p.pack THEN <<>> ELSE input.argv[k]]
    <3>2. b = [k \in 1 .. Len(input.argv) |-> input.argv[k]]
      BY <3>1
    <3>3. input.argv = [k \in 1 .. Len(input.argv) |-> input.argv[k]]
      BY <3>1
    <3>4. b = input.argv
      BY <3>2, <3>3
    <3> HIDE DEF b
    <3> QED
      BY <3>4 DEF Original, b
  <2> QED
    BY <2>1, <2>2 DEF Balanced
<1>4. Spec => []P
  BY Placed
<1> HIDE DEF P
<1> QED
  BY <1>1, <1>2, <1>3, <1>4, PTL DEF Spec
=============================================================================
