------------------------------ MODULE OptParser ------------------------------
(***************************************************************************)
(* The option parser: OptTable::parse_args over one argument vector, with  *)
(* the search through the option table and Option::accept.                 *)
(*                                                                         *)
(* A text is a sequence of symbols; a symbol is a character the parser     *)
(* looks at ("-", "/", "=", ",", the letter of a short option) or a word   *)
(* it only compares and copies.  Positions count from 1.  The id of an     *)
(* option is its position in the table.                                    *)
(***************************************************************************)
EXTENDS Integers, SequencesExt

CONSTANTS
    Symbols,   \* what texts are made of
    Lower,     \* [Symbols -> Symbols]: safe_tolower
    Rank,      \* [Symbols -> Nat]: the order of the characters
    Parsers,   \* the configured tables, by name
    Inputs     \* set of [parser: a name, argv: the arguments]

Text == Seq(Symbols)

\* The option classes: those that are never searched, and those that are.
Special == {"group", "input", "unknown"}
TakesJoined == {"joined", "commaJoined", "joinedOrSeparate", "joinedAndSeparate",
                "remainingArgsJoined"}
Kinds   == TakesJoined \union {"flag", "separate", "multiArg", "remainingArgs"}

\* OptTable::Info.  alias is the id of the option it stands for, or 0.
Info == [prefixes: Seq(Text), prefixed: Text, kind: Special \union Kinds,
         alias: Nat, aliasArgs: Seq(Text), visible: BOOLEAN, param: Nat,
         flags: SUBSET {"renderJoined", "renderSeparate"}]

Parser == [table: Seq(Info), grouped: BOOLEAN, tablegen: BOOLEAN,
           ignoreCase: BOOLEAN, dashDash: BOOLEAN, pack: BOOLEAN]

\* ParsedArgument.  added is unaliased_addition_values; unaliased is 0 when
\* the option is no alias.
Result == [id: Nat, spelling: Text, values: Seq(Text), index: Nat,
           unaliased: Nat, added: Seq(Text)]

ASSUME InputsAssumption ==
    /\ \A n \in DOMAIN Parsers : Parsers[n] \in Parser
    /\ Inputs \subseteq [parser: DOMAIN Parsers, argv: Seq(Text)]
    /\ "-" \in Symbols
    /\ \A x \in Symbols : Lower[x] \in Symbols /\ Rank[x] \in Nat
    /\ \A x, y \in Symbols : Rank[Lower[x]] = Rank[Lower[y]] => Lower[x] = Lower[y]

ASSUME SeparatorAssumption == {",", " "} \subseteq Symbols

VARIABLES
    input,     \* the parser and the arguments it was given; never changes
    argv,      \* the arguments, a group of short options being cut in place
    index,     \* the argument to look at next
    start,     \* while searching: the option to look at next
    fallback,  \* while searching: the flag that matches the first letter, or 0
    out,       \* the results handed to the callback
    stop,      \* where a "--" ended the options, or 0
    pc

vars == <<input, argv, index, start, fallback, out, stop, pc>>

p    == Parsers[input.parser]
t    == p.table
Str  == argv[index]
Ended == {"done", "missing", "threw"}
-----------------------------------------------------------------------------
(* The table. *)

Drop(s, n) == SubSeq(s, n + 1, Len(s))
Take(s, n) == SubSeq(s, 1, n)
Same(a, b) == a = b \/ (p.ignoreCase /\ Lower[a] = Lower[b])

\* What the constructor computes: where the searched options start, behind the
\* special ones, the ids of those, and the prefixes in use.
Built ==
    [n \in DOMAIN Parsers |->
        LET table == Parsers[n].table
            first == Min({k \in DOMAIN table : table[k].kind \notin Special} \union {Len(table) + 1})
            Id(kind) == Min({k \in 1 .. first - 1 : table[k].kind = kind} \union {Len(table) + 1})
        IN  [first |-> first, input |-> Id("input"), unknown |-> Id("unknown"),
             prefixes |-> UNION {ToSet(table[k].prefixes) : k \in first .. Len(table)}]]

\* The constructor asserts one input and one unknown option, before the others;
\* accept_internal is not defined for those that are never searched, and option
\* asserts that an alias is an option.
ASSUME TablesAssumption ==
    \A n \in DOMAIN Parsers :
        LET table == Parsers[n].table
            first == Built[n].first
        IN  /\ \A kind \in {"input", "unknown"} :
                  \E k \in 1 .. first - 1 :
                      table[k].kind = kind /\ \A l \in 1 .. first - 1 : table[l].kind = kind => l = k
            /\ \A k \in first .. Len(table) : table[k].kind \in Kinds
            /\ \A k \in DOMAIN table : table[k].alias <= Len(table)

First     == Built[input.parser].first
InputId   == Built[input.parser].input
UnknownId == Built[input.parser].unknown
Searchable == First .. Len(t)
PrefixesUnion == Built[input.parser].prefixes
PrefixChars   == UNION {ToSet(q) : q \in PrefixesUnion}

IsInput(s) == s = <<"-">> \/ \A q \in PrefixesUnion : ~IsPrefix(q, s)

\* Info::name: the length of the first prefix is cut off.
Name(o) == IF o.prefixes = <<>> THEN o.prefixed ELSE Drop(o.prefixed, Len(o.prefixes[1]))

\* match_opt: how much of s the option's prefix and name take, or 0.
Matches(o, s, q) ==
    /\ IsPrefix(q, s)
    /\ Len(q) + Len(Name(o)) <= Len(s)
    /\ \A j \in DOMAIN Name(o) : Same(s[Len(q) + j], Name(o)[j])
MatchSize(o, s) ==
    LET hits == {j \in DOMAIN o.prefixes : Matches(o, s, o.prefixes[j])}
    IN  IF hits = {} THEN 0
        ELSE Len(o.prefixes[Min(hits)]) + Len(Name(o))

\* str_cmp_opt_name < 0, case ignored: a name comes before its own prefixes.
Before(a, b) ==
    LET diff == {j \in DOMAIN a \intersect DOMAIN b : Lower[a[j]] # Lower[b[j]]}
    IN  IF diff = {} THEN Len(a) > Len(b)
        ELSE Rank[Lower[a[Min(diff)]]] < Rank[Lower[b[Min(diff)]]]

\* A name whose first character is none of the prefixes' ones.
Apart(name, chars) == name # <<>> => \A c \in chars : Lower[c] # Lower[name[1]]

\* A table for binary search is sorted, and ltrim_all_of cuts off no part of a
\* name; nor does a prefix of a comma-joined option hold a part of its name.
ASSUME SortedAssumption ==
    \A n \in DOMAIN Parsers :
        LET table == Parsers[n].table
            chars == UNION {ToSet(q) : q \in Built[n].prefixes}
        IN  \A k \in Built[n].first .. Len(table) :
                /\ Parsers[n].tablegen =>
                      /\ Apart(Name(table[k]), chars)
                      /\ \A j \in Built[n].first .. k : ~Before(Name(table[k]), Name(table[j]))
                /\ table[k].kind = "commaJoined" => Name(table[k]) # <<>> /\ Apart(Name(table[k]), chars)

\* ltrim_all_of: without the leading characters that occur in prefixes.
Trimmed(s) ==
    LET kept == {j \in DOMAIN s : s[j] \notin PrefixChars}
    IN  IF kept = {} THEN <<>> ELSE Drop(s, Min(kept) - 1)

\* Mutant: a name that is a prefix of the text counts as before it, as in the
\* usual order of strings.
LowerBoundPlain(s) ==
    First + Cardinality({k \in Searchable : Before(Name(t[k]), Trimmed(s))
                                             \/ IsPrefix(Name(t[k]), Trimmed(s))})

\* Where std::lower_bound begins in a table sorted by Before.
LowerBound(s) == First + Cardinality({k \in Searchable : Before(Name(t[k]), Trimmed(s))})
-----------------------------------------------------------------------------
(* Option::accept for option o on the first n symbols of argument i of a. *)

Exact(a, i, n) == Len(a[i]) = n
\* Mutant: the last argument does not count.
GivenBeforeLast(a, i) == i < Len(a) /\ a[i] # <<>>

Given(a, i) == i <= Len(a) /\ a[i] # <<>>

\* RemainingArgs take everything up to the end or an empty argument.
RestEnd(a, i) == Min({j \in i + 1 .. Len(a) : a[j] = <<>>} \union {Len(a) + 1})

\* Where parsing resumes, also when a value is missing.
Resume(a, o, i, n) ==
    IF o.kind \in TakesJoined
    THEN CASE o.kind \in {"joined", "commaJoined"} -> i + 1
           [] o.kind = "joinedAndSeparate" -> i + 2
           [] o.kind = "remainingArgsJoined" -> RestEnd(a, i)
           [] o.kind = "joinedOrSeparate" -> IF Exact(a, i, n) THEN i + 2 ELSE i + 1
    ELSE IF ~Exact(a, i, n) THEN i
    ELSE CASE o.kind = "flag" -> i + 1
           [] o.kind = "separate" -> i + 2
           [] o.kind = "multiArg" -> i + 1 + o.param
           [] o.kind = "remainingArgs" -> RestEnd(a, i)

Accepts(a, o, i, n) ==
    CASE o.kind \in {"joined", "commaJoined", "remainingArgsJoined"} -> TRUE
      [] o.kind = "joinedAndSeparate" -> Given(a, i + 1)
      [] o.kind = "joinedOrSeparate" -> ~Exact(a, i, n) \/ Given(a, i + 1)
      [] o.kind \in {"flag", "remainingArgs"} -> Exact(a, i, n)
      [] o.kind = "separate" -> Exact(a, i, n) /\ Given(a, i + 1)
      [] o.kind = "multiArg" -> Exact(a, i, n) /\ i + o.param <= Len(a)

\* The parts of s between separators, the empty ones left out: each ends where
\* a separator or nothing follows.
Parts(s, sep) ==
    LET Begin(i) == Min({b \in 1 .. i : \A j \in b .. i : s[j] # sep})
    IN  FlattenSeq([i \in 1 .. Len(s) |->
            IF s[i] # sep /\ (i = Len(s) \/ s[i + 1] = sep)
              THEN <<SubSeq(s, Begin(i), i)>> ELSE <<>>])

Values(a, o, i, n) ==
    LET joined == Drop(a[i], n)
        after == SubSeq(a, i + 1, Resume(a, o, i, n) - 1)
    IN  CASE o.kind = "flag" -> <<>>
          [] o.kind = "joined" -> <<joined>>
          [] o.kind = "commaJoined" -> Parts(joined, ",")
          [] o.kind \in {"joinedOrSeparate", "remainingArgsJoined"} /\ ~Exact(a, i, n) -> <<joined>> \o after
          [] o.kind = "joinedAndSeparate" -> <<joined>> \o after
          [] OTHER -> after

\* What an alias adds: the values of a flag's alias arguments, or one empty
\* value when it stands for a joined option and has none.
Added(o) ==
    IF o.alias = 0 \/ o.kind # "flag" THEN <<>>
    ELSE IF o.aliasArgs = <<>> /\ t[o.alias].kind = "joined" THEN <<<<>>>> ELSE o.aliasArgs

Plain(id, s, vals, i) ==
    [id |-> id, spelling |-> s, values |-> vals, index |-> i, unaliased |-> 0, added |-> <<>>]
\* Mutant: the position is taken after the value was consumed.
AcceptedAfter(k, s, vals, i) ==
    [Plain(k, s, vals, i + Len(vals)) EXCEPT !.unaliased = t[k].alias, !.added = Added(t[k])]

Accepted(k, s, vals, i) ==
    [Plain(k, s, vals, i) EXCEPT !.unaliased = t[k].alias, !.added = Added(t[k])]

\* Option::render_style: the flags come first, then the class.
ClassStyle(o) ==
    CASE o.kind \in Special -> "values"
      [] o.kind \in {"joined", "joinedAndSeparate"} -> "joined"
      [] o.kind = "commaJoined" -> "commaJoined"
      [] OTHER -> "separate"
RenderStyle(o) ==
    IF "renderJoined" \in o.flags THEN "joined"
    ELSE IF "renderSeparate" \in o.flags THEN "separate"
    ELSE ClassStyle(o)

\* Each of vals behind a separator.
Behind(sep, vals) == FlattenSeq([k \in DOMAIN vals |-> <<sep>> \o vals[k]])

\* Mutant: every option that can take a joined value is written joined.
RenderedJoinedOnly(o, res) ==
    res.spelling \o (IF o.kind \in TakesJoined THEN FlattenSeq(res.values)
                     ELSE Behind(" ", res.values))

\* ParsedArgument::to_arg_str: one stream, in which nothing is quoted.
Rendered(o, res) ==
    res.spelling \o
        (CASE RenderStyle(o) = "joined" -> res.values[1]
           [] RenderStyle(o) = "commaJoined" -> Behind(",", res.values)
           [] RenderStyle(o) = "separate" -> Behind(" ", res.values)
           [] RenderStyle(o) = "values" -> <<>>)
-----------------------------------------------------------------------------
(* parse_args. *)

Init ==
    /\ input \in Inputs
    /\ argv = input.argv
    /\ index = 1 /\ start = 1 /\ fallback = 0 /\ stop = 0
    /\ out = <<>>
    /\ pc = "args"

Report(results, next) ==
    /\ out' = out \o results
    /\ index' = next
    /\ pc' = "args"

\* Mutant: it is looked at again.
SkipEmptyInPlace ==
    /\ pc = "args" /\ index <= Len(argv) /\ Str = <<>>
    /\ UNCHANGED vars

\* An empty argument is ignored.
SkipEmpty ==
    /\ pc = "args" /\ index <= Len(argv) /\ Str = <<>>
    /\ index' = index + 1
    /\ UNCHANGED <<input, argv, start, fallback, out, stop, pc>>

IsDashDash == p.dashDash /\ Str = <<"-", "-">>

\* "--": what follows is positional, argument by argument or as one pack.
DashDash ==
    /\ pc = "args" /\ index <= Len(argv) /\ IsDashDash
    /\ LET rest == Drop(argv, index)
       IN  IF p.pack THEN Report(<<Plain(InputId, Str, rest, index)>>, Len(argv) + 1)
           ELSE Report([k \in 1 .. Len(rest) |-> Plain(InputId, rest[k], <<>>, index + k)],
                       Len(argv) + 1)
    /\ stop' = index
    /\ UNCHANGED <<input, argv, start, fallback>>

Begins == pc = "args" /\ index <= Len(argv) /\ Str # <<>> /\ ~IsDashDash

\* Mutant: the position moves on here and once more.
TakeInputTwice ==
    /\ Begins /\ IsInput(Str)
    /\ Report(<<Plain(InputId, Str, <<>>, index)>>, index + 2)
    /\ UNCHANGED <<input, argv, start, fallback, stop>>

TakeInput ==
    /\ Begins /\ IsInput(Str)
    /\ Report(<<Plain(InputId, Str, <<>>, index)>>, index + 1)
    /\ UNCHANGED <<input, argv, start, fallback, stop>>

BeginSearch ==
    /\ Begins /\ ~IsInput(Str)
    /\ start' = IF p.tablegen THEN LowerBound(Str) ELSE First
    /\ fallback' = 0
    /\ pc' = "search"
    /\ UNCHANGED <<input, argv, index, out, stop>>

(* One option of the table per step. *)
Opt  == t[start]
Size == MatchSize(Opt, Str)
Looking == pc = "search" /\ start <= Len(t)

\* The filter of the two parse_args overloads; a group is parsed without it.
Excluded(o) == ~p.grouped /\ ~o.visible

NextOption ==
    /\ Looking /\ (Size = 0 \/ Excluded(Opt))
    /\ start' = start + 1
    /\ UNCHANGED <<input, argv, index, fallback, out, stop, pc>>

Candidate == Looking /\ Size # 0 /\ ~Excluded(Opt)

Accept ==
    /\ Candidate /\ Accepts(argv, Opt, index, Size)
    /\ Report(<<Accepted(start, Take(Str, Size), Values(argv, Opt, index, Size), index)>>,
              Resume(argv, Opt, index, Size))
    /\ UNCHANGED <<input, argv, start, fallback, stop>>

\* The option does not take this argument; a flag of one letter may still
\* take its first letter.
Refuse ==
    /\ Candidate /\ ~Accepts(argv, Opt, index, Size) /\ Resume(argv, Opt, index, Size) = index
    /\ fallback' = IF p.grouped /\ Size = 2 /\ Opt.kind = "flag" THEN start ELSE fallback
    /\ start' = start + 1
    /\ UNCHANGED <<input, argv, index, out, stop, pc>>

\* Values are missing: parse_args returns index as missing_arg_index, and
\* MissingCount; the overload for results reports it.
MissingCount == Resume(argv, Opt, index, Size) - index - 1
Missing ==
    /\ Candidate /\ ~Accepts(argv, Opt, index, Size) /\ Resume(argv, Opt, index, Size) # index
    /\ pc' = "missing"
    /\ UNCHANGED <<input, argv, index, start, fallback, out, stop>>

(* No option took the argument. *)
Exhausted == pc = "search" /\ start > Len(t)

\* Without groups: a path, or unknown.
NotFound ==
    /\ Exhausted /\ ~p.grouped
    /\ Report(<<Plain(IF Str[1] = "/" THEN InputId ELSE UnknownId, Str, <<>>, index)>>, index + 1)
    /\ UNCHANGED <<input, argv, start, fallback, stop>>

\* Mutant: a letter is cut before the group is looked at again, too.
CutLetterTwice == argv' = [argv EXCEPT ![index] = <<"-">> \o Drop(Str, 3)]

\* "-abc" becomes "-bc".
CutLetter == argv' = [argv EXCEPT ![index] = <<"-">> \o Drop(Str, 2)]

\* In a group the first letter is a flag ...
TakeLetter ==
    /\ Exhausted /\ p.grouped /\ fallback # 0 /\ Str[3] # "="
    /\ Report(<<Accepted(fallback, Take(Str, 2), <<>>, index)>>, index)
    /\ CutLetter
    /\ UNCHANGED <<input, start, fallback, stop>>

\* ... or unknown ...
UnknownLetter ==
    /\ Exhausted /\ p.grouped /\ fallback = 0 /\ Len(Str) > 1 /\ Str[2] # "-"
    /\ Report(<<Plain(UnknownId, Take(Str, 2), <<>>, index)>>, index)
    /\ CutLetter
    /\ UNCHANGED <<input, start, fallback, stop>>

\* ... or the argument is unknown as a whole: "--long" or "-a=value".
UnknownWhole ==
    /\ Exhausted /\ p.grouped
    /\ \/ fallback # 0 /\ Str[3] = "="
       \/ fallback = 0 /\ Len(Str) > 1 /\ Str[2] = "-"
    /\ Report(<<Plain(UnknownId, Str, <<>>, index)>>, index + 1)
    /\ UNCHANGED <<input, argv, start, fallback, stop>>

\* A lone prefix other than "-" has no second character to cut: substr throws.
LonePrefix ==
    /\ Exhausted /\ p.grouped /\ fallback = 0 /\ Len(Str) = 1
    /\ pc' = "threw"
    /\ UNCHANGED <<input, argv, index, start, fallback, out, stop>>

Finish ==
    /\ pc = "args" /\ index > Len(argv)
    /\ pc' = "done"
    /\ UNCHANGED <<input, argv, index, start, fallback, out, stop>>

Next ==
    \/ SkipEmpty \/ DashDash \/ TakeInput \/ BeginSearch
    \/ NextOption \/ Accept \/ Refuse \/ Missing
    \/ NotFound \/ TakeLetter \/ UnknownLetter \/ UnknownWhole \/ LonePrefix
    \/ Finish

Spec == Init /\ [][Next]_vars
FairSpec == Spec /\ WF_vars(Next)
-----------------------------------------------------------------------------
(* Properties. *)

\* The state is well typed; an argument is only looked at where there is one.
TypeOK ==
    /\ input \in [parser: DOMAIN Parsers, argv: Seq(Text)]
    /\ argv \in Seq(Text) /\ Len(argv) = Len(input.argv)
    /\ index \in 1 .. Len(argv) + 1
    /\ start \in Nat \ {0} /\ fallback \in 0 .. Len(t)
    /\ out \in Seq(Result)
    /\ stop \in 0 .. Len(argv)
    /\ pc \in {"args", "search"} \union Ended
    /\ pc \in {"search", "missing", "threw"} => index <= Len(argv)

NoCommas(s) == FlattenSeq([k \in 1 .. Len(s) |-> IF s[k] = "," THEN <<>> ELSE <<s[k]>>])

\* A result of a group repeats the dash of the group.
InGroup(k) == k > 1 /\ out[k].index = out[k - 1].index
Told == FlattenSeq([k \in 1 .. Len(out) |->
                (IF InGroup(k) THEN Drop(out[k].spelling, 1) ELSE out[k].spelling)
                \o FlattenSeq(out[k].values)])
MidGroup == out # <<>> /\ index <= Len(argv) /\ out[Len(out)].index = index
Unread ==
    IF index > Len(argv) THEN <<>>
    ELSE (IF MidGroup THEN Drop(Str, 1) ELSE Str) \o FlattenSeq(Drop(argv, index))
Original == FlattenSeq([k \in DOMAIN argv |-> IF k = stop /\ ~p.pack THEN <<>> ELSE input.argv[k]])

\* Nothing of the command line is lost, repeated or reordered: what the results
\* say and what is still to be read make up the arguments given, but for the
\* "--" that ends the options, the commas of a comma-joined option and the dash
\* that an unknown last letter of a group leaves behind (parse_args; to_arg_str
\* relies on it to rebuild a command).  A "--" that is the rest of a group also
\* ends the options and is left out here.
Accounted ==
    (stop # 0 => input.argv[stop] = <<"-", "-">>) => NoCommas(Told \o Unread) = NoCommas(Original)

\* What there is to read of argument i when m letters of its group were cut.
Rest(i, m) == IF m = 0 THEN input.argv[i] ELSE <<"-">> \o Drop(input.argv[i], m + 1)

\* The text that result k was read from: each result before it about the same
\* argument has cut a letter.
ReadFrom(k) ==
    Rest(out[k].index, Cardinality({j \in 1 .. k - 1 : out[j].index = out[k].index}))

\* Every result points at the argument it came from: its spelling begins what
\* was left to read of that argument, only a group gives several results for
\* one argument, and positions never go back.
Located ==
    \A k \in DOMAIN out :
        /\ out[k].index \in DOMAIN argv
        /\ \A j \in 1 .. k - 1 : out[j].index <= out[k].index
        /\ InGroup(k) => p.grouped
        /\ IsPrefix(out[k].spelling, ReadFrom(k))

Untaken(o, s) ==
    LET size == MatchSize(o, s)
    IN  size = 0 \/ Excluded(o) \/ (size < Len(s) /\ o.kind \notin TakesJoined)
LetterFlag(o, s) == o.kind = "flag" /\ MatchSize(o, s) = 2

\* An argument is called unknown only if no visible option of the table would
\* take it, and a letter of a group only if, besides, no flag is that letter: the
\* binary search of a generated table skips no option that matches (OptTable's
\* lower_bound relies on a sorted table).
UnknownIsTrue ==
    \A k \in DOMAIN out : out[k].id = UnknownId =>
        /\ \A j \in Searchable : Untaken(t[j], ReadFrom(k))
        /\ \/ out[k].spelling = ReadFrom(k)
           \/ /\ p.grouped /\ out[k].spelling = Take(ReadFrom(k), 2)
              /\ \A j \in Searchable : ~LetterFlag(t[j], ReadFrom(k))

\* A missing argument is reported only for an option that lacks one of its
\* values: fewer arguments follow than it takes, or the value is empty.
MissingIsTrue ==
    pc = "missing" =>
        /\ MissingCount > 0
        /\ \E j \in index + 1 .. index + MissingCount : j > Len(argv) \/ argv[j] = <<>>

\* A stream without quotes can hold it: there is no blank in it, nor an empty
\* value between two blanks.
Writable(o, res) ==
    /\ \A s \in {res.spelling} \union ToSet(res.values) : " " \notin ToSet(s)
    /\ RenderStyle(o) = "separate" => <<>> \notin ToSet(res.values)

\* An option that a result was written out for takes the words of what was
\* written, and finds the same values in them (to_arg_str: "it has the same
\* meaning according to the table").  Left out are: a result with a blank or,
\* between blanks, an empty value, which a stream without quotes does not keep;
\* an option whose flags ask for another style than its class has; the classes
\* that are written without their values (input, with what a "--" packs; unknown)
\* or without the second of them (joined and separate).
RenderKeepsMeaning ==
    \A k \in DOMAIN out :
        LET o == t[out[k].id]
            w == Parts(Rendered(o, out[k]), " ")
            n == MatchSize(o, w[1])
        IN  /\ o.kind \in Kinds \ {"joinedAndSeparate"}
            /\ RenderStyle(o) = ClassStyle(o)
            /\ Writable(o, out[k])
            => n # 0 /\ Accepts(w, o, 1, n) /\ Values(w, o, 1, n) = out[k].values

\* Parsing ends: a group loses a letter whenever its argument is looked at
\* again (parse_one_arg_grouped leaves index where it is).
Terminates == <>(pc \in Ended)

\* The assertion of internal_parse_args, "Unexpected parser error.": a value is
\* missing only at the end of the arguments.
MissingIsLast == pc = "missing" => index + MissingCount >= Len(argv)
==============================================================================
