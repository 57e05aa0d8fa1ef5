------------------------------- MODULE Patterns -------------------------------
(***************************************************************************)
(* Pattern matching of elune's string library (lstrlib.c): find, match,    *)
(* gmatch and gsub.                                                        *)
(*                                                                         *)
(* A string is a sequence of characters, numbers above 0, at places from 1 *)
(* on.  A pattern is a sequence of items:                                  *)
(*   <<"one", set, rep>>  a character class, repeated as in ? * + - or not *)
(*   <<"(">>  <<"()">>  <<")">>  captures, the second one of a position    *)
(*   <<"%", i>>  the i-th capture again       <<"%b", b, e>>  balanced     *)
(*   <<"%f", set>>  a frontier                <<"$">>  the end             *)
(* A leading ^ is `anchor' of the search.  The captures of a MatchState    *)
(* are passed along and given back as the code leaves them.                *)
(***************************************************************************)
EXTENDS Integers, Sequences, FiniteSets, SequencesExt

CONSTANTS Subjects, Patterns,
          Replacements,  \* of gsub: sequences of characters and <<"%", i>>
          MaxCaptures    \* LUA_MAXCAPTURES

VARIABLE search

NoMatch == 0
Error == -1
Unfinished == -1
Position == -2

Result(at, caps) == [at |-> at, caps |-> caps]
End(x) == Len(x.str) + 1
CharAt(x, s) == IF s \in DOMAIN x.str THEN x.str[s] ELSE 0
Fits(x, s, set) == s < End(x) /\ x.str[s] \in set

\* check_capture, less the error
Finished(caps, l) == l \in DOMAIN caps /\ caps[l].len # Unfinished

\* capture_to_close, or 0
ToClose(caps) ==
  LET open == {l \in DOMAIN caps : caps[l].len = Unfinished}
  IN IF open = {} THEN 0 ELSE CHOOSE l \in open : \A k \in open : k <= l

\* matchbalance, from s on with `cont' left to close
RECURSIVE Balance(_, _, _, _, _)
Balance(x, s, b, e, cont) ==
  IF s >= End(x) THEN NoMatch
  ELSE IF x.str[s] = e THEN IF cont = 1 THEN s + 1 ELSE Balance(x, s + 1, b, e, cont - 1)
  ELSE Balance(x, s + 1, b, e, IF x.str[s] = b THEN cont + 1 ELSE cont)
BalanceEnd(x, s, b, e) == IF CharAt(x, s) = b THEN Balance(x, s + 1, b, e, 1) ELSE NoMatch

\* %f of match: from a character outside the set to one inside; what is before
\* the first counts as a 0, as the end does
Frontier(x, s, set) == CharAt(x, s - 1) \notin set /\ CharAt(x, s) \in set

\* match_capture: a captured position is never there again
CaptureEnd(x, s, c) ==
  IF c.len >= 0 /\ End(x) - s >= c.len
     /\ SubSeq(x.str, c.init, c.init + c.len - 1) = SubSeq(x.str, s, s + c.len - 1)
  THEN s + c.len ELSE NoMatch

RECURSIVE Match(_, _, _, _), MaxExpand(_, _, _, _, _), MinExpand(_, _, _, _), Repeats(_, _, _)

Repeats(x, s, set) == IF Fits(x, s, set) THEN 1 + Repeats(x, s + 1, set) ELSE 0

\* max_expand: with n more characters, or as many fewer as it takes
NextFewer(r, x, s, i, n) ==
  IF r.at # NoMatch \/ n = 0 THEN r ELSE MaxExpand(x, s, i, r.caps, n - 1)
MaxExpand(x, s, i, caps, n) == NextFewer(Match(x, s + n, i + 1, caps), x, s, i, n)

\* min_expand
NextMore(r, x, s, i) ==
  IF r.at # NoMatch \/ ~Fits(x, s, x.pat[i][2]) THEN r ELSE MinExpand(x, s + 1, i, r.caps)
MinExpand(x, s, i, caps) == NextMore(Match(x, s, i + 1, caps), x, s, i)

\* start_capture, undone when the rest does not match
UndoStart(r) == IF r.at = NoMatch THEN Result(NoMatch, Front(r.caps)) ELSE r
StartCapture(x, s, i, caps, what) ==
  IF Len(caps) >= MaxCaptures THEN Result(Error, caps)
  ELSE UndoStart(Match(x, s, i + 1, Append(caps, [init |-> s, len |-> what])))

\* a variant with a slip in it: a closed capture stays closed
KeepClosed(r, l) == r

\* end_capture, undone when the rest does not match
UndoEnd(r, l) ==
  IF r.at = NoMatch THEN Result(NoMatch, [r.caps EXCEPT ![l].len = Unfinished]) ELSE r
CloseCapture(x, s, i, caps, l) ==
  IF l = 0 THEN Result(Error, caps)
  ELSE UndoEnd(Match(x, s, i + 1, [caps EXCEPT ![l].len = s - caps[l].init]), l)

\* `goto init' behind something that ends at s, if it does
GoOn(x, s, i, caps) == IF s = NoMatch THEN Result(NoMatch, caps) ELSE Match(x, s, i + 1, caps)

\* `?': with the character, or without
OrWithout(r, x, s, i) == IF r.at # NoMatch THEN r ELSE Match(x, s, i + 1, r.caps)

\* the items of a class in match
MatchOne(x, s, i, caps, set, rep) ==
  CASE rep = "*" -> MaxExpand(x, s, i, caps, Repeats(x, s, set))
    [] rep = "-" -> MinExpand(x, s, i, caps)
    [] rep = "+" -> IF Fits(x, s, set) THEN MaxExpand(x, s + 1, i, caps, Repeats(x, s + 1, set))
                    ELSE Result(NoMatch, caps)
    [] rep = "?" /\ Fits(x, s, set) -> OrWithout(Match(x, s + 1, i + 1, caps), x, s, i)
    [] rep = "?" /\ ~Fits(x, s, set) -> Match(x, s, i + 1, caps)
    [] rep = "" -> GoOn(x, IF Fits(x, s, set) THEN s + 1 ELSE NoMatch, i, caps)

\* match, of the items from i on at s
Match(x, s, i, caps) ==
  IF i > Len(x.pat) THEN Result(s, caps)
  ELSE CASE x.pat[i][1] = "one" -> MatchOne(x, s, i, caps, x.pat[i][2], x.pat[i][3])
         [] x.pat[i][1] = "(" -> StartCapture(x, s, i, caps, Unfinished)
         [] x.pat[i][1] = "()" -> StartCapture(x, s, i, caps, Position)
         [] x.pat[i][1] = ")" -> CloseCapture(x, s, i, caps, ToClose(caps))
         [] x.pat[i][1] = "%b" -> GoOn(x, BalanceEnd(x, s, x.pat[i][2], x.pat[i][3]), i, caps)
         [] x.pat[i][1] = "%f" ->
              GoOn(x, IF Frontier(x, s, x.pat[i][2]) THEN s ELSE NoMatch, i, caps)
         [] x.pat[i][1] = "%" ->
              IF Finished(caps, x.pat[i][2])
              THEN GoOn(x, CaptureEnd(x, s, caps[x.pat[i][2]]), i, caps) ELSE Result(Error, caps)
         [] x.pat[i][1] = "$" -> GoOn(x, IF s = End(x) THEN s ELSE NoMatch, i, caps)

\* push_onecapture and push_captures, for a match from s to before e
CaptureText(x, c) ==
  IF c.len = Position THEN <<"at", c.init>>
  ELSE <<"text", SubSeq(x.str, c.init, c.init + c.len - 1)>>
Whole(x, s, e) == <<"text", SubSeq(x.str, s, e - 1)>>
CapturesOf(x, s, e, caps) ==
  IF caps = <<>> THEN <<Whole(x, s, e)>> ELSE [i \in DOMAIN caps |-> CaptureText(x, caps[i])]
CapturesOk(caps) == \A i \in DOMAIN caps : caps[i].len # Unfinished

(***************************************************************************)
(* Searches.  `found' has the matches, `out' what gsub has put out.        *)
(***************************************************************************)

Found(x, s, r) == [from |-> s, to |-> r.at, captures |-> CapturesOf(x, s, r.at, r.caps)]

NoSearch == [op |-> "none", done |-> FALSE]
PatternsInit == search = NoSearch

StartSearch ==
  /\ search = NoSearch
  /\ \E str \in Subjects, pat \in Patterns, op \in {"find", "gmatch", "gsub"},
        anchor \in BOOLEAN, init \in 1 .. 2, repl \in Replacements :
       /\ init <= Len(str) + 1
       /\ op # "find" => init = 1
       /\ op = "gmatch" => ~anchor
       /\ op = "gsub" \/ repl = CHOOSE t \in Replacements : TRUE
       /\ search' = [op |-> op, x |-> [str |-> str, pat |-> pat], anchor |-> anchor, src |-> init,
                     init |-> init, repl |-> repl, found |-> <<>>, out |-> <<>>, done |-> FALSE,
                     error |-> FALSE]

SearchFails == search' = [search EXCEPT !.done = TRUE, !.error = TRUE]

\* an attempt of str_find_aux at src
FindAt(r) ==
  IF r.at = Error \/ (r.at # NoMatch /\ ~CapturesOk(r.caps)) THEN SearchFails
  ELSE search' =
    [search EXCEPT
       !.found = IF r.at = NoMatch THEN @ ELSE Append(@, Found(search.x, search.src, r)),
       !.done = r.at # NoMatch \/ search.src = End(search.x) \/ search.anchor,
       !.src = @ + 1]
FindStep ==
  /\ search.op = "find" /\ ~search.done
  /\ FindAt(Match(search.x, search.src, 1, <<>>))

\* an attempt of gmatch_aux at src, in one of its calls
GmatchAt(r) ==
  IF r.at = Error \/ (r.at # NoMatch /\ ~CapturesOk(r.caps)) THEN SearchFails
  ELSE search' =
    [search EXCEPT
       !.found = IF r.at = NoMatch THEN @ ELSE Append(@, Found(search.x, search.src, r)),
       !.src = IF r.at > @ THEN r.at ELSE @ + 1]
GmatchStep ==
  /\ search.op = "gmatch" /\ ~search.done
  /\ IF search.src <= End(search.x) THEN GmatchAt(Match(search.x, search.src, 1, <<>>))
     ELSE search' = [search EXCEPT !.done = TRUE]

\* add_s: %0 is the match, and %1 too when there are no captures
CaptureOk(t, caps) == t[2] = 0 \/ Finished(caps, t[2]) \/ (t[2] = 1 /\ caps = <<>>)
ReplacedBy(t, f) ==
  IF t[1] # "%" THEN <<t[2]>>
  ELSE IF t[2] = 0 THEN Whole(search.x, f.from, f.to)[2]
  ELSE IF f.captures[t[2]][1] = "at" THEN <<f.captures[t[2]]>> ELSE f.captures[t[2]][2]
RECURSIVE AddValue(_, _)
AddValue(repl, f) ==
  IF repl = <<>> THEN <<>> ELSE ReplacedBy(Head(repl), f) \o AddValue(Tail(repl), f)
ReplOk(caps) ==
  \A i \in DOMAIN search.repl : search.repl[i][1] = "%" => CaptureOk(search.repl[i], caps)

\* a variant with a slip in it: a character that is passed over is lost
LoseChar(r) ==
  [search EXCEPT
     !.found = IF r.at = NoMatch THEN @ ELSE Append(@, Found(search.x, search.src, r)),
     !.out = IF r.at = NoMatch THEN @
             ELSE @ \o AddValue(search.repl, Found(search.x, search.src, r)),
     !.src = IF r.at > @ THEN r.at ELSE IF @ < End(search.x) THEN @ + 1 ELSE @,
     !.done = search.anchor \/ (search.src = End(search.x))]

\* a round of the loop of str_gsub: the match is replaced, and after an empty
\* one or none a character goes over as it is
Substituted(r) ==
  LET s == search.src
      value == IF r.at = NoMatch THEN <<>> ELSE AddValue(search.repl, Found(search.x, s, r))
  IN [search EXCEPT
        !.found = IF r.at = NoMatch THEN @ ELSE Append(@, Found(search.x, s, r)),
        !.out = @ \o value \o
                  (IF r.at <= s /\ s < End(search.x) THEN <<search.x.str[s]>> ELSE <<>>),
        !.src = IF r.at > @ THEN r.at ELSE IF @ < End(search.x) THEN @ + 1 ELSE @,
        !.done = search.anchor \/ (r.at <= s /\ s = End(search.x))]
GsubAt(r) ==
  IF r.at = Error \/ (r.at # NoMatch /\ ~ReplOk(r.caps)) THEN SearchFails
  ELSE search' = Substituted(r)

\* what is left over goes over at the end
Rest(s) == [s EXCEPT !.out = @ \o SubSeq(s.x.str, s.src, Len(s.x.str)), !.src = End(s.x) + 1]
GsubStep ==
  /\ search.op = "gsub" /\ ~search.error
  /\ \/ ~search.done /\ GsubAt(Match(search.x, search.src, 1, <<>>))
     \/ search.done /\ search.src <= End(search.x) /\ search' = Rest(search)

PatternsNext == StartSearch \/ FindStep \/ GmatchStep \/ GsubStep

(***************************************************************************)
(* What a pattern means.  A way through its items is a place, captures and *)
(* the choices made on the way; the least choices are the preferred ones.  *)
(***************************************************************************)

Way(w, to, caps, choice) == [at |-> to, caps |-> caps, choices |-> Append(w.choices, choice)]

OnlyFits(x, s, e, set) == \A j \in s .. e - 1 : x.str[j] \in set
Spans(x, w, set, least, most) ==
  {e \in w.at + least .. End(x) : e - w.at <= most /\ OnlyFits(x, w.at, e, set)}
Times(w, ends, sign) == {Way(w, e, w.caps, sign * (e - w.at)) : e \in ends}

LastOpen(caps) ==
  CHOOSE l \in DOMAIN caps : caps[l].len = Unfinished
                             /\ \A k \in l + 1 .. Len(caps) : caps[k].len # Unfinished
Text(x, c) == SubSeq(x.str, c.init, c.init + c.len - 1)

\* a balanced text has as many of both, and more of the first before its end
Surplus(x, s, e, b, c) ==
  Cardinality({j \in s .. e - 1 : x.str[j] = b}) - Cardinality({j \in s .. e - 1 : x.str[j] = c})
BalancedEnds(x, s, b, c) ==
  {e \in s + 2 .. End(x) : CharAt(x, s) = b /\ Surplus(x, s, e, b, c) = 0
                           /\ \A j \in s + 1 .. e - 1 : Surplus(x, s, j, b, c) > 0}

WaysOn(x, w, t) ==
  CASE t[1] = "one" /\ t[3] = "" -> Times(w, Spans(x, w, t[2], 1, 1), 1)
    [] t[1] = "one" /\ t[3] = "?" -> Times(w, Spans(x, w, t[2], 0, 1), -1)
    [] t[1] = "one" /\ t[3] = "*" -> Times(w, Spans(x, w, t[2], 0, Len(x.str)), -1)
    [] t[1] = "one" /\ t[3] = "+" -> Times(w, Spans(x, w, t[2], 1, Len(x.str)), -1)
    [] t[1] = "one" /\ t[3] = "-" -> Times(w, Spans(x, w, t[2], 0, Len(x.str)), 1)
    [] t[1] = "(" -> {Way(w, w.at, Append(w.caps, [init |-> w.at, len |-> Unfinished]), 0)}
    [] t[1] = "()" -> {Way(w, w.at, Append(w.caps, [init |-> w.at, len |-> Position]), 0)}
    [] t[1] = ")" ->
         {Way(w, w.at, [w.caps EXCEPT ![LastOpen(w.caps)].len = w.at - w.caps[LastOpen(w.caps)].init], 0)}
    [] t[1] = "%b" -> Times(w, BalancedEnds(x, w.at, t[2], t[3]), 1)
    [] t[1] = "%f" -> {v \in {Way(w, w.at, w.caps, 0)} :
                         LET within == <<0>> \o x.str \o <<0>>
                         IN within[w.at] \notin t[2] /\ within[w.at + 1] \in t[2]}
    [] t[1] = "%" -> {Way(w, e, w.caps, 0) :
                        e \in {e \in w.at .. End(x) : w.caps[t[2]].len # Position
                                  /\ SubSeq(x.str, w.at, e - 1) = Text(x, w.caps[t[2]])}}
    [] t[1] = "$" -> {v \in {Way(w, w.at, w.caps, 0)} : w.at = End(x)}

RECURSIVE WaysFrom(_, _, _)
WaysFrom(x, ways, i) ==
  IF i > Len(x.pat) THEN ways
  ELSE WaysFrom(x, UNION {WaysOn(x, w, x.pat[i]) : w \in ways}, i + 1)
Ways(x, s) == WaysFrom(x, {[at |-> s, caps |-> <<>>, choices |-> <<>>]}, 1)

Preferred(v, w) ==
  \/ v = w
  \/ \E i \in DOMAIN v.choices : /\ v.choices[i] < w.choices[i]
                               /\ \A j \in 1 .. i - 1 : v.choices[j] = w.choices[j]
Best(ways) == CHOOSE v \in ways : \A w \in ways : Preferred(v, w)

\* the first matches at or after s, one after the other, at most `count'
RECURSIVE MatchesFrom(_, _, _), MatchesWith(_, _, _, _)
MatchesWith(x, s, count, ways) ==
  IF ways = {} THEN MatchesFrom(x, s + 1, count)
  ELSE <<Found(x, s, Best(ways))>>
       \o MatchesFrom(x, IF Best(ways).at > s THEN Best(ways).at ELSE s + 1, count - 1)
MatchesFrom(x, s, count) ==
  IF count = 0 \/ s > End(x) THEN <<>> ELSE MatchesWith(x, s, count, Ways(x, s))
Anchored(x, s, ways) == IF ways = {} THEN <<>> ELSE <<Found(x, s, Best(ways))>>
MeantMatch(s, from, count) ==
  IF s.anchor THEN Anchored(s.x, from, Ways(s.x, from)) ELSE MatchesFrom(s.x, from, count)

\* every capture is closed once, and only asked for afterwards
OpenBefore(pat, i) ==
  Cardinality({j \in 1 .. i - 1 : pat[j][1] = "("})
    - Cardinality({j \in 1 .. i - 1 : pat[j][1] = ")"})
Opening(pat, l) ==
  CHOOSE i \in DOMAIN pat : /\ pat[i][1] \in {"(", "()"}
                            /\ Cardinality({j \in 1 .. i : pat[j][1] \in {"(", "()"}}) = l
ClosedBefore(pat, i, o) ==
  pat[o][1] = "()" \/ \E j \in o + 1 .. i - 1 : OpenBefore(pat, j + 1) = OpenBefore(pat, o)
CapturesIn(pat, i) == Cardinality({j \in 1 .. i - 1 : pat[j][1] \in {"(", "()"}})
WellFormed(pat) ==
  /\ OpenBefore(pat, Len(pat) + 1) = 0
  /\ CapturesIn(pat, Len(pat) + 1) <= MaxCaptures
  /\ \A i \in DOMAIN pat :
       /\ pat[i][1] = ")" => OpenBefore(pat, i) > 0
       /\ pat[i][1] = "%" => /\ pat[i][2] \in 1 .. CapturesIn(pat, i)
                             /\ ClosedBefore(pat, i, Opening(pat, pat[i][2]))

(***************************************************************************)
(* string.find and string.match backtrack to exactly what the pattern says *)
(* (match, max_expand, min_expand, the undoing of start_capture and        *)
(* end_capture): the first place at or after init with a match, there the  *)
(* one that prefers more for * + ? and less for -, from left to right,     *)
(* with the captures of that way and of no other.  A pattern whose         *)
(* captures are not in order never gives a match.                          *)
(***************************************************************************)
Matched ==
  search.op = "find" /\ search.done =>
    IF WellFormed(search.x.pat)
    THEN ~search.error /\ search.found = MeantMatch(search, search.init, 1)
    ELSE search.found = <<>>

\* what is between the matches, and the replacements
RECURSIVE Replaced(_, _, _)
Replaced(s, from, i) ==
  IF i > Len(s.found) THEN SubSeq(s.x.str, from, Len(s.x.str))
  ELSE SubSeq(s.x.str, from, s.found[i].from - 1) \o AddValue(s.repl, s.found[i])
       \o Replaced(s, s.found[i].to, i + 1)

(***************************************************************************)
(* gmatch and gsub take the same matches from left to right, each from     *)
(* where the last one ended and a place further after an empty one         *)
(* (gmatch_aux, the loop of str_gsub), an anchored gsub only one; what     *)
(* gsub puts out has each of them replaced and loses nothing of what is    *)
(* between them, so that replacing by %0 gives the subject.                *)
(***************************************************************************)
AllMatches ==
  LET s == search
      over == s.done /\ (s.op = "gmatch" \/ (s.op = "gsub" /\ s.src > End(s.x)))
  IN over /\ ~s.error /\ WellFormed(s.x.pat) =>
       /\ s.found = MeantMatch(s, 1, End(s.x) + 1)
       /\ s.op = "gsub" => s.out = Replaced(s, 1, 1)
       /\ s.op = "gsub" /\ s.repl = <<<<"%", 0>>>> => s.out = s.x.str

\* What find, match, gmatch and gsub find and make of it is what the pattern
\* means.
PatternsMean == Matched /\ AllMatches
=============================================================================
