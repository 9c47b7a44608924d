----------------------------- MODULE AgentTools -----------------------------
(***************************************************************************)
(* The tools of the built-in agent: what an edit makes of a file, the diff *)
(* it reports, the queue of the mutations of one file, the output of a     *)
(* command that is shown, and the commands of the shell wrapper.           *)
(***************************************************************************)
EXTENDS Integers, Sequences, FiniteSets, SequencesExt, FiniteSetsExt

-----------------------------------------------------------------------------
(***************************************************************************)
(* What the agent's edit tool makes of a file and a list of replacements   *)
(* (simplest/internal/tools: editdiff.go, normalize.go).  All replacements *)
(* are matched against the same text; when one of them is found only in    *)
(* normalised text, all are, and lines they do not touch keep their bytes. *)
(* "Q" is a character that normalises to "q"; "s" a space, "n" a newline.  *)
(***************************************************************************)

CONSTANTS Letters, MaxContent, OldTexts, NewTexts

VARIABLES edit, outcome
editVars == <<edit, outcome>>

NoEdit == [content |-> <<>>, edits |-> <<>>]
NoOutcome == [at |-> "none", fuzzy |-> FALSE, base |-> <<>>, matched |-> <<>>, result |-> <<>>]
EditInit == edit = NoEdit /\ outcome = NoOutcome

-----------------------------------------------------------------------------
\* Where t occurs in s.
Places(s, t) == {i \in 1 .. Len(s) - Len(t) + 1 : SubSeq(s, i, i + Len(t) - 1) = t}

\* strings.Count: occurrences that do not overlap, and one more than the length for an empty text.
RECURSIVE CountFrom(_, _, _)
CountFrom(s, t, from) ==
    LET places == {i \in Places(s, t) : i >= from}
    IN  IF places = {} THEN 0 ELSE 1 + CountFrom(s, t, Min(places) + Len(t))
Count(s, t) == IF t = <<>> THEN Len(s) + 1 ELSE CountFrom(s, t, 1)

\* A space at the end of a line goes, a character becomes its plain form.
normalizeForFuzzyMatch(s) ==
    LET trailing(i) == s[i] = "s" /\ \A j \in i .. Len(s) : s[j] = "s" \/ \E k \in i .. j : s[k] = "n"
        kept == SetToSortSeq({i \in 1 .. Len(s) : ~trailing(i)}, LAMBDA i, j : i < j)
    IN  [k \in 1 .. Len(kept) |-> IF s[kept[k]] = "Q" THEN "q" ELSE s[kept[k]]]

fuzzyFindText(content, old) ==
    LET fc == normalizeForFuzzyMatch(content)
        fo == normalizeForFuzzyMatch(old)
    IN  CASE Places(content, old) # {} -> [found |-> TRUE, index |-> Min(Places(content, old)), length |-> Len(old), fuzzy |-> FALSE]
          [] Places(content, old) = {} /\ Places(fc, fo) # {} ->
                 [found |-> TRUE, index |-> Min(Places(fc, fo)), length |-> Len(fo), fuzzy |-> TRUE]
          [] OTHER -> [found |-> FALSE, index |-> 0, length |-> 0, fuzzy |-> FALSE]

countOccurrences(content, old) == Count(normalizeForFuzzyMatch(content), normalizeForFuzzyMatch(old))

-----------------------------------------------------------------------------
(* Lines with their endings, as spans of the text.                         *)
LineEnds(s) == {i \in 1 .. Len(s) : s[i] = "n"} \cup (IF s # <<>> THEN {Len(s)} ELSE {})
getLineSpans(s) ==
    LET ends == SetToSortSeq(LineEnds(s), LAMBDA i, j : i < j)
    IN  [k \in 1 .. Len(ends) |-> [first |-> IF k = 1 THEN 1 ELSE ends[k - 1] + 1, last |-> ends[k]]]
Line(s, spans, k) == SubSeq(s, spans[k].first, spans[k].last)
LinesOf(s, from, to) == LET spans == getLineSpans(s) IN FlattenSeq([k \in 1 .. to - from + 1 |-> Line(s, spans, from + k - 1)])

\* The lines a match touches; none when it is outside of them.
LineRange(spans, m) ==
    LET first == {k \in 1 .. Len(spans) : spans[k].first <= m.index /\ m.index <= spans[k].last}
        last == {k \in 1 .. Len(spans) : m.index + m.length - 1 <= spans[k].last}
    IN  IF first = {} \/ last = {} THEN <<>> ELSE <<Min(first), Max({Min(first), Min(last)})>>

\* From the last to the first, so that the places of the others stay.
Splicing(ms) == Reverse(ms)

applyReplacements(s, ms, offset) ==
    FoldLeft(LAMBDA t, m : LET i == m.index - offset
                           IN  SubSeq(t, 1, i - 1) \o m.new \o SubSeq(t, i + m.length, Len(t)), s, Splicing(ms))

SharesLine(gs, r) == gs # <<>> /\ r[1] <= Last(gs).last

Groups(spans, ms) ==
    FoldLeft(LAMBDA gs, m :
                 LET r == LineRange(spans, m)
                 IN  IF SharesLine(gs, r)
                     THEN Append(Front(gs), [Last(gs) EXCEPT !.last = Max({@, r[2]}), !.ms = Append(@, m)])
                     ELSE Append(gs, [first |-> r[1], last |-> r[2], ms |-> <<m>>]), <<>>, ms)

applyPreserving(original, base, ms) ==
    LET spans == getLineSpans(base)
        gs == Groups(spans, ms)
        before(k) == LinesOf(original, IF k = 1 THEN 1 ELSE gs[k - 1].last + 1, gs[k].first - 1)
    IN  FlattenSeq([k \in 1 .. Len(gs) |->
            before(k) \o applyReplacements(LinesOf(base, gs[k].first, gs[k].last), gs[k].ms, spans[gs[k].first].first - 1)])
        \o LinesOf(original, Last(gs).last + 1, Len(spans))

-----------------------------------------------------------------------------
(* ApplyEditsToNormalizedContent.                                          *)
Contents == UNION {[1 .. n -> Letters] : n \in 0 .. MaxContent}
Edits == {<<[old |-> o, new |-> w]>> : o \in OldTexts, w \in NewTexts}
Ask ==
    /\ outcome.at = "none"
    /\ \E content \in Contents, e \in Edits, f \in Edits \cup {<<>>} : edit' = [content |-> content, edits |-> e \o f]
    /\ outcome' = [NoOutcome EXCEPT !.at = "asked"]

Refuse(why) == outcome' = [outcome EXCEPT !.at = why]

Overlap(ms) == \E i \in 2 .. Len(ms) : ms[i - 1].index + ms[i - 1].length > ms[i].index

Apply ==
    LET n == Len(edit.edits)
        fuzzy == \E i \in 1 .. n : fuzzyFindText(edit.content, edit.edits[i].old).fuzzy
        base == IF fuzzy THEN normalizeForFuzzyMatch(edit.content) ELSE edit.content
        found == [i \in 1 .. n |-> fuzzyFindText(base, edit.edits[i].old)]
        all == [i \in 1 .. n |-> [index |-> found[i].index, length |-> found[i].length, new |-> edit.edits[i].new]]
        ms == SortSeq(all, LAMBDA x, y : x.index < y.index)
        spans == getLineSpans(base)
    IN  /\ outcome.at = "asked" /\ UNCHANGED edit
        /\ CASE \E i \in 1 .. n : ~found[i].found -> Refuse("not found")
             [] (\A i \in 1 .. n : found[i].found) /\ (\E i \in 1 .. n : countOccurrences(base, edit.edits[i].old) > 1) -> Refuse("not unique")
             [] (\A i \in 1 .. n : found[i].found /\ countOccurrences(base, edit.edits[i].old) <= 1) /\ Overlap(ms) -> Refuse("overlap")
             [] (\A i \in 1 .. n : found[i].found /\ countOccurrences(base, edit.edits[i].old) <= 1) /\ ~Overlap(ms) ->
                   IF fuzzy /\ (Len(spans) # Len(getLineSpans(edit.content)) \/ \E i \in 1 .. n : LineRange(spans, ms[i]) = <<>>)
                   THEN Refuse("lines differ")
                   ELSE LET result == IF fuzzy THEN applyPreserving(edit.content, base, ms) ELSE applyReplacements(base, ms, 0)
                        IN  IF result = edit.content THEN Refuse("no change")
                            ELSE outcome' = [at |-> "applied", fuzzy |-> fuzzy, base |-> base, matched |-> ms, result |-> result]

EditNext == Ask \/ Apply
EditSpec == EditInit /\ [][EditNext]_editVars

-----------------------------------------------------------------------------
\* What each place of the matched text becomes: the new text where a match starts, nothing inside
\* it, and itself elsewhere.
Becomes(i) ==
    LET starts == {m \in Range(outcome.matched) : m.index = i}
        inside == {m \in Range(outcome.matched) : m.index < i /\ i < m.index + m.length}
    IN  IF starts # {} THEN (CHOOSE m \in starts : TRUE).new ELSE IF inside # {} THEN <<>> ELSE <<outcome.base[i]>>
Touched(span) ==
    \E m \in Range(outcome.matched) : m.index <= span.last /\ span.first <= m.index + Max({m.length, 1}) - 1

\* The file is the matched text with every replacement in its place and nothing else changed, and
\* a line no replacement touches has the bytes it had (applyReplacementsPreservingUnchangedLines).
EditedInPlace ==
    outcome.at = "applied" =>
        LET spans == getLineSpans(outcome.base)
            was == getLineSpans(edit.content)
            line(k) == IF outcome.fuzzy /\ ~Touched(spans[k]) THEN Line(edit.content, was, k)
                       ELSE FlattenSeq([j \in 1 .. spans[k].last - spans[k].first + 1 |-> Becomes(spans[k].first + j - 1)])
        IN  outcome.result = FlattenSeq([k \in 1 .. Len(spans) |-> line(k)])

\* Every replacement that is applied has one place of its own: no two take the same characters, and
\* none could have gone elsewhere without overlapping itself, in a file that is more than spaces
\* (countOccurrences, the overlap check).
OnePlaceEach ==
    outcome.at = "applied" /\ normalizeForFuzzyMatch(outcome.base) # <<>> =>
        /\ \A i, j \in 1 .. Len(outcome.matched) : i < j => outcome.matched[i].index + outcome.matched[i].length <= outcome.matched[j].index
        /\ \A i \in 1 .. Len(outcome.matched) :
              LET m == outcome.matched[i]
                  t == SubSeq(outcome.base, m.index, m.index + m.length - 1)
              IN  \A p \in Places(outcome.base, t) : p < m.index + m.length

\* "It must be unique in the original file" (edit.go:22): the text occurs in one place.
UniqueInFile ==
    outcome.at = "applied" => \A i \in 1 .. Len(outcome.matched) :
        LET m == outcome.matched[i] IN Cardinality(Places(outcome.base, SubSeq(outcome.base, m.index, m.index + m.length - 1))) = 1

-----------------------------------------------------------------------------
(***************************************************************************)
(* The diff the agent's edit tool reports (simplest/internal/tools,        *)
(* diffrender.go): the matched lines by Myers' algorithm, the parts made   *)
(* of them, the numbered display with limited context, and the hunks of    *)
(* the patch.  A text is a sequence of lines; "" is a blank one.           *)
(***************************************************************************)

CONSTANTS Lines, MaxLength, Context, MaxMyersDistance

VARIABLES texts, report
diffVars == <<texts, report>>

NoReport == [matches |-> <<>>, parts |-> <<>>, display |-> <<>>, first |-> 0, hunks |-> <<>>]
DiffInit == texts = [old |-> <<>>, new |-> <<>>, at |-> "choose"] /\ report = NoReport

-----------------------------------------------------------------------------
(* myersMatches, on what remains between a common prefix and suffix.       *)
CommonPrefix(a, b) == Max({p \in 0 .. Len(a) : p <= Len(b) /\ SubSeq(a, 1, p) = SubSeq(b, 1, p)})
CommonSuffix(a, b) == CommonPrefix(Reverse(a), Reverse(b))

\* Which neighbour diagonal k is reached from after d differences: down when TRUE.
Down(v, d, k) == k = 0 - d \/ (k # d /\ v[k - 1] < v[k + 1])

RECURSIVE Slide(_, _, _, _)
Slide(a, b, x, y) == IF x < Len(a) /\ y < Len(b) /\ a[x + 1] = b[y + 1] THEN Slide(a, b, x + 1, y + 1) ELSE x

\* The diagonals k, k + 2, ... of the d-th round.
RECURSIVE Round(_, _, _, _, _)
Round(a, b, v, d, k) ==
    LET from == IF Down(v, d, k) THEN v[k + 1] ELSE v[k - 1] + 1
        x == Slide(a, b, from, from - k)
        w == [v EXCEPT ![k] = x]
    IN  IF x >= Len(a) /\ x - k >= Len(b) THEN [found |-> TRUE, v |-> w]
        ELSE IF k + 2 > d THEN [found |-> FALSE, v |-> w]
        ELSE Round(a, b, w, d, k + 2)

\* What each round started from, up to the one that found the end.
RECURSIVE Search(_, _, _, _)
Search(a, b, trace, d) ==
    LET r == Round(a, b, Last(trace), d, 0 - d)
    IN  IF r.found THEN trace ELSE Search(a, b, Append(trace, r.v), d + 1)

\* The pairs on the diagonal that ends at (x, y) and starts at fx.
Diagonal(fx, x, y) == [i \in 1 .. x - fx |-> <<fx + i, y - x + fx + i>>]

\* Back along the trace, from the last difference to the first.
RECURSIVE Back(_, _, _, _)
Back(trace, d, x, y) ==
    IF d = 0 THEN Diagonal(Max({0, x - y}), x, y)
    ELSE LET v == trace[d + 1]
             k == x - y
             down == Down(v, d, k)
             px == IF down THEN v[k + 1] ELSE v[k - 1]
             py == px - (IF down THEN k + 1 ELSE k - 1)
             fx == IF px <= x /\ py <= y THEN Max({px, x - (y - py)}) ELSE x
         IN  (IF fx = px THEN Back(trace, d - 1, fx, y - (x - fx) - 1) ELSE Back(trace, d - 1, fx - 1, y - (x - fx)))
             \o Diagonal(fx, x, y)

\* There are none when too much is left.
myersMatches(a, b) ==
    LET p == CommonPrefix(a, b)
        s == CommonSuffix(SubSeq(a, p + 1, Len(a)), SubSeq(b, p + 1, Len(b)))
        ca == SubSeq(a, p + 1, Len(a) - s)
        cb == SubSeq(b, p + 1, Len(b) - s)
        n == Len(ca) + Len(cb)
        trace == Search(ca, cb, <<[k \in (0 - n) .. n |-> 0]>>, 0)
        middle == IF n = 0 THEN <<>> ELSE Back(trace, Len(trace) - 1, Len(ca), Len(cb))
    IN  IF n > MaxMyersDistance THEN <<>> ELSE
        [i \in 1 .. p |-> <<i, i>>]
        \o [i \in 1 .. Len(middle) |-> <<middle[i][1] + p, middle[i][2] + p>>]
        \o [i \in 1 .. s |-> <<Len(a) - s + i, Len(b) - s + i>>]

-----------------------------------------------------------------------------
(* diffLines: before each match what is removed, then what is added.       *)
Tagged(tag, s) == [i \in 1 .. Len(s) |-> [tag |-> tag, line |-> s[i]]]
TaggedLines(a, b, matches) ==
    LET ends == Append(matches, <<Len(a) + 1, Len(b) + 1>>)
        piece(k) == LET i == IF k = 1 THEN 1 ELSE matches[k - 1][1] + 1
                        j == IF k = 1 THEN 1 ELSE matches[k - 1][2] + 1
                    IN  Tagged("-", SubSeq(a, i, ends[k][1] - 1)) \o Tagged("+", SubSeq(b, j, ends[k][2] - 1))
                        \o (IF k = Len(ends) THEN <<>> ELSE Tagged(" ", <<a[ends[k][1]]>>))
    IN  FlattenSeq([k \in 1 .. Len(ends) |-> piece(k)])

\* Lines in a row with one tag are one part.
Parts(tagged) ==
    FoldLeft(LAMBDA parts, t : IF parts # <<>> /\ Last(parts).tag = t.tag
                               THEN Append(Front(parts), [Last(parts) EXCEPT !.lines = Append(@, t.line)])
                               ELSE Append(parts, [tag |-> t.tag, lines |-> <<t.line>>]), <<>>, tagged)

-----------------------------------------------------------------------------
(* GenerateDiffString.                                                     *)
\* A part that is one blank line counts for nothing.
Shown(part) == IF part.lines = <<"">> THEN <<>> ELSE part.lines

Skipped(acc, n) == [acc EXCEPT !.old = @ + n, !.new = @ + n]

Emitted(acc, tag, lines) ==
    [acc EXCEPT !.out = @ \o [i \in 1 .. Len(lines) |-> [tag |-> tag, line |-> lines[i],
                                                         num |-> (IF tag = "+" THEN acc.new ELSE acc.old) + i - 1]],
                !.old = IF tag = "+" THEN @ ELSE @ + Len(lines),
                !.new = IF tag = "-" THEN @ ELSE @ + Len(lines)]

\* One part of the display: a change whole, what is unchanged only next to a change.
Display(parts, acc, i) ==
    LET part == parts[i]
        raw == Shown(part)
        leading == i > 1 /\ parts[i - 1].tag # " "
        trailing == i < Len(parts) /\ parts[i + 1].tag # " "
        head == Min({Len(raw), Context})
        first(n) == SubSeq(raw, 1, n)
        last(n) == SubSeq(raw, Len(raw) - n + 1, Len(raw))
    IN  CASE part.tag # " " -> Emitted([acc EXCEPT !.first = IF @ = 0 THEN acc.new ELSE @], part.tag, raw)
          [] part.tag = " " /\ leading /\ trailing /\ Len(raw) > 2 * Context ->
                 Emitted(Skipped(Emitted(acc, " ", first(Context)), Len(raw) - 2 * Context), " ", last(Context))
          [] part.tag = " " /\ leading /\ trailing /\ Len(raw) <= 2 * Context -> Emitted(acc, " ", raw)
          [] part.tag = " " /\ leading /\ ~trailing -> Skipped(Emitted(acc, " ", first(head)), Len(raw) - head)
          [] part.tag = " " /\ ~leading /\ trailing -> Emitted(Skipped(acc, Len(raw) - head), " ", last(head))
          [] OTHER -> Skipped(acc, Len(raw))

GenerateDiffString(parts) ==
    FoldLeft(LAMBDA acc, i : Display(parts, acc, i), [old |-> 1, new |-> 1, first |-> 0, out |-> <<>>], [i \in 1 .. Len(parts) |-> i])

-----------------------------------------------------------------------------
(* GenerateUnifiedPatch.                                                   *)

Near(end, i) == i <= end + 2 * Context

HunkGroups(tagged) ==
    FoldLeft(LAMBDA gs, i : IF tagged[i].tag = " " THEN gs
                            ELSE IF gs # <<>> /\ Near(Last(gs).last, i) THEN Append(Front(gs), [Last(gs) EXCEPT !.last = i])
                            ELSE Append(gs, [first |-> i, last |-> i]), <<>>, [i \in 1 .. Len(tagged) |-> i])

\* The lines of a hunk and its header: numbers are counted from one in each hunk.
Hunk(tagged, g) ==
    LET from == Max({1, g.first - Context})
        to == Min({Len(tagged), g.last + Context})
        body == SubSeq(tagged, from, to)
    IN  [from |-> from, to |-> to, oldStart |-> 1, newStart |-> 1,
         oldCount |-> Len(SelectSeq(body, LAMBDA t : t.tag # "+")), newCount |-> Len(SelectSeq(body, LAMBDA t : t.tag # "-"))]

GenerateUnifiedPatch(tagged) == LET gs == HunkGroups(tagged) IN [i \in 1 .. Len(gs) |-> Hunk(tagged, gs[i])]

-----------------------------------------------------------------------------
Texts == UNION {[1 .. n -> Lines] : n \in 0 .. MaxLength}
Choose ==
    /\ texts.at = "choose"
    /\ \E old, new \in Texts : texts' = [old |-> old, new |-> new, at |-> "matched"] /\ report' = [NoReport EXCEPT !.matches = myersMatches(old, new)]

\* EditTool.Execute reports the diff and the patch of what it wrote.
Report ==
    LET tagged == TaggedLines(texts.old, texts.new, report.matches)
        d == GenerateDiffString(Parts(tagged))
    IN  /\ texts.at = "matched"
        /\ texts' = [texts EXCEPT !.at = "reported"]
        /\ report' = [report EXCEPT !.parts = Parts(tagged), !.display = d.out, !.first = d.first, !.hunks = GenerateUnifiedPatch(tagged)]

DiffNext == Choose \/ Report
DiffSpec == DiffInit /\ [][DiffNext]_diffVars

-----------------------------------------------------------------------------
Reported == texts.at = "reported"
TaggedReport == TaggedLines(texts.old, texts.new, report.matches)
LinesWith(tags) == LET s == SelectSeq(TaggedReport, LAMBDA t : t.tag \in tags) IN [i \in 1 .. Len(s) |-> s[i].line]

\* The longest common subsequence, by its definition.
Subsequence(s, I) == LET q == SetToSortSeq(I, LAMBDA i, j : i < j) IN [k \in 1 .. Len(q) |-> s[q[k]]]
LongestCommon(a, b) ==
    LET subs(s) == {Subsequence(s, I) : I \in SUBSET (1 .. Len(s))}
    IN  Max({Len(q) : q \in subs(a) \cap subs(b)})

\* The lines between what the texts have in common at their ends.
Remaining(a, b) ==
    LET p == CommonPrefix(a, b)
    IN  Len(a) + Len(b) - 2 * p - 2 * CommonSuffix(SubSeq(a, p + 1, Len(a)), SubSeq(b, p + 1, Len(b)))

\* The matches are equal lines in both orders, and as many as there can be, or none of texts that
\* differ in more lines than the search is for (myersMatches).
MatchesLongest ==
    texts.at = "matched" =>
        LET m == report.matches
        IN  /\ \A i \in 1 .. Len(m) : texts.old[m[i][1]] = texts.new[m[i][2]]
            /\ \A i \in 2 .. Len(m) : m[i - 1][1] < m[i][1] /\ m[i - 1][2] < m[i][2]
            /\ Len(m) = IF Remaining(texts.old, texts.new) > MaxMyersDistance THEN 0
                         ELSE LongestCommon(texts.old, texts.new)

\* The hunks have every change once and one does not run into the next, and with the lines between
\* them they give back both texts (diffLines, GenerateUnifiedPatch).
HunksCover ==
    Reported =>
        /\ LinesWith({"-", " "}) = texts.old /\ LinesWith({"+", " "}) = texts.new
        /\ \A i \in 1 .. Len(TaggedReport) : TaggedReport[i].tag # " " =>
              Cardinality({h \in 1 .. Len(report.hunks) : report.hunks[h].from <= i /\ i <= report.hunks[h].to}) = 1
        /\ \A h \in 2 .. Len(report.hunks) : report.hunks[h - 1].to < report.hunks[h].from

NumbersRight ==
    \A i \in 1 .. Len(report.display) :
        LET e == report.display[i]
            text == IF e.tag = "+" THEN texts.new ELSE texts.old
        IN  e.num \in 1 .. Len(text) /\ text[e.num] = e.line

\* Without blank lines, every number of the display is the number of that line, whatever was left
\* out before it (GenerateDiffString).
NumbersAreLines == Reported /\ "" \notin Range(texts.old) \cup Range(texts.new) => NumbersRight

\* "renders a standard unified patch with hunk headers" (diffrender.go:287): a header names the
\* first line of its hunk.
HeadersName ==
    Reported => \A h \in 1 .. Len(report.hunks) :
        LET before == SubSeq(TaggedReport, 1, report.hunks[h].from - 1)
        IN  report.hunks[h].oldStart = 1 + Len(SelectSeq(before, LAMBDA t : t.tag # "+"))

-----------------------------------------------------------------------------
(***************************************************************************)
(* Mutations of one file by the agent's tools running in parallel          *)
(* (simplest/internal/tools: file_mutation_queue, edit, write).  The file  *)
(* has two paths, its own and one through a link; a permit is kept for     *)
(* each key, which is the resolved path if the file is there to resolve.   *)
(***************************************************************************)

CONSTANTS Calls, Writers, MaxAborts

VARIABLES exists, fileContent, call, entry, aborts, present
queueVars == <<exists, fileContent, call, entry, aborts, present>>

Paths == {"real", "link"}
Keys == Paths
NoEntry == [refs |-> 0, permit |-> FALSE]
Asleep == [at |-> "asleep", key |-> "none", read |-> {}, wrote |-> FALSE]

\* The file is there before the tools start, or not.
QueueInit ==
    /\ exists \in BOOLEAN /\ fileContent = {} /\ aborts = 0 /\ present = exists
    /\ call = [c \in Calls |-> Asleep]
    /\ entry = [k \in Keys |-> NoEntry]


fileMutationKey(path) == IF exists THEN "real" ELSE path

Ref(k, n) == [entry EXCEPT ![k].refs = @ + n]

Acquire(c, path) ==
    LET k == fileMutationKey(path)
    IN  /\ call[c].at = "asleep"
        /\ call' = [call EXCEPT ![c] = [Asleep EXCEPT !.at = "queued", !.key = k]]
        /\ entry' = Ref(k, 1)
        /\ UNCHANGED <<exists, fileContent, aborts, present>>
Permit(c) ==
    /\ call[c].at = "queued" /\ ~entry[call[c].key].permit
    /\ entry' = [entry EXCEPT ![call[c].key].permit = TRUE]
    /\ call' = [call EXCEPT ![c].at = "holds"]
    /\ UNCHANGED <<exists, fileContent, aborts, present>>

\* A cancelled waiter took no permit, and only drops its reference.
GivenUp(k) == Ref(k, 0 - 1)

Aborted(c) ==
    /\ call[c].at = "queued" /\ aborts < MaxAborts /\ aborts' = aborts + 1
    /\ entry' = GivenUp(call[c].key)
    /\ call' = [call EXCEPT ![c].at = "aborted"]
    /\ UNCHANGED <<exists, fileContent, present>>

\* edit reads the file, which must be there; write does not.
ReadFile(c) ==
    /\ call[c].at = "holds"
    /\ call' = [call EXCEPT ![c].at = IF c \in Writers \/ exists THEN "write" ELSE "release", ![c].read = fileContent]
    /\ UNCHANGED <<exists, fileContent, entry, aborts, present>>
WriteFile(c) ==
    /\ call[c].at = "write"
    /\ exists' = TRUE /\ fileContent' = IF c \in Writers THEN {c} ELSE call[c].read \cup {c}
    /\ call' = [call EXCEPT ![c].at = "release", ![c].wrote = TRUE]
    /\ UNCHANGED <<entry, aborts, present>>
Release(c) ==
    /\ call[c].at = "release"
    /\ entry' = [Ref(call[c].key, 0 - 1) EXCEPT ![call[c].key].permit = FALSE]
    /\ call' = [call EXCEPT ![c].at = "done"]
    /\ UNCHANGED <<exists, fileContent, aborts, present>>

QueueNext ==
    \/ \E c \in Calls, path \in Paths : Acquire(c, path)
    \/ \E c \in Calls : Permit(c) \/ Aborted(c) \/ ReadFile(c) \/ WriteFile(c) \/ Release(c)

QueueSpec == QueueInit /\ [][QueueNext]_queueVars

-----------------------------------------------------------------------------
\* Of a file that was there, no reported edit is lost but to a complete rewrite, by whichever of
\* its paths the tools came (acquireFileMutation, EditTool.Execute, WriteTool.Execute).
EditsLand ==
    present => \A c \in Calls \ Writers :
        call[c].wrote => c \in fileContent \/ \E w \in Writers : call[w].wrote

\* One call at a time is at the file, and what nobody holds or waits for is not kept
\* (releaseFileMutation, dropFileMutationRef).
OneAtATime ==
    /\ present => Cardinality({c \in Calls : call[c].at \in {"holds", "write", "release"}}) <= 1
    /\ \A k \in Keys :
          entry[k].refs = Cardinality({c \in Calls : call[c].at \in {"queued", "holds", "write", "release"} /\ call[c].key = k})

\* "concurrent creates of a not-yet-existing file serialize, and a symlink and its real target
\* share a single queue" (file_mutation_queue.go:19-21).
CreatesSerialize == Cardinality({c \in Calls : call[c].at \in {"holds", "write", "release"}}) <= 1

-----------------------------------------------------------------------------
(***************************************************************************)
(* The output of a command the agent's bash tool runs                      *)
(* (simplest/internal/tools: bash, outputAccumulator, TruncateTail): the   *)
(* counters, the rolling tail and the spill file that stand for an output  *)
(* which is never kept whole, and the end of the command by itself, by its *)
(* time or by the user.  "n" is a newline; "L" and "C" are the two bytes   *)
(* of a rune, which come together (sanitizingWriter).                      *)
(***************************************************************************)

CONSTANTS MaxBytes, MaxLines, MaxTotal

VARIABLES full, accumulated, file, cmd
outVars == <<full, accumulated, file, cmd>>

Runes == {<<"a">>, <<"n">>, <<"L", "C">>}
\* What the command writes at once.
Writes == Runes \cup {x \o y : x, y \in Runes}

TailInit ==
    /\ full = <<>> /\ file = "none"
    /\ accumulated = [tail |-> <<>>, midLine |-> FALSE, bytes |-> 0, newlines |-> 0, last |-> "none",
              chunks |-> <<>>, spill |-> "no", spilled |-> <<>>]
    /\ cmd = [at |-> "runs", aborted |-> FALSE, timedOut |-> FALSE, code |-> 0, result |-> "none"]

Newlines(s) == Len(SelectSeq(s, LAMBDA b : b = "n"))
LineCount(newlines, last) == newlines + (IF last \in {"n", "none"} THEN 0 ELSE 1)

-----------------------------------------------------------------------------
(* TruncateTail.                                                           *)
\* The ends of the lines of s: a newline that ends s ends its last line.
Ends(s) == {i \in 1 .. Len(s) : s[i] = "n"} \cup (IF s # <<>> /\ Last(s) # "n" THEN {Len(s) + 1} ELSE {})
\* The bytes from the start of the k-th line from the end to the end of the last line.
Body(s) == IF s # <<>> /\ Last(s) = "n" THEN Front(s) ELSE s
StartOf(s, k) ==
    LET n == Cardinality(Ends(s))
    IN  IF k >= n THEN 1 ELSE 1 + CHOOSE e \in Ends(s) : Cardinality({d \in Ends(s) : d <= e}) = n - k
LastLines(s, k) == SubSeq(Body(s), StartOf(s, k), Len(Body(s)))

\* truncateStringToBytesFromEnd: never inside a rune.
Cut(s, n) ==
    LET start == Len(s) - n + 1
    IN  IF Len(s) <= n THEN s
        ELSE SubSeq(s, IF s[start] = "C" THEN start + 1 ELSE start, Len(s))

TruncateTail(s) ==
    LET lines == Cardinality(Ends(s))
        fits == {k \in 1 .. lines : k <= MaxLines /\ Len(LastLines(s, k)) <= MaxBytes}
    IN  CASE lines <= MaxLines /\ Len(s) <= MaxBytes -> [truncated |-> FALSE, content |-> s, lines |-> lines, partial |-> FALSE]
          [] fits = {} -> [truncated |-> TRUE, content |-> Cut(LastLines(s, 1), MaxBytes), lines |-> 1, partial |-> TRUE]
          [] OTHER -> [truncated |-> TRUE, content |-> LastLines(s, Max(fits)), lines |-> Max(fits), partial |-> FALSE]

-----------------------------------------------------------------------------
(* outputAccumulator.                                                      *)

Limit == 2 * MaxBytes

\* The rolling tail: at most the limit, not inside a rune, and whether it starts inside a line.
Rolled(tail, midLine) ==
    LET over == Len(tail) - Limit
        start == IF tail[over + 1] = "C" THEN over + 2 ELSE over + 1
    IN  IF Len(tail) <= Limit THEN [tail |-> tail, midLine |-> midLine]
        ELSE [tail |-> SubSeq(tail, start, Len(tail)), midLine |-> tail[start - 1] # "n"]

\* What is written into a file that begins now: all that was held back, p among it.
Held(a, p) == a.chunks

Over(a) == a.bytes > MaxBytes \/ LineCount(a.newlines, a.last) > MaxLines

\* maybeStartSpillLocked; a failure costs the file and nothing else.
Spill(a, p, fails) ==
    CASE a.spill = "open" /\ fails -> [a EXCEPT !.spill = "failed", !.spilled = <<>>]
      [] a.spill = "open" -> [a EXCEPT !.spilled = @ \o p]
      [] a.spill = "no" /\ Over(a) /\ fails -> [a EXCEPT !.spill = "failed", !.chunks = <<>>]
      [] a.spill = "no" /\ Over(a) -> [a EXCEPT !.spill = "open", !.spilled = Held(a, p), !.chunks = <<>>]
      [] OTHER -> a

Counted(a, p) ==
    LET r == Rolled(a.tail \o p, a.midLine)
    IN  [a EXCEPT !.bytes = @ + Len(p), !.newlines = @ + Newlines(p), !.last = Last(p),
                  !.tail = r.tail, !.midLine = r.midLine,
                  !.chunks = IF a.spill = "no" THEN @ \o p ELSE @]

FileOf(a) == IF a.spill = "open" THEN "there" ELSE "none"

TailWrite(p, fails) ==
    /\ cmd.at \in {"runs", "killed"} /\ Len(full) + Len(p) <= MaxTotal
    /\ full' = full \o p
    /\ accumulated' = Spill(Counted(accumulated, p), p, fails) /\ file' = FileOf(accumulated')
    /\ UNCHANGED cmd

\* Line-aligned, unless the line it starts in is the only one.
Aligned(a) ==
    LET at == {i \in 1 .. Len(a.tail) : a.tail[i] = "n"}
    IN  IF ~a.midLine \/ at = {} THEN a.tail
        ELSE IF Min(at) = Len(a.tail) THEN Front(a.tail)
        ELSE SubSeq(a.tail, Min(at) + 1, Len(a.tail))

Snapshot(a) ==
    LET tr == TruncateTail(Aligned(a))
        verbatim == Over(a) /\ ~tr.truncated /\ tr.content # <<>> /\ Last(tr.content) = "n"
    IN  [tr EXCEPT !.truncated = Over(a), !.content = IF verbatim THEN Front(@) ELSE @]

-----------------------------------------------------------------------------
(* BashTool.Execute.                                                       *)
Exits(code) ==
    /\ cmd.at = "runs" /\ cmd' = [cmd EXCEPT !.at = "ended", !.code = code]
    /\ UNCHANGED <<full, accumulated, file>>
Abort ==
    /\ cmd.at \in {"runs", "ended"} /\ ~cmd.aborted /\ cmd' = [cmd EXCEPT !.aborted = TRUE]
    /\ UNCHANGED <<full, accumulated, file>>
\* The context or its time is over: what runs is killed, and what it wrote until then still comes.
Kill ==
    /\ cmd.at = "runs"
    /\ cmd' = [cmd EXCEPT !.at = "killed", !.code = 137, !.timedOut = ~cmd.aborted]
    /\ UNCHANGED <<full, accumulated, file>>
Drained == cmd.at = "killed" /\ cmd' = [cmd EXCEPT !.at = "ended"] /\ UNCHANGED <<full, accumulated, file>>

Finish ==
    /\ cmd.at = "ended"
    /\ cmd' = [cmd EXCEPT !.at = "told",
                          !.result = CASE cmd.aborted -> "aborted"
                                       [] cmd.timedOut -> "timed out"
                                       [] cmd.code # 0 -> "exited"
                                       [] OTHER -> "ok"]
    /\ file' = IF accumulated.spill = "open" /\ Snapshot(accumulated).truncated THEN file ELSE "none"
    /\ UNCHANGED <<full, accumulated>>

TailNext ==
    \/ \E p \in Writes, fails \in BOOLEAN : TailWrite(p, fails)
    \/ \E code \in {0, 1} : Exits(code)
    \/ Abort \/ Kill \/ Drained \/ Finish

TailSpec == TailInit /\ [][TailNext]_outVars

-----------------------------------------------------------------------------
\* What is shown is what the whole output would be cut to: the rolling tail and the counters lose
\* nothing that is shown, however the output came in pieces (Write, Snapshot, TruncateTail).
TailAgrees == LET s == Snapshot(accumulated) IN s = TruncateTail(full)

\* Nothing that is shown begins inside a rune or is longer than the limits (TruncateTail).
ShownFits ==
    LET s == Snapshot(accumulated)
    IN  s.content # <<>> => Head(s.content) # "C" /\ Len(s.content) <= MaxBytes /\ s.lines <= MaxLines

\* The file named for the full output has all of it, and is there exactly when the output was cut
\* and no write to it failed (maybeStartSpillLocked, Close).
SpillIsWhole ==
    /\ file = "there" => accumulated.spilled = full
    /\ cmd.at = "told" => (file = "there" <=> Snapshot(accumulated).truncated /\ accumulated.spill = "open")
    /\ accumulated.spill = "no" => accumulated.chunks = full

-----------------------------------------------------------------------------
(***************************************************************************)
(* The shell that agents are given (src/fakebash).  A client runs the      *)
(* platform's own tools itself and has a daemon run everything else; the   *)
(* daemon streams what the command writes, the client keeps it on disk and *)
(* shows it as it is, as a summary, or, once a watchdog has fired, as it   *)
(* comes.                                                                  *)
(*                                                                         *)
(* One command, whose output is a sequence of numbered pieces on two       *)
(* pipes, beside others of the same storage.  The models that classify and *)
(* summarize are external: they may give any answer.                       *)
(***************************************************************************)

CONSTANTS MaxPieces, MaxInMemory, ShortOutput

Pipes == {"stdout", "stderr"}

VARIABLES invoked, proc, daemon, wire, client, latest
bashVars == <<invoked, proc, daemon, wire, client, latest>>

NoProc == [at |-> "none", made |-> 0, holder |-> FALSE, pipe |-> [p \in Pipes |-> <<>>]]
NoDaemon == [at |-> "reading", open |-> Pipes, forced |-> FALSE]
Start == [at |-> "start", file |-> FALSE, stored |-> <<>>, mem |-> [p \in Pipes |-> <<>>], fired |-> FALSE, replayed |-> FALSE,
          received |-> <<>>, shown |-> <<>>, kind |-> "none", ref |-> "none"]

BashInit ==
    /\ invoked = [at |-> "none", real |-> {}, ran |-> <<>>, plain |-> TRUE] /\ proc = NoProc /\ daemon = NoDaemon
    /\ wire = <<>> /\ client = Start /\ latest = "none"

-----------------------------------------------------------------------------
\* Commands, two shells deep: no-ops, the platform's tools, other programs, tools with words that
\* are no plain arguments (a redirection, a variable, a substitution), and lines of a shell.
Operators == {";", "&&", "||", "|"}
Leaf(k) == [kind |-> k, parts |-> <<>>, op |-> ";"]
Leaves == {Leaf(k) : k \in {"true", "false", "tool", "other", "worded"}}
CommandLines(S) ==
    {[kind |-> "sh", parts |-> <<>>, op |-> ";"]} \cup {[kind |-> "sh", parts |-> <<a>>, op |-> ";"] : a \in S}
    \cup {[kind |-> "sh", parts |-> <<a, b>>, op |-> o] : a, b \in S, o \in Operators}
Wrapped(S) == CommandLines(S) \cup {[kind |-> "exec", parts |-> <<a>>, op |-> ";"] : a \in S}
Commands == LET one == Leaves \cup Wrapped(Leaves \ {Leaf("worded")}) IN one \cup Wrapped(one)

\* External: what a shell may run of it, with what status, and whether it is gone then (exec).
RECURSIVE Meanings(_)
Meanings(c) ==
    LET of(i) == Meanings(c.parts[i])
        after(a, b) ==
            CASE c.op # "|" /\ a.gone -> a
              [] c.op = "&&" /\ ~a.gone /\ ~a.ok -> a
              [] c.op = "||" /\ ~a.gone /\ a.ok -> a
              [] OTHER -> [b EXCEPT !.ran = a.ran \o b.ran]
        shell(ms) == {[m EXCEPT !.gone = FALSE] : m \in ms}
    IN  CASE c.kind \in {"true", "false"} -> {[ran |-> <<>>, ok |-> c.kind = "true", gone |-> FALSE]}
          [] c.kind \in {"tool", "other", "worded"} -> {[ran |-> <<c.kind>>, ok |-> b, gone |-> FALSE] : b \in BOOLEAN}
          [] c.kind = "exec" -> {[m EXCEPT !.gone = TRUE] : m \in of(1)}
          [] c.kind = "sh" -> CASE Len(c.parts) = 0 -> {[ran |-> <<>>, ok |-> TRUE, gone |-> FALSE]}
                                [] Len(c.parts) = 1 -> shell(of(1))
                                [] OTHER -> shell({after(a, b) : a \in of(1), b \in of(2)})
Programs(c) == {m.ran : m \in Meanings(c)}

Fails == [ok |-> FALSE, cmd |-> <<>>]

\* Two commands of one line: at most one of them is a real one.
Joined(a, b) == IF ~a.ok \/ ~b.ok \/ (a.cmd # <<>> /\ b.cmd # <<>>) THEN Fails ELSE IF b.cmd # <<>> THEN b ELSE a

\* splitCommandString, parseShellInvocation, unpackCommand: every operator only ends a command,
\* and every word is an argument as it is written.
RECURSIVE Unpack(_)
Unpack(c) ==
    CASE c.kind \in {"true", "false"} -> [ok |-> TRUE, cmd |-> <<>>]
      [] c.kind \in {"tool", "worded"} -> [ok |-> TRUE, cmd |-> <<"tool">>]
      [] c.kind = "other" -> Fails
      [] OTHER -> CASE Len(c.parts) = 0 -> [ok |-> TRUE, cmd |-> <<>>]
                    [] Len(c.parts) = 1 -> Unpack(c.parts[1])
                    [] OTHER -> Joined(Unpack(c.parts[1]), Unpack(c.parts[2]))

\* The line has only plain words, no command that depends on the failure of another, and no exec
\* before its end.
RECURSIVE Plain(_)
Plain(c) ==
    /\ c.kind \notin {"false", "worded"} /\ c.op # "||"
    /\ Len(c.parts) = 2 => c.parts[1].kind # "exec"
    /\ \A i \in 1 .. Len(c.parts) : Plain(c.parts[i])

\* RunClient.
RunClient(c) ==
    /\ invoked.at = "none"
    /\ IF Unpack(c).ok
       THEN invoked' = [at |-> "direct", real |-> Programs(c), ran |-> Unpack(c).cmd, plain |-> Plain(c)] /\ UNCHANGED client
       ELSE invoked' = [invoked EXCEPT !.at = "daemon"] /\ client' = [client EXCEPT !.at = "create"]
    /\ UNCHANGED <<proc, daemon, wire, latest>>

-----------------------------------------------------------------------------
\* External: the command, and what it leaves behind holding its pipes.
PipeWrite(p) ==
    /\ proc.at = "running" \/ (proc.at = "exited" /\ proc.holder)
    /\ proc.made < MaxPieces
    /\ proc' = [proc EXCEPT !.made = @ + 1, !.pipe[p] = Append(@, proc.made + 1)]
    /\ UNCHANGED <<invoked, daemon, wire, client, latest>>
Exit ==
    /\ proc.at = "running" /\ \E h \in BOOLEAN : proc' = [proc EXCEPT !.at = "exited", !.holder = h]
    /\ UNCHANGED <<invoked, daemon, wire, client, latest>>
HolderEnds == proc.holder /\ proc' = [proc EXCEPT !.holder = FALSE] /\ UNCHANGED <<invoked, daemon, wire, client, latest>>

\* RunCommand: one reader for each pipe.
PipeRead(p) ==
    /\ p \in daemon.open /\ proc.pipe[p] # <<>>
    /\ wire' = Append(wire, [type |-> p, piece |-> Head(proc.pipe[p])])
    /\ proc' = [proc EXCEPT !.pipe[p] = Tail(@)]
    /\ UNCHANGED <<invoked, daemon, client, latest>>
EndOfPipe(p) ==
    /\ p \in daemon.open /\ proc.pipe[p] = <<>> /\ proc.at = "exited" /\ ~proc.holder
    /\ daemon' = [daemon EXCEPT !.open = @ \ {p}]
    /\ UNCHANGED <<invoked, proc, wire, client, latest>>

PipesDone == daemon.open = {}

\* The process is waited for beside the pipes: they have 100 ms to drain when it ends first.
WaitReturns ==
    /\ daemon.at = "reading" /\ proc.at = "exited"
    /\ daemon' = [daemon EXCEPT !.at = IF PipesDone THEN "drained" ELSE "grace"]
    /\ UNCHANGED <<invoked, proc, wire, client, latest>>
GraceOver ==
    /\ daemon.at = "grace"
    /\ daemon' = [daemon EXCEPT !.at = "drained", !.forced = ~PipesDone, !.open = IF PipesDone THEN @ ELSE {}]
    /\ UNCHANGED <<invoked, proc, wire, client, latest>>
SendExit ==
    /\ daemon.at = "drained"
    /\ daemon' = [daemon EXCEPT !.at = "ended"]
    /\ wire' = Append(wire, [type |-> "exit", piece |-> 0])
    /\ UNCHANGED <<invoked, proc, client, latest>>
\* The daemon is lost, or ends the call, without an exit frame.
Breaks ==
    /\ daemon.at \in {"reading", "grace", "drained"} /\ proc.at # "none"
    /\ daemon' = [daemon EXCEPT !.at = "ended", !.open = {}, !.forced = TRUE]
    /\ wire' = Append(wire, [type |-> "end", piece |-> 0])
    /\ UNCHANGED <<invoked, proc, client, latest>>

-----------------------------------------------------------------------------
\* runStream, the beginning: the file may not be made; the command is started all the same.
CreateFile ==
    /\ client.at = "create"
    /\ \E ok \in BOOLEAN : client' = [client EXCEPT !.at = "receive", !.file = ok]
    /\ proc' = [proc EXCEPT !.at = "running"]
    /\ UNCHANGED <<invoked, daemon, wire, latest>>

\* The timer of the first frame.
Watchdog ==
    /\ client.at = "receive" /\ client.received # <<>> /\ ~client.fired
    /\ client' = [client EXCEPT !.fired = TRUE]
    /\ UNCHANGED <<invoked, proc, daemon, wire, latest>>

\* Another command of the same storage is finished.
OtherFinishes ==
    /\ client.at \in {"create", "receive"} /\ latest # "other" /\ latest' = "other"
    /\ UNCHANGED <<invoked, proc, daemon, wire, client>>

\* flushBuffers.
Flushed(c) == IF c.file THEN c.stored ELSE c.mem["stdout"] \o c.mem["stderr"]

\* What another command wrote.
OtherPiece == 0

\* Storage.ReadPayload: no identifier means the latest.
Payload(c) == IF c.file THEN c.stored ELSE <<OtherPiece>>
MayRead(c) == c.file \/ latest # "none"

\* The first frame after the watchdog: what was kept so far is shown.
Replayed(c) == IF c.fired /\ ~c.replayed THEN [c EXCEPT !.replayed = TRUE, !.shown = @ \o Flushed(c)] ELSE c

\* processStreamChunk: kept on disk, and shown or kept in memory as far as that goes.
Taken(c, p, n) ==
    LET t == [c EXCEPT !.received = Append(@, n), !.stored = IF c.file THEN Append(@, n) ELSE @] IN
    IF t.fired THEN [t EXCEPT !.shown = Append(@, n)]
    ELSE IF Len(t.mem["stdout"]) + Len(t.mem["stderr"]) < MaxInMemory THEN [t EXCEPT !.mem[p] = Append(@, n)] ELSE t

Receive(p) ==
    /\ client.at = "receive" /\ wire # <<>> /\ Head(wire).type = p
    /\ client' = Taken(Replayed(client), p, Head(wire).piece) /\ wire' = Tail(wire)
    /\ UNCHANGED <<invoked, proc, daemon, latest>>

\* Storage.Finish.
Latest(c) == IF c.file THEN "own" ELSE latest

Raw(c, s) == [c EXCEPT !.at = "done", !.shown = @ \o s, !.kind = "raw"]
Compressed(c) == [c EXCEPT !.at = "done", !.kind = "compressed", !.ref = IF c.file THEN "own" ELSE "latest"]

\* Pipeline.Process and the fallback of runStream: short output, and what is to be kept or could not
\* be summarized, as it is; the rest dropped, summarized or cut, with the name of the file.
Processed(c) ==
    LET total == Len(c.received) IN
    IF ~MayRead(c) THEN {Raw(c, Flushed(c))}
    ELSE IF total < ShortOutput THEN {Raw(c, Payload(c))}
    ELSE {Raw(c, Payload(c)), Compressed(c)}

\* An exit frame: shown already, or processed.
ReceiveExit ==
    /\ client.at = "receive" /\ wire # <<>> /\ Head(wire).type = "exit"
    /\ LET c == Replayed(client) IN
        client' \in IF c.replayed THEN {Raw(c, <<>>)} ELSE Processed(c)
    /\ wire' = Tail(wire) /\ latest' = Latest(client)
    /\ UNCHANGED <<invoked, proc, daemon>>

\* The stream ends without one.
ReceiveEnd ==
    /\ client.at = "receive" /\ wire # <<>> /\ Head(wire).type = "end"
    /\ client' = Raw(client, IF client.replayed THEN <<>> ELSE Flushed(client))
    /\ wire' = Tail(wire) /\ latest' = Latest(client)
    /\ UNCHANGED <<invoked, proc, daemon>>

BashNext ==
    \/ \E c \in IF invoked.at = "none" THEN Commands ELSE {} : RunClient(c)
    \/ \E p \in Pipes : PipeWrite(p) \/ PipeRead(p) \/ EndOfPipe(p) \/ Receive(p)
    \/ Exit \/ HolderEnds \/ WaitReturns \/ GraceOver \/ SendExit \/ Breaks
    \/ CreateFile \/ Watchdog \/ OtherFinishes \/ ReceiveExit \/ ReceiveEnd

BashSpec == BashInit /\ [][BashNext]_bashVars

-----------------------------------------------------------------------------
\* What the client runs itself, without a shell, is all that a plain command line asks for
\* (unpackCommand).
DirectIsAll == invoked.at = "direct" /\ invoked.plain => invoked.real = {invoked.ran}

\* For every line it is something a shell could have run: not so, as "true || tool" runs the tool
\* and "tool > file" gives it two more arguments (splitCommandString, fakebash.go:661-667).
DirectIsMeant == invoked.at = "direct" => invoked.ran \in invoked.real

\* With a file to keep it in, the whole of the output is shown once and in order, whenever the
\* watchdog fires, or can be had under the name that is given with the summary
\* (runStream, flushBuffers, Process).
NothingWithheld ==
    client.at = "done" /\ client.file =>
        /\ client.stored = client.received
        /\ IF client.kind = "raw" THEN client.shown = client.received ELSE client.ref = "own"

\* An exit frame comes last, and after all that the command has written unless the pipes were
\* closed on it (RunCommand).
ExitComesLast ==
    \A i \in 1..Len(wire) : wire[i].type = "exit" =>
        i = Len(wire) /\ daemon.open = {} /\ (~daemon.forced => \A p \in Pipes : proc.pipe[p] = <<>>)

\* "falling back to in-memory buffers if storage or pipeline is unavailable" (fakebash.go:73-74);
\* without a file the identifier is empty, which the storage takes for the latest command.
OutputIsOwn == client.at = "done" /\ client.kind = "raw" => \A i \in 1..Len(client.shown) : client.shown[i] # OtherPiece
=============================================================================
