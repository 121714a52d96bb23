------------------------------ MODULE CaseFile ------------------------------
(* The case file of revagent/casefile.py, the agent's only memory across       *)
(* context resets, and what compaction does to it (context.py: the raw block   *)
(* added to the Log, the Todo section replaced, prune_log, shrink_casefile).   *)
(*                                                                             *)
(* The file is a sequence of lines; of a line only its shape counts, for that  *)
(* is all the code looks at, and where it came from.  Blank lines are left out.*)
EXTENDS Integers, Sequences, FiniteSets

SectionSet == {"facts", "hypotheses", "todo", "log"}
Parts == {"a", "b", "c", "d"}
Shapes == {"header", "quoted header", "bullet", "ledger", "block", "part", "text"}
Marks == SectionSet \cup Parts \cup {"", "compaction"}
Lines == [shape : Shapes, of : Marks, at : Nat, nth : Nat]
SummaryLines ==                 \* what a model can write
  {l \in Lines : /\ l.at = 0 /\ l.nth = 0
                 /\ l.shape \in {"header", "quoted header"} => l.of \in SectionSet}

CONSTANTS
  Keep,         \* prune_log's keep: blocks it leaves as they are
  ShrinkCap,    \* SHRINK_INPUT_CAP, in lines
  Summaries,    \* what the model can answer to SUMMARY_PROMPT, as shapes
  Replies,      \* what it can answer to SHRINK_PROMPT, besides what that asks for
  NoteShapes,   \* "line"; "with header", quoting a header line; or the part
                \* of a summary, "a" to "d", that the note begins like
  MaxEvents     \* bound: operations on the file

ASSUME CaseFileAssumption ==
  /\ Keep \in Nat \ {0} /\ ShrinkCap \in Nat /\ MaxEvents \in Nat
  /\ NoteShapes \subseteq {"line", "with header"} \cup Parts
  /\ \A summary \in Summaries : summary \in Seq(SummaryLines)
  /\ \A reply \in Replies : reply \in Seq(Lines)

VARIABLES
  lines,        \* the file
  events,       \* operations so far; numbers notes and ledger lines
  compactions,  \* compactions so far; numbers blocks
  \* History, for the properties only:
  ledger,       \* ledger lines written, in order
  noted,        \* per section, the notes the model added, in order
  results,      \* the lines of every summary's (a) and (d) parts
  faithful,     \* no rewrite accepted so far lost what SHRINK_PROMPT says to keep
  posed         \* a note in the Log has begun like an (a) or a (d) part

caseVars == <<lines, events, compactions, ledger, noted, results, faithful, posed>>

Line(shape, of, at, nth) == [shape |-> shape, of |-> of, at |-> at, nth |-> nth]
Header(s) == Line("header", s, 0, 0)
Quoted(s) == Line("quoted header", s, 0, 0)   \* an indented header line
Bullet(t, e) == Line("bullet", t, e, 0)       \* a note; t, the part it begins like
Ledger(e) == Line("ledger", "", e, 0)         \* - [obs / - [critic / - [gate
Block(name, n) == Line("block", name, n, 0)   \* a line starting with "### "
Part(t) == Line("part", t, 0, 0)              \* "(a)" to "(d)" after punctuation
Text(e, i) == Line("text", "", e, i)          \* the i-th line of summary e

IsHeader(l) == l.shape = "header"
EndsSection(l) == l.shape \in {"header", "quoted header"}
IsHeading(l) == l.shape \in {"part", "block", "bullet"} /\ l.of \in Parts
IsLedger(l) == l.shape = "ledger"

FirstIndex(S) == CHOOSE i \in S : \A j \in S : i <= j
LastIndex(S) == CHOOSE i \in S : \A j \in S : j <= i
Joined(ss) ==                   \* the pieces one behind the other
  LET f[i \in 0..Len(ss)] == IF i = 0 THEN << >> ELSE f[i - 1] \o ss[i]
  IN  f[Len(ss)]
Select(s, S) == Joined([i \in DOMAIN s |-> IF s[i] \in S THEN <<s[i]>> ELSE << >>])

-----------------------------------------------------------------------------
(* section_span: the header line itself must match exactly, the end is any     *)
(* line that is a header once stripped.                                        *)
HasSection(ls, s) == \E i \in DOMAIN ls : ls[i] = Header(s)
SectionStart(ls, s) == FirstIndex({i \in DOMAIN ls : ls[i] = Header(s)})
SectionEnd(ls, s) ==
  FirstIndex({Len(ls) + 1} \cup {i \in DOMAIN ls : i > SectionStart(ls, s) /\ EndsSection(ls[i])})
SectionBody(ls, s) == SubSeq(ls, SectionStart(ls, s) + 1, SectionEnd(ls, s) - 1)

Splice(ls, from, to, new) == SubSeq(ls, 1, from - 1) \o new \o SubSeq(ls, to, Len(ls))
AddFirst(ls, s, entry) ==                                      \* mutant: at the wrong end
  Splice(ls, SectionStart(ls, s) + 1, SectionStart(ls, s) + 1, entry)
Add(ls, s, entry) == Splice(ls, SectionEnd(ls, s), SectionEnd(ls, s), entry)
ReplaceSection(ls, s, body) == Splice(ls, SectionStart(ls, s) + 1, SectionEnd(ls, s), body)

(* sanitize_summary: a header becomes a "### " line, which starts a block      *)
(* unless it is indented.                                                      *)
SanitizeNothing(summary) == summary                           \* mutant: no sanitizing
Sanitize(summary) ==
  [i \in DOMAIN summary |->
     CASE summary[i].shape = "header" -> Block(summary[i].of, 0)
       [] summary[i].shape = "quoted header" -> Line("text", summary[i].of, 0, 0)
       [] OTHER -> summary[i]]

(* extract_unfinished: what stands between the (c) heading and the next (d). *)
Headings(ls, t) == {i \in DOMAIN ls : IsHeading(ls[i]) /\ ls[i].of = t}
Unfinished(summary) ==
  LET c == FirstIndex(Headings(summary, "c"))
      d == FirstIndex({Len(summary) + 1} \cup {i \in Headings(summary, "d") : i > c})
  IN  IF Headings(summary, "c") = {} THEN << >> ELSE SubSeq(summary, c + 1, d - 1)

-----------------------------------------------------------------------------
(* _reduce_log_block: the last (a) part, the last (d) part and the ledger      *)
(* lines of a block that has a (b) or (c) part.                                *)
PartHeads(rest) == {i \in DOMAIN rest : IsHeading(rest[i])}
PartOf(rest, t) ==
  LET own == Headings(rest, t)
      end == FirstIndex({Len(rest) + 1} \cup {i \in PartHeads(rest) : i > LastIndex(own)})
  IN  IF own = {} THEN << >>
      ELSE Select(SubSeq(rest, LastIndex(own), end - 1), {l \in Lines : ~IsLedger(l)})
KeptFactsOnly(rest) == PartOf(rest, "a")                       \* mutant: artifacts dropped
KeptParts(rest) == PartOf(rest, "a") \o PartOf(rest, "d")
KeptLedgerNone(rest) == << >>                                  \* mutant: ledger forgotten
KeptLedger(rest) == Select(rest, {l \in Lines : IsLedger(l)})
ReduceHeadless(block) == KeptParts(Tail(block)) \o KeptLedger(Tail(block)) \* mutant: no heading
ReduceBlock(block) ==
  LET rest == Tail(block)
  IN  IF \A i \in PartHeads(rest) : rest[i].of \in {"a", "d"} THEN block
      ELSE <<Head(block)>> \o KeptParts(rest) \o KeptLedger(rest)

(* prune_log: the Log is cut at its "### " lines; all but the last Keep blocks *)
(* are reduced, what stands before the first one is left alone.                *)
BlockStarts(body) == {i \in DOMAIN body : body[i].shape = "block"}
BlockAt(body, i) ==
  SubSeq(body, i, FirstIndex({Len(body) + 1} \cup {j \in BlockStarts(body) : j > i}) - 1)
IsOld(body, i) == Cardinality({j \in BlockStarts(body) : j >= i}) > Keep
Piece(body, i) ==               \* what position i of the old body is replaced by
  IF i \in BlockStarts(body)
    THEN IF IsOld(body, i) THEN ReduceBlock(BlockAt(body, i)) ELSE BlockAt(body, i)
    ELSE IF \A j \in BlockStarts(body) : i < j THEN <<body[i]>> ELSE << >>
Pruned(body) == Joined([i \in DOMAIN body |-> Piece(body, i)])
PruneLog(ls) ==
  IF HasSection(ls, "log") THEN ReplaceSection(ls, "log", Pruned(SectionBody(ls, "log"))) ELSE ls

(* The case-file half of compact, with the sanitized summary. *)
AddBlock(ls, n, summary) == Add(ls, "log", <<Block("compaction", n)>> \o summary)
SetTodo(ls, summary) ==
  IF Unfinished(summary) = << >> THEN ls ELSE ReplaceSection(ls, "todo", Unfinished(summary))
Compacted(ls, n, summary) == PruneLog(SetTodo(AddBlock(ls, n, summary), summary))

-----------------------------------------------------------------------------
CaseInit ==
  /\ lines = <<Header("facts"), Header("hypotheses"), Header("todo"), Header("log")>>
  /\ events = 0 /\ compactions = 0
  /\ ledger = << >> /\ noted = [s \in SectionSet |-> << >>] /\ results = << >>
  /\ faithful = TRUE /\ posed = FALSE

Happens == events < MaxEvents /\ events' = events + 1

(* The notes tool: the text becomes one bullet, its further lines indented.  A *)
(* note that begins "(d)" becomes "- (d) ...", which _is_heading takes for the *)
(* heading of a part.  Without the section's header line it is turned down.    *)
Begins(noteShape) == IF noteShape \in Parts THEN noteShape ELSE ""
Note(s, noteShape) ==
  LET bullet == Bullet(Begins(noteShape), events')
      quote == IF noteShape = "with header" THEN <<Quoted("todo")>> ELSE << >>
  IN  /\ Happens
      /\ HasSection(lines, s)
      /\ lines' = Add(lines, s, <<bullet>> \o quote)
      /\ noted' = [noted EXCEPT ![s] = Append(@, bullet)]
      /\ posed' = (posed \/ (s = "log" /\ noteShape \in {"a", "d"}))
      /\ UNCHANGED <<compactions, ledger, results, faithful>>

(* observe, _ledger and run_critic: one ledger bullet; never raises. *)
Record ==
  /\ Happens
  /\ HasSection(lines, "log")
  /\ lines' = Add(lines, "log", <<Ledger(events')>>)
  /\ ledger' = Append(ledger, Ledger(events'))
  /\ UNCHANGED <<compactions, noted, results, faithful, posed>>

(* A summary whose shape is given; its text lines are those of this summary.   *)
Written(shape) ==
  [i \in DOMAIN shape |-> IF shape[i].shape = "text" THEN Text(events', i) ELSE shape[i]]
HeadsBefore(summary, i) == {j \in PartHeads(summary) : j < i}
Reported(summary, i) ==         \* line i is in an (a) or a (d) part
  HeadsBefore(summary, i) # {} /\ summary[LastIndex(HeadsBefore(summary, i))].of \in {"a", "d"}
ResultLines(summary) ==         \* the text lines of these parts
  Joined([i \in DOMAIN summary |->
            IF summary[i].shape = "text" /\ Reported(summary, i) THEN <<summary[i]>> ELSE << >>])

(* compact raises at a header line that is missing: before it changes anything *)
(* if that is the Log's, with the block in the Log if it is that of the Todo.  *)
Compaction(shape) ==
  LET summary == Sanitize(Written(shape))
      settles == Unfinished(summary) = << >> \/ HasSection(lines, "todo")
  IN  /\ Happens
      /\ HasSection(lines, "log")
      /\ compactions' = compactions + 1
      /\ \/ settles /\ lines' = Compacted(lines, compactions', summary)
         \/ ~settles /\ lines' = AddBlock(lines, compactions', summary)
      /\ results' = results \o ResultLines(Written(shape))
      /\ UNCHANGED <<ledger, noted, faithful, posed>>

(* shrink_casefile replaces the file by any reply that names the four headers  *)
(* somewhere, on lines of their own or within others, once or more often; what *)
(* it turns down changes nothing.  (A reply must also begin "# Case:" and end  *)
(* in a line beginning with - or #: any of these shapes may.)  SHRINK_PROMPT   *)
(* asks to keep structure, facts and ledger and to drop narrative; the model   *)
(* is shown no more than ShrinkCap, and nothing checks what it dropped.        *)
ResultSet == {results[i] : i \in DOMAIN results}
Worth == {l \in Lines : l.shape # "text" \/ l \in ResultSet}
Asked(ls) == Select(ls, Worth)
Shown == SubSeq(lines, 1, IF Len(lines) > ShrinkCap THEN ShrinkCap ELSE Len(lines))
Accepted(reply) == \A s \in SectionSet : \E i \in DOMAIN reply : reply[i].of = s
Shrink(reply) ==
  /\ Happens
  /\ Accepted(reply)
  /\ lines' = reply
  /\ faithful' = (faithful /\ reply = Asked(lines))
  /\ UNCHANGED <<compactions, ledger, noted, results, posed>>

CaseNext ==
  \/ \E s \in SectionSet, shape \in NoteShapes : Note(s, shape)
  \/ Record
  \/ \E summary \in Summaries : Compaction(summary)
  \/ \E reply \in Replies \cup {Asked(Shown)} : Shrink(reply)

CaseSpec == CaseInit /\ [][CaseNext]_caseVars

-----------------------------------------------------------------------------
(* Until a rewrite loses something, the file has each of its four headers once.*)
CaseTypeOK ==
  /\ lines \in Seq(Lines) /\ events \in 0..MaxEvents /\ compactions \in 0..events
  /\ ledger \in Seq(Lines) /\ noted \in [SectionSet -> Seq(Lines)] /\ results \in Seq(Lines)
  /\ faithful \in BOOLEAN /\ posed \in BOOLEAN
  /\ faithful =>
       \A s \in SectionSet :
         \E i \in DOMAIN lines : \A j \in DOMAIN lines : lines[j] = Header(s) <=> j = i

(* A section with all that was put into it, quoted headers and what follows    *)
(* them included.                                                              *)
SectionOf(ls, s) ==
  LET from == SectionStart(ls, s)
      next == FirstIndex({Len(ls) + 1} \cup {i \in DOMAIN ls : i > from /\ IsHeader(ls[i])})
  IN  SubSeq(ls, from + 1, next - 1)

(* context.py on prune_log and _reduce_log_block: the observation ledger is    *)
(* "always retained, exactly once each, in their original order", through any  *)
(* number of compactions and prunings, wherever notes landed and however they  *)
(* begin, until a rewrite that shrink_casefile accepts loses something.        *)
LedgerLines == {l \in Lines : IsLedger(l) /\ l.at > 0}
LedgerSurvives == faithful => Select(lines, LedgerLines) = ledger

(* Until then notes outside the Log and Todo sections survive in their section *)
(* and in the order they were made.                                            *)
NoteLines == {l \in Lines : l.shape = "bullet" /\ l.at > 0}
FactsSurvive ==
  faithful => \A s \in {"facts", "hypotheses"} : Select(SectionOf(lines, s), NoteLines) = noted[s]

(* context.py on prune_log: it keeps "old compactions' facts/artifacts", so    *)
(* what any summary listed under (a) and (d) stays in the file, once and in    *)
(* order: until a rewrite loses something, or a note in the Log begins like    *)
(* such a part and _reduce_log_block takes it for the block's.                 *)
ResultsSurvive == faithful /\ ~posed => Select(lines, ResultSet) = results

(* The block of every compaction stays in the file under its heading, once and *)
(* in order, and in the Log, whatever the summaries hold, until a rewrite      *)
(* loses something.                                                            *)
CompactionBlocks == {l \in Lines : l.shape = "block" /\ l.of = "compaction" /\ l.at > 0}
BlocksInLog ==
  faithful =>
    /\ Select(lines, CompactionBlocks) = [n \in 1..compactions |-> Block("compaction", n)]
    /\ Select(SectionOf(lines, "log"), CompactionBlocks) = Select(lines, CompactionBlocks)

(* A summary as SUMMARY_PROMPT asks for it: each heading is given once at most *)
(* and in their order, and no line among the facts and artifacts, their own    *)
(* headings included, starts a block.                                          *)
InOrder == {<<"a", "b">>, <<"a", "c">>, <<"a", "d">>, <<"b", "c">>, <<"b", "d">>, <<"c", "d">>}
AsAsked(summary) ==
  /\ \A i \in PartHeads(summary) : summary[i].of \in {"a", "d"} => summary[i].shape = "part"
  /\ \A i, j \in PartHeads(summary) : i < j => <<summary[i].of, summary[j].of>> \in InOrder
  /\ \A i \in DOMAIN summary \ PartHeads(summary) :
       summary[i].shape \in {"header", "block"} => ~Reported(summary, i)
=============================================================================
