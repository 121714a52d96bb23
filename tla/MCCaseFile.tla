----------------------------- MODULE MCCaseFile -----------------------------
(* Instances of CaseFile for TLC: shapes of summaries the prompt asks for, and *)
(* one a model also gives, that quotes section headers and has a heading of    *)
(* the form "### (b)"; and rewrites of the case file that pass the checks of   *)
(* shrink_casefile although they lose or break something.                      *)
EXTENDS CaseFile

line == Text(0, 0)
Full == <<Part("a"), line, Part("b"), line, Part("c"), line, Part("d"), line>>
NoArtifacts == <<Part("a"), line, Part("b"), line, Part("c"), line>>
OnlyFacts == <<Part("a"), line>>
Quoting == <<Part("a"), line, Block("b", 0), Header("facts"), Quoted("log"), line, Part("d"), line>>

Expected == {Full, NoArtifacts, OnlyFacts, Quoting}
AllNotes == {"line", "with header", "b", "d"}

Mention(s) == Line("text", s, 0, 0)
TodoInline == <<Header("facts"), Mention("todo"), Quoted("hypotheses"), Header("log"), Ledger(1),
                Header("facts")>>
LogInline == <<Header("hypotheses"), Header("todo"), Block("facts", 0), Mention("log")>>
Broken == {TodoInline, LogInline}

(* They are as SUMMARY_PROMPT asks for them, the hypothesis under which the    *)
(* results are proved to survive.                                              *)
ASSUME SummariesAsAsked == \A summary \in Expected : AsAsked(summary)
=============================================================================
