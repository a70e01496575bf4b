---------------------------- MODULE MCExtraction ----------------------------
(***************************************************************************)
(* Small instances of Extraction.                                          *)
(***************************************************************************)
EXTENDS Extraction

CONSTANTS p1, p2, none, erased, redacted

Says(c, flaw, typed) == [content |-> c, flaw |-> flaw, typed |-> typed]
Talk(name) == [name |-> name, scope |-> "private", credential |-> FALSE]

\* A transcript that is enqueued again and again and quotes one of the facts
\* made of it, and two that are refused.
Submissions == {Talk("one"), [Talk("two") EXCEPT !.credential = TRUE],
                [Talk("three") EXCEPT !.scope = "secret"]}
Quoted == {<<Talk("one"), "b">>}

\* A model that is nondeterministic, goes beyond the limit, repeats itself,
\* leaks a credential or proposes what the policy refuses.
Answers == {
  <<Says("a", "none", "weak"), Says("b", "none", "state")>>,
  <<Says("b", "none", "none"), Says("a", "policy", "none")>>,
  <<Says("b", "none", "none"), Says("a", "credential", "none")>>,
  <<Says("a", "none", "none"), Says("b", "none", "event"), Says("a", "none", "none")>>}
FewAnswers == {<<Says("a", "none", "none"), Says("b", "none", "none")>>}
=============================================================================
