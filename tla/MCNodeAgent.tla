---------------------------- MODULE MCNodeAgent ----------------------------
(* A small instance of NodeAgent: what plans and scripts there are. *)
EXTENDS NodeAgent

SomeModelPlans == {<<>>, <<"type", "click">>, <<"wait", "scroll", "click">>}
SomeTemplates == {<<>>, <<"click">>}
SomeScripts == {<<"enter", "read">>}
=============================================================================
