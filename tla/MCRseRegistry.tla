----------------------------- MODULE MCRseRegistry -----------------------------
(* RseRegistry with what the readers ask for, one kind of lookup at a time. *)
EXTENDS RseRegistry, TLC

CONSTANTS i1, i2, n1, n2, p1, p2

Symmetric == Permutations({p1, p2})

MCAsked == {{{<<"id", n1>>}}, {{<<"tagged", n1>>}}, {{<<"name", i1>>}},
            {{<<"attribute", i1>>}, Info(i1)}}
===============================================================================
