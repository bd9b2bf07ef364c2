----------------------------- MODULE MCDiffGate -----------------------------
(* Small instances of DiffGate.                                             *)
EXTENDS DiffGate, TLC

CONSTANTS a, b, p, q, x, y, m1, m2

\* Two paths of one name, as src/__init__.py and src//init/.py: the name is
\* read back as the second.
OneName == [f \in {p, q} |-> m1]
ReadAsSecond == [f \in {m1} |-> q]

\* "src/app.py" is named src__app.py, which ends in _app.py.
OwnNames == p :> m1 @@ q :> m2
ReadBack == m1 :> p @@ m2 :> q
OneTail == {<<m1, m2>>}
NoTail == {}

Symmetry == Permutations(Task)
=============================================================================
