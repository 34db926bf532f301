---------------------------- MODULE MCResolveId ----------------------------
(* Small instances of ResolveId. *)
EXTENDS ResolveId

\* Names of different lengths, so that output and input shift.
TwoNames == {<<"x">>, <<"y", "z">>}
\* A period first, twice first, and three periods.
DottedTerms == {<<".", "x">>, <<".", ".", ".">>}
=============================================================================
