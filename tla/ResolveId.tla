----------------------------- MODULE ResolveId -----------------------------
(***************************************************************************)
(* duk__resolve_module_id (duk_module_duktape.c): the resolution of a      *)
(* CommonJS module id.  It runs in one pass over a buffer and writes the   *)
(* resolved id over the input it is still reading, without bound checks,   *)
(* on the grounds that "the output is never longer than the input".        *)
(*                                                                         *)
(* An id is a sequence of terms with slashes between them; a term is a     *)
(* sequence of characters.  (An empty term is a doubled, leading or        *)
(* trailing slash.)                                                        *)
(***************************************************************************)
EXTENDS Integers, SequencesExt

CONSTANTS
  Letters,    \* characters of terms, other than periods
  Names,      \* terms that are identifiers
  BadTerms,   \* terms that begin with a period but are neither "." nor ".."
  MaxTerms,   \* bound on the terms of a requested id
  MaxModId,   \* bound on the terms of the requiring module's id
  Limit       \* DUK_COMMONJS_MODULE_ID_LIMIT, the size of buf

Dot == <<".">>
DotDot == <<".", ".">>
Terms == Names \cup BadTerms \cup {<<>>, Dot, DotDot}

NUL == "NUL"

ASSUME TermsAssumption ==
  /\ Letters \cap {".", "/", NUL} = {}
  /\ Names \cup BadTerms \subseteq Seq(Letters \cup {"."}) \ {<<>>, Dot, DotDot}
  /\ \A t \in Names : t[1] # "."
  /\ \A t \in BadTerms : t[1] = "."
ASSUME BoundsAssumption == MaxTerms \in Nat /\ MaxModId \in Nat /\ Limit \in Nat

VARIABLES
  mod,     \* require.id of the requiring module, as terms; <<>> if it has none
  req,     \* the requested id, as terms
  buf,     \* the buffer, up to and with its NUL
  p,       \* where the next input character is read
  q,       \* where the next output character is written
  q_last,  \* where the last output term begins
  pc       \* "term", "done", "error"

idVars == <<mod, req, buf, p, q, q_last, pc>>

\* The terms with slashes in between.
Join(ts) == FlattenSeq([k \in 1 .. Len(ts) |-> IF k = 1 THEN ts[k] ELSE <<"/">> \o ts[k]])

\* The input: mod_id/../req_id for a relative id within a module, else req_id.
IsRelative == mod # <<>> /\ req[1] # <<>> /\ req[1][1] = "."
UnderModule == IF IsRelative THEN mod \o req ELSE req \* variant: no '..' after mod_id
Input == IF IsRelative THEN mod \o <<DotDot>> \o req ELSE req

IdInit ==
  /\ mod \in UNION {[1 .. n -> Names] : n \in 0 .. MaxModId}
  /\ req \in UNION {[1 .. n -> Terms] : n \in 1 .. MaxTerms}
  /\ LET s == Join(Input) IN
       /\ buf = Append(s, NUL)
       /\ pc = IF Len(s) >= Limit THEN "error" ELSE "term"
  /\ p = 1 /\ q = 1 /\ q_last = 1

-----------------------------------------------------------------------------
\* eat_dup_slashes: the first place from k on that is not a slash.
NoEat(b, k) == k        \* variant: repeated slashes are not eaten
EatSlashes(b, k) == CHOOSE j \in k .. Len(b) : b[j] # "/" /\ \A i \in k .. j - 1 : b[i] = "/"

\* Where the term at p ends: at a slash or at the NUL.
TermEnd == CHOOSE j \in p .. Len(buf) :
             buf[j] \in {"/", NUL} /\ \A i \in p .. j - 1 : buf[i] \notin {"/", NUL}

\* The start of the output's last component, q[-1] being its slash.
KeepComponent == q - 1 \* variant: only the slash is taken back
Backtrack == CHOOSE k \in 1 .. q - 1 :
               /\ k = 1 \/ buf[k - 1] = "/"
               /\ \A i \in k + 1 .. q - 1 : buf[i - 1] # "/"

\* The term at p is ts, followed by a slash.
TermIs(ts) == buf[p] = "." /\ SubSeq(buf, p, TermEnd) = Append(ts, "/")

Fail == pc' = "error" /\ UNCHANGED <<mod, req, buf, p, q>>

\* A term '.' is eaten entirely.
EatDot ==
  /\ TermIs(Dot)
  /\ p' = EatSlashes(buf, p + 2)
  /\ UNCHANGED <<mod, req, buf, q, pc>>

\* A term '..' takes back one component of the output.
EatDotDot ==
  /\ TermIs(DotDot)
  /\ IF q = 1
     THEN Fail
     ELSE /\ p' = EatSlashes(buf, p + 3)
          /\ q' = Backtrack
          /\ UNCHANGED <<mod, req, buf, pc>>

\* An empty term, another term with a period first, or a last '.' or '..'.
BadTerm ==
  /\ \/ buf[p] \in {NUL, "/"}
     \/ buf[p] = "." /\ ~TermIs(Dot) /\ ~TermIs(DotDot)
  /\ Fail

\* A name is copied down to q, with the slash after it if there is one.
CopyName ==
  /\ buf[p] \notin {NUL, "/", "."}
  /\ LET last == buf[TermEnd] = NUL
         n == IF last THEN TermEnd - p ELSE TermEnd - p + 1
     IN /\ buf' = [k \in 1 .. Len(buf) |-> IF k \in q .. q + n - 1 THEN buf[k - q + p] ELSE buf[k]]
        /\ q' = q + n
        /\ p' = IF last THEN TermEnd + 1 ELSE EatSlashes(buf', TermEnd + 1)
        /\ pc' = IF last THEN "done" ELSE pc
  /\ UNCHANGED <<mod, req>>

\* One round of the resolution loop.
Round ==
  /\ pc = "term"
  /\ q_last' = q
  /\ EatDot \/ EatDotDot \/ BadTerm \/ CopyName

Returned == pc \in {"done", "error"} /\ UNCHANGED idVars

IdNext == Round \/ Returned

IdSpec == IdInit /\ [][IdNext]_idVars
-----------------------------------------------------------------------------
\* What an id stands for: its names, with each '..' taking back the one
\* before; <<>> if it does not stand for a module.
Step(acc, t) ==
  IF ~acc.ok \/ t \in {<<>>, Dot} THEN acc
  ELSE IF t \in BadTerms \/ (t = DotDot /\ acc.names = <<>>) THEN [acc EXCEPT !.ok = FALSE]
  ELSE [acc EXCEPT !.names = IF t = DotDot THEN Front(@) ELSE Append(@, t)]

Meaning(ts) ==
  IF ts[1] = <<>> \/ Last(ts) \notin Names \/ Len(Join(ts)) >= Limit THEN <<>>
  ELSE LET r == FoldLeft(Step, [ok |-> TRUE, names |-> <<>>], ts)
       IN IF r.ok THEN r.names ELSE <<>>

\* What the pass has to compute.
Expected == Meaning(Input)

\* The loop's own assertions: the output never overtakes the input it is
\* written over, and a '..' finds a slash before q to take back.
InPlace ==
  /\ 1 <= q /\ q <= p /\ p <= Len(buf) + 1
  /\ pc = "done" => q_last < q
  /\ pc = "term" /\ q > 1 => buf[q - 1] = "/"

\* The in-place pass computes the meaning of the id, and its last component,
\* and throws exactly for the ids that have none.
Resolves ==
  /\ pc = "error" => Expected = <<>>
  /\ pc = "done" => /\ Expected # <<>>
                    /\ SubSeq(buf, 1, q - 1) = Join(Expected)
                    /\ SubSeq(buf, q_last, q - 1) = Last(Expected)

\* A relative id is resolved in the directory of the requiring module: its
\* terms are appended to the module's id without the module's own name.
RelativeToModule ==
  pc = "done" /\ IsRelative =>
    LET absolute == Front(mod) \o req
    IN SubSeq(buf, 1, q - 1) = Join(Meaning(absolute))
=============================================================================
