---------------------------- MODULE HideUnicode ----------------------------
(***************************************************************************)
(* How names are compared (policy/unicode_policy.cpp).  A string is the    *)
(* sequence of its code points; a byte that begins none is a symbol of its *)
(* own, and case folding is a function on symbols.                         *)
(***************************************************************************)
EXTENDS Naturals, Sequences

CONSTANTS
    Symbol,
    Ignorable,               \* IsDefaultIgnorableCodePoint
    Undecodable,             \* bytes DecodeUtf8CodePoint refuses
    Fold                     \* tolower for ASCII

ASSUME SymbolAssumption ==
    /\ Ignorable \subseteq Symbol
    /\ Undecodable \subseteq Symbol
    /\ Ignorable \cap Undecodable = {}
    /\ Fold \in [Symbol -> Symbol]
    /\ \A c \in Symbol : Fold[Fold[c]] = Fold[c]
    /\ \A c \in Symbol : Fold[c] \in Ignorable \cup Undecodable => Fold[c] = c

Name == Seq(Symbol)

\* A whole span of undecodable bytes is dropped, and so are the ignorables.
Kept(c) == c \notin Ignorable \cup Undecodable
RewriteString(s) == SelectSeq(s, Kept)

FoldAsciiForMatch(s) == [i \in DOMAIN s |-> Fold[s[i]]]

CanonicalizeHiddenEntryNameForMatch(s) == FoldAsciiForMatch(RewriteString(s))

\* The search ends at the first undecodable byte.
NeedsSanitization(s) ==
    \E i \in DOMAIN s : /\ s[i] \in Ignorable
                        /\ \A k \in 1..(i - 1) : s[k] \notin Undecodable

(***************************************************************************)
(* CompareCaseFoldIgnoringDefaultIgnorables, for equality.  Each side      *)
(* skips ignorables until it meets an undecodable byte; that byte does not *)
(* move the next index, and from there on the side is "raw": it is         *)
(* compared as it stands, to the end.                                      *)
(***************************************************************************)
SkipIgnorables(s, i, raw) ==
    IF raw THEN i
    ELSE CHOOSE k \in i..(Len(s) + 1) :
            /\ \A m \in i..(k - 1) : s[m] \in Ignorable
            /\ k = Len(s) + 1 \/ s[k] \notin Ignorable

EqualIgnoringCaseAndIgnorables(lhs, rhs) ==
    LET equalFrom[i \in 1..(Len(lhs) + 1), j \in 1..(Len(rhs) + 1),
                  lraw \in BOOLEAN, rraw \in BOOLEAN] ==
            LET li == SkipIgnorables(lhs, i, lraw)
                rj == SkipIgnorables(rhs, j, rraw)
            IN \/ li > Len(lhs) /\ rj > Len(rhs)
               \/ /\ li <= Len(lhs) /\ rj <= Len(rhs)
                  /\ Fold[lhs[li]] = Fold[rhs[rj]]
                  /\ equalFrom[li + 1, rj + 1, lraw \/ lhs[li] \in Undecodable,
                               rraw \/ rhs[rj] \in Undecodable]
    IN equalFrom[1, 1, FALSE, FALSE]
=============================================================================
