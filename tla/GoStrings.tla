----------------------------- MODULE GoStrings -----------------------------
(***************************************************************************)
(* The Go standard-library string functions the rules and the option   *)
(* parser call, written over TLC strings (Len and SubSeq work on strings *)
(* in TLC).  They are library code, not code of the repository:          *)
(* strings.HasPrefix, HasSuffix, Contains, ToLower and ToUpper (ASCII    *)
(* part), and path.Base.                                                 *)
(***************************************************************************)
EXTENDS Naturals, Sequences

\* The one-character substring at position i.
CharAt(s, i) == SubSeq(s, i, i)

\* strings.HasPrefix
HasPrefix(s, p) == Len(p) <= Len(s) /\ SubSeq(s, 1, Len(p)) = p

\* strings.HasSuffix
HasSuffix(s, p) == Len(p) <= Len(s) /\ SubSeq(s, Len(s) - Len(p) + 1, Len(s)) = p

\* The positions (1-based) at which t occurs in s.
IndicesOf(s, t) ==
    {i \in 1..(Len(s) - Len(t) + 1) : SubSeq(s, i, i + Len(t) - 1) = t}

\* strings.Contains (named apart from SequencesExt!Contains)
StrContains(s, t) == IndicesOf(s, t) # {}

\* The suffix of s that starts at position i.
From(s, i) == SubSeq(s, i, Len(s))

Upper == "ABCDEFGHIJKLMNOPQRSTUVWXYZ"
Lower == "abcdefghijklmnopqrstuvwxyz"

LowerChar(c) ==
    IF StrContains(Upper, c)
    THEN LET i == CHOOSE k \in 1..26 : CharAt(Upper, k) = c IN CharAt(Lower, i)
    ELSE c

\* strings.ToLower, for ASCII input
RECURSIVE ToLower(_)
ToLower(s) ==
    IF s = "" THEN "" ELSE LowerChar(CharAt(s, 1)) \o ToLower(From(s, 2))

UpperChar(c) ==
    IF StrContains(Lower, c)
    THEN LET i == CHOOSE k \in 1..26 : CharAt(Lower, k) = c IN CharAt(Upper, i)
    ELSE c

\* strings.ToUpper, for ASCII input
RECURSIVE ToUpper(_)
ToUpper(s) ==
    IF s = "" THEN "" ELSE UpperChar(CharAt(s, 1)) \o ToUpper(From(s, 2))

\* s without its trailing slashes
RECURSIVE TrimTrailingSlash(_)
TrimTrailingSlash(s) ==
    IF HasSuffix(s, "/") THEN TrimTrailingSlash(SubSeq(s, 1, Len(s) - 1)) ELSE s

\* path.Base: "." for "", "/" for a path of slashes, else the last element
Base(p) ==
    LET t == TrimTrailingSlash(p)
        slashes == IndicesOf(t, "/")
    IN  CASE p = "" -> "."
          [] t = "" -> "/"
          [] slashes = {} -> t
          [] OTHER -> From(t, (CHOOSE i \in slashes : \A j \in slashes : j <= i) + 1)
=============================================================================
