----------------------------- MODULE Normalizer -----------------------------
(* normalize_payload(): the canonical form of a payload, for detection only.   *)
(* A payload is a sequence of tokens.  A token of text stands for a word or a  *)
(* separator and has k layers of percent-encoding; a token "byte" is one raw   *)
(* byte, of value k.                                                           *)
EXTENDS Integers, SequencesExt

CONSTANTS LowerCase,   \* the lower case of the words that have upper case in them
          MaxNorm      \* MAX_NORM (65536), in tokens

Encoded(w, layers) == [t |-> w, k |-> layers]
Plain(w) == Encoded(w, 0)
Byte(v) == [t |-> "byte", k |-> v]

Text(words) == [i \in DOMAIN words |-> Plain(words[i])]
Occurs(text, pattern) ==
  \E i \in 0 .. Len(text) - Len(pattern) :
    \A j \in DOMAIN pattern : text[i + j] = pattern[j]
Window(p, n) == SubSeq(p, 1, Min({Len(p), n}))

-------------------------------------------------------------------------------
\* One pass takes one layer off every token; a '+' of the text is a form-encoded space.
DecodeOnce(p) ==
  [i \in DOMAIN p |->
    IF p[i].t = "byte" THEN p[i]
    ELSE IF p[i].k > 0 THEN [p[i] EXCEPT !.k = @ - 1]
    ELSE IF p[i].t = "+" THEN Plain(" ")
    ELSE p[i]]

Bug_Decode(p) == DecodeOnce(p)

\* Passes stop early at a fixed point, which changes nothing.
Decode(p) == DecodeOnce(DecodeOnce(DecodeOnce(p)))

LineEnds == {Plain("\r\n"), Plain("\n")}
Pair(s, i, a, b) == i < Len(s) /\ s[i] = Plain(a) /\ s[i + 1] = Plain(b)
After(S, n, s) == IF S = {} THEN Len(s) + 1 ELSE Min(S) + n

\* Block comments, and line comments with their newline.  What a comment that is not
\* closed hides is lost.
Uncommented(s) ==
  LET rest[i \in 1 .. Len(s) + 1] ==
        IF i > Len(s) THEN <<>>
        ELSE IF Pair(s, i, "/", "*")
          THEN rest[After({j \in i + 2 .. Len(s) : Pair(s, j, "*", "/")}, 2, s)]
        ELSE IF Pair(s, i, "-", "-")
          THEN rest[After({j \in i .. Len(s) : s[j] \in LineEnds}, 1, s)]
        ELSE <<s[i]>> \o rest[i + 1]
  IN  rest[1]

White == {Plain(w) : w \in {" ", "\t", "\n", "\r\n"}}

Folded(x) ==
  IF x.t \in DOMAIN LowerCase /\ x.k = 0 THEN Plain(LowerCase[x.t]) ELSE x

\* Every run of white space becomes one space, also across a comment.
Collapsed(s) ==
  FoldLeft(LAMBDA out, x :
             IF x \notin White THEN Append(out, Folded(x))
             ELSE IF out # <<>> /\ Last(out) = Plain(" ") THEN out
             ELSE Append(out, Plain(" ")), <<>>, s)

normalize_payload(raw) == Collapsed(Uncommented(Decode(Window(raw, MaxNorm))))
===============================================================================
