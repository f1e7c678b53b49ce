--------------------------- MODULE FrontEndProofs ---------------------------
(***************************************************************************)
(* Proofs about FrontEnd, for files of any number and length, all sets of  *)
(* addresses and any number of line ends, placeholders and addresses in a  *)
(* text: texts stay texts, the verdict is right, no error leaves a file    *)
(* without wallet addresses of its dialect, and in those whose line ends   *)
(* have one byte every error is shown at its token.                        *)
(***************************************************************************)
EXTENDS FrontEnd, FiniteSetTheorems, SequenceFacts

-----------------------------------------------------------------------------
(* What the steps of the normalisation map to each other.                  *)

GoodTokens == {t \in Tokens : WellFormed(t)}
Layers == [pos : Nat, offset : Int]
Pairs == [orig : Forms \X Addresses, replacement : Forms \X Addresses]
Results == [text : Seq(GoodTokens), layers : Seq(Layers), replaced : Seq(Pairs)]

\* An address has a width.
LEMMA WidthType ==
    ASSUME NEW form \in Forms \cup Templates, NEW a \in Addresses
    PROVE  Width(form, a) \in Nat
<1>1. Digits[a] \in Nat
  BY DigitsType
<1> QED
  BY <1>1 DEF Width, Forms, Templates

\* A token that is written as an address is a token, and only its form changes.
LEMMA WrittenType ==
    ASSUME NEW t \in GoodTokens, NEW form \in Forms, NEW a \in Addresses, t.k \in {"sender", "address"}
    PROVE  LET new == Written(t, form, a)
           IN  /\ new \in GoodTokens
               /\ new.k = "address" /\ new.form = form /\ new.of = a
               /\ new.width \in Nat /\ new.fault = t.fault /\ new.spaced = t.spaced
<1>1. Width(form, a) \in Nat
  BY WidthType
<1> DEFINE w == Width(form, a)
           new == [t EXCEPT !.k = "address", !.form = form, !.of = a, !.width = w]
<1>2. t \in Tokens
  BY DEF GoodTokens
<1> HIDE DEF w
<1>3. /\ new \in Tokens
      /\ new.k = "address" /\ new.form = form /\ new.of = a /\ new.width = w
      /\ new.fault = t.fault /\ new.spaced = t.spaced
  BY <1>1, <1>2 DEF Tokens, Kinds, w
<1>4. form \notin Templates
  BY DEF Forms, Templates
<1>5. new \in GoodTokens
  <2>1. new.width = Width(new.form, new.of)
    BY <1>3 DEF w
  <2> QED
    BY <1>3, <1>4, <2>1 DEF GoodTokens, WellFormed
<1> QED
  BY <1>1, <1>3, <1>5 DEF Written, w

\* A text of the model is a sequence of such tokens.
LEMMA TextIsSeq ==
    ASSUME NEW text, Text(text)
    PROVE  text \in Seq(GoodTokens)
<1>1. ToSet(text) \subseteq GoodTokens
  BY DEF Text, GoodTokens, WellFormed
<1> QED
  BY <1>1 DEF Text

LEMMA EndsUnfold ==
    ASSUME NEW text \in Seq(GoodTokens)
    PROVE  /\ Ends(text) \in [0..Len(text) -> Nat] /\ Ends(text)[0] = 0
           /\ \A k \in 1..Len(text) : Ends(text)[k] = Ends(text)[k - 1] + text[k].width
<1> DEFINE n == Len(text)
           op == [x \in Nat \X Nat |-> IF x[1] \in 1..n THEN x[2] + text[x[1]].width ELSE x[2]]
<1>1. n \in Nat
  OBVIOUS
<1>2. ASSUME NEW k \in 1..n PROVE text[k].width \in Nat
  <2>1. text[k] \in GoodTokens
    OBVIOUS
  <2> QED
    BY <2>1 DEF GoodTokens, Tokens
<1>3. op \in [Nat \X Nat -> Nat]
  BY <1>2
<1> HIDE DEF op
<1>4. Recursion(Nat, 0, op, n)
  BY <1>1, <1>3, RecursionTo, Zenon
<1>5. PICK g \in [0..n -> Nat] : g[0] = 0 /\ \A k \in 1..n : g[k] = op[<<k, g[k - 1]>>]
  BY <1>4, Zenon DEF Recursion
<1>6. ASSUME NEW k \in 1..n PROVE g[k] = g[k - 1] + text[k].width
  <2>1. k \in Nat /\ k - 1 \in 0..n /\ g[k - 1] \in Nat
    BY <1>1
  <2> QED
    BY <1>5, <2>1 DEF op
<1>7. g = [k \in 0..n |-> IF k = 0 THEN 0 ELSE g[k - 1] + text[k].width]
  BY <1>1, <1>5, <1>6
<1>8. Ends(text) = [k \in 0..n |-> IF k = 0 THEN 0 ELSE Ends(text)[k - 1] + text[k].width]
  BY <1>7, Zenon DEF Ends
<1> DEFINE T == {k \in 0..n : Ends(text)[k] \in Nat}
<1>9. 0 \in T
  BY <1>1, <1>8
<1>10. ASSUME NEW k \in 1..n, k - 1 \in T PROVE k \in T
  <2>1. k \in 0..n /\ Ends(text)[k - 1] \in Nat /\ k # 0
    BY <1>1, <1>10
  <2>2. Ends(text)[k] = Ends(text)[k - 1] + text[k].width
    BY <1>8, <2>1
  <2> QED
    BY <1>2, <2>1, <2>2
<1> HIDE DEF T
<1>11. \A k \in 0..n : k \in T
  BY <1>1, <1>9, <1>10, InductTo
<1>12. \A k \in 0..n : Ends(text)[k] \in Nat
  BY <1>11 DEF T
<1>13. Ends(text) \in [0..n -> Nat]
  BY <1>8, <1>12
<1>14. Ends(text)[0] = 0
  BY <1>1, <1>8
<1>15. ASSUME NEW k \in 1..n PROVE Ends(text)[k] = Ends(text)[k - 1] + text[k].width
  <2>1. k \in 0..n /\ k # 0
    BY <1>1
  <2> QED
    BY <1>8, <2>1
<1> QED
  BY <1>13, <1>14, <1>15

LEMMA OffsetType ==
    ASSUME NEW text \in Seq(GoodTokens), NEW i \in 1..Len(text)
    PROVE  Offset(text, i) \in Nat
<1>1. i - 1 \in 0..Len(text)
  OBVIOUS
<1> QED
  BY <1>1, EndsUnfold DEF Offset

-----------------------------------------------------------------------------
(* Line ends.                                                              *)

\* The states of the pass over the characters: a CR has been read before the place.
PassStates ==
    {s \in [text : Seq(GoodTokens), layers : Seq(Layers), was_cr : BOOLEAN, pos : Nat] :
        s.was_cr => s.pos > 0}

LEMMA LFGood == LF \in GoodTokens /\ LF.k = "lf"
BY DEF LF, Token, GoodTokens, WellFormed, Tokens, Kinds, Forms, Templates, Faults, None

LEMMA NextCharacterType ==
    ASSUME NEW s \in PassStates, NEW t \in GoodTokens
    PROVE  NextCharacter(s, t) \in PassStates
<1>1. /\ s \in [text : Seq(GoodTokens), layers : Seq(Layers), was_cr : BOOLEAN, pos : Nat]
      /\ s.was_cr => s.pos > 0
  BY DEF PassStates
<1>2. t.width \in Nat /\ (t.k = "cr" => t.width = 1)
  BY DEF GoodTokens, WellFormed, Tokens
<1>3. CASE t.k = "lf" /\ s.was_cr
  <2> DEFINE l == Layer(s.pos + 1 - 2, 1)
  <2>1. l \in Layers
    BY <1>1, <1>3 DEF Layer, Layers
  <2> HIDE DEF l
  <2>2. Append(s.layers, l) \in Seq(Layers)
    BY <1>1, <2>1
  <2>3. NextCharacter(s, t) = [s EXCEPT !.was_cr = FALSE, !.pos = s.pos + 1, !.layers = Append(s.layers, l)]
    BY <1>3, <1>1 DEF NextCharacter, l
  <2>4. LET r == NextCharacter(s, t)
        IN  /\ r \in [text : Seq(GoodTokens), layers : Seq(Layers), was_cr : BOOLEAN, pos : Nat]
            /\ ~r.was_cr
    <3>1. NextCharacter(s, t)
            = [text |-> s.text, layers |-> Append(s.layers, l), was_cr |-> FALSE, pos |-> s.pos + 1]
      BY <1>1, <2>3
    <3>2. s.pos + 1 \in Nat
      BY <1>1
    <3> QED
      BY <1>1, <2>2, <3>1, <3>2
  <2> QED
    BY <2>4 DEF PassStates
<1>4. CASE ~(t.k = "lf" /\ s.was_cr)
  <2> DEFINE u == IF t.k = "cr" THEN LF ELSE t
  <2>1. u \in GoodTokens
    BY LFGood
  <2> HIDE DEF u
  <2>2. Append(s.text, u) \in Seq(GoodTokens)
    BY <1>1, <2>1
  <2>3. NextCharacter(s, t) = [s EXCEPT !.was_cr = (t.k = "cr"), !.pos = s.pos + t.width, !.text = Append(s.text, u)]
    BY <1>4, <1>1 DEF NextCharacter, u
  <2>4. s.pos + t.width \in Nat /\ (t.k = "cr" => s.pos + t.width > 0)
    BY <1>1, <1>2
  <2>5. LET r == NextCharacter(s, t)
        IN  /\ r \in [text : Seq(GoodTokens), layers : Seq(Layers), was_cr : BOOLEAN, pos : Nat]
            /\ r.was_cr = (t.k = "cr") /\ r.pos = s.pos + t.width
    BY <1>1, <2>2, <2>3, <2>4
  <2> QED
    BY <2>4, <2>5 DEF PassStates
<1> QED
  BY <1>3, <1>4

LEMMA LineEndsUnfold ==
    ASSUME NEW text \in Seq(GoodTokens)
    PROVE  /\ LineEnds(text) \in [0..Len(text) -> PassStates]
           /\ LineEnds(text)[0] = [text |-> <<>>, layers |-> <<>>, was_cr |-> FALSE, pos |-> 0]
           /\ \A k \in 1..Len(text) : LineEnds(text)[k] = NextCharacter(LineEnds(text)[k - 1], text[k])
<1> DEFINE n == Len(text)
           S == PassStates
           s0 == [text |-> <<>>, layers |-> <<>>, was_cr |-> FALSE, pos |-> 0]
           op == [x \in Nat \X S |-> IF x[1] \in 1..n THEN NextCharacter(x[2], text[x[1]]) ELSE x[2]]
<1>1. n \in Nat /\ s0 \in S
  BY DEF PassStates
<1>2. ASSUME NEW k \in 1..n, NEW s \in S PROVE NextCharacter(s, text[k]) \in S
  <2>1. text[k] \in GoodTokens
    OBVIOUS
  <2> QED
    BY <2>1, NextCharacterType
<1> HIDE DEF S, s0
<1>3. op \in [Nat \X S -> S]
  BY <1>2
<1> HIDE DEF op
<1>4. Recursion(S, s0, op, n)
  BY <1>1, <1>3, RecursionTo, Zenon
<1>5. PICK g \in [0..n -> S] : g[0] = s0 /\ \A k \in 1..n : g[k] = op[<<k, g[k - 1]>>]
  BY <1>4, Zenon DEF Recursion
<1>6. ASSUME NEW k \in 1..n PROVE g[k] = NextCharacter(g[k - 1], text[k])
  <2>1. k \in Nat /\ k - 1 \in 0..n /\ g[k - 1] \in S
    BY <1>1
  <2> QED
    BY <1>5, <2>1 DEF op
<1>7. g = [k \in 0..n |-> IF k = 0 THEN s0 ELSE NextCharacter(g[k - 1], text[k])]
  BY <1>1, <1>5, <1>6
<1>8. LineEnds(text) = [k \in 0..n |-> IF k = 0 THEN s0 ELSE NextCharacter(LineEnds(text)[k - 1], text[k])]
  BY <1>7, Zenon DEF LineEnds, s0
<1>9. LineEnds(text)[0] = s0
  BY <1>1, <1>8
<1>10. ASSUME NEW k \in 1..n PROVE LineEnds(text)[k] = NextCharacter(LineEnds(text)[k - 1], text[k])
  BY <1>1, <1>8
<1> DEFINE T == {k \in 0..n : LineEnds(text)[k] \in S}
<1>11. 0 \in T
  BY <1>1, <1>9
<1>12. ASSUME NEW k \in 1..n, k - 1 \in T PROVE k \in T
  <2>1. k \in 0..n /\ LineEnds(text)[k - 1] \in S
    BY <1>1, <1>12
  <2> QED
    BY <1>2, <1>10, <2>1
<1> HIDE DEF T
<1>13. \A k \in 0..n : k \in T
  BY <1>1, <1>11, <1>12, InductTo
<1>14. LineEnds(text) \in [0..n -> S]
  BY <1>8, <1>13 DEF T
<1> QED
  BY <1>9, <1>10, <1>14 DEF S, s0

\* What the pass has made of the first k tokens: the tokens that end no line, and line feeds.
Kept(text, k, s) ==
    /\ \A i \in DOMAIN s.text : s.text[i].k # "cr"
    /\ \A i \in DOMAIN s.text : s.text[i].k = "lf" \/ \E j \in 1..k : s.text[i] = text[j]
    /\ \A j \in 1..k : text[j].k \in {"cr", "lf"} \/ \E i \in DOMAIN s.text : s.text[i] = text[j]

LEMMA NextCharacterKeeps ==
    ASSUME NEW text \in Seq(GoodTokens), NEW k \in 1..Len(text), NEW s \in PassStates, Kept(text, k - 1, s)
    PROVE  Kept(text, k, NextCharacter(s, text[k]))
<1> DEFINE t == text[k]
           r == NextCharacter(s, t)
<1>1. /\ s \in [text : Seq(GoodTokens), layers : Seq(Layers), was_cr : BOOLEAN, pos : Nat]
  BY DEF PassStates
<1>2. \A j : j \in 1..k <=> (j \in 1..(k - 1) \/ j = k)
  OBVIOUS
<1>3. CASE t.k = "lf" /\ s.was_cr
  <2>1. r.text = s.text
    BY <1>1, <1>3 DEF NextCharacter
  <2> QED
    BY <1>2, <1>3, <2>1 DEF Kept
<1>4. CASE ~(t.k = "lf" /\ s.was_cr)
  <2> DEFINE u == IF t.k = "cr" THEN LF ELSE t
  <2>1. r.text = Append(s.text, u)
    BY <1>4, <1>1 DEF NextCharacter
  <2>2. /\ DOMAIN s.text = 1..Len(s.text) /\ Len(s.text) \in Nat
        /\ DOMAIN r.text = 1..(Len(s.text) + 1)
        /\ \A i \in 1..Len(s.text) : r.text[i] = s.text[i]
        /\ r.text[Len(s.text) + 1] = u
    <3>1. \E S : s.text \in Seq(S)
      BY <1>1
    <3> QED
      BY <2>1, <3>1, AppendKeeps
  <2>3. u.k # "cr" /\ (u.k = "lf" \/ u = t) /\ (t.k \in {"cr", "lf"} \/ u = t)
    BY LFGood
  <2> HIDE DEF u, r, t
  <2>4. \A i : i \in DOMAIN r.text <=> (i \in DOMAIN s.text \/ i = Len(s.text) + 1)
    BY <2>2
  <2>5. \A i \in DOMAIN r.text : r.text[i].k # "cr"
    BY <2>2, <2>3, <2>4 DEF Kept
  <2>6. ASSUME NEW i \in DOMAIN r.text PROVE r.text[i].k = "lf" \/ \E j \in 1..k : r.text[i] = text[j]
    <3>1. CASE i \in DOMAIN s.text
      <4>1. r.text[i] = s.text[i]
        BY <2>2, <3>1
      <4>2. s.text[i].k = "lf" \/ \E j \in 1..(k - 1) : s.text[i] = text[j]
        BY <3>1 DEF Kept
      <4> QED
        BY <1>2, <4>1, <4>2
    <3>2. CASE i = Len(s.text) + 1
      BY <1>2, <2>2, <2>3, <3>2 DEF t
    <3> QED
      BY <2>4, <3>1, <3>2
  <2>7. ASSUME NEW j \in 1..k PROVE text[j].k \in {"cr", "lf"} \/ \E i \in DOMAIN r.text : r.text[i] = text[j]
    <3>1. CASE j \in 1..(k - 1)
      BY <2>2, <2>4, <3>1 DEF Kept
    <3>2. CASE j = k
      BY <2>2, <2>3, <2>4, <3>2 DEF t
    <3> QED
      BY <1>2, <3>1, <3>2
  <2> QED
    BY <2>5, <2>6, <2>7 DEF Kept, r, t
<1> QED
  BY <1>3, <1>4

LEMMA LineEndsKept ==
    ASSUME NEW text \in Seq(GoodTokens)
    PROVE  /\ NormalizeLineEnds(text) \in Results
           /\ Kept(text, Len(text), NormalizeLineEnds(text))
<1> DEFINE n == Len(text)
           T == {k \in 0..n : Kept(text, k, LineEnds(text)[k])}
<1>1. n \in Nat
  OBVIOUS
<1>2. 0 \in T
  <2>1. LineEnds(text)[0].text = <<>>
    BY LineEndsUnfold
  <2> QED
    BY <1>1, <2>1 DEF Kept
<1>3. ASSUME NEW k \in 1..n, k - 1 \in T PROVE k \in T
  <2>1. k \in 0..n /\ k - 1 \in 0..n /\ Kept(text, k - 1, LineEnds(text)[k - 1])
    BY <1>1, <1>3
  <2>2. /\ LineEnds(text)[k - 1] \in PassStates
        /\ LineEnds(text)[k] = NextCharacter(LineEnds(text)[k - 1], text[k])
    BY <2>1, LineEndsUnfold
  <2> QED
    BY <2>1, <2>2, NextCharacterKeeps
<1> HIDE DEF T
<1>4. \A k \in 0..n : k \in T
  BY <1>1, <1>2, <1>3, InductTo
<1>5. n \in 0..n /\ Kept(text, n, LineEnds(text)[n])
  BY <1>1, <1>4 DEF T
<1>6. LineEnds(text)[n] \in PassStates
  BY <1>5, LineEndsUnfold
<1> DEFINE d == LineEnds(text)[n]
           r == NormalizeLineEnds(text)
<1>7. r = [text |-> d.text, layers |-> d.layers, replaced |-> <<>>]
  BY DEF NormalizeLineEnds
<1> HIDE DEF d, r
<1>8. r \in Results /\ r.text = d.text
  BY <1>6, <1>7 DEF Results, PassStates, d
<1> QED
  BY <1>5, <1>8 DEF Kept, d, r

-----------------------------------------------------------------------------
(* The passes that replace tokens. Each keeps the number of the tokens.    *)

SameLength(s) == {r \in Results : Len(r.text) = Len(s.text)}

\* q is the result r with another token at i.
OneReplaced(r, i, new, q) ==
    /\ q \in Results /\ Len(q.text) = Len(r.text)
    /\ \A j \in 1..Len(r.text) : q.text[j] = IF j = i THEN new ELSE r.text[j]

\* A token is replaced and a layer is recorded.
LEMMA ReplaceOne ==
    ASSUME NEW r \in Results, NEW i \in 1..Len(r.text), NEW new \in GoodTokens,
           NEW layers \in Seq(Layers), NEW replaced \in Seq(Pairs)
    PROVE  OneReplaced(r, i, new, [text |-> [r.text EXCEPT ![i] = new], layers |-> layers, replaced |-> replaced])
<1>1. r.text \in Seq(GoodTokens)
  BY DEF Results
<1>2. /\ [r.text EXCEPT ![i] = new] \in Seq(GoodTokens)
      /\ Len([r.text EXCEPT ![i] = new]) = Len(r.text)
      /\ \A j \in 1..Len(r.text) : [r.text EXCEPT ![i] = new][j] = IF j = i THEN new ELSE r.text[j]
  BY <1>1, ExceptSeq
<1> QED
  BY <1>2 DEF Results, OneReplaced

LEMMA ReplaceTemplateStep ==
    ASSUME NEW template \in Templates, NEW addr \in [form : Forms, of : Addresses],
           NEW r \in Results, NEW i \in 1..Len(r.text)
    PROVE  LET q == ReplaceTemplate(template, addr, r, i)
               new == Written(r.text[i], addr.form, addr.of)
           IN  /\ q \in Results /\ Len(q.text) = Len(r.text)
               /\ \A j \in 1..Len(r.text) :
                     q.text[j] = IF j = i /\ r.text[i].form = template THEN new ELSE r.text[j]
<1> DEFINE q == ReplaceTemplate(template, addr, r, i)
           new == Written(r.text[i], addr.form, addr.of)
           layer == Layer(Offset(r.text, i) + new.width, r.text[i].width - new.width)
<1>1. CASE r.text[i].form # template
  <2>1. q = r
    BY <1>1 DEF ReplaceTemplate
  <2> QED
    BY <1>1, <2>1
<1>2. CASE r.text[i].form = template
  <2>1. r.text \in Seq(GoodTokens) /\ r.layers \in Seq(Layers) /\ r.replaced \in Seq(Pairs)
    BY DEF Results
  <2>2. r.text[i] \in GoodTokens /\ r.text[i].k = "sender" /\ r.text[i].width \in Nat
    BY <1>2, <2>1 DEF GoodTokens, WellFormed, Tokens
  <2>3. new \in GoodTokens /\ new.width \in Nat
    BY <2>2, WrittenType
  <2>4. layer \in Layers
    BY <2>1, <2>2, <2>3, OffsetType DEF Layer, Layers
  <2>5. q = [r EXCEPT !.text[i] = new, !.layers = Append(r.layers, layer)]
    BY <1>2 DEF ReplaceTemplate
  <2> HIDE DEF new, layer
  <2>6. q = [text |-> [r.text EXCEPT ![i] = new], layers |-> Append(r.layers, layer), replaced |-> r.replaced]
    BY <2>5 DEF Results
  <2>7. Append(r.layers, layer) \in Seq(Layers)
    BY <2>1, <2>4
  <2> HIDE DEF q
  <2>8. OneReplaced(r, i, new, q)
    BY <2>1, <2>3, <2>6, <2>7, ReplaceOne, Zenon
  <2> QED
    BY <1>2, <2>8 DEF q, new, OneReplaced
<1> QED
  BY <1>1, <1>2

LEMMA TemplatePassUnfold ==
    ASSUME NEW template \in Templates, NEW addr \in [form : Forms, of : Addresses], NEW s \in Results
    PROVE  LET f == TemplatePass(template, addr, s)
           IN  /\ f \in [0..Len(s.text) -> SameLength(s)]
               /\ f[0] = s
               /\ \A k \in 1..Len(s.text) : f[k] = ReplaceTemplate(template, addr, f[k - 1], k)
<1> DEFINE n == Len(s.text)
           S == SameLength(s)
           Step(r, k) == ReplaceTemplate(template, addr, r, k)
           f == TemplatePass(template, addr, s)
           op == [x \in Nat \X S |-> IF x[1] \in 1..n THEN Step(x[2], x[1]) ELSE x[2]]
<1>1. n \in Nat /\ s \in S
  BY DEF SameLength, Results
<1>2. ASSUME NEW k \in 1..n, NEW r \in S PROVE Step(r, k) \in S
  BY ReplaceTemplateStep DEF SameLength
<1> HIDE DEF S, Step, f
<1>3. op \in [Nat \X S -> S]
  BY <1>2
<1> HIDE DEF op
<1>4. Recursion(S, s, op, n)
  BY <1>1, <1>3, RecursionTo, Zenon
<1>5. PICK g \in [0..n -> S] : g[0] = s /\ \A k \in 1..n : g[k] = op[<<k, g[k - 1]>>]
  BY <1>4, Zenon DEF Recursion
<1>6. ASSUME NEW k \in 1..n PROVE g[k] = Step(g[k - 1], k)
  <2>1. k \in Nat /\ k - 1 \in 0..n /\ g[k - 1] \in S
    BY <1>1
  <2> QED
    BY <1>5, <2>1 DEF op
<1>7. g = [k \in 0..n |-> IF k = 0 THEN s ELSE Step(g[k - 1], k)]
  BY <1>1, <1>5, <1>6
<1>8. f = [k \in 0..n |-> IF k = 0 THEN s ELSE Step(f[k - 1], k)]
  BY <1>7, Zenon DEF TemplatePass, f, Step
<1>9. f[0] = s
  BY <1>1, <1>8
<1>10. ASSUME NEW k \in 1..n PROVE f[k] = Step(f[k - 1], k)
  <2>1. k \in 0..n /\ k # 0
    BY <1>1
  <2>2. f[k] = IF k = 0 THEN s ELSE Step(f[k - 1], k)
    BY <1>8, <2>1, Zenon
  <2> QED
    BY <2>1, <2>2
<1> DEFINE T == {k \in 0..n : f[k] \in S}
<1>11. 0 \in T
  BY <1>1, <1>9
<1>12. ASSUME NEW k \in 1..n, k - 1 \in T PROVE k \in T
  <2>1. k \in 0..n /\ f[k - 1] \in S
    BY <1>1, <1>12
  <2> QED
    BY <1>2, <1>10, <2>1
<1> HIDE DEF T
<1>13. \A k \in 0..n : k \in T
  BY <1>1, <1>11, <1>12, InductTo
<1>14. f \in [0..n -> S]
  BY <1>8, <1>13 DEF T
<1> QED
  BY <1>9, <1>10, <1>14 DEF S, Step, f

\* The first k tokens are done.
Filled(template, addr, s, k, r) ==
    \A j \in 1..Len(s.text) :
        r.text[j] = IF j <= k /\ s.text[j].form = template
                    THEN Written(s.text[j], addr.form, addr.of) ELSE s.text[j]

\* A pass replaces the tokens that are the template, and no other.
LEMMA TemplatePassFills ==
    ASSUME NEW template \in Templates, NEW addr \in [form : Forms, of : Addresses], NEW s \in Results
    PROVE  LET r == Replaced(template, addr, s)
           IN  r \in SameLength(s) /\ Filled(template, addr, s, Len(s.text), r)
<1> DEFINE n == Len(s.text)
           f == TemplatePass(template, addr, s)
           T == {k \in 0..n : Filled(template, addr, s, k, f[k])}
<1>0. n \in Nat
  BY DEF Results
<1>1. /\ f \in [0..n -> SameLength(s)] /\ f[0] = s
      /\ \A k \in 1..n : f[k] = ReplaceTemplate(template, addr, f[k - 1], k)
  BY TemplatePassUnfold
<1> HIDE DEF f
<1>2. 0 \in T
  BY <1>0, <1>1 DEF Filled
<1>3. ASSUME NEW k \in 1..n, k - 1 \in T PROVE k \in T
  <2>1. k \in 0..n /\ Filled(template, addr, s, k - 1, f[k - 1])
    BY <1>0, <1>3
  <2>2. k - 1 \in 0..n
    BY <1>0
  <2>3. PICK r : r = f[k - 1]
    OBVIOUS
  <2>4. r \in Results /\ Len(r.text) = n /\ f[k] = ReplaceTemplate(template, addr, r, k)
    BY <1>1, <2>2, <2>3 DEF SameLength
  <2>5. \A j \in 1..n : f[k].text[j] = IF j = k /\ r.text[k].form = template
                                        THEN Written(r.text[k], addr.form, addr.of) ELSE r.text[j]
    BY <2>4, ReplaceTemplateStep
  <2>6. \A j \in 1..n : r.text[j] = IF j <= k - 1 /\ s.text[j].form = template
                                     THEN Written(s.text[j], addr.form, addr.of) ELSE s.text[j]
    BY <2>1, <2>3 DEF Filled
  <2>7. r.text[k] = s.text[k]
    BY <2>6
  <2>8. Filled(template, addr, s, k, f[k])
    BY <2>5, <2>6, <2>7 DEF Filled
  <2> QED
    BY <2>1, <2>8
<1> HIDE DEF T
<1>4. \A k \in 0..n : k \in T
  BY <1>0, <1>2, <1>3, InductTo
<1>5. n \in 0..n /\ Filled(template, addr, s, n, f[n])
  BY <1>0, <1>4 DEF T
<1>6. Replaced(template, addr, s) = f[n]
  BY DEF Replaced, f
<1> QED
  BY <1>1, <1>5, <1>6

\* Exactly the placeholders become the address of the sender, if there is one.
LEMMA SenderFilled ==
    ASSUME NEW s \in Results, NEW addr \in Senders
    PROVE  LET r == ReplaceSenderPlaceholder(s, addr)
           IN  /\ r \in SameLength(s)
               /\ \A j \in 1..Len(s.text) :
                     r.text[j] = IF s.text[j].k = "sender" /\ addr # NoAddress
                                 THEN Written(s.text[j], addr.form, addr.of) ELSE s.text[j]
<1>1. CASE addr = NoAddress
  BY <1>1 DEF ReplaceSenderPlaceholder, SameLength
<1>2. CASE addr # NoAddress
  <2>1. addr \in [form : Forms, of : Addresses]
    BY <1>2 DEF Senders
  <2>2. "template" \in Templates /\ "spaced_template" \in Templates
    BY DEF Templates
  <2> DEFINE p == Replaced("template", addr, s)
             r == Replaced("spaced_template", addr, p)
             n == Len(s.text)
  <2>3. p \in SameLength(s) /\ Filled("template", addr, s, n, p)
    BY <2>1, <2>2, TemplatePassFills
  <2>4. p \in Results /\ Len(p.text) = n
    BY <2>3 DEF SameLength
  <2>5. r \in SameLength(p) /\ Filled("spaced_template", addr, p, n, r)
    BY <2>1, <2>2, <2>4, TemplatePassFills
  <2>6. ReplaceSenderPlaceholder(s, addr) = r
    BY <1>2 DEF ReplaceSenderPlaceholder
  <2> HIDE DEF p, r
  <2>7. r \in SameLength(s)
    BY <2>4, <2>5 DEF SameLength
  <2>8. ASSUME NEW j \in 1..n
        PROVE  r.text[j] = IF s.text[j].k = "sender" THEN Written(s.text[j], addr.form, addr.of) ELSE s.text[j]
    <3> DEFINE t == s.text[j]
               w == Written(t, addr.form, addr.of)
    <3>1. j <= n /\ s.text \in Seq(GoodTokens)
      BY DEF Results
    <3>2. t \in GoodTokens
      BY <3>1
    <3>3. t.k = "sender" <=> t.form \in {"template", "spaced_template"}
      BY <3>2 DEF GoodTokens, WellFormed, Templates
    <3>4. p.text[j] = IF t.form = "template" THEN w ELSE t
      BY <2>3, <3>1 DEF Filled
    <3>5. r.text[j] = IF p.text[j].form = "spaced_template" THEN Written(p.text[j], addr.form, addr.of) ELSE p.text[j]
      BY <2>4, <2>5, <3>1 DEF Filled
    <3>6. CASE t.form = "template"
      <4>1. w.form = addr.form
        BY <2>1, <3>2, <3>3, <3>6, WrittenType
      <4>2. w.form # "spaced_template"
        BY <2>1, <4>1 DEF Forms
      <4> QED
        BY <3>3, <3>4, <3>5, <3>6, <4>2
    <3>7. CASE t.form # "template"
      <4>1. p.text[j] = t
        BY <3>4, <3>7
      <4> QED
        BY <3>3, <3>5, <3>7, <4>1
    <3> QED
      BY <3>6, <3>7
  <2> QED
    BY <1>2, <2>6, <2>7, <2>8
<1> QED
  BY <1>1, <1>2

-----------------------------------------------------------------------------
(* Addresses.                                                              *)

\* A layer and a pair of addresses are recorded.
LEMMA AddressLayerType ==
    ASSUME NEW r \in Results, NEW end \in Nat, NEW old \in GoodTokens, NEW new \in GoodTokens,
           old.k = "address", new.k = "address"
    PROVE  LET q == AddressLayer(r, end, old, new)
           IN  q \in Results /\ q.text = r.text
<1>1. /\ old.form \in Forms /\ old.of \in Addresses /\ old.width \in Nat
      /\ new.form \in Forms /\ new.of \in Addresses /\ new.width \in Nat
  BY DEF GoodTokens, WellFormed, Tokens
<1> DEFINE layer == Layer(end, old.width - new.width)
           pair == [orig |-> <<old.form, old.of>>, replacement |-> <<new.form, new.of>>]
<1>2. layer \in Layers /\ pair \in Pairs
  BY <1>1 DEF Layer, Layers, Pairs
<1>3. AddressLayer(r, end, old, new)
        = [r EXCEPT !.layers = Append(r.layers, layer), !.replaced = Append(r.replaced, pair)]
  BY DEF AddressLayer
<1> HIDE DEF layer, pair
<1>4. Append(r.layers, layer) \in Seq(Layers) /\ Append(r.replaced, pair) \in Seq(Pairs)
  BY <1>2 DEF Results
<1> QED
  BY <1>3, <1>4 DEF Results

Paddable(r, i) == r.text[i].form \in {"trimmed", "short"} /\ i < Len(r.text)

LEMMA PadAddressStep ==
    ASSUME NEW r \in Results, NEW i \in 1..Len(r.text)
    PROVE  LET q == PadAddress(r, i)
               new == Written(r.text[i], "long", r.text[i].of)
           IN  /\ q \in Results /\ Len(q.text) = Len(r.text)
               /\ \A j \in 1..Len(r.text) :
                     q.text[j] = IF j = i /\ Paddable(r, i) THEN new ELSE r.text[j]
<1> DEFINE q == PadAddress(r, i)
           old == r.text[i]
           new == Written(old, "long", old.of)
           a == AddressLayer(r, Offset(r.text, i) + old.width, old, new)
<1>1. CASE ~Paddable(r, i)
  <2>1. q = r
    BY <1>1 DEF PadAddress, Paddable
  <2> QED
    BY <1>1, <2>1
<1>2. CASE Paddable(r, i)
  <2>1. r.text \in Seq(GoodTokens) /\ r.layers \in Seq(Layers) /\ r.replaced \in Seq(Pairs)
    BY DEF Results
  <2>2. old \in GoodTokens
    BY <2>1
  <2>3. old.k = "address" /\ old.of \in Addresses /\ old.width \in Nat
    BY <1>2, <2>2 DEF GoodTokens, WellFormed, Tokens, Paddable, Forms
  <2>4. "long" \in Forms
    BY DEF Forms
  <2>5. new \in GoodTokens /\ new.k = "address"
    BY <2>2, <2>3, <2>4, WrittenType
  <2>6. Offset(r.text, i) + old.width \in Nat
    BY <2>1, <2>3, OffsetType
  <2>7. q = [a EXCEPT !.text[i] = new]
    BY <1>2 DEF PadAddress, Paddable
  <2> HIDE DEF new, old
  <2>8. a \in Results /\ a.text = r.text
    BY <2>2, <2>3, <2>5, <2>6, AddressLayerType
  <2> HIDE DEF a
  <2>9. q = [text |-> [a.text EXCEPT ![i] = new], layers |-> a.layers, replaced |-> a.replaced]
    BY <2>7, <2>8 DEF Results
  <2>10. i \in 1..Len(a.text) /\ a.layers \in Seq(Layers) /\ a.replaced \in Seq(Pairs)
    BY <2>8 DEF Results
  <2> HIDE DEF q
  <2>11. OneReplaced(a, i, new, q)
    BY <2>5, <2>8, <2>9, <2>10, ReplaceOne, Zenon
  <2> QED
    BY <1>2, <2>8, <2>11 DEF q, new, old, OneReplaced
<1> QED
  BY <1>1, <1>2

LEMMA PadPassUnfold ==
    ASSUME NEW s \in Results
    PROVE  LET f == PadPass(s)
           IN  /\ f \in [0..Len(s.text) -> SameLength(s)]
               /\ f[0] = s
               /\ \A k \in 1..Len(s.text) : f[k] = PadAddress(f[k - 1], k)
<1> DEFINE n == Len(s.text)
           S == SameLength(s)
           Step(r, k) == PadAddress(r, k)
           f == PadPass(s)
           op == [x \in Nat \X S |-> IF x[1] \in 1..n THEN Step(x[2], x[1]) ELSE x[2]]
<1>1. n \in Nat /\ s \in S
  BY DEF SameLength, Results
<1>2. ASSUME NEW k \in 1..n, NEW r \in S PROVE Step(r, k) \in S
  BY PadAddressStep DEF SameLength
<1> HIDE DEF S, Step, f
<1>3. op \in [Nat \X S -> S]
  BY <1>2
<1> HIDE DEF op
<1>4. Recursion(S, s, op, n)
  BY <1>1, <1>3, RecursionTo, Zenon
<1>5. PICK g \in [0..n -> S] : g[0] = s /\ \A k \in 1..n : g[k] = op[<<k, g[k - 1]>>]
  BY <1>4, Zenon DEF Recursion
<1>6. ASSUME NEW k \in 1..n PROVE g[k] = Step(g[k - 1], k)
  <2>1. k \in Nat /\ k - 1 \in 0..n /\ g[k - 1] \in S
    BY <1>1
  <2> QED
    BY <1>5, <2>1 DEF op
<1>7. g = [k \in 0..n |-> IF k = 0 THEN s ELSE Step(g[k - 1], k)]
  BY <1>1, <1>5, <1>6
<1>8. f = [k \in 0..n |-> IF k = 0 THEN s ELSE Step(f[k - 1], k)]
  BY <1>7, Zenon DEF PadPass, f, Step
<1>9. f[0] = s
  BY <1>1, <1>8
<1>10. ASSUME NEW k \in 1..n PROVE f[k] = Step(f[k - 1], k)
  <2>1. k \in 0..n /\ k # 0
    BY <1>1
  <2>2. f[k] = IF k = 0 THEN s ELSE Step(f[k - 1], k)
    BY <1>8, <2>1, Zenon
  <2> QED
    BY <2>1, <2>2
<1> DEFINE T == {k \in 0..n : f[k] \in S}
<1>11. 0 \in T
  BY <1>1, <1>9
<1>12. ASSUME NEW k \in 1..n, k - 1 \in T PROVE k \in T
  <2>1. k \in 0..n /\ f[k - 1] \in S
    BY <1>1, <1>12
  <2> QED
    BY <1>2, <1>10, <2>1
<1> HIDE DEF T
<1>13. \A k \in 0..n : k \in T
  BY <1>1, <1>11, <1>12, InductTo
<1>14. f \in [0..n -> S]
  BY <1>8, <1>13 DEF T
<1> QED
  BY <1>9, <1>10, <1>14 DEF S, Step, f

\* The first k tokens are done.
Padded(s, k, r) ==
    \A j \in 1..Len(s.text) :
        r.text[j] = IF j <= k /\ Paddable(s, j)
                    THEN Written(s.text[j], "long", s.text[j].of) ELSE s.text[j]

\* The addresses of at most 32 digits are padded, and no other.
LEMMA PadPassPads ==
    ASSUME NEW s \in Results
    PROVE  LET r == ReplaceLibraAddress(s)
           IN  r \in SameLength(s) /\ Padded(s, Len(s.text), r)
<1> DEFINE n == Len(s.text)
           f == PadPass(s)
           T == {k \in 0..n : Padded(s, k, f[k])}
<1>0. n \in Nat
  BY DEF Results
<1>1. /\ f \in [0..n -> SameLength(s)] /\ f[0] = s
      /\ \A k \in 1..n : f[k] = PadAddress(f[k - 1], k)
  BY PadPassUnfold
<1> HIDE DEF f
<1>2. 0 \in T
  BY <1>0, <1>1 DEF Padded
<1>3. ASSUME NEW k \in 1..n, k - 1 \in T PROVE k \in T
  <2>1. k \in 0..n /\ Padded(s, k - 1, f[k - 1])
    BY <1>0, <1>3
  <2>2. k - 1 \in 0..n
    BY <1>0
  <2>3. PICK r : r = f[k - 1]
    OBVIOUS
  <2>4. r \in Results /\ Len(r.text) = n /\ f[k] = PadAddress(r, k)
    BY <1>1, <2>2, <2>3 DEF SameLength
  <2>5. \A j \in 1..n : f[k].text[j] = IF j = k /\ Paddable(r, k)
                                        THEN Written(r.text[k], "long", r.text[k].of) ELSE r.text[j]
    BY <2>4, PadAddressStep
  <2>6. \A j \in 1..n : r.text[j] = IF j <= k - 1 /\ Paddable(s, j)
                                     THEN Written(s.text[j], "long", s.text[j].of) ELSE s.text[j]
    BY <2>1, <2>3 DEF Padded
  <2>7. r.text[k] = s.text[k]
    BY <2>6
  <2>8. Paddable(r, k) <=> Paddable(s, k)
    BY <2>4, <2>7 DEF Paddable
  <2>9. Padded(s, k, f[k])
    BY <2>5, <2>6, <2>7, <2>8 DEF Padded
  <2> QED
    BY <2>1, <2>9
<1> HIDE DEF T
<1>4. \A k \in 0..n : k \in T
  BY <1>0, <1>2, <1>3, InductTo
<1>5. n \in 0..n /\ Padded(s, n, f[n])
  BY <1>0, <1>4 DEF T
<1>6. ReplaceLibraAddress(s) = f[n]
  BY DEF ReplaceLibraAddress, f
<1> QED
  BY <1>1, <1>5, <1>6

LEMMA ReplaceWalletStep ==
    ASSUME NEW s \in Results, NEW w \in Forms, NEW to \in Forms, w # to,
           NEW matches \in SUBSET {i \in 1..Len(s.text) : s.text[i].form = w},
           NEW r \in SameLength(s), NEW i \in 1..Len(s.text)
    PROVE  LET q == ReplaceWallet(s, to, matches, r, i)
           IN  /\ q \in SameLength(s)
               /\ \A j \in 1..Len(s.text) :
                     q.text[j] = IF i \in matches /\ SameString(r.text[j], s.text[i])
                                 THEN Written(r.text[j], to, s.text[i].of) ELSE r.text[j]
<1> DEFINE n == Len(s.text)
           q == ReplaceWallet(s, to, matches, r, i)
           old == s.text[i]
           new == Written(old, to, old.of)
           a == AddressLayer(r, Offset(s.text, i) + old.width, old, new)
<1>1. CASE i \notin matches
  <2>1. q = r
    BY <1>1 DEF ReplaceWallet
  <2> QED
    BY <1>1, <2>1
<1>2. CASE i \in matches
  <2>1. /\ s.text \in Seq(GoodTokens) /\ r \in Results /\ Len(r.text) = n
        /\ r.text \in Seq(GoodTokens)
    BY DEF Results, SameLength
  <2>2. old \in GoodTokens /\ old.form = w
    BY <1>2, <2>1
  <2>3. old.k = "address" /\ old.of \in Addresses /\ old.width \in Nat
    BY <2>2 DEF GoodTokens, WellFormed, Tokens
  <2>4. new \in GoodTokens /\ new.k = "address"
    BY <2>2, <2>3, WrittenType
  <2>5. Offset(s.text, i) + old.width \in Nat
    BY <2>1, <2>3, OffsetType
  <2> DEFINE u(j) == IF SameString(r.text[j], old) THEN Written(r.text[j], to, old.of) ELSE r.text[j]
  <2>6. ASSUME NEW j \in 1..n PROVE u(j) \in GoodTokens
    <3>1. r.text[j] \in GoodTokens
      BY <2>1
    <3>2. SameString(r.text[j], old) => r.text[j].k \in {"sender", "address"}
      BY DEF SameString
    <3> QED
      BY <2>3, <3>1, <3>2, WrittenType
  <2> HIDE DEF new
  <2>7. a \in Results /\ a.text = r.text
    BY <2>1, <2>2, <2>3, <2>4, <2>5, AddressLayerType
  <2>8. q = [a EXCEPT !.text = [j \in DOMAIN a.text |->
                  IF SameString(a.text[j], old) THEN Written(a.text[j], to, old.of) ELSE a.text[j]]]
    BY <1>2 DEF ReplaceWallet, new
  <2>9. DOMAIN a.text = 1..n
    BY <2>1, <2>7
  <2> HIDE DEF a, old
  <2> DEFINE new_text == [j \in 1..n |-> u(j)]
  <2>10. q = [a EXCEPT !.text = new_text]
    BY <2>7, <2>8, <2>9
  <2>11. new_text \in Seq(GoodTokens) /\ Len(new_text) = n
    <3>1. n \in Nat
      BY <2>1
    <3>2. new_text \in [1..n -> GoodTokens]
      BY <2>6
    <3> HIDE DEF u, new_text
    <3> QED
      BY <3>1, <3>2
  <2>12. \A j \in 1..n : new_text[j] = u(j)
    OBVIOUS
  <2> HIDE DEF new_text, u, q
  <2>13. q \in Results /\ q.text = new_text
    BY <2>7, <2>10, <2>11 DEF Results
  <2> QED
    BY <1>2, <2>11, <2>12, <2>13 DEF SameLength, q, u, old
<1> QED
  BY <1>1, <1>2

LEMMA WalletPassUnfold ==
    ASSUME NEW s \in Results, NEW w \in Forms, NEW to \in Forms, w # to,
           NEW matches \in SUBSET {i \in 1..Len(s.text) : s.text[i].form = w}
    PROVE  LET f == WalletPass(s, to, matches)
           IN  /\ f \in [0..Len(s.text) -> SameLength(s)]
               /\ f[0] = s
               /\ \A k \in 1..Len(s.text) : f[k] = ReplaceWallet(s, to, matches, f[k - 1], k)
<1> DEFINE n == Len(s.text)
           S == SameLength(s)
           Step(r, k) == ReplaceWallet(s, to, matches, r, k)
           f == WalletPass(s, to, matches)
           op == [x \in Nat \X S |-> IF x[1] \in 1..n THEN Step(x[2], x[1]) ELSE x[2]]
<1>1. n \in Nat /\ s \in S
  BY DEF SameLength, Results
<1>2. ASSUME NEW k \in 1..n, NEW r \in S PROVE Step(r, k) \in S
  BY ReplaceWalletStep
<1> HIDE DEF S, Step, f
<1>3. op \in [Nat \X S -> S]
  BY <1>2
<1> HIDE DEF op
<1>4. Recursion(S, s, op, n)
  BY <1>1, <1>3, RecursionTo, Zenon
<1>5. PICK g \in [0..n -> S] : g[0] = s /\ \A k \in 1..n : g[k] = op[<<k, g[k - 1]>>]
  BY <1>4, Zenon DEF Recursion
<1>6. ASSUME NEW k \in 1..n PROVE g[k] = Step(g[k - 1], k)
  <2>1. k \in Nat /\ k - 1 \in 0..n /\ g[k - 1] \in S
    BY <1>1
  <2> QED
    BY <1>5, <2>1 DEF op
<1>7. g = [k \in 0..n |-> IF k = 0 THEN s ELSE Step(g[k - 1], k)]
  BY <1>1, <1>5, <1>6
<1>8. f = [k \in 0..n |-> IF k = 0 THEN s ELSE Step(f[k - 1], k)]
  BY <1>7, Zenon DEF WalletPass, f, Step
<1>9. f[0] = s
  BY <1>1, <1>8
<1>10. ASSUME NEW k \in 1..n PROVE f[k] = Step(f[k - 1], k)
  <2>1. k \in 0..n /\ k # 0
    BY <1>1
  <2>2. f[k] = IF k = 0 THEN s ELSE Step(f[k - 1], k)
    BY <1>8, <2>1, Zenon
  <2> QED
    BY <2>1, <2>2
<1> DEFINE T == {k \in 0..n : f[k] \in S}
<1>11. 0 \in T
  BY <1>1, <1>9
<1>12. ASSUME NEW k \in 1..n, k - 1 \in T PROVE k \in T
  <2>1. k \in 0..n /\ f[k - 1] \in S
    BY <1>1, <1>12
  <2> QED
    BY <1>2, <1>10, <2>1
<1> HIDE DEF T
<1>13. \A k \in 0..n : k \in T
  BY <1>1, <1>11, <1>12, InductTo
<1>14. f \in [0..n -> S]
  BY <1>8, <1>13 DEF T
<1> QED
  BY <1>9, <1>10, <1>14 DEF S, Step, f

\* Only wallet addresses have become hex, among them the matches up to k.
Hexed(s, w, to, matches, k, r) ==
    \A j \in 1..Len(s.text) :
        \/ s.text[j].form = w /\ r.text[j] = Written(s.text[j], to, s.text[j].of)
        \/ r.text[j] = s.text[j] /\ ~(j \in matches /\ j <= k)

LEMMA WalletPassHexes ==
    ASSUME NEW s \in Results, NEW w \in Forms, NEW to \in Forms, w # to,
           NEW matches \in SUBSET {i \in 1..Len(s.text) : s.text[i].form = w}
    PROVE  LET r == ReplaceWallets(s, to, matches)
           IN  r \in SameLength(s) /\ Hexed(s, w, to, matches, Len(s.text), r)
<1> DEFINE n == Len(s.text)
           f == WalletPass(s, to, matches)
           T == {k \in 0..n : Hexed(s, w, to, matches, k, f[k])}
<1>0. n \in Nat /\ s.text \in Seq(GoodTokens)
  BY DEF Results
<1>1. /\ f \in [0..n -> SameLength(s)] /\ f[0] = s
      /\ \A k \in 1..n : f[k] = ReplaceWallet(s, to, matches, f[k - 1], k)
  BY WalletPassUnfold
<1> HIDE DEF f
<1>2. 0 \in T
  BY <1>0, <1>1 DEF Hexed
<1>3. ASSUME NEW k \in 1..n, k - 1 \in T PROVE k \in T
  <2>1. k \in 0..n /\ k - 1 \in 0..n
    BY <1>0
  <2>2. PICK r : r = f[k - 1]
    OBVIOUS
  <2>3. r \in SameLength(s) /\ f[k] = ReplaceWallet(s, to, matches, r, k) /\ Hexed(s, w, to, matches, k - 1, r)
    BY <1>1, <1>3, <2>1, <2>2
  <2>4. \A j \in 1..n : f[k].text[j] = IF k \in matches /\ SameString(r.text[j], s.text[k])
                                        THEN Written(r.text[j], to, s.text[k].of) ELSE r.text[j]
    BY <2>3, ReplaceWalletStep
  <2>5. ASSUME NEW j \in 1..n
        PROVE  \/ s.text[j].form = w /\ f[k].text[j] = Written(s.text[j], to, s.text[j].of)
               \/ f[k].text[j] = s.text[j] /\ ~(j \in matches /\ j <= k)
    <3> DEFINE t == s.text[j]
    <3>1. t \in GoodTokens
      BY <1>0
    <3>2. t.form = w => t.k = "address" /\ t.of \in Addresses
      BY <3>1 DEF GoodTokens, WellFormed
    <3>3. CASE t.form = w /\ r.text[j] = Written(t, to, t.of)
      <4>1. r.text[j].form = to
        BY <3>1, <3>2, <3>3, WrittenType
      <4>2. k \in matches => ~SameString(r.text[j], s.text[k])
        BY <4>1 DEF SameString
      <4> QED
        BY <2>4, <3>3, <4>2
    <3>4. CASE r.text[j] = t /\ ~(j \in matches /\ j <= k - 1)
      <4>1. CASE k \in matches /\ SameString(t, s.text[k])
        <5>1. t.form = w /\ t.of = s.text[k].of
          BY <4>1 DEF SameString
        <5> QED
          BY <2>4, <3>4, <4>1, <5>1
      <4>2. CASE ~(k \in matches /\ SameString(t, s.text[k]))
        <5>1. f[k].text[j] = t
          BY <2>4, <3>4, <4>2
        <5>2. ASSUME j \in matches, j <= k PROVE FALSE
          <6>1. j = k
            BY <3>4, <5>2
          <6>2. t.form = w /\ t.k = "address"
            BY <3>2, <5>2
          <6> QED
            BY <4>2, <5>2, <6>1, <6>2 DEF SameString
        <5> QED
          BY <5>1, <5>2
      <4> QED
        BY <4>1, <4>2
    <3>5. \/ t.form = w /\ r.text[j] = Written(t, to, t.of)
          \/ r.text[j] = t /\ ~(j \in matches /\ j <= k - 1)
      BY <2>3 DEF Hexed
    <3> QED
      BY <3>3, <3>4, <3>5
  <2> QED
    BY <2>1, <2>5 DEF Hexed
<1> HIDE DEF T
<1>4. \A k \in 0..n : k \in T
  BY <1>0, <1>2, <1>3, InductTo
<1>5. n \in 0..n /\ Hexed(s, w, to, matches, n, f[n])
  BY <1>0, <1>4 DEF T
<1>6. ReplaceWallets(s, to, matches) = f[n]
  BY DEF ReplaceWallets, f
<1> QED
  BY <1>1, <1>5, <1>6

\* What a dialect makes of a token: a wallet address of another dialect stays, and one of
\* its own stays only where the pattern for bech32 does not see it.
Readdressed(dialect, t, u) ==
    /\ u.k = t.k /\ u.fault = t.fault /\ u.spaced = t.spaced
    /\ u.form \in WalletForms =>
          u.form = t.form /\ (u.form = Wallet(dialect) => dialect = "dfinance" /\ ~t.spaced)
    /\ t.form \in WalletForms \ {Wallet(dialect)} => u.form = t.form

\* A token that is written anew in a form of hex keeps all but its form.
LEMMA HexIsReaddressed ==
    ASSUME NEW dialect, NEW t \in GoodTokens, t.k = "address", NEW form \in Forms \ WalletForms,
           t.form \notin WalletForms \/ t.form = Wallet(dialect)
    PROVE  Readdressed(dialect, t, Written(t, form, t.of))
<1>1. t.of \in Addresses
  BY DEF GoodTokens, WellFormed
<1> DEFINE u == Written(t, form, t.of)
<1>2. u.k = "address" /\ u.form = form /\ u.fault = t.fault /\ u.spaced = t.spaced
  BY <1>1, WrittenType
<1> HIDE DEF u
<1> QED
  BY <1>2 DEF Readdressed, u

LEMMA AddressesReplaced ==
    ASSUME NEW s \in Results, NEW dialect \in Dialects
    PROVE  LET r == ReplaceAddresses(dialect, s)
           IN  /\ r \in SameLength(s)
               /\ \A j \in 1..Len(s.text) : Readdressed(dialect, s.text[j], r.text[j])
<1> DEFINE n == Len(s.text)
           r == ReplaceAddresses(dialect, s)
<1>1. /\ n \in Nat /\ \A j \in 1..n : s.text[j] \in GoodTokens
      /\ DOMAIN s.text = 1..n
  BY DEF Results
<1>2. \A j \in 1..n : s.text[j].form \in Forms <=> s.text[j].k = "address"
  BY <1>1 DEF GoodTokens, WellFormed
<1>3. CASE dialect = "libra"
  <2>1. r = ReplaceLibraAddress(s)
    BY <1>3 DEF ReplaceAddresses
  <2>2. r \in SameLength(s) /\ Padded(s, n, r)
    BY <2>1, PadPassPads
  <2>3. Wallet(dialect) = None
    BY <1>3 DEF Wallet
  <2>4. ASSUME NEW j \in 1..n PROVE Readdressed(dialect, s.text[j], r.text[j])
    <3>1. CASE Paddable(s, j)
      <4>1. r.text[j] = Written(s.text[j], "long", s.text[j].of)
        BY <1>1, <2>2, <3>1 DEF Padded
      <4>2. s.text[j].form \notin WalletForms /\ s.text[j].form \in Forms /\ "long" \in Forms \ WalletForms
        BY <3>1 DEF Paddable, Forms, WalletForms
      <4> QED
        BY <1>1, <1>2, <4>1, <4>2, HexIsReaddressed
    <3>2. CASE ~Paddable(s, j)
      <4>1. r.text[j] = s.text[j]
        BY <1>1, <2>2, <3>2 DEF Padded
      <4> QED
        BY <2>3, <4>1 DEF Readdressed, WalletForms, None
    <3> QED
      BY <3>1, <3>2
  <2> QED
    BY <2>2, <2>4
<1>4. ASSUME NEW w \in WalletForms, NEW to \in Forms \ WalletForms, w = Wallet(dialect),
             NEW matches \in SUBSET {i \in 1..n : s.text[i].form = w}, r = ReplaceWallets(s, to, matches),
             \A j \in 1..n : s.text[j].form = w /\ j \notin matches => dialect = "dfinance" /\ ~s.text[j].spaced
      PROVE  r \in SameLength(s) /\ \A j \in 1..n : Readdressed(dialect, s.text[j], r.text[j])
  <2>1. w \in Forms /\ to \in Forms /\ w # to
    BY <1>4 DEF WalletForms, Forms
  <2>2. r \in SameLength(s) /\ Hexed(s, w, to, matches, n, r)
    BY <1>4, <2>1, WalletPassHexes
  <2>3. ASSUME NEW j \in 1..n PROVE Readdressed(dialect, s.text[j], r.text[j])
    <3>1. CASE s.text[j].form = w /\ r.text[j] = Written(s.text[j], to, s.text[j].of)
      BY <1>1, <1>2, <1>4, <2>1, <3>1, HexIsReaddressed
    <3>2. CASE r.text[j] = s.text[j] /\ ~(j \in matches /\ j <= n)
      BY <1>1, <1>4, <3>2 DEF Readdressed
    <3> QED
      BY <2>2, <3>1, <3>2 DEF Hexed
  <2> QED
    BY <2>2, <2>3
<1>5. CASE dialect = "dfinance"
  <2> DEFINE matches == {i \in DOMAIN s.text : s.text[i].form = "bech32" /\ s.text[i].spaced}
  <2>1. r = ReplaceWallets(s, "trimmed", matches)
    BY <1>5 DEF ReplaceAddresses, ReplaceBech32Addresses
  <2>2. "bech32" \in WalletForms /\ "trimmed" \in Forms \ WalletForms /\ "bech32" = Wallet(dialect)
    BY <1>5 DEF WalletForms, Forms, Wallet
  <2>3. matches \in SUBSET {i \in 1..n : s.text[i].form = "bech32"}
    BY <1>1
  <2>4. \A j \in 1..n : s.text[j].form = "bech32" /\ j \notin matches => dialect = "dfinance" /\ ~s.text[j].spaced
    BY <1>1, <1>5
  <2> QED
    BY <1>4, <2>1, <2>2, <2>3, <2>4
<1>6. CASE dialect = "polkadot"
  <2> DEFINE matches == {i \in DOMAIN s.text : s.text[i].form = "ss58"}
  <2>1. r = ReplaceWallets(s, "public_key", matches)
    BY <1>6 DEF ReplaceAddresses, ReplaceSs58Addresses
  <2>2. "ss58" \in WalletForms /\ "public_key" \in Forms \ WalletForms /\ "ss58" = Wallet(dialect)
    BY <1>6 DEF WalletForms, Forms, Wallet
  <2>3. matches \in SUBSET {i \in 1..n : s.text[i].form = "ss58"}
    BY <1>1
  <2>4. \A j \in 1..n : s.text[j].form = "ss58" => j \in matches
    BY <1>1
  <2> QED
    BY <1>4, <2>1, <2>2, <2>3, <2>4
<1> QED
  BY <1>3, <1>5, <1>6 DEF Dialects

-----------------------------------------------------------------------------
(* The whole normalisation.                                                *)

\* The form of the address that t stands for, if the sender is addr.
Stands(addr, t) == IF t.k = "sender" /\ addr # NoAddress THEN addr.form ELSE t.form

\* What the normalisation makes of a token that ends no line.
Becomes(dialect, addr, t, u) ==
    /\ u.fault = t.fault
    /\ u.k \in {"cr", "lf"} <=> t.k \in {"cr", "lf"}
    /\ u.k = "cr" => t.k = "cr"
    /\ u.k = "sender" <=> t.k = "sender" /\ addr = NoAddress
    /\ u.form \in WalletForms =>
          /\ u.form = Stands(addr, t)
          /\ u.form = Wallet(dialect) => dialect = "dfinance" /\ ~t.spaced
    /\ Stands(addr, t) \in WalletForms \ {Wallet(dialect)} => u.form = Stands(addr, t)

\* Every token of the user becomes a token of the normalised text, and these are all.
Traced(dialect, addr, text, new) ==
    /\ \A i \in DOMAIN new : new[i].k = "lf" \/ \E j \in DOMAIN text : Becomes(dialect, addr, text[j], new[i])
    /\ \A j \in DOMAIN text :
          text[j].k \in {"cr", "lf"} \/ \E i \in DOMAIN new : Becomes(dialect, addr, text[j], new[i])

LEMMA NormalTraced ==
    ASSUME NEW text \in Seq(GoodTokens), NEW dialect \in Dialects, NEW addr \in Senders
    PROVE  LET n == NormalizeSourceText(dialect, text, addr)
           IN  /\ n \in Results /\ \A i \in DOMAIN n.text : n.text[i].k # "cr"
               /\ Traced(dialect, addr, text, n.text)
<1> DEFINE e == NormalizeLineEnds(text)
           f == ReplaceSenderPlaceholder(e, addr)
           n == ReplaceAddresses(dialect, f)
           L == Len(e.text)
<1>1. e \in Results /\ Kept(text, Len(text), e)
  BY LineEndsKept
<1>2. /\ f \in SameLength(e)
      /\ \A j \in 1..L : f.text[j] = IF e.text[j].k = "sender" /\ addr # NoAddress
                                      THEN Written(e.text[j], addr.form, addr.of) ELSE e.text[j]
  BY <1>1, SenderFilled
<1>3. f \in Results /\ Len(f.text) = L
  BY <1>2 DEF SameLength
<1>4. n \in SameLength(f) /\ \A j \in 1..L : Readdressed(dialect, f.text[j], n.text[j])
  BY <1>3, AddressesReplaced
<1>5. NormalizeSourceText(dialect, text, addr) = n
  BY DEF NormalizeSourceText
<1> HIDE DEF e, f, n
<1>6. n \in Results /\ DOMAIN n.text = 1..L /\ DOMAIN e.text = 1..L /\ DOMAIN text = 1..Len(text)
  BY <1>1, <1>3, <1>4 DEF SameLength, Results
<1>7. ASSUME NEW j \in 1..L PROVE Becomes(dialect, addr, e.text[j], n.text[j])
  <2> DEFINE t == e.text[j]
             m == f.text[j]
             u == n.text[j]
  <2>1. t \in GoodTokens
    BY <1>1 DEF Results
  <2>2. Readdressed(dialect, m, u)
    BY <1>4
  <2>3. CASE t.k = "sender" /\ addr # NoAddress
    <3>1. addr.form \in Forms /\ addr.of \in Addresses
      BY <2>3 DEF Senders
    <3>2. m = Written(t, addr.form, addr.of)
      BY <1>2, <2>3
    <3> HIDE DEF m, t, u
    <3>3. m.k = "address" /\ m.form = addr.form /\ m.fault = t.fault /\ m.spaced = t.spaced
      BY <2>1, <2>3, <3>1, <3>2, WrittenType
    <3>4. Stands(addr, t) = m.form
      BY <2>3, <3>3 DEF Stands
    <3> QED
      BY <2>2, <2>3, <3>3, <3>4 DEF Readdressed, Becomes, t, u
  <2>4. CASE ~(t.k = "sender" /\ addr # NoAddress)
    <3>1. m = t
      BY <1>2, <2>4
    <3>2. Stands(addr, t) = t.form
      BY <2>4 DEF Stands
    <3> HIDE DEF m, t, u
    <3> QED
      BY <2>2, <2>4, <3>1, <3>2 DEF Readdressed, Becomes, t, u
  <2> QED
    BY <2>3, <2>4
<1>8. \A i \in DOMAIN n.text : n.text[i].k # "cr"
  BY <1>1, <1>6, <1>7 DEF Kept, Becomes
<1>9. ASSUME NEW i \in DOMAIN n.text
      PROVE  n.text[i].k = "lf" \/ \E j \in DOMAIN text : Becomes(dialect, addr, text[j], n.text[i])
  <2>1. Becomes(dialect, addr, e.text[i], n.text[i])
    BY <1>6, <1>7
  <2>2. CASE e.text[i].k = "lf"
    BY <1>8, <2>1, <2>2 DEF Becomes
  <2>3. CASE \E j \in 1..Len(text) : e.text[i] = text[j]
    BY <1>6, <2>1, <2>3
  <2> QED
    BY <1>1, <1>6, <2>2, <2>3 DEF Kept
<1>10. ASSUME NEW j \in DOMAIN text
       PROVE  text[j].k \in {"cr", "lf"} \/ \E i \in DOMAIN n.text : Becomes(dialect, addr, text[j], n.text[i])
  <2>1. text[j].k \in {"cr", "lf"} \/ \E i \in DOMAIN e.text : e.text[i] = text[j]
    BY <1>1, <1>6 DEF Kept
  <2> QED
    BY <1>6, <1>7, <2>1
<1> QED
  BY <1>5, <1>6, <1>8, <1>9, <1>10 DEF Traced

-----------------------------------------------------------------------------
(* The verdict on a text and on its normalised form.                       *)

HasFault(text, fault) == \E i \in DOMAIN text : text[i].fault = fault

\* The end of a line is never at fault.
LEMMA LineEndInnocent ==
    ASSUME NEW t \in GoodTokens, t.k \in {"cr", "lf"}
    PROVE  t.fault = None /\ t.form = None /\ t.k # "sender"
BY DEF GoodTokens, WellFormed, Tokens

\* The normalisation keeps the faults.
LEMMA SameFaults ==
    ASSUME NEW dialect, NEW addr, NEW text \in Seq(GoodTokens), NEW new \in Seq(GoodTokens),
           Traced(dialect, addr, text, new), NEW fault, fault # None
    PROVE  HasFault(new, fault) <=> HasFault(text, fault)
<1>1. ASSUME NEW i \in DOMAIN new, new[i].fault = fault PROVE HasFault(text, fault)
  <2>1. new[i] \in GoodTokens
    OBVIOUS
  <2>2. new[i].k # "lf"
    BY <1>1, <2>1, LineEndInnocent
  <2>3. PICK j \in DOMAIN text : Becomes(dialect, addr, text[j], new[i])
    BY <2>2 DEF Traced
  <2> QED
    BY <1>1, <2>3 DEF Becomes, HasFault
<1>2. ASSUME NEW j \in DOMAIN text, text[j].fault = fault PROVE HasFault(new, fault)
  <2>1. text[j] \in GoodTokens
    OBVIOUS
  <2>2. text[j].k \notin {"cr", "lf"}
    BY <1>2, <2>1, LineEndInnocent
  <2>3. PICK i \in DOMAIN new : Becomes(dialect, addr, text[j], new[i])
    BY <2>2 DEF Traced
  <2> QED
    BY <1>2, <2>3 DEF Becomes, HasFault
<1> QED
  BY <1>1, <1>2 DEF HasFault

\* A text is refused for an odd character or for a token that is not to be read.
LEMMA RefusedMeans ==
    ASSUME NEW text, NEW bad
    PROVE  FirstRefused(text, bad) # {} <=> HasFault(text, "char") \/ bad # {}
BY DEF FirstRefused, HasFault

\* A wallet address of the dialect that its pattern does not see.
Unseen(text) == job.dialect = "dfinance" /\ \E j \in Wallets(text) : ~text[j].spaced

LEMMA Judged ==
    ASSUME NEW text \in Seq(GoodTokens), NEW new \in Seq(GoodTokens),
           job.dialect \in Dialects, sender \in Senders, Traced(job.dialect, sender, text, new)
    PROVE  LET wrong == FirstRefused(text, WronglyWritten(text)) # {}
               refused == FirstRefused(new, Unreadable(new)) # {}
           IN  (wrong => refused) /\ (refused => wrong \/ Unseen(text))
<1>1. HasFault(new, "char") <=> HasFault(text, "char")
  BY SameFaults DEF None
<1>2. \A t : FormOf(t) = Stands(sender, t)
  BY DEF FormOf, Stands
<1>3. ASSUME NEW j \in WronglyWritten(text) PROVE Unreadable(new) # {}
  <2> DEFINE t == text[j]
  <2>1. j \in DOMAIN text /\ t \in GoodTokens
    BY DEF WronglyWritten
  <2>2. \/ t.fault = "syntax"
        \/ t.k = "sender" /\ sender = NoAddress
        \/ Stands(sender, t) \in WalletForms \ {Wallet(job.dialect)}
    BY <1>2 DEF WronglyWritten, WalletForms
  <2>3. t.k \notin {"cr", "lf"}
    BY <2>1, <2>2, LineEndInnocent DEF None, Stands, WalletForms
  <2>4. PICK i \in DOMAIN new : Becomes(job.dialect, sender, t, new[i])
    BY <2>1, <2>3 DEF Traced
  <2>5. new[i].fault = "syntax" \/ new[i].k = "sender" \/ new[i].form \in WalletForms
    BY <2>2, <2>4 DEF Becomes
  <2> QED
    BY <2>5 DEF Unreadable, WalletForms
<1>4. ASSUME NEW i \in Unreadable(new) PROVE WronglyWritten(text) # {} \/ Unseen(text)
  <2> DEFINE u == new[i]
  <2>1. i \in DOMAIN new /\ u \in GoodTokens
    BY DEF Unreadable
  <2>2. u.fault = "syntax" \/ u.k = "sender" \/ u.form \in WalletForms
    BY DEF Unreadable, WalletForms
  <2>3. u.k # "lf"
    BY <2>1, <2>2, LineEndInnocent DEF None, WalletForms
  <2>4. PICK j \in DOMAIN text : Becomes(job.dialect, sender, text[j], u)
    BY <2>1, <2>3 DEF Traced
  <2> HIDE DEF u
  <2>5. CASE u.fault = "syntax" \/ u.k = "sender"
    BY <2>4, <2>5 DEF Becomes, WronglyWritten
  <2>6. CASE u.form \in WalletForms
    <3>1. u.form = FormOf(text[j])
      BY <1>2, <2>4, <2>6 DEF Becomes
    <3>2. CASE u.form = Wallet(job.dialect)
      <4>1. job.dialect = "dfinance" /\ ~text[j].spaced
        BY <2>4, <2>6, <3>2 DEF Becomes
      <4> QED
        BY <2>6, <3>1, <3>2, <4>1 DEF Unseen, Wallets
    <3>3. CASE u.form # Wallet(job.dialect)
      BY <2>6, <3>1, <3>3 DEF WronglyWritten, WalletForms
    <3> QED
      BY <3>2, <3>3
  <2> QED
    BY <2>2, <2>5, <2>6
<1> QED
  BY <1>1, <1>3, <1>4, RefusedMeans

\* What the user should be told: the first phase that finds a fault.
LEMMA ExpectedMeans ==
    Expected # {} <=>
        \/ \E f \in SourceFiles(job) : FirstRefused(f.text, WronglyWritten(f.text)) # {}
        \/ job.flow # "meta" /\ \E f \in SourceFiles(job) : HasFault(f.text, "type")
        \/ job.flow = "build" /\ \E f \in ToSet(job.targets) : HasFault(f.text, "bytecode")
<1> DEFINE all == SourceFiles(job)
           unread == UNION {At(f, FirstRefused(f.text, WronglyWritten(f.text))) : f \in all}
           typed == IF job.flow = "meta" THEN {} ELSE WithFault(all, "type")
           coded == IF job.flow = "build" THEN WithFault(ToSet(job.targets), "bytecode") ELSE {}
<1>1. Expected = IF unread # {} THEN unread ELSE IF typed # {} THEN typed ELSE coded
  BY DEF Expected
<1>2. \A file, is : At(file, is) # {} <=> is # {}
  BY DEF At
<1>3. unread # {} <=> \E f \in all : FirstRefused(f.text, WronglyWritten(f.text)) # {}
  BY <1>2
<1>4. \A fs, fault : WithFault(fs, fault) # {} <=> \E f \in fs : HasFault(f.text, fault)
  <2> SUFFICES ASSUME NEW fs, NEW fault
               PROVE  WithFault(fs, fault) # {} <=> \E f \in fs : HasFault(f.text, fault)
    OBVIOUS
  <2> DEFINE is(f) == {i \in DOMAIN f.text : f.text[i].fault = fault}
  <2>1. \A f : is(f) # {} <=> HasFault(f.text, fault)
    BY DEF HasFault
  <2>2. WithFault(fs, fault) = UNION {At(f, is(f)) : f \in fs}
    BY DEF WithFault
  <2> HIDE DEF is
  <2> QED
    BY <1>2, <2>1, <2>2
<1> HIDE DEF unread
<1> QED
  BY <1>1, <1>3, <1>4

-----------------------------------------------------------------------------
(* The inductive invariant.                                                *)

Normal(f) == NormalizeSourceText(job.dialect, f.text, sender)

\* Each file is still to be parsed or has its normalised text and its map.
Parsing ==
    /\ job \in Jobs /\ sender \in Senders
    /\ todo \in Seq(SourceFiles(job))
    /\ DOMAIN offsets = DOMAIN files
    /\ \A g \in DOMAIN files : \E f \in SourceFiles(job) : f.name = g
    /\ \A f \in SourceFiles(job) :
          /\ f.name \in DOMAIN files =>
                files[f.name] = Normal(f).text /\ offsets[f.name].layers = Normal(f).layers
          /\ f.name \in DOMAIN files \/ f \in ToSet(todo)
    /\ pc = "sender" => DOMAIN files = {}
    /\ pc \notin {"sender", "parse", "refused"} => todo = <<>>

SomeRefused == \E g \in DOMAIN files : FirstRefused(files[g], Unreadable(files[g])) # {}
SomeFault(names, fault) == \E g \in names : HasFault(files[g], fault)

\* What the phases of a flow find.
Found ==
    \/ SomeRefused
    \/ job.flow # "meta" /\ SomeFault(DOMAIN files, "type")
    \/ job.flow = "build" /\ SomeFault(TargetNames, "bytecode")

\* After each phase there is an error exactly if the phases so far find one.
Judging ==
    /\ pc \in {"sender", "refused", "parse", "check", "translate", "transform", "show", "shown", "panic"}
    /\ pc = "sender" => errors = {}
    /\ pc \in {"parse", "check"} => (errors # {} <=> SomeRefused)
    /\ pc = "check" => job.flow # "meta"
    /\ pc = "translate" =>
          job.flow = "build" /\ (errors # {} <=> SomeRefused \/ SomeFault(DOMAIN files, "type"))
    /\ pc \in {"transform", "show"} => (errors # {} <=> Found)
    /\ pc = "shown" => (report # {} <=> Found)

IInv == Parsing /\ Judging

\* What the assumption says of the job at hand.
LEMMA JobFacts ==
    ASSUME job \in Jobs
    PROVE  /\ job.dialect \in Dialects /\ job.flow \in Flows /\ job.sender \in Senders
           /\ job.targets \in Seq(SourceFiles(job)) /\ job.deps \in Seq(SourceFiles(job))
           /\ \A f \in SourceFiles(job) : f.text \in Seq(GoodTokens)
           /\ \A f, g \in SourceFiles(job) : f.name = g.name => f = g
<1>1. /\ job.dialect \in Dialects /\ job.flow \in Flows /\ job.sender \in Senders
      /\ job.targets \in Seq(ToSet(job.targets)) /\ job.deps \in Seq(ToSet(job.deps))
      /\ \A f \in SourceFiles(job) : Text(f.text)
      /\ \A f, g \in SourceFiles(job) : f.name = g.name => f = g
  BY JobsAssumption
<1>2. ToSet(job.targets) \subseteq SourceFiles(job) /\ ToSet(job.deps) \subseteq SourceFiles(job)
  BY DEF SourceFiles
<1>3. job.targets \in Seq(SourceFiles(job)) /\ job.deps \in Seq(SourceFiles(job))
  BY <1>1, <1>2
<1> QED
  BY <1>1, <1>3, TextIsSeq

LEMMA NormalFacts ==
    ASSUME job \in Jobs, sender \in Senders, NEW f \in SourceFiles(job)
    PROVE  /\ Normal(f) \in Results /\ \A i \in DOMAIN Normal(f).text : Normal(f).text[i].k # "cr"
           /\ Traced(job.dialect, sender, f.text, Normal(f).text)
           /\ f.text \in Seq(GoodTokens) /\ Normal(f).text \in Seq(GoodTokens)
<1>1. f.text \in Seq(GoodTokens) /\ job.dialect \in Dialects
  BY JobFacts
<1>2. /\ Normal(f) \in Results /\ \A i \in DOMAIN Normal(f).text : Normal(f).text[i].k # "cr"
      /\ Traced(job.dialect, sender, f.text, Normal(f).text)
  BY <1>1, NormalTraced DEF Normal
<1> QED
  BY <1>1, <1>2 DEF Results

\* The sender is an address as the dialect writes it, or none.
LEMMA SenderType ==
    ASSUME NEW dialect \in Dialects, NEW given \in Senders
    PROVE  /\ NormalizeAccountAddress(dialect, given) \in Senders
           /\ SenderOrDefault(NormalizeAccountAddress(dialect, given)) \in Senders
<1>1. NoAddress \in Senders /\ DefaultSender \in Senders
  BY ZeroType DEF Senders, DefaultSender, Forms
<1>2. given.form \in HexForms => /\ [given EXCEPT !.form = "long"] \in Senders
                                 /\ [given EXCEPT !.form = "short"] \in Senders
  BY DEF Senders, Forms, HexForms, NoAddress, None
<1>3. LibraSender(given) \in Senders
  BY <1>1, <1>2 DEF LibraSender
<1>4. DfinanceSender(given) \in Senders
  BY <1>1, <1>2 DEF DfinanceSender, HexForms
<1>5. PolkadotSender(given) \in Senders
  BY <1>1, <1>2 DEF PolkadotSender, HexForms
<1>6. NormalizeAccountAddress(dialect, given) \in Senders
  BY <1>3, <1>4, <1>5 DEF NormalizeAccountAddress, Dialects
<1> QED
  BY <1>1, <1>6 DEF SenderOrDefault

LEMMA InitIInv == Init => IInv
<1> SUFFICES ASSUME Init PROVE IInv
  OBVIOUS
<1>1. /\ job \in Jobs /\ todo = job.targets \o job.deps /\ pc = "sender" /\ sender = NoAddress
      /\ files = <<>> /\ offsets = <<>> /\ errors = {} /\ report = {}
  BY DEF Init
<1>2. DOMAIN files = {} /\ DOMAIN offsets = {}
  BY <1>1
<1>3. job.targets \in Seq(SourceFiles(job)) /\ job.deps \in Seq(SourceFiles(job))
  BY <1>1, JobFacts
<1>4. todo \in Seq(SourceFiles(job))
  BY <1>1, <1>3
<1>5. ASSUME NEW f \in SourceFiles(job) PROVE f \in ToSet(todo)
  <2> DEFINE t == job.targets
             d == job.deps
  <2>0. /\ Len(t) \in Nat /\ Len(d) \in Nat /\ DOMAIN t = 1..Len(t) /\ DOMAIN d = 1..Len(d)
        /\ DOMAIN todo = 1..(Len(t) + Len(d))
        /\ \A i \in 1..(Len(t) + Len(d)) : todo[i] = IF i <= Len(t) THEN t[i] ELSE d[i - Len(t)]
    <3> HIDE DEF t, d
    <3>1. PICK S : t \in Seq(S) /\ d \in Seq(S) /\ todo \in Seq(S) /\ todo = t \o d
      BY <1>1, <1>3, <1>4 DEF t, d
    <3>2. /\ Len(t) \in Nat /\ Len(d) \in Nat /\ DOMAIN t = 1..Len(t) /\ DOMAIN d = 1..Len(d)
          /\ DOMAIN todo = 1..Len(todo)
      BY <3>1, LenProperties
    <3>3. /\ Len(todo) = Len(t) + Len(d)
          /\ \A i \in 1..(Len(t) + Len(d)) : todo[i] = IF i <= Len(t) THEN t[i] ELSE d[i - Len(t)]
      BY <3>1, ConcatProperties
    <3> QED
      BY <3>2, <3>3
  <2> HIDE DEF t, d
  <2>1. CASE f \in ToSet(t)
    <3>1. PICK i \in DOMAIN t : f = t[i]
      BY <2>1 DEF ToSet
    <3>2. i \in DOMAIN todo /\ todo[i] = f
      BY <2>0, <3>1
    <3> QED
      BY <3>2 DEF ToSet
  <2>2. CASE f \in ToSet(d)
    <3>1. PICK i \in DOMAIN d : f = d[i]
      BY <2>2 DEF ToSet
    <3>2. Len(t) + i \in 1..(Len(t) + Len(d)) /\ ~(Len(t) + i <= Len(t)) /\ (Len(t) + i) - Len(t) = i
      BY <2>0, <3>1
    <3>3. Len(t) + i \in DOMAIN todo /\ todo[Len(t) + i] = f
      BY <2>0, <3>1, <3>2
    <3> QED
      BY <3>3 DEF ToSet
  <2> QED
    BY <2>1, <2>2 DEF SourceFiles, t, d
<1>6. sender \in Senders
  BY <1>1 DEF Senders
<1>7. Parsing
  BY <1>1, <1>2, <1>4, <1>5, <1>6 DEF Parsing
<1>8. Judging
  BY <1>1 DEF Judging
<1> QED
  BY <1>7, <1>8 DEF IInv

\* One phase has found something exactly if a file of it has such a fault.
LEMMA FaultsFound ==
    ASSUME NEW names, NEW fault
    PROVE  FaultsOf(names, fault) # {} <=> SomeFault(names, fault)
<1> DEFINE is(f) == {j \in DOMAIN files[f] : files[f][j].fault = fault}
           es(f) == {ErrorAt(f, files[f], i) : i \in is(f)}
<1>1. FaultsOf(names, fault) = UNION {es(f) : f \in names}
  BY DEF FaultsOf
<1>2. \A f : es(f) # {} <=> is(f) # {}
  OBVIOUS
<1>3. \A f : is(f) # {} <=> HasFault(files[f], fault)
  BY DEF HasFault
<1> HIDE DEF is, es
<1> QED
  BY <1>1, <1>2, <1>3 DEF SomeFault

LEMMA TakeSenderIInv ==
    ASSUME IInv, TakeSender
    PROVE  IInv'
<1> DEFINE addr == NormalizeAccountAddress(job.dialect, job.sender)
<1>1. /\ pc = "sender" /\ job' = job /\ todo' = todo /\ files' = files /\ offsets' = offsets
      /\ errors' = errors /\ report' = report
  BY DEF TakeSender
<1>2. Parsing /\ Judging /\ job \in Jobs /\ DOMAIN files = {} /\ errors = {}
  BY <1>1 DEF IInv, Parsing, Judging
<1>3. job.dialect \in Dialects /\ job.sender \in Senders
  BY <1>2, JobFacts
<1>4. addr \in Senders /\ SenderOrDefault(addr) \in Senders /\ NoAddress \in Senders
  BY <1>3, SenderType DEF Senders
<1> HIDE DEF addr
<1>5. sender' \in Senders /\ pc' \in {"parse", "refused"}
  BY <1>4 DEF TakeSender, addr
<1>6. Parsing'
  BY <1>1, <1>2, <1>5 DEF Parsing, SourceFiles
<1>7. ~SomeRefused'
  BY <1>1, <1>2 DEF SomeRefused
<1>8. Judging'
  BY <1>1, <1>2, <1>5, <1>7 DEF Judging
<1> QED
  BY <1>6, <1>8 DEF IInv

LEMMA ParseFileIInv ==
    ASSUME IInv, ParseFile
    PROVE  IInv'
<1> DEFINE f == Head(todo)
           n == Normal(f)
           F == SourceFiles(job)
<1>1. /\ pc = "parse" /\ todo # <<>> /\ todo' = Tail(todo)
      /\ job' = job /\ sender' = sender /\ pc' = pc /\ report' = report
  BY DEF ParseFile
<1>2. Parsing /\ Judging /\ job \in Jobs /\ sender \in Senders /\ todo \in Seq(F)
  BY DEF IInv, Parsing
<1>3. f \in F /\ todo' \in Seq(F)
  BY <1>1, <1>2
<1>4. \A g \in ToSet(todo) : g = f \/ g \in ToSet(todo')
  <2> SUFFICES ASSUME NEW g \in ToSet(todo) PROVE g = f \/ g \in ToSet(todo')
    OBVIOUS
  <2>1. PICK i \in DOMAIN todo : g = todo[i]
    BY DEF ToSet
  <2>2. CASE i = 1
    BY <1>1, <1>2, <2>1, <2>2
  <2>3. CASE i # 1
    <3>1. i - 1 \in DOMAIN todo' /\ todo'[i - 1] = todo[i]
      BY <1>1, <1>2, <2>1, <2>3
    <3> QED
      BY <2>1, <3>1 DEF ToSet
  <2> QED
    BY <2>2, <2>3
<1>5. /\ files' = [g \in DOMAIN files \cup {f.name} |-> IF g = f.name THEN n.text ELSE files[g]]
      /\ offsets' = [g \in DOMAIN files \cup {f.name} |->
                        IF g = f.name THEN [layers |-> n.layers, replaced |-> n.replaced] ELSE offsets[g]]
      /\ errors' = errors \cup {ErrorAt(f.name, n.text, i) : i \in FirstRefused(n.text, Unreadable(n.text))}
  BY DEF ParseFile, Normal
<1>6. \A g \in F : g.name = f.name => g = f
  BY <1>2, <1>3, JobFacts
<1>7. \A g : Normal(g)' = Normal(g)
  BY <1>1 DEF Normal
<1>8. F' = F
  BY <1>1
<1> HIDE DEF f, n, F
<1>9. /\ DOMAIN files' = DOMAIN files \cup {f.name} /\ DOMAIN offsets' = DOMAIN files'
      /\ files'[f.name] = n.text /\ offsets'[f.name].layers = n.layers
      /\ \A g \in DOMAIN files \ {f.name} : files'[g] = files[g] /\ offsets'[g] = offsets[g]
  BY <1>5
<1>10. Parsing'
  <2>1. \A g \in DOMAIN files' : \E h \in F : h.name = g
    BY <1>2, <1>3, <1>9 DEF Parsing, F
  <2>2. ASSUME NEW g \in F
        PROVE  /\ g.name \in DOMAIN files' =>
                     files'[g.name] = Normal(g).text /\ offsets'[g.name].layers = Normal(g).layers
               /\ g.name \in DOMAIN files' \/ g \in ToSet(todo')
    <3>1. CASE g = f
      BY <1>9, <3>1 DEF n
    <3>2. CASE g # f
      <4>1. g.name # f.name
        BY <1>6, <3>2
      <4>2. /\ g.name \in DOMAIN files =>
                  files[g.name] = Normal(g).text /\ offsets[g.name].layers = Normal(g).layers
            /\ g.name \in DOMAIN files \/ g \in ToSet(todo)
        BY <1>2 DEF Parsing, F
      <4> QED
        BY <1>4, <1>9, <3>2, <4>1, <4>2
    <3> QED
      BY <3>1, <3>2
  <2> QED
    BY <1>1, <1>2, <1>3, <1>7, <1>8, <1>9, <2>1, <2>2 DEF Parsing, F
<1>11. errors' # {} <=> SomeRefused'
  <2> DEFINE R(text) == FirstRefused(text, Unreadable(text)) # {}
  <2>1. errors # {} <=> \E g \in DOMAIN files : R(files[g])
    BY <1>1, <1>2 DEF Judging, SomeRefused
  <2>2. errors' # {} <=> errors # {} \/ R(n.text)
    BY <1>5
  <2>3. f.name \in DOMAIN files => files[f.name] = n.text
    BY <1>2, <1>3 DEF Parsing, F, n
  <2>4. SomeRefused' <=> \E g \in DOMAIN files' : R(files'[g])
    BY DEF SomeRefused
  <2> HIDE DEF R
  <2> QED
    BY <1>9, <2>1, <2>2, <2>3, <2>4
<1>12. Judging'
  BY <1>1, <1>11 DEF Judging
<1> QED
  BY <1>10, <1>12 DEF IInv

\* The steps after parsing leave the files alone.
LEMMA ParsingKept ==
    ASSUME Parsing, job' = job, sender' = sender, todo' = todo, files' = files, offsets' = offsets,
           pc # "sender", pc' # "sender", pc' \notin {"sender", "parse", "refused"} => todo = <<>>
    PROVE  /\ Parsing' /\ (SomeRefused' <=> SomeRefused) /\ (Found' <=> Found)
           /\ \A names, fault : SomeFault(names, fault)' <=> SomeFault(names, fault)
<1>1. \A g : Normal(g)' = Normal(g)
  BY DEF Normal
<1>2. Parsing'
  BY <1>1 DEF Parsing
<1>3. SomeRefused' <=> SomeRefused
  BY DEF SomeRefused
<1>4. \A names, fault : SomeFault(names, fault)' <=> SomeFault(names, fault)
  BY DEF SomeFault
<1>5. Found' <=> Found
  BY DEF Found, SomeRefused, SomeFault, TargetNames
<1> QED
  BY <1>2, <1>3, <1>4, <1>5

LEMMA AfterParsingIInv ==
    ASSUME IInv, AfterParsing
    PROVE  IInv'
<1>1. /\ pc = "parse" /\ todo = <<>>
      /\ job' = job /\ sender' = sender /\ todo' = todo /\ files' = files /\ offsets' = offsets
      /\ errors' = errors /\ report' = report
      /\ pc' = IF job.flow = "meta" \/ (job.flow = "check" /\ errors # {}) THEN "transform" ELSE "check"
  BY DEF AfterParsing
<1>2. Parsing /\ Judging /\ (errors # {} <=> SomeRefused)
  BY <1>1 DEF IInv, Judging
<1>3. Parsing' /\ (SomeRefused' <=> SomeRefused) /\ (Found' <=> Found)
  BY <1>1, <1>2, ParsingKept
<1>4. CASE job.flow = "meta" \/ (job.flow = "check" /\ errors # {})
  <2>1. errors # {} <=> Found
    BY <1>2, <1>4 DEF Found
  <2> QED
    BY <1>1, <1>3, <1>4, <2>1 DEF IInv, Judging
<1>5. CASE ~(job.flow = "meta" \/ (job.flow = "check" /\ errors # {}))
  BY <1>1, <1>2, <1>3, <1>5 DEF IInv, Judging
<1> QED
  BY <1>4, <1>5

LEMMA CheckProgramIInv ==
    ASSUME IInv, CheckProgram
    PROVE  IInv'
<1>1. /\ pc = "check"
      /\ job' = job /\ sender' = sender /\ todo' = todo /\ files' = files /\ offsets' = offsets
      /\ report' = report
      /\ errors' = IF errors # {} THEN errors ELSE FaultsOf(DOMAIN files, "type")
      /\ pc' = IF job.flow = "check" THEN "transform" ELSE "translate"
  BY DEF CheckProgram
<1>2. Parsing /\ Judging /\ (errors # {} <=> SomeRefused) /\ job.flow # "meta" /\ job \in Jobs /\ todo = <<>>
  BY <1>1 DEF IInv, Judging, Parsing
<1>3. job.flow \in {"check", "build"}
  BY <1>2, JobFacts DEF Flows
<1>4. /\ Parsing' /\ (SomeRefused' <=> SomeRefused) /\ (Found' <=> Found)
      /\ SomeFault(DOMAIN files, "type")' <=> SomeFault(DOMAIN files, "type")
  BY <1>1, <1>2, ParsingKept DEF SomeFault
<1>5. errors' # {} <=> SomeRefused \/ SomeFault(DOMAIN files, "type")
  BY <1>1, <1>2, FaultsFound
<1>6. CASE job.flow = "check"
  <2>1. errors' # {} <=> Found
    BY <1>5, <1>6 DEF Found
  <2> QED
    BY <1>1, <1>4, <1>6, <2>1 DEF IInv, Judging
<1>7. CASE job.flow = "build"
  BY <1>1, <1>4, <1>5, <1>7 DEF IInv, Judging
<1> QED
  BY <1>3, <1>6, <1>7

LEMMA TranslateIInv ==
    ASSUME IInv, Translate
    PROVE  IInv'
<1>1. /\ pc = "translate" /\ pc' = "transform"
      /\ job' = job /\ sender' = sender /\ todo' = todo /\ files' = files /\ offsets' = offsets
      /\ report' = report
      /\ errors' = IF errors # {} THEN errors ELSE FaultsOf(TargetNames, "bytecode")
  BY DEF Translate
<1>2. /\ Parsing /\ Judging /\ job.flow = "build" /\ todo = <<>>
      /\ errors # {} <=> SomeRefused \/ SomeFault(DOMAIN files, "type")
  BY <1>1 DEF IInv, Judging, Parsing
<1>3. Parsing' /\ (Found' <=> Found)
  BY <1>1, <1>2, ParsingKept
<1>4. errors' # {} <=> Found
  BY <1>1, <1>2, FaultsFound DEF Found
<1> QED
  BY <1>1, <1>3, <1>4 DEF IInv, Judging

LEMMA TransformIInv ==
    ASSUME IInv, Transform
    PROVE  IInv'
<1>1. /\ pc = "transform" /\ pc' = "show"
      /\ job' = job /\ sender' = sender /\ todo' = todo /\ files' = files /\ offsets' = offsets
      /\ report' = report
  BY DEF Transform
<1>2. Parsing /\ Judging /\ todo = <<>> /\ (errors # {} <=> Found)
  BY <1>1 DEF IInv, Judging, Parsing
<1>3. Parsing' /\ (Found' <=> Found)
  BY <1>1, <1>2, ParsingKept
<1>4. errors' # {} <=> errors # {}
  BY DEF Transform
<1> QED
  BY <1>1, <1>2, <1>3, <1>4 DEF IInv, Judging

LEMMA ShowIInv ==
    ASSUME IInv, Show
    PROVE  IInv'
<1>1. /\ pc = "show" /\ pc' \in {"shown", "panic"}
      /\ job' = job /\ sender' = sender /\ todo' = todo /\ files' = files /\ offsets' = offsets
      /\ errors' = errors
  BY DEF Show
<1>2. Parsing /\ Judging /\ todo = <<>> /\ (errors # {} <=> Found)
  BY <1>1 DEF IInv, Judging, Parsing
<1>3. Parsing' /\ (Found' <=> Found)
  BY <1>1, <1>2, ParsingKept
<1>4. pc' = "shown" => (report' # {} <=> errors # {})
  BY DEF Show
<1> QED
  BY <1>1, <1>2, <1>3, <1>4 DEF IInv, Judging

LEMMA StutterIInv ==
    ASSUME IInv, UNCHANGED vars
    PROVE  IInv'
<1>1. /\ job' = job /\ sender' = sender /\ todo' = todo /\ files' = files /\ offsets' = offsets
      /\ errors' = errors /\ report' = report /\ pc' = pc
  BY DEF vars
<1>2. \A g : Normal(g)' = Normal(g)
  BY <1>1 DEF Normal
<1>3. Parsing'
  BY <1>1, <1>2 DEF IInv, Parsing
<1>4. Judging'
  BY <1>1 DEF IInv, Judging, Found, SomeRefused, SomeFault, TargetNames
<1> QED
  BY <1>3, <1>4 DEF IInv

LEMMA NextIInv == IInv /\ [Next]_vars => IInv'
BY TakeSenderIInv, ParseFileIInv, AfterParsingIInv, CheckProgramIInv, TranslateIInv, TransformIInv,
   ShowIInv, StutterIInv DEF Next

\* Every file is still to be parsed or normalised, and after each phase of compile() there is
\* an error exactly if the phases so far find one.
THEOREM AlwaysIInv == Spec => []IInv
BY InitIInv, NextIInv, PTL DEF Spec

-----------------------------------------------------------------------------
(* The theorems.                                                           *)

\* The normalisation of any text gives a text without carriage returns, with layers at places
\* of the text, and each parsed file has its text and its map (line_endings.rs, parser.rs:26-76).
THEOREM TypeCorrect == Spec => []TypeOK
<1>1. ASSUME IInv PROVE TypeOK
  <2>1. Parsing /\ Judging /\ job \in Jobs /\ sender \in Senders
    BY <1>1 DEF IInv, Parsing
  <2>2. ASSUME NEW g \in DOMAIN files
        PROVE  /\ \A i \in DOMAIN files[g] : files[g][i] \in Tokens /\ files[g][i].k # "cr"
               /\ \A i \in DOMAIN offsets[g].layers : offsets[g].layers[i] \in [pos : Nat, offset : Int]
    <3>1. PICK f \in SourceFiles(job) : f.name = g
      BY <2>1 DEF Parsing
    <3>2. files[g] = Normal(f).text /\ offsets[g].layers = Normal(f).layers
      BY <2>1, <3>1 DEF Parsing
    <3>3. /\ Normal(f) \in Results /\ \A i \in DOMAIN Normal(f).text : Normal(f).text[i].k # "cr"
      BY <2>1, NormalFacts
    <3>4. files[g] \in Seq(GoodTokens) /\ offsets[g].layers \in Seq(Layers)
      BY <3>2, <3>3 DEF Results
    <3>5. \A i \in DOMAIN files[g] : files[g][i] \in Tokens
      BY <3>4 DEF GoodTokens
    <3>6. \A i \in DOMAIN offsets[g].layers : offsets[g].layers[i] \in [pos : Nat, offset : Int]
      <4>1. \A i \in DOMAIN offsets[g].layers : offsets[g].layers[i] \in Layers
        BY <3>4
      <4> QED
        BY <4>1, Zenon DEF Layers
    <3> QED
      BY <3>2, <3>3, <3>5, <3>6
  <2>3. DOMAIN files = DOMAIN offsets
    BY <2>1 DEF Parsing
  <2> QED
    BY <2>1, <2>2, <2>3 DEF TypeOK, Judging
<1> QED
  BY <1>1, AlwaysIInv, PTL

\* The phases find something exactly if the user has made a fault, but for an unseen wallet.
LEMMA FoundIsExpected ==
    ASSUME Parsing, todo = <<>>
    PROVE  (Expected # {} => Found) /\ (Found => Expected # {} \/ UnseenWallet)
<1> DEFINE F == SourceFiles(job)
           Wrong(f) == FirstRefused(f.text, WronglyWritten(f.text)) # {}
           Refused(f) == FirstRefused(files[f.name], Unreadable(files[f.name])) # {}
<1>1. job \in Jobs /\ sender \in Senders
  BY DEF Parsing
<1>2. job.dialect \in Dialects
  BY <1>1, JobFacts
<1>3. \A f \in F : f.name \in DOMAIN files /\ files[f.name] = Normal(f).text
  <2>1. ToSet(todo) = {}
    BY DEF ToSet
  <2> QED
    BY <2>1 DEF Parsing
<1>4. \A g \in DOMAIN files : \E f \in F : f.name = g
  BY DEF Parsing
<1>5. ASSUME NEW f \in F
      PROVE  /\ Wrong(f) => Refused(f)
             /\ Refused(f) => Wrong(f) \/ Unseen(f.text)
             /\ HasFault(files[f.name], "type") <=> HasFault(f.text, "type")
             /\ HasFault(files[f.name], "bytecode") <=> HasFault(f.text, "bytecode")
  <2>1. /\ Traced(job.dialect, sender, f.text, files[f.name])
        /\ f.text \in Seq(GoodTokens) /\ files[f.name] \in Seq(GoodTokens)
    BY <1>1, <1>3, NormalFacts
  <2>2. (Wrong(f) => Refused(f)) /\ (Refused(f) => Wrong(f) \/ Unseen(f.text))
    BY <1>1, <1>2, <2>1, Judged
  <2>3. HasFault(files[f.name], "type") <=> HasFault(f.text, "type")
    BY <2>1, SameFaults DEF None
  <2>4. HasFault(files[f.name], "bytecode") <=> HasFault(f.text, "bytecode")
    BY <2>1, SameFaults DEF None
  <2> QED
    BY <2>2, <2>3, <2>4
<1>6. SomeRefused <=> \E f \in F : Refused(f)
  BY <1>3, <1>4 DEF SomeRefused
<1>7. SomeFault(DOMAIN files, "type") <=> \E f \in F : HasFault(files[f.name], "type")
  BY <1>3, <1>4 DEF SomeFault
<1>8. SomeFault(TargetNames, "bytecode") <=> \E f \in ToSet(job.targets) : HasFault(files[f.name], "bytecode")
  BY DEF SomeFault, TargetNames
<1>9. ToSet(job.targets) \subseteq F
  BY DEF SourceFiles
<1>10. (\E f \in F : Unseen(f.text)) => UnseenWallet
  BY DEF Unseen, UnseenWallet
<1>11. Expected # {} <=>
         \/ \E f \in F : Wrong(f)
         \/ job.flow # "meta" /\ \E f \in F : HasFault(f.text, "type")
         \/ job.flow = "build" /\ \E f \in ToSet(job.targets) : HasFault(f.text, "bytecode")
  BY ExpectedMeans
<1> HIDE DEF F, Wrong, Refused
<1> QED
  BY <1>5, <1>6, <1>7, <1>8, <1>9, <1>10, <1>11 DEF Found

\* The compiler accepts exactly the programs without a fault, whatever line ends, placeholders
\* and addresses their files have: no error of a file or a phase is lost, and the normalisation
\* adds none but for a bech32 address that its pattern does not see (parser.rs:26-76,
\* compiler/mod.rs:48-72, bech32.rs:10).
THEOREM VerdictRightTheorem == Spec => []VerdictRight
<1>1. ASSUME IInv PROVE VerdictRight
  <2> SUFFICES ASSUME pc = "shown"
               PROVE  (Expected # {} => report # {}) /\ (report # {} => Expected # {} \/ UnseenWallet)
    BY DEF VerdictRight
  <2>1. Parsing /\ todo = <<>> /\ (report # {} <=> Found)
    BY <1>1 DEF IInv, Parsing, Judging
  <2> QED
    BY <2>1, FoundIsExpected
<1> QED
  BY <1>1, AlwaysIInv, PTL

-----------------------------------------------------------------------------
(* The places of the errors.                                               *)

LEMMA UndoUnfold ==
    ASSUME NEW layers \in Seq(Layers), NEW pos \in Int
    PROVE  /\ Undo(layers, pos) \in [0..Len(layers) -> Int] /\ Undo(layers, pos)[0] = pos
           /\ \A k \in 1..Len(layers) :
                 Undo(layers, pos)[k] = TranslateLayer(layers[Len(layers) + 1 - k], Undo(layers, pos)[k - 1])
<1> DEFINE n == Len(layers)
           Step(p, k) == TranslateLayer(layers[n + 1 - k], p)
           f == Undo(layers, pos)
           op == [x \in Nat \X Int |-> IF x[1] \in 1..n THEN Step(x[2], x[1]) ELSE x[2]]
<1>1. n \in Nat
  OBVIOUS
<1>2. ASSUME NEW k \in 1..n, NEW p \in Int PROVE Step(p, k) \in Int
  <2>1. n + 1 - k \in 1..n
    BY <1>1
  <2>2. layers[n + 1 - k] \in Layers
    BY <2>1
  <2> QED
    BY <2>2 DEF TranslateLayer, Layers
<1> HIDE DEF Step, f
<1>3. op \in [Nat \X Int -> Int]
  BY <1>2
<1> HIDE DEF op
<1>4. Recursion(Int, pos, op, n)
  BY <1>1, <1>3, RecursionTo, Zenon
<1>5. PICK g \in [0..n -> Int] : g[0] = pos /\ \A k \in 1..n : g[k] = op[<<k, g[k - 1]>>]
  BY <1>4, Zenon DEF Recursion
<1>6. ASSUME NEW k \in 1..n PROVE g[k] = Step(g[k - 1], k)
  <2>1. k \in Nat /\ k - 1 \in 0..n /\ g[k - 1] \in Int
    BY <1>1
  <2> QED
    BY <1>5, <2>1 DEF op
<1>7. g = [k \in 0..n |-> IF k = 0 THEN pos ELSE Step(g[k - 1], k)]
  BY <1>1, <1>5, <1>6
<1>8. f = [k \in 0..n |-> IF k = 0 THEN pos ELSE Step(f[k - 1], k)]
  BY <1>7, Zenon DEF Undo, f, Step
<1>9. f[0] = pos
  BY <1>1, <1>8
<1>10. ASSUME NEW k \in 1..n PROVE f[k] = Step(f[k - 1], k)
  <2>1. k \in 0..n /\ k # 0
    BY <1>1
  <2>2. f[k] = IF k = 0 THEN pos ELSE Step(f[k - 1], k)
    BY <1>8, <2>1, Zenon
  <2> QED
    BY <2>1, <2>2
<1> DEFINE T == {k \in 0..n : f[k] \in Int}
<1>11. 0 \in T
  BY <1>1, <1>9
<1>12. ASSUME NEW k \in 1..n, k - 1 \in T PROVE k \in T
  <2>1. k \in 0..n /\ f[k - 1] \in Int
    BY <1>1, <1>12
  <2> QED
    BY <1>2, <1>10, <2>1
<1> HIDE DEF T
<1>13. \A k \in 0..n : k \in T
  BY <1>1, <1>11, <1>12, InductTo
<1>14. f \in [0..n -> Int]
  BY <1>8, <1>13 DEF T
<1> QED
  BY <1>9, <1>10, <1>14 DEF Step, f

\* Where a place ends up.
Back(layers, pos) == Undo(layers, pos)[Len(layers)]

\* The layer recorded last is undone first.
LEMMA BackThroughLast ==
    ASSUME NEW layers \in Seq(Layers), NEW layer \in Layers, NEW pos \in Int
    PROVE  Back(Append(layers, layer), pos) = Back(layers, TranslateLayer(layer, pos))
<1> DEFINE n == Len(layers)
           more == Append(layers, layer)
           q == TranslateLayer(layer, pos)
           T == {k \in 0..n : Undo(more, pos)[k + 1] = Undo(layers, q)[k]}
<1>1. n \in Nat /\ q \in Int
  BY DEF TranslateLayer, Layers
<1>2. /\ more \in Seq(Layers) /\ Len(more) = n + 1 /\ more[n + 1] = layer
      /\ \A i \in 1..n : more[i] = layers[i]
  BY AppendProperties
<1> HIDE DEF more
<1>3. Undo(more, pos)[0] = pos /\ Undo(layers, q)[0] = q
  BY <1>1, <1>2, UndoUnfold
<1>4. 0 \in T
  <2>1. 1 \in 1..Len(more) /\ Len(more) + 1 - 1 = n + 1 /\ 1 - 1 = 0
    BY <1>1, <1>2
  <2>2. Undo(more, pos)[1] = TranslateLayer(more[Len(more) + 1 - 1], Undo(more, pos)[1 - 1])
    BY <1>1, <1>2, <2>1, UndoUnfold
  <2>3. Undo(more, pos)[1] = q
    BY <1>2, <1>3, <2>1, <2>2
  <2> QED
    BY <1>1, <1>3, <2>3
<1>5. ASSUME NEW k \in 1..n, k - 1 \in T PROVE k \in T
  <2>1. /\ k \in 0..n /\ k + 1 \in 1..Len(more) /\ Len(more) + 1 - (k + 1) = n + 1 - k
        /\ (k + 1) - 1 = k /\ (k - 1) + 1 = k /\ n + 1 - k \in 1..n
    BY <1>1, <1>2
  <2>2. Undo(more, pos)[k] = Undo(layers, q)[k - 1]
    BY <1>5, <2>1
  <2>3. Undo(more, pos)[k + 1] = TranslateLayer(more[n + 1 - k], Undo(more, pos)[k])
    <3>1. Undo(more, pos)[k + 1] = TranslateLayer(more[Len(more) + 1 - (k + 1)], Undo(more, pos)[(k + 1) - 1])
      BY <1>2, <2>1, UndoUnfold
    <3> QED
      BY <2>1, <3>1
  <2>4. Undo(layers, q)[k] = TranslateLayer(layers[n + 1 - k], Undo(layers, q)[k - 1])
    BY <1>1, UndoUnfold
  <2>5. more[n + 1 - k] = layers[n + 1 - k]
    BY <1>2, <2>1
  <2>6. Undo(more, pos)[k + 1] = Undo(layers, q)[k]
    BY <2>2, <2>3, <2>4, <2>5
  <2> QED
    BY <2>1, <2>6
<1> HIDE DEF T
<1>6. \A k \in 0..n : k \in T
  BY <1>1, <1>4, <1>5, InductTo
<1>7. Undo(more, pos)[n + 1] = Undo(layers, q)[n]
  BY <1>1, <1>6 DEF T
<1> QED
  BY <1>2, <1>7 DEF Back, more

\* The ends of the tokens are in order.
LEMMA EndsInOrder ==
    ASSUME NEW text \in Seq(GoodTokens), NEW k \in 0..Len(text), NEW l \in 0..Len(text), k <= l
    PROVE  Ends(text)[k] <= Ends(text)[l]
<1> DEFINE n == Len(text)
           T == {m \in 0..n : k <= m => Ends(text)[k] <= Ends(text)[m]}
<1>1. n \in Nat /\ \A m \in 0..n : Ends(text)[m] \in Nat
  <2>1. Ends(text) \in [0..n -> Nat]
    BY EndsUnfold
  <2> QED
    BY <2>1
<1>2. 0 \in T
  BY <1>1
<1>3. ASSUME NEW m \in 1..n, m - 1 \in T PROVE m \in T
  <2>1. Ends(text)[m] = Ends(text)[m - 1] + text[m].width
    BY EndsUnfold
  <2>2. text[m].width \in Nat
    BY DEF GoodTokens, Tokens
  <2>3. m \in 0..n /\ m - 1 \in 0..n /\ (k <= m => k <= m - 1 \/ k = m)
    BY <1>1
  <2>4. Ends(text)[m - 1] \in Nat /\ Ends(text)[m] \in Nat /\ Ends(text)[k] \in Nat
    BY <1>1, <2>3
  <2>5. k <= m - 1 => Ends(text)[k] <= Ends(text)[m - 1]
    BY <1>3
  <2> QED
    BY <2>1, <2>2, <2>3, <2>4, <2>5
<1> HIDE DEF T
<1>4. \A m \in 0..n : m \in T
  BY <1>1, <1>2, <1>3, InductTo
<1> QED
  BY <1>4 DEF T

\* Another token at i moves what comes behind it.
LEMMA EndsReplaced ==
    ASSUME NEW r \in Results, NEW i \in 1..Len(r.text), NEW new \in GoodTokens, NEW q,
           OneReplaced(r, i, new, q), NEW k \in 0..Len(r.text)
    PROVE  Ends(q.text)[k] = IF k < i THEN Ends(r.text)[k]
                             ELSE Ends(r.text)[k] + (new.width - r.text[i].width)
<1> DEFINE n == Len(r.text)
           d == new.width - r.text[i].width
           T == {m \in 0..n : Ends(q.text)[m] = IF m < i THEN Ends(r.text)[m] ELSE Ends(r.text)[m] + d}
<1>1. /\ n \in Nat /\ r.text \in Seq(GoodTokens) /\ q.text \in Seq(GoodTokens) /\ Len(q.text) = n
      /\ \A j \in 1..n : q.text[j] = IF j = i THEN new ELSE r.text[j]
  BY DEF OneReplaced, Results
<1>2. new.width \in Nat /\ \A j \in 1..n : r.text[j].width \in Nat
  <2>1. \A t \in GoodTokens : t.width \in Nat
    BY DEF GoodTokens, Tokens
  <2>2. \A j \in 1..n : r.text[j] \in GoodTokens
    BY <1>1, ElementOfSeq, Zenon
  <2> QED
    BY <2>1, <2>2, Zenon
<1>3. /\ \A m \in 0..n : Ends(r.text)[m] \in Nat /\ Ends(q.text)[m] \in Nat
      /\ Ends(r.text)[0] = 0 /\ Ends(q.text)[0] = 0
      /\ \A m \in 1..n : /\ Ends(r.text)[m] = Ends(r.text)[m - 1] + r.text[m].width
                         /\ Ends(q.text)[m] = Ends(q.text)[m - 1] + q.text[m].width
  BY <1>1, EndsUnfold
<1>4. 0 \in T
  BY <1>1, <1>3
<1>5. ASSUME NEW m \in 1..n, m - 1 \in T PROVE m \in T
  <2>1. m \in 0..n /\ m - 1 \in 0..n
    BY <1>1
  <2>2. PICK a \in Nat, b \in Nat : a = Ends(r.text)[m - 1] /\ b = Ends(q.text)[m - 1]
    BY <1>3, <2>1
  <2>3. b = IF m - 1 < i THEN a ELSE a + d
    BY <1>5, <2>2
  <2>4. Ends(r.text)[m] = a + r.text[m].width /\ Ends(q.text)[m] = b + q.text[m].width
    BY <1>3, <2>2
  <2>5. q.text[m].width = IF m = i THEN new.width ELSE r.text[m].width
    BY <1>1
  <2>6. PICK w \in Nat, v \in Nat, u \in Nat : w = r.text[m].width /\ v = new.width /\ u = r.text[i].width
    BY <1>2
  <2>7. b + (IF m = i THEN v ELSE w) = IF m < i THEN a + w ELSE (a + w) + (v - u)
    <3>0. m \in Nat /\ i \in Nat /\ b = IF m - 1 < i THEN a ELSE a + (v - u)
      BY <1>1, <2>3, <2>6
    <3>1. CASE m < i
      BY <3>0, <3>1
    <3>2. CASE m = i
      <4>1. b = a /\ w = u
        BY <2>6, <3>0, <3>2
      <4> QED
        BY <3>2, <4>1
    <3>3. CASE m > i
      <4>1. b = a + (v - u)
        BY <3>0, <3>3
      <4> QED
        BY <3>0, <3>3, <4>1
    <3> QED
      BY <3>1, <3>2, <3>3
  <2>8. Ends(q.text)[m] = IF m < i THEN Ends(r.text)[m] ELSE Ends(r.text)[m] + d
    BY <2>4, <2>5, <2>6, <2>7
  <2> QED
    BY <2>1, <2>8
<1> HIDE DEF T
<1>6. \A m \in 0..n : m \in T
  BY <1>1, <1>4, <1>5, InductTo
<1> QED
  BY <1>6 DEF T

\* The ends of the tokens of q are taken back to where those of r are.
SamePlaces(r, q) ==
    /\ Len(q.text) = Len(r.text)
    /\ \A k \in 0..Len(r.text) : Back(q.layers, Ends(q.text)[k]) = Back(r.layers, Ends(r.text)[k])

\* A layer behind the start of the replaced token, at most at the end of the new one, takes
\* the ends of all tokens back to where they were.
LEMMA LayerKeepsPlaces ==
    ASSUME NEW r \in Results, NEW i \in 1..Len(r.text), NEW new \in GoodTokens, NEW q,
           OneReplaced(r, i, new, q), NEW layer \in Layers, q.layers = Append(r.layers, layer),
           layer.offset = r.text[i].width - new.width,
           layer.pos > Offset(r.text, i), layer.pos <= Offset(r.text, i) + new.width
    PROVE  SamePlaces(r, q)
<1> DEFINE n == Len(r.text)
<1>1. /\ n \in Nat /\ r.text \in Seq(GoodTokens) /\ r.layers \in Seq(Layers)
      /\ q.text \in Seq(GoodTokens) /\ Len(q.text) = n
  BY DEF OneReplaced, Results
<1>2. PICK v \in Nat, u \in Nat : v = new.width /\ u = r.text[i].width
  BY <1>1 DEF GoodTokens, Tokens
<1>3. \A k \in 0..n : Ends(r.text)[k] \in Nat /\ Ends(q.text)[k] \in Nat
  BY <1>1, EndsUnfold
<1>4. i \in 0..n /\ i - 1 \in 0..n /\ i \in Nat
  BY <1>1
<1>5. PICK o \in Nat : o = Offset(r.text, i) /\ o = Ends(r.text)[i - 1] /\ Ends(r.text)[i] = o + u
  <2>1. Ends(r.text)[i] = Ends(r.text)[i - 1] + r.text[i].width
    BY <1>1, EndsUnfold
  <2> QED
    BY <1>2, <1>3, <1>4, <2>1 DEF Offset
<1>6. PICK p \in Nat : p = layer.pos /\ p > o /\ p <= o + v /\ layer.offset = u - v
  BY <1>2, <1>5 DEF Layers
<1>7. ASSUME NEW k \in 0..n
      PROVE  /\ TranslateLayer(layer, Ends(q.text)[k]) = Ends(r.text)[k]
             /\ Back(q.layers, Ends(q.text)[k]) = Back(r.layers, Ends(r.text)[k])
  <2>1. PICK a \in Nat, b \in Nat : a = Ends(r.text)[k] /\ b = Ends(q.text)[k]
    BY <1>3
  <2>2. b = IF k < i THEN a ELSE a + (v - u)
    BY <1>2, <2>1, EndsReplaced
  <2>3. k <= i - 1 => a <= o
    BY <1>1, <1>4, <1>5, <2>1, EndsInOrder
  <2>4. i <= k => o + u <= a
    BY <1>1, <1>4, <1>5, <2>1, EndsInOrder
  <2>5. k \in Nat
    BY <1>1
  <2>6. TranslateLayer(layer, b) = IF b < p THEN b ELSE b + (u - v)
    BY <1>6 DEF TranslateLayer
  <2>7. CASE k < i
    <3>1. b = a /\ a <= o
      BY <1>4, <2>2, <2>3, <2>5, <2>7
    <3>2. TranslateLayer(layer, b) = a
      BY <1>6, <2>6, <3>1
    <3> QED
      BY <1>1, <2>1, <3>2, BackThroughLast
  <2>8. CASE ~(k < i)
    <3>1. b = a + (v - u) /\ o + u <= a
      BY <1>4, <2>2, <2>4, <2>5, <2>8
    <3>2. TranslateLayer(layer, b) = a
      BY <1>6, <2>6, <3>1
    <3> QED
      BY <1>1, <2>1, <3>2, BackThroughLast
  <2> QED
    BY <2>7, <2>8
<1> QED
  BY <1>1, <1>7 DEF SamePlaces

\* An address has at least three bytes, and 40 digits are more than 32.
LEMMA WidthBounds ==
    ASSUME NEW a \in Addresses
    PROVE  /\ \A form \in Forms : Width(form, a) \in Nat /\ Width(form, a) > 0
           /\ Width("trimmed", a) <= Width("long", a) /\ Width("short", a) <= Width("long", a)
<1>1. Digits[a] \in 1..32
  BY DigitsType
<1>2. /\ Width("trimmed", a) = 2 + Digits[a] /\ Width("short", a) = 34 /\ Width("long", a) = 42
      /\ Width("public_key", a) = 66 /\ Width("bech32", a) = 45 /\ Width("ss58", a) = 47
  BY DEF Width
<1> QED
  BY <1>1, <1>2 DEF Forms

LEMMA ReplaceTemplatePlaces ==
    ASSUME NEW template \in Templates, NEW addr \in [form : Forms, of : Addresses],
           NEW r \in Results, NEW i \in 1..Len(r.text)
    PROVE  SamePlaces(r, ReplaceTemplate(template, addr, r, i))
<1> DEFINE q == ReplaceTemplate(template, addr, r, i)
           new == Written(r.text[i], addr.form, addr.of)
           layer == Layer(Offset(r.text, i) + new.width, r.text[i].width - new.width)
<1>1. CASE r.text[i].form # template
  BY <1>1 DEF ReplaceTemplate, SamePlaces
<1>2. CASE r.text[i].form = template
  <2>1. r.text \in Seq(GoodTokens) /\ r.layers \in Seq(Layers) /\ r.replaced \in Seq(Pairs)
    BY DEF Results
  <2>2. r.text[i] \in GoodTokens /\ r.text[i].k = "sender" /\ r.text[i].width \in Nat
    BY <1>2, <2>1 DEF GoodTokens, WellFormed, Tokens
  <2>3. new \in GoodTokens /\ new.width \in Nat /\ new.k = "address" /\ new.form = addr.form /\ new.of = addr.of
    BY <2>2, WrittenType
  <2>4. new.width > 0
    <3>1. new.width = Width(addr.form, addr.of)
      BY <2>3 DEF GoodTokens, WellFormed
    <3> QED
      BY <3>1, WidthBounds
  <2>5. Offset(r.text, i) \in Nat
    BY <2>1, OffsetType
  <2>6. q = [r EXCEPT !.text[i] = new, !.layers = Append(r.layers, layer)]
    BY <1>2 DEF ReplaceTemplate
  <2> HIDE DEF new
  <2>7. /\ layer \in Layers /\ layer.pos > Offset(r.text, i) /\ layer.pos <= Offset(r.text, i) + new.width
        /\ layer.offset = r.text[i].width - new.width
    BY <2>2, <2>3, <2>4, <2>5 DEF Layer, Layers
  <2> HIDE DEF layer
  <2>8. q = [text |-> [r.text EXCEPT ![i] = new], layers |-> Append(r.layers, layer), replaced |-> r.replaced]
    BY <2>6 DEF Results
  <2>9. Append(r.layers, layer) \in Seq(Layers) /\ q.layers = Append(r.layers, layer)
    BY <2>1, <2>7, <2>8
  <2> HIDE DEF q
  <2>10. OneReplaced(r, i, new, q)
    BY <2>1, <2>3, <2>8, <2>9, ReplaceOne, Zenon
  <2>11. SamePlaces(r, q)
    BY <2>3, <2>7, <2>9, <2>10, LayerKeepsPlaces
  <2> QED
    BY <2>11 DEF q
<1> QED
  BY <1>1, <1>2

LEMMA PadAddressPlaces ==
    ASSUME NEW r \in Results, NEW i \in 1..Len(r.text)
    PROVE  SamePlaces(r, PadAddress(r, i))
<1> DEFINE q == PadAddress(r, i)
           old == r.text[i]
           new == Written(old, "long", old.of)
           end == Offset(r.text, i) + old.width
           a == AddressLayer(r, end, old, new)
           layer == Layer(end, old.width - new.width)
<1>1. CASE ~Paddable(r, i)
  BY <1>1 DEF PadAddress, Paddable, SamePlaces
<1>2. CASE Paddable(r, i)
  <2>1. r.text \in Seq(GoodTokens) /\ r.layers \in Seq(Layers) /\ r.replaced \in Seq(Pairs)
    BY DEF Results
  <2>2. old \in GoodTokens /\ old.form \in {"trimmed", "short"}
    BY <1>2, <2>1 DEF Paddable
  <2>3. old.k = "address" /\ old.of \in Addresses /\ old.width = Width(old.form, old.of)
    BY <2>2 DEF GoodTokens, WellFormed, Forms
  <2>4. "long" \in Forms /\ "trimmed" \in Forms /\ "short" \in Forms
    BY DEF Forms
  <2>5. new \in GoodTokens /\ new.k = "address" /\ new.form = "long" /\ new.of = old.of
    BY <2>2, <2>3, <2>4, WrittenType
  <2>6. new.width = Width("long", old.of)
    BY <2>5 DEF GoodTokens, WellFormed
  <2>7. /\ old.width \in Nat /\ old.width > 0 /\ new.width \in Nat /\ old.width <= new.width
    BY <2>2, <2>3, <2>4, <2>6, WidthBounds
  <2>8. Offset(r.text, i) \in Nat
    BY <2>1, OffsetType
  <2>9. q = [a EXCEPT !.text[i] = new]
    BY <1>2 DEF PadAddress, Paddable
  <2>10. a.layers = Append(r.layers, layer)
    BY DEF AddressLayer, Results
  <2> HIDE DEF new, old
  <2>11. /\ layer \in Layers /\ layer.pos > Offset(r.text, i) /\ layer.pos <= Offset(r.text, i) + new.width
         /\ layer.offset = old.width - new.width /\ end \in Nat
    BY <2>7, <2>8 DEF Layer, Layers
  <2> HIDE DEF end, layer
  <2>12. a \in Results /\ a.text = r.text
    BY <2>2, <2>3, <2>5, <2>11, AddressLayerType
  <2> HIDE DEF a
  <2>13. q = [text |-> [a.text EXCEPT ![i] = new], layers |-> a.layers, replaced |-> a.replaced]
    BY <2>9, <2>12 DEF Results
  <2>14. i \in 1..Len(a.text) /\ a.layers \in Seq(Layers) /\ a.replaced \in Seq(Pairs) /\ q.layers = a.layers
    BY <2>12, <2>13 DEF Results
  <2> HIDE DEF q
  <2>15. OneReplaced(a, i, new, q)
    BY <2>5, <2>12, <2>13, <2>14, ReplaceOne, Zenon
  <2>16. OneReplaced(r, i, new, q)
    BY <2>12, <2>15 DEF OneReplaced
  <2>17. SamePlaces(r, q)
    BY <2>5, <2>10, <2>11, <2>14, <2>16, LayerKeepsPlaces DEF old
  <2> QED
    BY <2>17 DEF q
<1> QED
  BY <1>1, <1>2

LEMMA TemplatePassPlaces ==
    ASSUME NEW template \in Templates, NEW addr \in [form : Forms, of : Addresses], NEW s \in Results
    PROVE  SamePlaces(s, Replaced(template, addr, s))
<1> DEFINE n == Len(s.text)
           f == TemplatePass(template, addr, s)
           T == {k \in 0..n : SamePlaces(s, f[k])}
<1>0. n \in Nat
  BY DEF Results
<1>1. /\ f \in [0..n -> SameLength(s)] /\ f[0] = s
      /\ \A k \in 1..n : f[k] = ReplaceTemplate(template, addr, f[k - 1], k)
  BY TemplatePassUnfold
<1> HIDE DEF f
<1>2. 0 \in T
  BY <1>0, <1>1 DEF SamePlaces
<1>3. ASSUME NEW k \in 1..n, k - 1 \in T PROVE k \in T
  <2>1. k \in 0..n /\ k - 1 \in 0..n /\ SamePlaces(s, f[k - 1])
    BY <1>0, <1>3
  <2>2. PICK r : r = f[k - 1]
    OBVIOUS
  <2>3. r \in Results /\ Len(r.text) = n /\ f[k] = ReplaceTemplate(template, addr, r, k)
    BY <1>1, <2>1, <2>2 DEF SameLength
  <2>4. SamePlaces(r, f[k])
    BY <2>3, ReplaceTemplatePlaces
  <2>5. SamePlaces(s, f[k])
    BY <2>1, <2>2, <2>4 DEF SamePlaces
  <2> QED
    BY <2>1, <2>5
<1> HIDE DEF T
<1>4. \A k \in 0..n : k \in T
  BY <1>0, <1>2, <1>3, InductTo
<1>5. SamePlaces(s, f[n])
  BY <1>0, <1>4 DEF T
<1>6. Replaced(template, addr, s) = f[n]
  BY DEF Replaced, f
<1> QED
  BY <1>5, <1>6

LEMMA PadPassPlaces ==
    ASSUME NEW s \in Results
    PROVE  SamePlaces(s, ReplaceLibraAddress(s))
<1> DEFINE n == Len(s.text)
           f == PadPass(s)
           T == {k \in 0..n : SamePlaces(s, f[k])}
<1>0. n \in Nat
  BY DEF Results
<1>1. /\ f \in [0..n -> SameLength(s)] /\ f[0] = s
      /\ \A k \in 1..n : f[k] = PadAddress(f[k - 1], k)
  BY PadPassUnfold
<1> HIDE DEF f
<1>2. 0 \in T
  BY <1>0, <1>1 DEF SamePlaces
<1>3. ASSUME NEW k \in 1..n, k - 1 \in T PROVE k \in T
  <2>1. k \in 0..n /\ k - 1 \in 0..n /\ SamePlaces(s, f[k - 1])
    BY <1>0, <1>3
  <2>2. PICK r : r = f[k - 1]
    OBVIOUS
  <2>3. r \in Results /\ Len(r.text) = n /\ f[k] = PadAddress(r, k)
    BY <1>1, <2>1, <2>2 DEF SameLength
  <2>4. SamePlaces(r, f[k])
    BY <2>3, PadAddressPlaces
  <2>5. SamePlaces(s, f[k])
    BY <2>1, <2>2, <2>4 DEF SamePlaces
  <2> QED
    BY <2>1, <2>5
<1> HIDE DEF T
<1>4. \A k \in 0..n : k \in T
  BY <1>0, <1>2, <1>3, InductTo
<1>5. SamePlaces(s, f[n])
  BY <1>0, <1>4 DEF T
<1>6. ReplaceLibraAddress(s) = f[n]
  BY DEF ReplaceLibraAddress, f
<1> QED
  BY <1>5, <1>6

\* The placeholders and the addresses of libra leave every place where it is.
LEMMA SenderPlaces ==
    ASSUME NEW s \in Results, NEW addr \in Senders
    PROVE  SamePlaces(s, ReplaceSenderPlaceholder(s, addr))
<1>1. CASE addr = NoAddress
  BY <1>1 DEF ReplaceSenderPlaceholder, SamePlaces
<1>2. CASE addr # NoAddress
  <2>1. addr \in [form : Forms, of : Addresses]
    BY <1>2 DEF Senders
  <2>2. "template" \in Templates /\ "spaced_template" \in Templates
    BY DEF Templates
  <2> DEFINE p == Replaced("template", addr, s)
             r == Replaced("spaced_template", addr, p)
  <2>3. p \in Results
    BY <2>1, <2>2, TemplatePassFills DEF SameLength
  <2>4. SamePlaces(s, p)
    BY <2>1, <2>2, TemplatePassPlaces
  <2>5. SamePlaces(p, r)
    BY <2>1, <2>2, <2>3, TemplatePassPlaces
  <2>6. ReplaceSenderPlaceholder(s, addr) = r
    BY <1>2 DEF ReplaceSenderPlaceholder
  <2> HIDE DEF p, r
  <2> QED
    BY <2>4, <2>5, <2>6 DEF SamePlaces
<1> QED
  BY <1>1, <1>2

\* Without a match the text is left as it is.
LEMMA NoMatches ==
    ASSUME NEW s \in Results, NEW w \in Forms, NEW to \in Forms, w # to
    PROVE  ReplaceWallets(s, to, {}) = s
<1> DEFINE n == Len(s.text)
           f == WalletPass(s, to, {})
           T == {k \in 0..n : f[k] = s}
<1>0. n \in Nat
  BY DEF Results
<1>1. {} \in SUBSET {i \in 1..Len(s.text) : s.text[i].form = w}
  OBVIOUS
<1>2. /\ f \in [0..n -> SameLength(s)] /\ f[0] = s
      /\ \A k \in 1..n : f[k] = ReplaceWallet(s, to, {}, f[k - 1], k)
  BY <1>1, WalletPassUnfold
<1> HIDE DEF f
<1>3. 0 \in T
  BY <1>0, <1>2
<1>4. ASSUME NEW k \in 1..n, k - 1 \in T PROVE k \in T
  <2>1. f[k] = f[k - 1]
    BY <1>2 DEF ReplaceWallet
  <2>2. k \in 0..n
    BY <1>0
  <2> QED
    BY <1>4, <2>1, <2>2
<1> HIDE DEF T
<1>5. \A k \in 0..n : k \in T
  BY <1>0, <1>3, <1>4, InductTo
<1>6. f[n] = s
  BY <1>0, <1>5 DEF T
<1> QED
  BY <1>6 DEF ReplaceWallets, f

\* Without wallet addresses of the dialect every place stays where it is.
LEMMA NoWalletPlaces ==
    ASSUME NEW s \in Results, NEW dialect \in Dialects,
           \A j \in DOMAIN s.text : s.text[j].form \notin WalletForms \cap {Wallet(dialect)}
    PROVE  SamePlaces(s, ReplaceAddresses(dialect, s))
<1>1. SamePlaces(s, s)
  BY DEF SamePlaces
<1>2. CASE dialect = "libra"
  BY <1>2, PadPassPlaces DEF ReplaceAddresses
<1>3. CASE dialect = "dfinance"
  <2>1. {i \in DOMAIN s.text : s.text[i].form = "bech32" /\ s.text[i].spaced} = {}
    BY <1>3 DEF Wallet, WalletForms
  <2>2. ReplaceAddresses(dialect, s) = ReplaceWallets(s, "trimmed", {})
    BY <1>3, <2>1 DEF ReplaceAddresses, ReplaceBech32Addresses
  <2>3. "bech32" \in Forms /\ "trimmed" \in Forms /\ "bech32" # "trimmed"
    BY DEF Forms
  <2> QED
    BY <1>1, <2>2, <2>3, NoMatches
<1>4. CASE dialect = "polkadot"
  <2>1. {i \in DOMAIN s.text : s.text[i].form = "ss58"} = {}
    BY <1>4 DEF Wallet, WalletForms
  <2>2. ReplaceAddresses(dialect, s) = ReplaceWallets(s, "public_key", {})
    BY <1>4, <2>1 DEF ReplaceAddresses, ReplaceSs58Addresses
  <2>3. "ss58" \in Forms /\ "public_key" \in Forms /\ "ss58" # "public_key"
    BY DEF Forms
  <2> QED
    BY <1>1, <2>2, <2>3, NoMatches
<1> QED
  BY <1>2, <1>3, <1>4 DEF Dialects

\* Layers of one byte move a place by at most their number.
LEMMA BackByBytes ==
    ASSUME NEW layers \in Seq(Layers), \A i \in 1..Len(layers) : layers[i].offset = 1, NEW pos \in Nat
    PROVE  Back(layers, pos) \in Nat /\ pos <= Back(layers, pos) /\ Back(layers, pos) <= pos + Len(layers)
<1> DEFINE n == Len(layers)
           f == Undo(layers, pos)
           T == {k \in 0..n : pos <= f[k] /\ f[k] <= pos + k}
<1>0. n \in Nat
  OBVIOUS
<1>1. /\ \A k \in 0..n : f[k] \in Int
      /\ f[0] = pos /\ \A k \in 1..n : f[k] = TranslateLayer(layers[n + 1 - k], f[k - 1])
  <2>1. f \in [0..n -> Int]
    BY UndoUnfold
  <2>2. f[0] = pos /\ \A k \in 1..n : f[k] = TranslateLayer(layers[n + 1 - k], f[k - 1])
    BY UndoUnfold
  <2> HIDE DEF f
  <2> QED
    BY <2>1, <2>2
<1> HIDE DEF f
<1>2. 0 \in T
  BY <1>0, <1>1
<1>3. ASSUME NEW k \in 1..n, k - 1 \in T PROVE k \in T
  <2>1. k \in 0..n /\ k - 1 \in 0..n /\ n + 1 - k \in 1..n
    BY <1>0
  <2>2. PICK a \in Int, b \in Int : a = f[k - 1] /\ b = f[k]
    BY <1>1, <2>1
  <2>3. pos <= a /\ a <= pos + (k - 1)
    BY <1>3, <2>2
  <2>4. b = a \/ b = a + 1
    BY <1>1, <2>1, <2>2 DEF TranslateLayer
  <2>5. pos <= b /\ b <= pos + k
    BY <2>1, <2>3, <2>4
  <2> QED
    BY <2>1, <2>2, <2>5
<1> HIDE DEF T
<1>4. \A k \in 0..n : k \in T
  BY <1>0, <1>2, <1>3, InductTo
<1>5. f[n] \in Int /\ pos <= f[n] /\ f[n] <= pos + n
  BY <1>0, <1>1, <1>4 DEF T
<1> QED
  BY <1>5 DEF Back, f

\* The tokens before the last one end where they ended.
LEMMA EndsAppend ==
    ASSUME NEW text \in Seq(GoodTokens), NEW t \in GoodTokens
    PROVE  Ends(Append(text, t))[Len(text) + 1] = Ends(text)[Len(text)] + t.width
<1> DEFINE n == Len(text)
           more == Append(text, t)
           T == {k \in 0..n : Ends(more)[k] = Ends(text)[k]}
<1>1. /\ n \in Nat /\ more \in Seq(GoodTokens) /\ Len(more) = n + 1 /\ more[n + 1] = t
      /\ \A i \in 1..n : more[i] = text[i]
  BY AppendProperties
<1> HIDE DEF more
<1>2. /\ Ends(more)[0] = 0 /\ \A k \in 1..(n + 1) : Ends(more)[k] = Ends(more)[k - 1] + more[k].width
      /\ Ends(text)[0] = 0 /\ \A k \in 1..n : Ends(text)[k] = Ends(text)[k - 1] + text[k].width
  BY <1>1, EndsUnfold
<1>3. 0 \in T
  BY <1>1, <1>2
<1>4. ASSUME NEW k \in 1..n, k - 1 \in T PROVE k \in T
  <2>1. k \in 0..n /\ k \in 1..(n + 1)
    BY <1>1
  <2>2. Ends(more)[k - 1] = Ends(text)[k - 1] /\ more[k] = text[k]
    BY <1>1, <1>4
  <2> QED
    BY <1>2, <2>1, <2>2
<1> HIDE DEF T
<1>5. \A k \in 0..n : k \in T
  BY <1>1, <1>3, <1>4, InductTo
<1>6. Ends(more)[n] = Ends(text)[n]
  BY <1>1, <1>5 DEF T
<1>7. n + 1 \in 1..(n + 1) /\ (n + 1) - 1 = n
  BY <1>1
<1>8. Ends(more)[n + 1] = Ends(more)[(n + 1) - 1] + more[n + 1].width
  BY <1>2, <1>7
<1> QED
  BY <1>1, <1>6, <1>7, <1>8 DEF more

\* A layer of one byte stands for each byte that the text has lost.
Counted(text, k, s) ==
    /\ Ends(s.text)[Len(s.text)] + Len(s.layers) = Ends(text)[k]
    /\ \A i \in 1..Len(s.layers) : s.layers[i].offset = 1

LEMMA NextCharacterCounts ==
    ASSUME NEW text \in Seq(GoodTokens), NEW k \in 1..Len(text), NEW s \in PassStates, Counted(text, k - 1, s)
    PROVE  Counted(text, k, NextCharacter(s, text[k]))
<1> DEFINE t == text[k]
           r == NextCharacter(s, t)
<1>1. s \in [text : Seq(GoodTokens), layers : Seq(Layers), was_cr : BOOLEAN, pos : Nat]
  BY DEF PassStates
<1>2. /\ t \in GoodTokens /\ t.width \in Nat /\ (t.k \in {"cr", "lf"} => t.width = 1)
  BY DEF GoodTokens, WellFormed, Tokens
<1>3. /\ Ends(text)[k] = Ends(text)[k - 1] + t.width
      /\ Ends(text)[k - 1] \in Nat
  <2>1. k - 1 \in 0..Len(text)
    OBVIOUS
  <2> QED
    BY <2>1, EndsUnfold
<1>4. Ends(s.text)[Len(s.text)] \in Nat /\ Len(s.layers) \in Nat
  <2>1. s.text \in Seq(GoodTokens) /\ Len(s.text) \in 0..Len(s.text) /\ s.layers \in Seq(Layers)
    BY <1>1
  <2>2. Ends(s.text) \in [0..Len(s.text) -> Nat]
    BY <2>1, EndsUnfold
  <2> QED
    BY <2>1, <2>2
<1>5. CASE t.k = "lf" /\ s.was_cr
  <2> DEFINE l == Layer(s.pos + 1 - 2, 1)
  <2>1. r.text = s.text /\ r.layers = Append(s.layers, l)
    BY <1>1, <1>5 DEF NextCharacter
  <2>2. l.offset = 1
    BY DEF Layer
  <2> HIDE DEF l, r
  <2>3. \E S : s.layers \in Seq(S)
    BY <1>1
  <2>4. /\ Len(r.layers) = Len(s.layers) + 1
        /\ \A i \in 1..Len(s.layers) : r.layers[i] = s.layers[i]
        /\ r.layers[Len(s.layers) + 1] = l
    BY <2>1, <2>3, AppendKeeps
  <2>5. \A i \in 1..Len(r.layers) : r.layers[i].offset = 1
    <3>1. \A i \in 1..(Len(s.layers) + 1) : i \in 1..Len(s.layers) \/ i = Len(s.layers) + 1
      BY <1>4
    <3> QED
      BY <2>2, <2>4, <3>1 DEF Counted
  <2>6. Ends(r.text)[Len(r.text)] + Len(r.layers) = Ends(text)[k]
    <3>1. Ends(s.text)[Len(s.text)] + Len(s.layers) = Ends(text)[k - 1] /\ t.width = 1
      BY <1>2, <1>5 DEF Counted
    <3>2. Ends(r.text)[Len(r.text)] = Ends(s.text)[Len(s.text)]
      BY <2>1, Zenon
    <3> QED
      BY <1>3, <1>4, <2>4, <3>1, <3>2
  <2> QED
    BY <2>5, <2>6 DEF Counted, r
<1>6. CASE ~(t.k = "lf" /\ s.was_cr)
  <2> DEFINE u == IF t.k = "cr" THEN LF ELSE t
  <2>1. r.text = Append(s.text, u) /\ r.layers = s.layers
    BY <1>6, <1>1 DEF NextCharacter
  <2>2. u \in GoodTokens
    BY <1>2, LFGood
  <2>3. u.width = t.width
    BY <1>2 DEF LF, Token
  <2> HIDE DEF u, r
  <2>4. s.text \in Seq(GoodTokens)
    BY <1>1
  <2>5. Len(r.text) = Len(s.text) + 1 /\ Ends(r.text)[Len(s.text) + 1] = Ends(s.text)[Len(s.text)] + u.width
    BY <2>1, <2>2, <2>4, EndsAppend, AppendProperties
  <2>6. Ends(r.text)[Len(r.text)] + Len(r.layers) = Ends(text)[k]
    BY <1>2, <1>3, <1>4, <2>1, <2>3, <2>5 DEF Counted
  <2> QED
    BY <2>1, <2>6 DEF Counted, r
<1> QED
  BY <1>5, <1>6

\* The line ends move no place out of the file.
LEMMA LineEndsInFile ==
    ASSUME NEW text \in Seq(GoodTokens)
    PROVE  LET e == NormalizeLineEnds(text)
           IN  \A k \in 0..Len(e.text) : Back(e.layers, Ends(e.text)[k]) \in 0..Size(text)
<1> DEFINE n == Len(text)
           T == {k \in 0..n : Counted(text, k, LineEnds(text)[k])}
<1>1. n \in Nat
  OBVIOUS
<1>2. 0 \in T
  <2>1. LineEnds(text)[0].text = <<>> /\ LineEnds(text)[0].layers = <<>>
    BY LineEndsUnfold
  <2>2. <<>> \in Seq(GoodTokens) /\ Len(<<>>) = 0
    OBVIOUS
  <2>3. Ends(<<>>)[0] = 0 /\ Ends(text)[0] = 0
    BY <2>2, EndsUnfold
  <2> QED
    BY <1>1, <2>1, <2>2, <2>3 DEF Counted
<1>3. ASSUME NEW k \in 1..n, k - 1 \in T PROVE k \in T
  <2>1. k \in 0..n /\ k - 1 \in 0..n /\ Counted(text, k - 1, LineEnds(text)[k - 1])
    BY <1>1, <1>3
  <2>2. /\ LineEnds(text)[k - 1] \in PassStates
        /\ LineEnds(text)[k] = NextCharacter(LineEnds(text)[k - 1], text[k])
    BY <2>1, LineEndsUnfold
  <2> QED
    BY <2>1, <2>2, NextCharacterCounts
<1> HIDE DEF T
<1>4. \A k \in 0..n : k \in T
  BY <1>1, <1>2, <1>3, InductTo
<1>5. n \in 0..n /\ Counted(text, n, LineEnds(text)[n])
  BY <1>1, <1>4 DEF T
<1> DEFINE d == LineEnds(text)[n]
           e == NormalizeLineEnds(text)
<1>6. d \in PassStates
  BY <1>5, LineEndsUnfold
<1>7. e.text = d.text /\ e.layers = d.layers
  BY DEF NormalizeLineEnds
<1> HIDE DEF d, e
<1>8. e.text \in Seq(GoodTokens) /\ e.layers \in Seq(Layers)
  BY <1>6, <1>7 DEF PassStates
<1>9. Size(text) = Ends(text)[n] /\ Ends(text)[n] \in Nat
  <2>1. Len(text) + 1 - 1 = n
    BY <1>1
  <2> QED
    BY <1>5, <2>1, EndsUnfold DEF Size, Offset
<1>10. ASSUME NEW k \in 0..Len(e.text) PROVE Back(e.layers, Ends(e.text)[k]) \in 0..Size(text)
  <2>1. Len(e.text) \in 0..Len(e.text) /\ k <= Len(e.text) /\ Len(e.layers) \in Nat
    BY <1>8
  <2>2. PICK a \in Nat, z \in Nat : a = Ends(e.text)[k] /\ z = Ends(e.text)[Len(e.text)]
    BY <1>8, <2>1, EndsUnfold
  <2>3. a <= z
    BY <1>8, <2>1, <2>2, EndsInOrder
  <2>4. z + Len(e.layers) = Ends(text)[n]
    BY <1>5, <1>7, <2>2 DEF Counted, d
  <2>5. \A i \in 1..Len(e.layers) : e.layers[i].offset = 1
    BY <1>5, <1>7 DEF Counted, d
  <2>6. Back(e.layers, a) \in Nat /\ Back(e.layers, a) <= a + Len(e.layers)
    BY <1>8, <2>5, BackByBytes
  <2>7. \A v, c, q \in Nat : v <= a + c /\ z + c = q => v \in 0..q
    BY <2>3
  <2>8. Back(e.layers, a) \in 0..Ends(text)[n]
    BY <1>9, <2>1, <2>4, <2>6, <2>7, Zenon
  <2> QED
    BY <1>9, <2>2, <2>8, Zenon
<1> QED
  BY <1>10 DEF e

\* Without a wallet address of the dialect, every place goes back into the text of the user.
LEMMA NormalInFile ==
    ASSUME NEW text \in Seq(GoodTokens), NEW dialect \in Dialects, NEW addr \in Senders,
           \A j \in DOMAIN text : Stands(addr, text[j]) \notin WalletForms \cap {Wallet(dialect)}
    PROVE  LET n == NormalizeSourceText(dialect, text, addr)
           IN  \A k \in 0..Len(n.text) : Back(n.layers, Ends(n.text)[k]) \in 0..Size(text)
<1> DEFINE e == NormalizeLineEnds(text)
           f == ReplaceSenderPlaceholder(e, addr)
           n == ReplaceAddresses(dialect, f)
<1>1. e \in Results /\ Kept(text, Len(text), e)
  BY LineEndsKept
<1>2. \A k \in 0..Len(e.text) : Back(e.layers, Ends(e.text)[k]) \in 0..Size(text)
  BY LineEndsInFile
<1>3. NormalizeSourceText(dialect, text, addr) = n
  BY DEF NormalizeSourceText
<1> HIDE DEF e
<1>4. /\ f \in SameLength(e) /\ SamePlaces(e, f)
      /\ \A j \in 1..Len(e.text) :
            f.text[j] = IF e.text[j].k = "sender" /\ addr # NoAddress
                        THEN Written(e.text[j], addr.form, addr.of) ELSE e.text[j]
  BY <1>1, SenderFilled, SenderPlaces
<1> HIDE DEF f
<1>5. f \in Results /\ e.text \in Seq(GoodTokens) /\ f.text \in Seq(GoodTokens) /\ Len(f.text) = Len(e.text)
  BY <1>1, <1>4 DEF SameLength, Results
<1>6. ASSUME NEW j \in DOMAIN f.text PROVE f.text[j].form \notin WalletForms \cap {Wallet(dialect)}
  <2>1. j \in 1..Len(e.text) /\ e.text[j] \in GoodTokens
    BY <1>5
  <2>2. f.text[j].form = Stands(addr, e.text[j])
    <3>1. CASE e.text[j].k = "sender" /\ addr # NoAddress
      <4>1. f.text[j] = Written(e.text[j], addr.form, addr.of)
        BY <1>4, <2>1, <3>1
      <4> QED
        BY <2>1, <3>1, <4>1 DEF Written, Stands, GoodTokens, Tokens
    <3>2. CASE ~(e.text[j].k = "sender" /\ addr # NoAddress)
      BY <1>4, <2>1, <3>2 DEF Stands
    <3> QED
      BY <3>1, <3>2
  <2>3. CASE e.text[j].k = "lf"
    BY <2>1, <2>2, <2>3 DEF Stands, WalletForms, GoodTokens, WellFormed, Forms
  <2>4. CASE e.text[j].k # "lf"
    <3>1. PICK i \in DOMAIN text : e.text[j] = text[i]
      BY <1>1, <1>5, <2>1, <2>4 DEF Kept
    <3> QED
      BY <2>2, <3>1
  <2> QED
    BY <2>3, <2>4
<1>7. n \in SameLength(f) /\ SamePlaces(f, n)
  BY <1>5, <1>6, NoWalletPlaces, AddressesReplaced
<1> HIDE DEF n
<1>8. Len(n.text) = Len(f.text)
  BY <1>7 DEF SameLength
<1>9. ASSUME NEW k \in 0..Len(n.text) PROVE Back(n.layers, Ends(n.text)[k]) \in 0..Size(text)
  BY <1>2, <1>4, <1>5, <1>7, <1>8 DEF SamePlaces
<1> QED
  BY <1>3, <1>9

-----------------------------------------------------------------------------
(* No place lies outside the file.                                         *)

LEMMA MinIn ==
    ASSUME NEW S \in SUBSET Nat, S # {}
    PROVE  Min(S) \in S
<1> SUFFICES ASSUME ~\E x \in S : \A y \in S : x =< y PROVE FALSE
  BY DEF Min
<1> DEFINE T == {n \in Nat : \A m \in 0..n : m \notin S}
<1>1. 0 \in T
  <2>1. \A m \in 0..0 : m = 0
    OBVIOUS
  <2>2. 0 \notin S
    OBVIOUS
  <2> QED
    BY <2>1, <2>2
<1>2. ASSUME NEW k \in Nat, k \in T PROVE k + 1 \in T
  <2>1. k + 1 \notin S
    BY <1>2
  <2> QED
    BY <1>2, <2>1
<1> HIDE DEF T
<1>3. \A n \in Nat : n \in T
  BY <1>1, <1>2, NatInduct
<1>4. PICK x \in Nat : x \in S
  OBVIOUS
<1>5. x \in 0..x
  OBVIOUS
<1> QED
  BY <1>3, <1>4, <1>5 DEF T

LEMMA EndsOfTwo ==
    ASSUME NEW a \in Int, NEW b \in Int
    PROVE  Min({a, b}) \in {a, b} /\ Max({a, b}) \in {a, b}
<1>1. \E x \in {a, b} : \A y \in {a, b} : x =< y
  OBVIOUS
<1>2. \E x \in {a, b} : \A y \in {a, b} : x >= y
  OBVIOUS
<1> QED
  BY <1>1, <1>2 DEF Min, Max

LEMMA RefusedInText ==
    ASSUME NEW text \in Seq(GoodTokens)
    PROVE  FirstRefused(text, Unreadable(text)) \subseteq DOMAIN text
<1> DEFINE odd == {i \in DOMAIN text : text[i].fault = "char"}
           bad == Unreadable(text)
<1>1. DOMAIN text \subseteq Nat
  OBVIOUS
<1>2. odd \subseteq DOMAIN text /\ bad \subseteq DOMAIN text
  BY DEF Unreadable
<1>3. FirstRefused(text, bad) = IF odd # {} THEN {Min(odd)} ELSE IF bad # {} THEN {Min(bad)} ELSE {}
  BY DEF FirstRefused
<1> HIDE DEF odd, bad
<1>4. (odd # {} => Min(odd) \in odd) /\ (bad # {} => Min(bad) \in bad)
  BY <1>1, <1>2, MinIn
<1> QED
  BY <1>2, <1>3, <1>4 DEF bad

\* Where the tokens of a parsed file end, in the normalised text and in the file of the user.
EndsIn(text) == {Ends(text)[k] : k \in 0..Len(text)}
UserPlaces(g) == {Back(offsets[g].layers, p) : p \in EndsIn(files[g])}

IsError(e) == e = [file |-> e.file, start |-> e.start, end |-> e.end, name |-> e.name]
Placed(e) == IsError(e) /\ e.file \in DOMAIN files /\ {e.start, e.end} \subseteq EndsIn(files[e.file])

\* The errors lie between tokens of the normalised texts, after transform() between those of
\* the user, and the language server has panicked only about one behind the end of its file.
Located ==
    /\ pc \in {"parse", "check", "translate", "transform"} => \A e \in errors : Placed(e)
    /\ pc \in {"show", "panic"} =>
          \A e \in errors : e.file \in DOMAIN files /\ {e.start, e.end} \subseteq UserPlaces(e.file)
    /\ pc = "panic" => \E e \in errors : e.start < 0 \/ e.end > Size(ContentOf(e.file))

LEMMA ErrorPlaced ==
    ASSUME NEW g, NEW text \in Seq(GoodTokens), NEW i \in DOMAIN text
    PROVE  LET e == ErrorAt(g, text, i)
           IN  IsError(e) /\ e.file = g /\ {e.start, e.end} \subseteq EndsIn(text)
<1>1. i \in 1..Len(text) /\ i - 1 \in 0..Len(text) /\ i \in 0..Len(text) /\ i + 1 - 1 = i
  OBVIOUS
<1>2. Offset(text, i) \in EndsIn(text) /\ Offset(text, i + 1) \in EndsIn(text)
  BY <1>1 DEF Offset, EndsIn
<1> QED
  BY <1>2 DEF ErrorAt, IsError

\* What is known of a parsed file.
LEMMA FileFacts ==
    ASSUME Parsing, NEW g \in DOMAIN files
    PROVE  \E f \in SourceFiles(job) :
              /\ f.name = g /\ files[g] = Normal(f).text /\ offsets[g].layers = Normal(f).layers
              /\ files[g] \in Seq(GoodTokens) /\ offsets[g].layers \in Seq(Layers)
              /\ f.text \in Seq(GoodTokens) /\ ContentOf(g) = f.text
<1>1. job \in Jobs /\ sender \in Senders
  BY DEF Parsing
<1>2. PICK f \in SourceFiles(job) : f.name = g
  BY DEF Parsing
<1>3. files[g] = Normal(f).text /\ offsets[g].layers = Normal(f).layers
  BY <1>2 DEF Parsing
<1>4. Normal(f) \in Results /\ f.text \in Seq(GoodTokens)
  BY <1>1, NormalFacts
<1>5. ContentOf(g) = f.text
  <2>1. \A h \in SourceFiles(job) : h.name = g => h = f
    BY <1>1, <1>2, JobFacts
  <2>2. (CHOOSE h \in SourceFiles(job) : h.name = g) = f
    BY <1>2, <2>1
  <2> QED
    BY <2>2 DEF ContentOf
<1> QED
  BY <1>2, <1>3, <1>4, <1>5 DEF Results

LEMMA FaultsPlaced ==
    ASSUME Parsing, NEW names \in SUBSET DOMAIN files, NEW fault, NEW e \in FaultsOf(names, fault)
    PROVE  Placed(e)
<1>1. PICK g \in names : \E i \in DOMAIN files[g] : e = ErrorAt(g, files[g], i)
  BY DEF FaultsOf
<1>2. files[g] \in Seq(GoodTokens)
  BY FileFacts
<1> QED
  BY <1>1, <1>2, ErrorPlaced DEF Placed

LEMMA InitLocated == Init => Located
BY DEF Init, Located

LEMMA ParseFileLocated ==
    ASSUME IInv, IInv', Located, ParseFile
    PROVE  Located'
<1> DEFINE f == Head(todo)
           n == Normal(f)
<1>1. /\ pc = "parse" /\ pc' = "parse" /\ todo # <<>>
      /\ files' = [g \in DOMAIN files \cup {f.name} |-> IF g = f.name THEN n.text ELSE files[g]]
      /\ errors' = errors \cup {ErrorAt(f.name, n.text, i) : i \in FirstRefused(n.text, Unreadable(n.text))}
  BY DEF ParseFile, Normal
<1>2. Parsing /\ job \in Jobs /\ sender \in Senders /\ todo \in Seq(SourceFiles(job))
  BY DEF IInv, Parsing
<1>3. f \in SourceFiles(job)
  BY <1>1, <1>2
<1>4. n.text \in Seq(GoodTokens)
  BY <1>2, <1>3, NormalFacts
<1>5. f.name \in DOMAIN files => files[f.name] = n.text
  BY <1>2, <1>3 DEF Parsing
<1>6. FirstRefused(n.text, Unreadable(n.text)) \subseteq DOMAIN n.text
  BY <1>4, RefusedInText
<1> HIDE DEF f, n
<1>7. /\ DOMAIN files' = DOMAIN files \cup {f.name} /\ files'[f.name] = n.text
      /\ \A g \in DOMAIN files : files'[g] = files[g]
  BY <1>1, <1>5
<1>8. ASSUME NEW e \in errors' PROVE Placed(e)'
  <2>1. CASE e \in errors
    <3>1. Placed(e)
      BY <1>1, <2>1 DEF Located
    <3> QED
      BY <1>7, <3>1 DEF Placed
  <2>2. CASE e \notin errors
    <3>1. PICK i \in DOMAIN n.text : e = ErrorAt(f.name, n.text, i)
      BY <1>1, <1>6, <2>2
    <3>2. IsError(e) /\ e.file = f.name /\ {e.start, e.end} \subseteq EndsIn(n.text)
      BY <1>4, <3>1, ErrorPlaced
    <3> QED
      BY <1>7, <3>2 DEF Placed
  <2> QED
    BY <2>1, <2>2
<1> QED
  BY <1>1, <1>8 DEF Located

LEMMA PhasesLocated ==
    ASSUME IInv, Located, CheckProgram \/ Translate
    PROVE  Located'
<1>1. /\ pc \in {"check", "translate"} /\ pc' \in {"translate", "transform"} /\ files' = files
      /\ \/ errors' = errors
         \/ errors' = FaultsOf(DOMAIN files, "type")
         \/ errors' = FaultsOf(TargetNames, "bytecode")
  BY DEF CheckProgram, Translate
<1>2. Parsing /\ todo = <<>>
  BY <1>1 DEF IInv, Parsing
<1>3. TargetNames \subseteq DOMAIN files
  <2>1. ToSet(todo) = {}
    BY <1>2 DEF ToSet
  <2>2. ToSet(job.targets) \subseteq SourceFiles(job)
    BY DEF SourceFiles
  <2> QED
    BY <1>2, <2>1, <2>2 DEF Parsing, TargetNames
<1>4. \A e \in errors : Placed(e)
  BY <1>1 DEF Located
<1>5. \A e \in errors' : Placed(e)
  BY <1>1, <1>2, <1>3, <1>4, FaultsPlaced
<1>6. \A e \in errors' : Placed(e)'
  BY <1>1, <1>5 DEF Placed
<1> QED
  BY <1>1, <1>6 DEF Located

LEMMA TransformLocated ==
    ASSUME IInv, Located, Transform
    PROVE  Located'
<1> DEFINE Moved(e) == LET map == offsets[e.file]
                           ends == {TranslatePos(map, e.start), TranslatePos(map, e.end)}
                       IN  [e EXCEPT !.start = Min(ends), !.end = Max(ends),
                                     !.name = TranslateMessage(map, @)]
<1>1. /\ pc = "transform" /\ pc' = "show" /\ files' = files /\ offsets' = offsets
      /\ errors' = {Moved(e) : e \in errors}
  BY DEF Transform
<1>2. Parsing /\ \A e \in errors : Placed(e)
  BY <1>1 DEF IInv, Located
<1>3. ASSUME NEW e \in errors
      PROVE  Moved(e).file \in DOMAIN files /\ {Moved(e).start, Moved(e).end} \subseteq UserPlaces(Moved(e).file)
  <2> DEFINE layers == offsets[e.file].layers
             a == Back(layers, e.start)
             b == Back(layers, e.end)
  <2>1. IsError(e) /\ e.file \in DOMAIN files /\ e.start \in EndsIn(files[e.file]) /\ e.end \in EndsIn(files[e.file])
    BY <1>2 DEF Placed
  <2>2. files[e.file] \in Seq(GoodTokens) /\ layers \in Seq(Layers)
    BY <1>2, <2>1, FileFacts
  <2>3. EndsIn(files[e.file]) \subseteq Int
    <3>1. Ends(files[e.file]) \in [0..Len(files[e.file]) -> Nat]
      BY <2>2, EndsUnfold
    <3> QED
      BY <3>1 DEF EndsIn
  <2>4. a \in Int /\ b \in Int
    <3>1. Undo(layers, e.start) \in [0..Len(layers) -> Int] /\ Undo(layers, e.end) \in [0..Len(layers) -> Int]
      BY <2>1, <2>2, <2>3, UndoUnfold
    <3>2. Len(layers) \in 0..Len(layers)
      BY <2>2
    <3> QED
      BY <3>1, <3>2 DEF Back
  <2>5. a \in UserPlaces(e.file) /\ b \in UserPlaces(e.file)
    BY <2>1 DEF UserPlaces
  <2>6. TranslatePos(offsets[e.file], e.start) = a /\ TranslatePos(offsets[e.file], e.end) = b
    BY DEF TranslatePos, Back
  <2>7. Moved(e) = [e EXCEPT !.start = Min({a, b}), !.end = Max({a, b}),
                             !.name = TranslateMessage(offsets[e.file], @)]
    BY <2>6
  <2> HIDE DEF a, b, layers
  <2>8. Moved(e).file = e.file /\ Moved(e).start = Min({a, b}) /\ Moved(e).end = Max({a, b})
    BY <2>1, <2>7 DEF IsError
  <2>9. Min({a, b}) \in {a, b} /\ Max({a, b}) \in {a, b}
    BY <2>4, EndsOfTwo
  <2> QED
    BY <2>1, <2>5, <2>8, <2>9
<1>4. \A g : UserPlaces(g)' = UserPlaces(g)
  BY <1>1 DEF UserPlaces
<1> HIDE DEF Moved
<1> QED
  BY <1>1, <1>3, <1>4 DEF Located

LEMMA ShowLocated ==
    ASSUME IInv, Located, Show
    PROVE  Located'
<1>1. /\ pc = "show" /\ pc' \in {"shown", "panic"}
      /\ job' = job /\ files' = files /\ offsets' = offsets /\ errors' = errors
  BY DEF Show
<1>2. pc' = "panic" => \E e \in errors : e.start < 0 \/ e.end > Size(ContentOf(e.file))
  BY DEF Show
<1>3. \A g : UserPlaces(g)' = UserPlaces(g) /\ ContentOf(g)' = ContentOf(g)
  BY <1>1 DEF UserPlaces, ContentOf
<1> QED
  BY <1>1, <1>2, <1>3 DEF Located

LEMMA OthersLocated ==
    ASSUME IInv, Located, TakeSender \/ AfterParsing \/ UNCHANGED vars
    PROVE  Located'
<1>1. job' = job /\ files' = files /\ offsets' = offsets /\ errors' = errors
  BY DEF TakeSender, AfterParsing, vars
<1>2. \/ pc = "sender" /\ pc' \in {"parse", "refused"} /\ errors = {}
      \/ pc = "parse" /\ pc' \in {"transform", "check"}
      \/ pc' = pc
  BY DEF TakeSender, AfterParsing, vars, IInv, Judging
<1>3. \A g : UserPlaces(g)' = UserPlaces(g) /\ ContentOf(g)' = ContentOf(g)
  BY <1>1 DEF UserPlaces, ContentOf
<1>4. \A e : Placed(e)' <=> Placed(e)
  BY <1>1 DEF Placed
<1> QED
  BY <1>1, <1>2, <1>3, <1>4 DEF Located

LEMMA NextLocated == IInv /\ IInv' /\ Located /\ [Next]_vars => Located'
BY ParseFileLocated, PhasesLocated, TransformLocated, ShowLocated, OthersLocated DEF Next

\* Without a wallet address of the dialect no error lies outside its file.
LEMMA NoPanic ==
    ASSUME IInv, Located, \A f \in SourceFiles(job) : Wallets(f.text) = {}
    PROVE  pc # "panic"
<1> SUFFICES ASSUME pc = "panic" PROVE FALSE
  OBVIOUS
<1>1. Parsing /\ job \in Jobs /\ sender \in Senders
  BY DEF IInv, Parsing
<1>2. PICK e \in errors : e.start < 0 \/ e.end > Size(ContentOf(e.file))
  BY DEF Located
<1>3. e.file \in DOMAIN files /\ e.start \in UserPlaces(e.file) /\ e.end \in UserPlaces(e.file)
  BY DEF Located
<1>4. PICK f \in SourceFiles(job) :
         /\ files[e.file] = Normal(f).text /\ offsets[e.file].layers = Normal(f).layers
         /\ f.text \in Seq(GoodTokens) /\ ContentOf(e.file) = f.text
  BY <1>1, <1>3, FileFacts
<1>5. ASSUME NEW j \in DOMAIN f.text
      PROVE  Stands(sender, f.text[j]) \notin WalletForms \cap {Wallet(job.dialect)}
  <2>1. j \notin Wallets(f.text)
    OBVIOUS
  <2> QED
    BY <2>1 DEF Wallets, FormOf, Stands
<1>6. job.dialect \in Dialects
  BY <1>1, JobFacts
<1>7. \A k \in 0..Len(Normal(f).text) : Back(Normal(f).layers, Ends(Normal(f).text)[k]) \in 0..Size(f.text)
  BY <1>1, <1>4, <1>5, <1>6, NormalInFile DEF Normal
<1>8. UserPlaces(e.file) \subseteq 0..Size(f.text)
  BY <1>4, <1>7 DEF UserPlaces, EndsIn
<1>9. Size(f.text) \in Nat
  <2>1. Ends(f.text) \in [0..Len(f.text) -> Nat] /\ Len(f.text) + 1 - 1 \in 0..Len(f.text)
    BY <1>4, EndsUnfold
  <2> QED
    BY <2>1 DEF Size, Offset
<1> QED
  BY <1>2, <1>3, <1>4, <1>8, <1>9

\* In files without a wallet address of their dialect, with any line ends, placeholders and hex
\* addresses (so always for libra), every error is taken back into its file, and the language
\* server does not panic when it looks up line and column (source_map.rs:17-24, 66-72,
\* db.rs:108-124, analysis.rs:49-56).
THEOREM SpansTheorem == Spec => []((\A f \in SourceFiles(job) : Wallets(f.text) = {}) => SpansInFile)
<1>1. Spec => []Located
  BY InitLocated, NextLocated, AlwaysIInv, PTL DEF Spec
<1>2. IInv /\ Located => ((\A f \in SourceFiles(job) : Wallets(f.text) = {}) => SpansInFile)
  BY NoPanic DEF SpansInFile
<1> QED
  BY <1>1, <1>2, AlwaysIInv, PTL
-----------------------------------------------------------------------------
(* Lines and columns.                                                      *)

\* The line feeds among the first m tokens.
LineFeeds(text, m) == {j \in 1..m : text[j].k = "lf"}

LEMMA LineStartsBefore ==
    ASSUME NEW text \in Seq(GoodTokens), NEW m \in 0..Len(text)
    PROVE  /\ {s \in LineStarts(text) : s <= Ends(text)[m]} = {0} \cup {Ends(text)[j] : j \in LineFeeds(text, m)}
           /\ \A j \in LineFeeds(text, m) : Ends(text)[j] > 0
           /\ \A j, l \in LineFeeds(text, m) : j < l => Ends(text)[j] < Ends(text)[l]
<1> DEFINE n == Len(text)
           E == Ends(text)
           lfs == LineFeeds(text, m)
<1>1. n \in Nat /\ m \in Nat /\ m <= n /\ DOMAIN text = 1..n
  OBVIOUS
<1>2. /\ E \in [0..n -> Nat] /\ E[0] = 0 /\ \A k \in 1..n : E[k] = E[k - 1] + text[k].width
      /\ \A k, l \in 0..n : k <= l => E[k] <= E[l]
  BY EndsUnfold, EndsInOrder
<1>3. \A j \in 1..n : text[j].k = "lf" => text[j].width = 1
  BY DEF GoodTokens, WellFormed
<1>4. LineStarts(text) = {0} \cup {E[j] : j \in {i \in 1..n : text[i].k = "lf"}}
  <2>1. \A j \in 1..n : Offset(text, j + 1) = E[j]
    BY DEF Offset
  <2> QED
    BY <1>1, <2>1 DEF LineStarts
<1> HIDE DEF E
<1>5. \A k \in 0..n : E[k] \in Nat
  BY <1>2
<1>6. ASSUME NEW j \in 1..n, text[j].k = "lf", NEW k \in 0..n, k < j PROVE E[k] < E[j]
  <2>1. j - 1 \in 0..n /\ k <= j - 1 /\ j \in 0..n
    BY <1>1, <1>6
  <2>2. E[j] = E[j - 1] + 1 /\ E[k] <= E[j - 1]
    BY <1>2, <1>3, <1>6, <2>1
  <2> QED
    BY <1>5, <2>1, <2>2
<1>7. ASSUME NEW j \in 1..n, text[j].k = "lf" PROVE E[j] <= E[m] <=> j <= m
  <2>1. j \in 0..n
    BY <1>1
  <2>2. CASE j <= m
    BY <1>2, <2>1, <2>2
  <2>3. CASE m < j
    <3>1. E[m] < E[j]
      BY <1>6, <1>7, <2>3
    <3> QED
      BY <1>1, <1>5, <2>1, <2>3, <3>1
  <2> QED
    BY <1>1, <2>2, <2>3
<1>8. \A j \in lfs : j \in 1..n /\ text[j].k = "lf"
  BY <1>1 DEF LineFeeds
<1>9. {s \in LineStarts(text) : s <= E[m]} = {0} \cup {E[j] : j \in lfs}
  <2>1. 0 <= E[m]
    BY <1>5
  <2>2. \A j \in 1..n : text[j].k = "lf" => (E[j] <= E[m] <=> j \in lfs)
    BY <1>1, <1>7 DEF LineFeeds
  <2> QED
    BY <1>4, <1>8, <2>1, <2>2
<1>10. ASSUME NEW j \in lfs PROVE E[j] > 0
  <2>1. j \in 1..n /\ text[j].k = "lf" /\ 0 \in 0..n /\ 0 < j /\ j \in 0..n
    BY <1>1, <1>8
  <2>2. E[0] < E[j]
    BY <1>6, <2>1
  <2> QED
    BY <1>2, <1>5, <2>1, <2>2
<1>11. ASSUME NEW j \in lfs, NEW l \in lfs, j < l PROVE E[j] < E[l]
  <2>1. j \in 0..n /\ l \in 1..n /\ text[l].k = "lf"
    BY <1>1, <1>8
  <2> QED
    BY <1>6, <1>11, <2>1
<1> QED
  BY <1>9, <1>10, <1>11 DEF E

\* The position of the end of a token, counted in tokens.
LEMMA PositionOfEnd ==
    ASSUME NEW text \in Seq(GoodTokens), NEW m \in 0..Len(text)
    PROVE  LET lfs == LineFeeds(text, m)
           IN  Position(text, Ends(text)[m]) =
                  [line |-> Cardinality(lfs),
                   column |-> Ends(text)[m] - IF lfs = {} THEN 0 ELSE Ends(text)[Max(lfs)]]
<1> DEFINE E == Ends(text)
           lfs == LineFeeds(text, m)
           image == {E[j] : j \in lfs}
           starts == {s \in LineStarts(text) : s <= E[m]}
<1>1. Position(text, E[m]) = [line |-> Cardinality(starts) - 1, column |-> E[m] - Max(starts)]
  BY DEF Position
<1>2. /\ starts = {0} \cup image
      /\ \A j \in lfs : E[j] > 0
      /\ \A j, l \in lfs : j < l => E[j] < E[l]
  BY LineStartsBefore
<1>3. E \in [0..Len(text) -> Nat] /\ lfs \subseteq 1..m /\ m \in Nat /\ lfs \subseteq 0..Len(text)
  BY EndsUnfold DEF LineFeeds
<1> HIDE DEF E, lfs, starts
<1>4. IsFiniteSet(lfs)
  <2>1. IsFiniteSet(1..m)
    BY <1>3, FS_Interval
  <2> QED
    BY <1>3, <2>1, FS_Subset
<1>5. \A j \in lfs : E[j] \in Nat /\ j \in Nat
  BY <1>3
<1>6. IsFiniteSet(image) /\ Cardinality(image) = Cardinality(lfs)
  <2> DEFINE f == [j \in lfs |-> E[j]]
  <2>1. \A j, l \in lfs : f[j] = f[l] => j = l
    <3> SUFFICES ASSUME NEW j \in lfs, NEW l \in lfs, E[j] = E[l], j # l PROVE FALSE
      OBVIOUS
    <3>1. E[j] \in Nat /\ j \in Nat /\ l \in Nat
      BY <1>5
    <3>2. j < l \/ l < j
      BY <3>1
    <3>3. E[j] < E[l] \/ E[l] < E[j]
      BY <1>2, <3>2
    <3> QED
      BY <3>1, <3>3
  <2>2. f \in Bijection(lfs, image)
    BY <2>1 DEF Bijection, Injection, Surjection, IsInjective
  <2>3. ExistsBijection(lfs, image)
    BY <2>2 DEF ExistsBijection
  <2> HIDE DEF image
  <2> QED
    BY <1>4, <2>3, FS_Bijection
<1>7. 0 \notin image
  BY <1>2, <1>5
<1>8. Cardinality(starts) - 1 = Cardinality(lfs)
  <2>1. starts = image \cup {0}
    BY <1>2
  <2>2. Cardinality(image) \in Nat /\ Cardinality(starts) = Cardinality(image) + 1
    BY <1>6, <1>7, <2>1, FS_AddElement, FS_CardinalityType
  <2> QED
    BY <1>6, <2>2
<1>9. Max(starts) = IF lfs = {} THEN 0 ELSE E[Max(lfs)]
  <2> DEFINE top == IF lfs = {} THEN 0 ELSE E[Max(lfs)]
  <2>1. top \in starts /\ top \in Nat /\ \A s \in starts : s \in Nat /\ s <= top
    <3>1. CASE lfs = {}
      <4>1. starts = {0} /\ top = 0
        BY <1>2, <3>1
      <4> QED
        BY <4>1
    <3>2. CASE lfs # {}
      <4>1. Max(lfs) \in lfs /\ \A j \in lfs : j <= Max(lfs)
        BY <1>3, <3>2, MaxIsIn
      <4>2. PICK x \in lfs : x = Max(lfs)
        BY <4>1
      <4>3. top = E[x] /\ E[x] \in Nat
        BY <1>5, <3>2, <4>2
      <4>4. ASSUME NEW j \in lfs PROVE E[j] <= E[x]
        <5>1. j \in Nat /\ x \in Nat /\ j <= x
          BY <1>5, <4>1, <4>2
        <5>2. j < x \/ j = x
          BY <5>1
        <5> QED
          BY <1>2, <1>5, <5>2
      <4> HIDE DEF top
      <4> QED
        BY <1>2, <1>5, <4>3, <4>4
    <3> QED
      BY <3>1, <3>2
  <2> HIDE DEF top
  <2>2. \A x \in starts : (\A s \in starts : x >= s) <=> x = top
    BY <2>1
  <2>3. Max(starts) = top
    BY <2>1, <2>2 DEF Max
  <2> QED
    BY <2>3 DEF top
<1> QED
  BY <1>1, <1>8, <1>9 DEF E, lfs

\* The place of a token is the position of its start, and a token that ends no line ends on
\* the line on which it begins.
LEMMA PlaceIsPosition ==
    ASSUME NEW text \in Seq(GoodTokens), NEW i \in 1..Len(text), text[i].k # "lf"
    PROVE  /\ Position(text, Ends(text)[i - 1]) = Place(text, i)
           /\ Position(text, Ends(text)[i]).line = Place(text, i).line
           /\ Position(text, Ends(text)[i]).column = Place(text, i).column + text[i].width
<1> DEFINE E == Ends(text)
           lfs == LineFeeds(text, i - 1)
           last == IF lfs = {} THEN 0 ELSE E[Max(lfs)]
<1>1. i - 1 \in 0..Len(text) /\ i \in 0..Len(text) /\ i \in Nat
  OBVIOUS
<1>2. LineFeeds(text, i) = lfs
  <2>1. \A j \in 1..i : j \in 1..(i - 1) \/ j = i
    BY <1>1
  <2>2. \A j \in 1..(i - 1) : j \in 1..i
    BY <1>1
  <2> QED
    BY <2>1, <2>2 DEF LineFeeds
<1>3. /\ Position(text, E[i - 1]) = [line |-> Cardinality(lfs), column |-> E[i - 1] - last]
      /\ Position(text, E[i]) = [line |-> Cardinality(lfs), column |-> E[i] - last]
  BY <1>1, <1>2, PositionOfEnd
<1>4. Place(text, i) = [line |-> Cardinality(lfs), column |-> E[i - 1] - last]
  <2>1. lfs # {} => Max(lfs) \in lfs
    <3>1. lfs \subseteq 1..(i - 1) /\ i - 1 \in Nat
      BY DEF LineFeeds
    <3> QED
      BY <3>1, MaxIsIn
  <2>2. {j \in 1..(i - 1) : text[j].k = "lf"} = lfs
    BY DEF LineFeeds
  <2> HIDE DEF lfs
  <2>3. Place(text, i) = [line |-> Cardinality(lfs),
                          column |-> Offset(text, i) - IF lfs = {} THEN 0 ELSE Offset(text, Max(lfs) + 1)]
    BY <2>2 DEF Place
  <2>4. Offset(text, i) = E[i - 1] /\ (lfs # {} => Offset(text, Max(lfs) + 1) = E[Max(lfs)])
    <3>1. Offset(text, i) = E[i - 1]
      BY DEF Offset
    <3>2. ASSUME NEW x \in Nat PROVE Offset(text, x + 1) = E[x]
      <4>1. (x + 1) - 1 = x
        OBVIOUS
      <4> QED
        BY <4>1 DEF Offset
    <3>3. lfs # {} => Max(lfs) \in Nat
      BY <2>1 DEF LineFeeds, lfs
    <3> QED
      BY <3>1, <3>2, <3>3
  <2> QED
    BY <2>3, <2>4
<1>5. PICK a \in Nat, b \in Nat, w \in Nat : a = E[i - 1] /\ b = E[i] /\ w = text[i].width /\ b = a + w
  <2>1. E \in [0..Len(text) -> Nat] /\ E[i] = E[i - 1] + text[i].width
    BY EndsUnfold
  <2>2. text[i].width \in Nat
    BY DEF GoodTokens, Tokens
  <2> QED
    BY <1>1, <2>1, <2>2
<1>6. last \in Int
  <2>1. lfs # {} => Max(lfs) \in 0..Len(text)
    <3>1. lfs \subseteq 1..(i - 1) /\ i - 1 \in Nat
      BY DEF LineFeeds
    <3> QED
      BY <3>1, MaxIsIn
  <2>2. E \in [0..Len(text) -> Nat]
    BY EndsUnfold
  <2> HIDE DEF E, lfs
  <2> QED
    BY <2>1, <2>2
<1> HIDE DEF E, lfs, last
<1>7. b - last = (a - last) + w
  BY <1>5, <1>6
<1> QED
  BY <1>3, <1>4, <1>5, <1>7 DEF E

-----------------------------------------------------------------------------
(* Texts whose tokens stay where they are.                                 *)

\* Tokens of the same widths end at the same places.
LEMMA SameWidths ==
    ASSUME NEW text \in Seq(GoodTokens), NEW new \in Seq(GoodTokens), Len(new) = Len(text),
           \A j \in 1..Len(text) : new[j].width = text[j].width
    PROVE  \A k \in 0..Len(text) : Ends(new)[k] = Ends(text)[k]
<1> DEFINE n == Len(text)
           T == {k \in 0..n : Ends(new)[k] = Ends(text)[k]}
<1>1. /\ n \in Nat /\ Ends(new)[0] = 0 /\ Ends(text)[0] = 0
      /\ \A k \in 1..n : /\ Ends(new)[k] = Ends(new)[k - 1] + new[k].width
                         /\ Ends(text)[k] = Ends(text)[k - 1] + text[k].width
  BY EndsUnfold
<1>2. 0 \in T
  BY <1>1
<1>3. ASSUME NEW k \in 1..n, k - 1 \in T PROVE k \in T
  <2>1. k \in 0..n /\ Ends(new)[k - 1] = Ends(text)[k - 1]
    BY <1>1, <1>3
  <2> QED
    BY <1>1, <2>1
<1> HIDE DEF T
<1>4. \A k \in 0..n : k \in T
  BY <1>1, <1>2, <1>3, InductTo
<1> QED
  BY <1>4 DEF T

LEMMA BackEmpty ==
    ASSUME NEW pos \in Int
    PROVE  Back(<<>>, pos) = pos
<1>1. <<>> \in Seq(Layers) /\ Len(<<>>) = 0
  OBVIOUS
<1> QED
  BY <1>1, UndoUnfold DEF Back

\* The text has no line end of two bytes.
OneByteEnds(text) == TwoByteEnds(text, Len(text) + 1) = {}

AsLine(t) == IF t.k = "cr" THEN LF ELSE t

\* What the pass over the characters has made of the first k tokens.
Copied(text, k, s) ==
    /\ s.layers = <<>> /\ Len(s.text) = k
    /\ \A j \in 1..k : s.text[j] = AsLine(text[j])
    /\ s.was_cr <=> k > 0 /\ text[k].k = "cr"

LEMMA NextCharacterCopies ==
    ASSUME NEW text \in Seq(GoodTokens), OneByteEnds(text), NEW k \in 1..Len(text),
           NEW s \in PassStates, Copied(text, k - 1, s)
    PROVE  Copied(text, k, NextCharacter(s, text[k]))
<1> DEFINE t == text[k]
           r == NextCharacter(s, t)
<1>1. /\ s \in [text : Seq(GoodTokens), layers : Seq(Layers), was_cr : BOOLEAN, pos : Nat]
      /\ k \in Nat /\ Len(text) \in Nat /\ k <= Len(text)
  BY DEF PassStates
<1>2. ~(t.k = "lf" /\ s.was_cr)
  <2> SUFFICES ASSUME t.k = "lf", s.was_cr PROVE FALSE
    OBVIOUS
  <2>1. k - 1 > 0 /\ text[k - 1].k = "cr"
    BY DEF Copied
  <2>2. k \in 2..(Len(text) + 1 - 1)
    BY <1>1, <2>1
  <2>3. k \in TwoByteEnds(text, Len(text) + 1)
    BY <2>1, <2>2 DEF TwoByteEnds
  <2> QED
    BY <2>3 DEF OneByteEnds
<1>3. r.text = Append(s.text, AsLine(t)) /\ r.layers = s.layers /\ r.was_cr = (t.k = "cr")
  BY <1>1, <1>2 DEF NextCharacter, AsLine
<1> HIDE DEF t, r
<1>4. /\ Len(r.text) = k /\ r.text[k] = AsLine(t) /\ \A j \in 1..(k - 1) : r.text[j] = s.text[j]
  <2>1. \E S : s.text \in Seq(S)
    BY <1>1
  <2>2. Len(s.text) = k - 1 /\ (k - 1) + 1 = k
    BY <1>1 DEF Copied
  <2> QED
    BY <1>3, <2>1, <2>2, AppendKeeps
<1>5. \A j \in 1..k : j = k \/ j \in 1..(k - 1)
  BY <1>1
<1>6. r.layers = <<>> /\ \A j \in 1..(k - 1) : s.text[j] = AsLine(text[j])
  BY <1>3 DEF Copied
<1>7. \A j \in 1..k : r.text[j] = AsLine(text[j])
  BY <1>4, <1>5, <1>6 DEF t
<1>8. r.was_cr <=> k > 0 /\ text[k].k = "cr"
  <2>1. k > 0
    BY <1>1
  <2> QED
    BY <1>3, <2>1, Zenon DEF t
<1> QED
  BY <1>4, <1>6, <1>7, <1>8 DEF Copied, r, t

\* Line ends of one byte stay in their places.
LEMMA LineEndsCopied ==
    ASSUME NEW text \in Seq(GoodTokens), OneByteEnds(text)
    PROVE  LET e == NormalizeLineEnds(text)
           IN  e.layers = <<>> /\ Len(e.text) = Len(text) /\ \A j \in 1..Len(text) : e.text[j] = AsLine(text[j])
<1> DEFINE n == Len(text)
           T == {k \in 0..n : Copied(text, k, LineEnds(text)[k])}
<1>1. n \in Nat
  OBVIOUS
<1>2. 0 \in T
  BY <1>1, LineEndsUnfold DEF Copied
<1>3. ASSUME NEW k \in 1..n, k - 1 \in T PROVE k \in T
  <2>1. k \in 0..n /\ k - 1 \in 0..n /\ Copied(text, k - 1, LineEnds(text)[k - 1])
    BY <1>1, <1>3
  <2>2. LineEnds(text)[k - 1] \in PassStates /\ LineEnds(text)[k] = NextCharacter(LineEnds(text)[k - 1], text[k])
    BY <2>1, LineEndsUnfold
  <2> QED
    BY <2>1, <2>2, NextCharacterCopies
<1> HIDE DEF T
<1>4. \A k \in 0..n : k \in T
  BY <1>1, <1>2, <1>3, InductTo
<1>5. Copied(text, n, LineEnds(text)[n])
  BY <1>1, <1>4 DEF T
<1> QED
  BY <1>5 DEF NormalizeLineEnds, Copied

\* The normalised token means to the compiler what the token means to the user.
Alike(dialect, addr, t, u) ==
    /\ u.fault = t.fault
    /\ u.k = "sender" <=> t.k = "sender" /\ addr = NoAddress
    /\ u.form \in WalletForms <=> Stands(addr, t) \in WalletForms \ {Wallet(dialect)}

\* Each token goes back to its own place.
Aligned(dialect, addr, text, n) ==
    /\ Len(n.text) = Len(text)
    /\ \A j \in 1..Len(text) : Alike(dialect, addr, text[j], n.text[j])
    /\ \A k \in 0..Len(text) : Back(n.layers, Ends(n.text)[k]) = Ends(text)[k]

\* What a token of the user becomes if it is not a wallet address of the dialect.
LEMMA TokenAlike ==
    ASSUME NEW dialect \in Dialects, NEW addr \in Senders, NEW t \in GoodTokens, NEW u \in GoodTokens, NEW m,
           Stands(addr, t) \notin WalletForms \cap {Wallet(dialect)},
           m = IF AsLine(t).k = "sender" /\ addr # NoAddress
               THEN Written(AsLine(t), addr.form, addr.of) ELSE AsLine(t),
           Readdressed(dialect, m, u)
    PROVE  Alike(dialect, addr, t, u)
<1>1. CASE t.k \in {"cr", "lf"}
  <2>1. AsLine(t).k = "lf" /\ AsLine(t).fault = None /\ m = AsLine(t)
    BY <1>1 DEF AsLine, LF, Token, GoodTokens, WellFormed
  <2>2. u.k = "lf" /\ u.fault = None /\ u.form \notin WalletForms
    BY <2>1 DEF Readdressed, GoodTokens, WellFormed, WalletForms, Forms
  <2>3. t.fault = None /\ Stands(addr, t) \notin WalletForms
    BY <1>1 DEF GoodTokens, WellFormed, WalletForms, Forms, Stands
  <2> QED
    BY <1>1, <2>2, <2>3 DEF Alike
<1>2. CASE t.k \notin {"cr", "lf"} /\ t.k = "sender" /\ addr # NoAddress
  <2>1. addr.form \in Forms /\ addr.of \in Addresses
    BY <1>2 DEF Senders
  <2>2. m = Written(t, addr.form, addr.of)
    BY <1>2 DEF AsLine
  <2>3. m.k = "address" /\ m.form = addr.form /\ m.fault = t.fault
    BY <1>2, <2>1, <2>2, WrittenType
  <2>4. Stands(addr, t) = m.form
    BY <1>2, <2>3 DEF Stands
  <2> QED
    BY <1>2, <2>3, <2>4 DEF Alike, Readdressed
<1>3. CASE t.k \notin {"cr", "lf"} /\ ~(t.k = "sender" /\ addr # NoAddress)
  <2>1. m = t /\ Stands(addr, t) = t.form
    BY <1>3 DEF AsLine, Stands
  <2> QED
    BY <1>3, <2>1 DEF Alike, Readdressed
<1> QED
  BY <1>1, <1>2, <1>3

LEMMA NormalAligned ==
    ASSUME NEW text \in Seq(GoodTokens), NEW dialect \in Dialects, NEW addr \in Senders, OneByteEnds(text),
           \A j \in DOMAIN text : Stands(addr, text[j]) \notin WalletForms \cap {Wallet(dialect)}
    PROVE  Aligned(dialect, addr, text, NormalizeSourceText(dialect, text, addr))
<1> DEFINE e == NormalizeLineEnds(text)
           f == ReplaceSenderPlaceholder(e, addr)
           n == ReplaceAddresses(dialect, f)
           L == Len(text)
<1>1. /\ e \in Results /\ e.layers = <<>> /\ Len(e.text) = L
      /\ \A j \in 1..L : e.text[j] = AsLine(text[j])
  BY LineEndsKept, LineEndsCopied
<1>2. NormalizeSourceText(dialect, text, addr) = n
  BY DEF NormalizeSourceText
<1> HIDE DEF e
<1>3. /\ f \in SameLength(e) /\ SamePlaces(e, f)
      /\ \A j \in 1..L : f.text[j] = IF e.text[j].k = "sender" /\ addr # NoAddress
                                      THEN Written(e.text[j], addr.form, addr.of) ELSE e.text[j]
  BY <1>1, SenderFilled, SenderPlaces
<1> HIDE DEF f
<1>4. /\ f \in Results /\ e.text \in Seq(GoodTokens) /\ f.text \in Seq(GoodTokens) /\ Len(f.text) = L
      /\ L \in Nat /\ \A j \in 1..L : text[j] \in GoodTokens /\ j \in DOMAIN text
  BY <1>1, <1>3 DEF SameLength, Results
<1>5. n \in SameLength(f) /\ \A j \in 1..L : Readdressed(dialect, f.text[j], n.text[j])
  BY <1>4, AddressesReplaced
<1>6. ASSUME NEW j \in DOMAIN f.text PROVE f.text[j].form \notin WalletForms \cap {Wallet(dialect)}
  <2>1. j \in 1..L /\ text[j] \in GoodTokens /\ e.text[j] \in GoodTokens
    BY <1>1, <1>4
  <2>2. f.text[j].form = Stands(addr, e.text[j])
    <3>1. CASE e.text[j].k = "sender" /\ addr # NoAddress
      <4>1. f.text[j] = Written(e.text[j], addr.form, addr.of)
        BY <1>3, <2>1, <3>1
      <4> QED
        BY <2>1, <3>1, <4>1 DEF Written, Stands, GoodTokens, Tokens
    <3>2. CASE ~(e.text[j].k = "sender" /\ addr # NoAddress)
      BY <1>3, <2>1, <3>2 DEF Stands
    <3> QED
      BY <3>1, <3>2
  <2>3. CASE text[j].k = "cr"
    <3>1. e.text[j].k = "lf"
      BY <1>1, <2>1, <2>3, LFGood DEF AsLine
    <3> QED
      BY <2>1, <2>2, <3>1 DEF Stands, WalletForms, GoodTokens, WellFormed, Forms
  <2>4. CASE text[j].k # "cr"
    <3>1. e.text[j] = text[j]
      BY <1>1, <2>1, <2>4 DEF AsLine
    <3> QED
      BY <1>4, <2>1, <2>2, <3>1
  <2> QED
    BY <2>3, <2>4
<1>7. SamePlaces(f, n)
  BY <1>4, <1>6, NoWalletPlaces
<1> HIDE DEF n
<1>8. n \in Results /\ n.text \in Seq(GoodTokens) /\ Len(n.text) = L
  BY <1>4, <1>5 DEF SameLength, Results
<1>9. ASSUME NEW j \in 1..L PROVE Alike(dialect, addr, text[j], n.text[j])
  <2>1. text[j] \in GoodTokens /\ n.text[j] \in GoodTokens /\ j \in DOMAIN text
    BY <1>4, <1>8
  <2>2. f.text[j] = IF AsLine(text[j]).k = "sender" /\ addr # NoAddress
                    THEN Written(AsLine(text[j]), addr.form, addr.of) ELSE AsLine(text[j])
    BY <1>1, <1>3
  <2>3. Stands(addr, text[j]) \notin WalletForms \cap {Wallet(dialect)}
    BY <2>1
  <2> QED
    BY <1>5, <2>1, <2>2, <2>3, TokenAlike
<1>10. ASSUME NEW k \in 0..L PROVE Back(n.layers, Ends(n.text)[k]) = Ends(text)[k]
  <2>1. \A j \in 1..L : e.text[j].width = text[j].width
    <3>1. \A j \in 1..L : text[j].k = "cr" => text[j].width = 1
      BY <1>4 DEF GoodTokens, WellFormed
    <3>2. LF.width = 1
      BY DEF LF, Token
    <3> QED
      BY <1>1, <3>1, <3>2 DEF AsLine
  <2>2. Ends(e.text)[k] = Ends(text)[k]
    BY <1>1, <1>4, <2>1, SameWidths
  <2>3. Ends(e.text)[k] \in Int
    <3>1. Ends(e.text) \in [0..L -> Nat]
      BY <1>1, <1>4, EndsUnfold
    <3> QED
      BY <3>1
  <2>4. Back(e.layers, Ends(e.text)[k]) = Ends(e.text)[k]
    BY <1>1, <2>3, BackEmpty
  <2> QED
    BY <1>1, <1>3, <1>4, <1>7, <2>2, <2>4 DEF SamePlaces
<1> QED
  BY <1>2, <1>8, <1>9, <1>10 DEF Aligned

-----------------------------------------------------------------------------
(* The errors of each phase, and what the user sees of them.               *)

\* The errors of the parser, and those of compile() as a whole.
Refusals ==
    UNION {{ErrorAt(g, files[g], i) : i \in FirstRefused(files[g], Unreadable(files[g]))} : g \in DOMAIN files}
FoundErrors ==
    IF Refusals # {} THEN Refusals
    ELSE IF job.flow # "meta" /\ FaultsOf(DOMAIN files, "type") # {} THEN FaultsOf(DOMAIN files, "type")
    ELSE IF job.flow = "build" THEN FaultsOf(TargetNames, "bytecode") ELSE {}

Moved(e) ==
    LET map == offsets[e.file]
        ends == {TranslatePos(map, e.start), TranslatePos(map, e.end)}
    IN  [e EXCEPT !.start = Min(ends), !.end = Max(ends), !.name = TranslateMessage(map, @)]

\* The text in which the place of the error is looked up, and the line of the report about it.
ShownText(e) == IF job.flow = "check" THEN ContentOf(e.file) ELSE files[e.file]
Listed(e) ==
    [file |-> e.file, from |-> Position(ShownText(e), e.start), to |-> Position(ShownText(e), e.end),
     name |-> e.name]

\* Which errors there are after each phase.
Complete ==
    /\ pc \in {"sender", "parse", "check"} => errors = Refusals
    /\ pc = "translate" =>
          errors = IF Refusals # {} THEN Refusals ELSE FaultsOf(DOMAIN files, "type")
    /\ pc = "transform" => errors = FoundErrors
    /\ pc = "show" => errors = {Moved(e) : e \in FoundErrors}
    /\ pc = "shown" => report = {Listed(e) : e \in {Moved(x) : x \in FoundErrors}}

LEMMA InitComplete == Init => Complete
<1> SUFFICES ASSUME Init PROVE Complete
  OBVIOUS
<1>1. files = <<>> /\ errors = {} /\ pc = "sender"
  BY DEF Init
<1>2. Refusals = {}
  BY <1>1 DEF Refusals
<1> QED
  BY <1>1, <1>2 DEF Complete

\* What depends on the files only stays as it is in the phases after parsing.
LEMMA ErrorsKept ==
    ASSUME job' = job, files' = files, offsets' = offsets
    PROVE  /\ Refusals' = Refusals /\ FoundErrors' = FoundErrors
           /\ \A e : Moved(e)' = Moved(e) /\ Listed(e)' = Listed(e)
           /\ FaultsOf(DOMAIN files, "type")' = FaultsOf(DOMAIN files, "type")
<1>1. Refusals' = Refusals
  BY DEF Refusals
<1>2. FaultsOf(DOMAIN files, "type")' = FaultsOf(DOMAIN files, "type")
  BY DEF FaultsOf
<1>3. FaultsOf(TargetNames, "bytecode")' = FaultsOf(TargetNames, "bytecode")
  BY DEF FaultsOf, TargetNames
<1>4. FoundErrors' = FoundErrors
  BY <1>1, <1>2, <1>3 DEF FoundErrors
<1>5. \A e : Moved(e)' = Moved(e)
  BY DEF Moved
<1>6. \A e : Listed(e)' = Listed(e)
  BY DEF Listed, ShownText, ContentOf
<1> QED
  BY <1>1, <1>2, <1>4, <1>5, <1>6

LEMMA ParseFileComplete ==
    ASSUME IInv, Complete, ParseFile
    PROVE  Complete'
<1> DEFINE f == Head(todo)
           n == Normal(f)
           R(g, text) == {ErrorAt(g, text, i) : i \in FirstRefused(text, Unreadable(text))}
<1>1. /\ pc = "parse" /\ pc' = "parse" /\ todo # <<>>
      /\ files' = [g \in DOMAIN files \cup {f.name} |-> IF g = f.name THEN n.text ELSE files[g]]
      /\ errors' = errors \cup R(f.name, n.text)
  BY DEF ParseFile, Normal
<1>2. Parsing /\ todo \in Seq(SourceFiles(job)) /\ errors = Refusals
  BY <1>1 DEF IInv, Parsing, Complete
<1>3. f \in SourceFiles(job)
  BY <1>1, <1>2
<1>4. f.name \in DOMAIN files => files[f.name] = n.text
  BY <1>2, <1>3 DEF Parsing
<1>5. Refusals = UNION {R(g, files[g]) : g \in DOMAIN files}
  BY DEF Refusals
<1>6. Refusals' = UNION {R(g, files'[g]) : g \in DOMAIN files'}
  BY DEF Refusals
<1> HIDE DEF f, n, R
<1>7. /\ DOMAIN files' = DOMAIN files \cup {f.name} /\ files'[f.name] = n.text
      /\ \A g \in DOMAIN files : files'[g] = files[g]
  BY <1>1, <1>4
<1>8. Refusals' = Refusals \cup R(f.name, n.text)
  BY <1>5, <1>6, <1>7
<1> QED
  BY <1>1, <1>2, <1>8 DEF Complete

LEMMA NextComplete ==
    ASSUME IInv, Complete, [Next]_vars
    PROVE  Complete'
<1>1. CASE ParseFile
  BY <1>1, ParseFileComplete
<1>2. CASE TakeSender \/ AfterParsing \/ UNCHANGED vars
  <2>1. job' = job /\ files' = files /\ offsets' = offsets /\ errors' = errors /\ report' = report
    BY <1>2 DEF TakeSender, AfterParsing, vars
  <2>2. \/ pc = "sender" /\ pc' \in {"parse", "refused"}
        \/ pc = "parse" /\ pc' = "check"
        \/ pc = "parse" /\ pc' = "transform" /\ (job.flow = "meta" \/ errors # {})
        \/ pc' = pc
    BY <1>2 DEF TakeSender, AfterParsing, vars
  <2>3. /\ Refusals' = Refusals /\ FoundErrors' = FoundErrors
        /\ \A e : Moved(e)' = Moved(e) /\ Listed(e)' = Listed(e)
        /\ FaultsOf(DOMAIN files, "type")' = FaultsOf(DOMAIN files, "type")
    BY <2>1, ErrorsKept
  <2>4. job.flow = "meta" \/ Refusals # {} => FoundErrors = Refusals
    BY DEF FoundErrors
  <2> QED
    BY <2>1, <2>2, <2>3, <2>4 DEF Complete
<1>3. CASE CheckProgram
  <2>1. /\ job' = job /\ files' = files /\ offsets' = offsets
        /\ pc = "check" /\ pc' = (IF job.flow = "check" THEN "transform" ELSE "translate")
        /\ errors' = IF errors # {} THEN errors ELSE FaultsOf(DOMAIN files, "type")
    BY <1>3 DEF CheckProgram
  <2>2. errors = Refusals /\ job.flow # "meta"
    BY <2>1 DEF Complete, IInv, Judging
  <2>3. /\ Refusals' = Refusals /\ FoundErrors' = FoundErrors
        /\ FaultsOf(DOMAIN files, "type")' = FaultsOf(DOMAIN files, "type")
    BY <2>1, ErrorsKept
  <2>4. job.flow = "check" => FoundErrors = IF Refusals # {} THEN Refusals ELSE FaultsOf(DOMAIN files, "type")
    BY DEF FoundErrors
  <2> QED
    BY <2>1, <2>2, <2>3, <2>4 DEF Complete
<1>4. CASE Translate
  <2>1. /\ job' = job /\ files' = files /\ offsets' = offsets
        /\ pc = "translate" /\ pc' = "transform"
        /\ errors' = IF errors # {} THEN errors ELSE FaultsOf(TargetNames, "bytecode")
    BY <1>4 DEF Translate
  <2>2. /\ errors = IF Refusals # {} THEN Refusals ELSE FaultsOf(DOMAIN files, "type")
        /\ job.flow = "build"
    BY <2>1 DEF Complete, IInv, Judging
  <2>3. FoundErrors' = FoundErrors
    BY <2>1, ErrorsKept
  <2>4. errors' = FoundErrors
    BY <2>1, <2>2 DEF FoundErrors
  <2> QED
    BY <2>1, <2>3, <2>4 DEF Complete
<1>5. CASE Transform
  <2>1. /\ job' = job /\ files' = files /\ offsets' = offsets
        /\ pc = "transform" /\ pc' = "show" /\ errors' = {Moved(e) : e \in errors}
    BY <1>5 DEF Transform, Moved
  <2>2. errors = FoundErrors
    BY <2>1 DEF Complete
  <2>3. FoundErrors' = FoundErrors /\ \A e : Moved(e)' = Moved(e)
    BY <2>1, ErrorsKept
  <2>4. {Moved(e) : e \in FoundErrors}' = {Moved(e) : e \in FoundErrors}
    BY <2>3
  <2> QED
    BY <2>1, <2>2, <2>4 DEF Complete
<1>6. CASE Show
  <2>1. /\ job' = job /\ files' = files /\ offsets' = offsets
        /\ pc = "show" /\ pc' \in {"shown", "panic"}
        /\ pc' = "shown" => report' = {Listed(e) : e \in errors}
    BY <1>6 DEF Show, Listed, ShownText
  <2>2. errors = {Moved(e) : e \in FoundErrors}
    BY <2>1 DEF Complete
  <2>3. FoundErrors' = FoundErrors /\ \A e : Moved(e)' = Moved(e) /\ Listed(e)' = Listed(e)
    BY <2>1, ErrorsKept
  <2>4. {Listed(e) : e \in {Moved(x) : x \in FoundErrors}}' = {Listed(e) : e \in {Moved(x) : x \in FoundErrors}}
    BY <2>3
  <2> QED
    BY <2>1, <2>2, <2>4 DEF Complete
<1> QED
  BY <1>1, <1>2, <1>3, <1>4, <1>5, <1>6 DEF Next

\* A file that is shown as it is: line ends of one byte, no wallet address of the dialect.
Straight(text) == OneByteEnds(text) /\ Wallets(text) = {}

\* The compiler refuses the tokens of such a file that the user should hear of.
LEMMA SameTokens ==
    ASSUME Parsing, NEW f \in SourceFiles(job), f.name \in DOMAIN files, Straight(f.text)
    PROVE  LET new == files[f.name]
           IN  /\ DOMAIN new = DOMAIN f.text
               /\ FirstRefused(new, Unreadable(new)) = FirstRefused(f.text, WronglyWritten(f.text))
               /\ \A i \in DOMAIN f.text : new[i].fault = f.text[i].fault
               /\ \A k \in 0..Len(f.text) : Back(offsets[f.name].layers, Ends(new)[k]) = Ends(f.text)[k]
<1> DEFINE new == files[f.name]
           text == f.text
<1>1. /\ job \in Jobs /\ sender \in Senders /\ new = Normal(f).text
      /\ offsets[f.name].layers = Normal(f).layers
  BY DEF Parsing
<1>2. job.dialect \in Dialects /\ text \in Seq(GoodTokens) /\ new \in Seq(GoodTokens)
  BY <1>1, JobFacts, NormalFacts
<1>3. \A t : FormOf(t) = Stands(sender, t)
  BY DEF FormOf, Stands
<1>4. \A j \in DOMAIN text : Stands(sender, text[j]) \notin WalletForms \cap {Wallet(job.dialect)}
  BY <1>3 DEF Straight, Wallets
<1>5. Aligned(job.dialect, sender, text, Normal(f))
  BY <1>1, <1>2, <1>4, NormalAligned DEF Normal, Straight
<1> HIDE DEF new, text
<1>6. DOMAIN new = DOMAIN text /\ DOMAIN text = 1..Len(text)
  BY <1>1, <1>2, <1>5 DEF Aligned
<1>7. ASSUME NEW i \in DOMAIN text
      PROVE  /\ new[i].fault = text[i].fault
             /\ new[i].k = "sender" <=> text[i].k = "sender" /\ sender = NoAddress
             /\ new[i].form \in WalletForms <=> FormOf(text[i]) \in WalletForms \ {Wallet(job.dialect)}
  BY <1>1, <1>3, <1>5, <1>6 DEF Aligned, Alike
<1>8. Unreadable(new) = WronglyWritten(text)
  BY <1>6, <1>7 DEF Unreadable, WronglyWritten
<1>9. {i \in DOMAIN new : new[i].fault = "char"} = {i \in DOMAIN text : text[i].fault = "char"}
  BY <1>6, <1>7
<1>10. FirstRefused(new, Unreadable(new)) = FirstRefused(text, WronglyWritten(text))
  BY <1>8, <1>9 DEF FirstRefused
<1>11. \A k \in 0..Len(text) : Back(offsets[f.name].layers, Ends(new)[k]) = Ends(text)[k]
  BY <1>1, <1>5 DEF Aligned
<1> QED
  BY <1>6, <1>7, <1>10, <1>11 DEF new, text

\* The tokens of the user with a fault, and the errors about them.
LEMMA SameFaultTokens ==
    ASSUME Parsing, NEW fs \in SUBSET SourceFiles(job),
           \A f \in fs : f.name \in DOMAIN files /\ Straight(f.text), NEW fault
    PROVE  /\ \A f \in fs : \A i : <<f, i>> \in WithFault(fs, fault)
                 => ErrorAt(f.name, files[f.name], i) \in FaultsOf({g.name : g \in fs}, fault)
           /\ FaultsOf({g.name : g \in fs}, fault) # {} => WithFault(fs, fault) # {}
<1> DEFINE is(f) == {i \in DOMAIN f.text : f.text[i].fault = fault}
           js(g) == {i \in DOMAIN files[g] : files[g][i].fault = fault}
           names == {f.name : f \in fs}
<1>1. ASSUME NEW f \in fs PROVE is(f) = js(f.name)
  <2>1. DOMAIN files[f.name] = DOMAIN f.text /\ \A i \in DOMAIN f.text : files[f.name][i].fault = f.text[i].fault
    BY SameTokens
  <2> QED
    BY <2>1
<1>2. WithFault(fs, fault) = UNION {At(f, is(f)) : f \in fs}
  BY DEF WithFault
<1>3. FaultsOf(names, fault) = UNION {{ErrorAt(g, files[g], i) : i \in js(g)} : g \in names}
  BY DEF FaultsOf
<1> HIDE DEF is, js
<1>4. ASSUME NEW f \in fs, NEW i, <<f, i>> \in WithFault(fs, fault)
      PROVE  ErrorAt(f.name, files[f.name], i) \in FaultsOf(names, fault)
  <2>1. i \in is(f)
    BY <1>2, <1>4 DEF At
  <2> QED
    BY <1>1, <1>3, <2>1
<1>5. ASSUME FaultsOf(names, fault) # {} PROVE WithFault(fs, fault) # {}
  <2>1. PICK f \in fs : js(f.name) # {}
    BY <1>3, <1>5
  <2>2. PICK i \in is(f) : TRUE
    BY <1>1, <2>1
  <2>3. <<f, i>> \in WithFault(fs, fault)
    BY <1>2 DEF At
  <2> QED
    BY <2>3
<1> QED
  BY <1>4, <1>5

LEMMA SameRefusals ==
    ASSUME Parsing, DOMAIN files = {f.name : f \in SourceFiles(job)},
           \A f \in SourceFiles(job) : Straight(f.text)
    PROVE  LET unread == UNION {At(f, FirstRefused(f.text, WronglyWritten(f.text))) : f \in SourceFiles(job)}
           IN  /\ \A f \in SourceFiles(job) : \A i : <<f, i>> \in unread
                     => ErrorAt(f.name, files[f.name], i) \in Refusals
               /\ Refusals # {} => unread # {}
<1> DEFINE F == SourceFiles(job)
           is(f) == FirstRefused(f.text, WronglyWritten(f.text))
           js(g) == FirstRefused(files[g], Unreadable(files[g]))
           unread == UNION {At(f, is(f)) : f \in F}
<1>1. ASSUME NEW f \in F PROVE is(f) = js(f.name) /\ f.name \in DOMAIN files
  <2>1. f.name \in DOMAIN files
    OBVIOUS
  <2> QED
    BY <2>1, SameTokens
<1>2. Refusals = UNION {{ErrorAt(g, files[g], i) : i \in js(g)} : g \in DOMAIN files}
  BY DEF Refusals
<1> HIDE DEF is, js
<1>3. ASSUME NEW f \in F, NEW i, <<f, i>> \in unread PROVE ErrorAt(f.name, files[f.name], i) \in Refusals
  <2>1. i \in is(f)
    BY <1>3 DEF At
  <2> QED
    BY <1>1, <1>2, <2>1
<1>4. ASSUME Refusals # {} PROVE unread # {}
  <2>1. PICK g \in DOMAIN files : js(g) # {}
    BY <1>2, <1>4
  <2>2. PICK f \in F : f.name = g
    OBVIOUS
  <2>3. PICK i \in is(f) : TRUE
    BY <1>1, <2>1, <2>2
  <2>4. <<f, i>> \in unread
    BY DEF At
  <2> QED
    BY <2>4
<1> QED
  BY <1>3, <1>4 DEF is

\* Each token that the user should hear of has its error.
LEMMA ExpectedFound ==
    ASSUME Parsing, todo = <<>>, \A f \in SourceFiles(job) : Straight(f.text), NEW e \in Expected
    PROVE  \E f \in SourceFiles(job) : \E i \in DOMAIN f.text :
              /\ e = <<f, i>> /\ f.text[i].k # "lf"
              /\ f.name \in DOMAIN files /\ ErrorAt(f.name, files[f.name], i) \in FoundErrors
<1> DEFINE F == SourceFiles(job)
           targets == ToSet(job.targets)
           unread == UNION {At(f, FirstRefused(f.text, WronglyWritten(f.text))) : f \in F}
           typed == IF job.flow = "meta" THEN {} ELSE WithFault(F, "type")
           coded == IF job.flow = "build" THEN WithFault(targets, "bytecode") ELSE {}
           types == FaultsOf(DOMAIN files, "type")
           codes == FaultsOf(TargetNames, "bytecode")
<1>1. Expected = CASE unread # {} -> unread
                   [] unread = {} /\ typed # {} -> typed
                   [] OTHER -> coded
  BY DEF Expected
<1>2. /\ targets \subseteq F /\ \A f \in F : f.name \in DOMAIN files /\ f.text \in Seq(GoodTokens)
      /\ DOMAIN files = {f.name : f \in F} /\ TargetNames = {f.name : f \in targets}
  <2>1. ToSet(todo) = {} /\ job \in Jobs
    BY DEF ToSet, Parsing
  <2>2. \A f \in F : f.name \in DOMAIN files /\ f.text \in Seq(GoodTokens)
    BY <2>1, JobFacts DEF Parsing
  <2>3. \A g \in DOMAIN files : \E f \in F : f.name = g
    BY DEF Parsing
  <2> QED
    BY <2>2, <2>3 DEF SourceFiles, TargetNames
<1>3. /\ \A f \in F : \A i : <<f, i>> \in unread => ErrorAt(f.name, files[f.name], i) \in Refusals
      /\ Refusals # {} => unread # {}
  BY <1>2, SameRefusals
<1>4. /\ \A f \in F : \A i : <<f, i>> \in WithFault(F, "type") => ErrorAt(f.name, files[f.name], i) \in types
      /\ types # {} => WithFault(F, "type") # {}
  BY <1>2, SameFaultTokens
<1>5. \A f \in targets : \A i : <<f, i>> \in WithFault(targets, "bytecode")
          => ErrorAt(f.name, files[f.name], i) \in codes
  BY <1>2, SameFaultTokens
<1>6. \A x \in unread : \E f \in F : \E i \in FirstRefused(f.text, WronglyWritten(f.text)) : x = <<f, i>>
  BY DEF At
<1>7. \A x \in WithFault(F, "type") : \E f \in F : \E i \in DOMAIN f.text : x = <<f, i>> /\ f.text[i].fault = "type"
  BY DEF WithFault, At
<1>8. \A x \in WithFault(targets, "bytecode") :
         \E f \in targets : \E i \in DOMAIN f.text : x = <<f, i>> /\ f.text[i].fault = "bytecode"
  BY DEF WithFault, At
<1>9. ASSUME NEW f \in F, NEW i \in DOMAIN f.text, f.text[i].fault # None PROVE f.text[i].k # "lf"
  <2>1. f.text[i] \in GoodTokens
    BY <1>2
  <2> QED
    BY <1>9, <2>1 DEF GoodTokens, WellFormed
<1>10. ASSUME NEW f \in F, NEW i \in FirstRefused(f.text, WronglyWritten(f.text))
       PROVE  i \in DOMAIN f.text /\ f.text[i].k # "lf"
  <2> DEFINE odd == {j \in DOMAIN f.text : f.text[j].fault = "char"}
             bad == WronglyWritten(f.text)
  <2>1. f.text \in Seq(GoodTokens) /\ DOMAIN f.text \subseteq Nat
    BY <1>2
  <2>2. odd \subseteq DOMAIN f.text /\ bad \subseteq DOMAIN f.text
    BY DEF WronglyWritten
  <2>3. i \in odd \/ i \in bad
    <3> HIDE DEF odd, bad
    <3>1. (odd # {} => Min(odd) \in odd) /\ (bad # {} => Min(bad) \in bad)
      BY <2>1, <2>2, MinIn
    <3>2. i \in IF odd # {} THEN {Min(odd)} ELSE IF bad # {} THEN {Min(bad)} ELSE {}
      BY DEF FirstRefused, odd, bad
    <3> QED
      BY <3>1, <3>2
  <2>4. f.text[i] \in GoodTokens
    BY <2>1, <2>2, <2>3
  <2>5. CASE i \in odd
    BY <1>9, <2>5 DEF None
  <2>6. CASE i \in bad
    <3>1. f.text[i].k = "lf" => f.text[i].form \notin WalletForms /\ f.text[i].fault = None
      BY <2>4 DEF GoodTokens, WellFormed, WalletForms, Forms
    <3> QED
      BY <2>2, <2>6, <3>1 DEF WronglyWritten, FormOf, None
  <2> QED
    BY <2>2, <2>3, <2>5, <2>6
<1> HIDE DEF F, targets, unread, types, codes
<1>11. CASE unread # {}
  <2>1. PICK f \in F : \E i \in FirstRefused(f.text, WronglyWritten(f.text)) : e = <<f, i>>
    BY <1>1, <1>6, <1>11
  <2>2. PICK i \in FirstRefused(f.text, WronglyWritten(f.text)) : e = <<f, i>>
    BY <2>1
  <2>3. e \in unread
    BY <1>1, <1>11
  <2>4. ErrorAt(f.name, files[f.name], i) \in Refusals
    BY <1>3, <2>2, <2>3
  <2>5. ErrorAt(f.name, files[f.name], i) \in FoundErrors
    BY <2>4 DEF FoundErrors
  <2> QED
    BY <1>2, <1>10, <2>2, <2>5 DEF F
<1>12. CASE unread = {} /\ typed # {}
  <2>1. job.flow # "meta" /\ Refusals = {} /\ e \in WithFault(F, "type")
    BY <1>1, <1>3, <1>12
  <2>2. PICK f \in F : \E i \in DOMAIN f.text : e = <<f, i>> /\ f.text[i].fault = "type"
    BY <1>7, <2>1
  <2>3. PICK i \in DOMAIN f.text : e = <<f, i>> /\ f.text[i].fault = "type"
    BY <2>2
  <2>4. ErrorAt(f.name, files[f.name], i) \in types
    BY <1>4, <2>1, <2>3
  <2>5. ErrorAt(f.name, files[f.name], i) \in FoundErrors
    BY <2>1, <2>4 DEF FoundErrors, types
  <2> QED
    BY <1>2, <1>9, <2>3, <2>5 DEF F, None
<1>13. CASE unread = {} /\ typed = {}
  <2>1. job.flow = "build" /\ Refusals = {} /\ types = {} /\ e \in WithFault(targets, "bytecode")
    BY <1>1, <1>3, <1>4, <1>13
  <2>2. PICK f \in targets : \E i \in DOMAIN f.text : e = <<f, i>> /\ f.text[i].fault = "bytecode"
    BY <1>8, <2>1
  <2>3. PICK i \in DOMAIN f.text : e = <<f, i>> /\ f.text[i].fault = "bytecode"
    BY <2>2
  <2>4. ErrorAt(f.name, files[f.name], i) \in codes
    BY <1>5, <2>1, <2>3
  <2>5. ErrorAt(f.name, files[f.name], i) \in FoundErrors
    BY <2>1, <2>4 DEF FoundErrors, types, codes
  <2> QED
    BY <1>2, <1>9, <2>3, <2>5 DEF F, None
<1> QED
  BY <1>11, <1>12, <1>13

\* The error about a token is shown at the token.
LEMMA ShownInPlace ==
    ASSUME Parsing, NEW f \in SourceFiles(job), f.name \in DOMAIN files, Straight(f.text),
           NEW i \in DOMAIN f.text, f.text[i].k # "lf", job.flow = "check" \/ files[f.name] = f.text,
           Listed(Moved(ErrorAt(f.name, files[f.name], i))) \in report
    PROVE  Reported(f, i)
<1> DEFINE new == files[f.name]
           text == f.text
           layers == offsets[f.name].layers
           x == ErrorAt(f.name, new, i)
           y == Moved(x)
           r == Listed(y)
<1>1. text \in Seq(GoodTokens) /\ job \in Jobs /\ new \in Seq(GoodTokens)
  <2>1. job \in Jobs
    BY DEF Parsing
  <2> QED
    BY <2>1, JobFacts, FileFacts
<1>2. i \in 1..Len(text) /\ i - 1 \in 0..Len(text) /\ i \in 0..Len(text) /\ i + 1 - 1 = i /\ i - 1 <= i
  BY <1>1
<1>3. \A k \in 0..Len(text) : Back(layers, Ends(new)[k]) = Ends(text)[k]
  BY SameTokens
<1>4. /\ IsError(x) /\ x.file = f.name
      /\ x.start = Ends(new)[i - 1] /\ x.end = Ends(new)[i]
  BY <1>2 DEF ErrorAt, IsError, Offset
<1> DEFINE a == Ends(text)[i - 1]
           b == Ends(text)[i]
<1>5. a \in Nat /\ b \in Nat /\ a <= b
  <2>1. Ends(text) \in [0..Len(text) -> Nat]
    BY <1>1, EndsUnfold
  <2> QED
    BY <1>1, <1>2, <2>1, EndsInOrder
<1>6. TranslatePos(offsets[x.file], x.start) = a /\ TranslatePos(offsets[x.file], x.end) = b
  BY <1>2, <1>3, <1>4 DEF TranslatePos, Back
<1>7. y = [x EXCEPT !.start = Min({a, b}), !.end = Max({a, b}), !.name = TranslateMessage(offsets[x.file], @)]
  BY <1>6 DEF Moved
<1> HIDE DEF x, a, b
<1>8. Min({a, b}) = a /\ Max({a, b}) = b
  <2>1. \A z \in {a, b} : (\A w \in {a, b} : z =< w) <=> z = a
    BY <1>5
  <2>2. \A z \in {a, b} : (\A w \in {a, b} : z >= w) <=> z = b
    BY <1>5
  <2>3. Min({a, b}) = CHOOSE z \in {a, b} : z = a
    BY <2>1 DEF Min
  <2>4. Max({a, b}) = CHOOSE z \in {a, b} : z = b
    BY <2>2 DEF Max
  <2> QED
    BY <2>3, <2>4
<1>9. y.file = f.name /\ y.start = a /\ y.end = b
  BY <1>4, <1>7, <1>8 DEF IsError
<1> HIDE DEF y
<1>10. ShownText(y) = text
  <2>1. ContentOf(f.name) = text
    <3>1. \A h \in SourceFiles(job) : h.name = f.name => h = f
      BY <1>1, JobFacts
    <3>2. (CHOOSE h \in SourceFiles(job) : h.name = f.name) = f
      BY <3>1
    <3> QED
      BY <3>2 DEF ContentOf
  <2> QED
    BY <1>9, <2>1 DEF ShownText
<1>11. r.file = f.name /\ r.from = Position(text, a) /\ r.to = Position(text, b)
  BY <1>9, <1>10 DEF Listed
<1>12. /\ r.from = Place(text, i) /\ r.to.line = Place(text, i).line
       /\ r.to.column = Place(text, i).column + text[i].width
  BY <1>1, <1>2, <1>11, PlaceIsPosition DEF a, b
<1>13. r \in report
  BY DEF x, y
<1> HIDE DEF r
<1> QED
  BY <1>11, <1>12, <1>13 DEF Reported

\* In files without line ends of two bytes and without wallet addresses of their dialect, every
\* error that the compiler should report is shown at the first and the last byte of the token
\* that causes it: the shifts of placeholders and padded addresses are undone exactly
\* (source_map.rs:52-80, parser.rs:107-143, libra/addresses.rs:11-29, location.rs:31-60).
THEOREM PlacesTheorem == Spec => []((\A f \in SourceFiles(job) : Straight(f.text)) => ErrorsInPlace)
<1>1. Spec => []Complete
  BY InitComplete, NextComplete, AlwaysIInv, PTL DEF Spec
<1>2. ASSUME IInv, Complete, \A f \in SourceFiles(job) : Straight(f.text) PROVE ErrorsInPlace
  <2> SUFFICES ASSUME pc = "shown", NEW e \in Expected
               PROVE  LET f == e[1]
                          t == e[1].text[e[2]]
                      IN  /\ (job.flow = "check" \/ files[f.name] = f.text) /\ ~Drifts(f.text, e[2])
                               => Reported(f, e[2])
                          /\ job.dialect = "dfinance" /\ t.fault = "type" /\ FormOf(t) = "bech32"
                               => \E r \in report : r.file = f.name /\ r.name = <<"bech32", AddressOf(t)>>
    BY DEF ErrorsInPlace
  <2>1. Parsing /\ todo = <<>>
    BY <1>2 DEF IInv, Parsing
  <2>2. PICK f \in SourceFiles(job) : \E i \in DOMAIN f.text :
              /\ e = <<f, i>> /\ f.text[i].k # "lf"
              /\ f.name \in DOMAIN files /\ ErrorAt(f.name, files[f.name], i) \in FoundErrors
    BY <1>2, <2>1, ExpectedFound
  <2>3. PICK i \in DOMAIN f.text :
              /\ e = <<f, i>> /\ f.text[i].k # "lf"
              /\ f.name \in DOMAIN files /\ ErrorAt(f.name, files[f.name], i) \in FoundErrors
    BY <2>2
  <2>4. Listed(Moved(ErrorAt(f.name, files[f.name], i))) \in report
    BY <1>2, <2>3 DEF Complete
  <2>5. Straight(f.text)
    BY <1>2
  <2>6. job.flow = "check" \/ files[f.name] = f.text => Reported(f, i)
    BY <2>1, <2>3, <2>4, <2>5, ShownInPlace
  <2>7. ~(job.dialect = "dfinance" /\ FormOf(f.text[i]) = "bech32")
    <3> SUFFICES ASSUME job.dialect = "dfinance", FormOf(f.text[i]) = "bech32" PROVE FALSE
      OBVIOUS
    <3>1. i \in Wallets(f.text)
      BY DEF Wallets, Wallet, WalletForms
    <3> QED
      BY <2>5, <3>1 DEF Straight
  <2>8. e[1] = f /\ e[2] = i
    BY <2>3
  <2> QED
    BY <2>6, <2>7, <2>8
<1> QED
  BY <1>1, <1>2, AlwaysIInv, PTL

=============================================================================
