----------------------------- MODULE ConfigProofs -----------------------------
(***************************************************************************)
(* Proofs about Config, for every set of Providers, options and changes of *)
(* a definition, and any number of parses, builds and runs.                *)
(***************************************************************************)
EXTENDS Config, StageGraphProofs, SequenceTheorems, TLAPS

\* What Parse does not touch; and what is left in a caller's reader once it has been
\* decoded more than n times: documents that come later, or parts of them.
KnownKind == provider.kind \in {"yaml", "json"}
Left(text, n) ==
  IF KnownKind /\ parses > n
  THEN IF OneDocument THEN text = <<>> ELSE text \in Seq(Later)
  ELSE text = provider.text

\* Between two calls of Parse nothing is open; the body of a response is while it is
\* read, and a file until it is decoded; and a reader has been read beyond its first
\* document if it was decoded at all.
SourceInv ==
  /\ provider \in Providers /\ phase \in {"ready", "fetched", "opened", "parsed", "loaded"}
  /\ size \in 0 .. MaxInt /\ parses \in Nat /\ handles \in [opened : Nat, closed : Nat]
  /\ phase \in {"ready", "parsed", "loaded"} => handles.opened = handles.closed
  /\ phase = "fetched" => provider.how = "url" /\ handles.opened = handles.closed + 1
  /\ phase = "opened" =>
       /\ handles.opened = IF provider.how = "file" THEN handles.closed + 1 ELSE handles.closed
       /\ provider.how = "url" => size <= provider.max
  /\ phase # "ready" => parses > 0
  /\ provider.how = "reader" => IF phase = "opened" THEN Left(rest, 1) ELSE Left(rest, 0)
  /\ NeverTruncated /\ SecondParse

\* Source: what is opened, and what is not even tried.
LEMMA SourceBegins ==
  ASSUME SourceInv, SourceStatic \/ SourceNil \/ SourceFile \/ SourceURL
  PROVE  SourceInv'
<1>1. /\ phase = "ready" /\ parses' = parses + 1 /\ UNCHANGED <<provider, rest>>
      /\ parses \in Nat /\ handles \in [opened : Nat, closed : Nat] /\ size \in Nat
      /\ handles.opened = handles.closed /\ MaxInt \in Nat
      /\ provider.how = "reader" => Left(rest, 0)
  BY SourceAssumption DEF SourceStatic, SourceNil, SourceFile, SourceURL, Begins, SourceInv
<1>2. Left(rest, 1)' = Left(rest, 0)
  BY <1>1 DEF Left, KnownKind, OneDocument, Later
<1>3. handles' \in {handles, [handles EXCEPT !.opened = @ + 1]}
  BY DEF SourceStatic, SourceNil, SourceFile, SourceURL, Opened
<1>4. handles' \in [opened : Nat, closed : Nat]
  BY <1>1, <1>3
<1>5. CASE SourceStatic
  <2>1. /\ provider.how \in {"bytes", "reader"} /\ phase' = "opened"
        /\ UNCHANGED <<handles, size, parsed, failure>>
    BY <1>5 DEF SourceStatic, Begins
  <2>. QED
    BY <1>1, <1>2, <2>1 DEF SourceInv, NeverTruncated, SecondParse
<1>6. CASE SourceNil
  <2>1. provider.how = "nil" /\ phase' = "parsed" /\ failure' = "NilSource" /\ UNCHANGED <<handles, size>>
    BY <1>6 DEF SourceNil, Begins, Fails, Returns
  <2>. QED
    BY <1>1, <2>1 DEF SourceInv, NeverTruncated, SecondParse
<1>7. CASE SourceFile
  <2>1. /\ provider.how = "file" /\ UNCHANGED size
        /\ \/ phase' = "parsed" /\ failure' \in {"UnsupportedExtension", "open"} /\ UNCHANGED handles
           \/ phase' = "opened" /\ handles' = [handles EXCEPT !.opened = @ + 1]
    BY <1>7 DEF SourceFile, Begins, Fails, Returns, Opened
  <2>2. CASE phase' = "parsed" /\ failure' \in {"UnsupportedExtension", "open"} /\ UNCHANGED handles
    BY <1>1, <2>1, <2>2 DEF SourceInv, NeverTruncated, SecondParse
  <2>3. CASE phase' = "opened" /\ handles' = [handles EXCEPT !.opened = @ + 1]
    <3>1. handles'.opened = handles.opened + 1 /\ handles'.closed = handles.closed
      BY <1>1, <2>3
    <3>. QED
      BY <1>1, <1>4, <2>1, <2>3, <3>1 DEF SourceInv, NeverTruncated, SecondParse
  <2>. QED
    BY <2>1, <2>2, <2>3
<1>8. CASE SourceURL
  <2>1. /\ provider.how = "url"
        /\ \/ /\ phase' = "parsed" /\ failure' \in {"UnsupportedScheme", "request"}
              /\ UNCHANGED <<handles, size>>
           \/ /\ phase' = "fetched" /\ handles' = [handles EXCEPT !.opened = @ + 1]
              /\ size' \in 0 .. MaxInt
    BY <1>8 DEF SourceURL, Begins, Fails, Returns, Opened
  <2>2. CASE /\ phase' = "parsed" /\ failure' \in {"UnsupportedScheme", "request"}
             /\ UNCHANGED <<handles, size>>
    BY <1>1, <2>1, <2>2 DEF SourceInv, NeverTruncated, SecondParse
  <2>3. CASE /\ phase' = "fetched" /\ handles' = [handles EXCEPT !.opened = @ + 1]
             /\ size' \in 0 .. MaxInt
    <3>1. handles'.opened = handles.opened + 1 /\ handles'.closed = handles.closed /\ size' \in Nat
      BY <1>1, <2>3
    <3>. QED
      BY <1>1, <1>4, <2>1, <2>3, <3>1 DEF SourceInv, NeverTruncated, SecondParse
  <2>. QED
    BY <2>1, <2>2, <2>3
<1>. QED
  BY <1>5, <1>6, <1>7, <1>8

\* The response is closed whatever happens, and is not cut: a byte more is read than
\* is allowed, or nothing, of what cannot be longer than is allowed.
LEMMA BodyRead ==
  ASSUME SourceInv, ReadBody
  PROVE  SourceInv'
<1>1. /\ phase = "fetched" /\ provider.how = "url" /\ UNCHANGED <<provider, rest, size, parses>>
      /\ handles \in [opened : Nat, closed : Nat] /\ handles.opened = handles.closed + 1
      /\ size \in 0 .. MaxInt /\ MaxInt \in Nat /\ provider.max \in 1 .. MaxInt
      /\ handles' = [handles EXCEPT !.closed = @ + 1]
  BY SourceAssumption DEF ReadBody, Release, Closed, SourceInv
<1>2. /\ handles' \in [opened : Nat, closed : Nat] /\ handles'.opened = handles'.closed
  BY <1>1
<1>3. Read > provider.max <=> size > provider.max
  BY <1>1 DEF Read, Limit
<1>4. Read <= provider.max <=> size <= provider.max
  BY <1>1 DEF Read, Limit
<1>5. \/ phase' = "parsed" /\ failure' \in {"UnexpectedStatus", "read"}
      \/ phase' = "parsed" /\ failure' = "MaxBytesExceeded" /\ size > provider.max
      \/ phase' = "opened" /\ size <= provider.max
  BY <1>3, <1>4 DEF ReadBody, Fails, Returns
<1>. QED
  BY <1>1, <1>2, <1>5 DEF SourceInv, NeverTruncated, SecondParse

\* Wherever a decoder leaves a reader, it is past the document it began with.
LEMMA LeavingsAre ==
  ASSUME NEW text, Len(text) \in Nat, NEW r \in Leavings(text)
  PROVE  \/ \E i \in 1 .. Len(text) : r = SubSeq(text, i + 1, Len(text))
         \/ \E f \in Fragments, i \in 1 .. Len(text) :
              /\ r = <<f>> \o SubSeq(text, i + 1, Len(text))
              /\ Head(text) = Bad \/ parses > 1 \/ i > 1
<1> DEFINE first == IF Head(text) = Bad \/ parses > 1 THEN 1 ELSE 2
<1>1. Leavings(text) = {SubSeq(text, i + 1, Len(text)) : i \in 1 .. Len(text)}
        \union (UNION {{<<f>> \o SubSeq(text, i + 1, Len(text)) : i \in first .. Len(text)} : f \in Fragments})
  BY DEF Leavings
<1>2. first \in 1 .. 2 /\ (first = 1 => Head(text) = Bad \/ parses > 1)
  OBVIOUS
<1>. HIDE DEF first
<1>3. CASE \E i \in 1 .. Len(text) : r = SubSeq(text, i + 1, Len(text))
  BY <1>3
<1>4. CASE \E f \in Fragments : \E i \in first .. Len(text) : r = <<f>> \o SubSeq(text, i + 1, Len(text))
  <2>1. PICK f \in Fragments : \E i \in first .. Len(text) : r = <<f>> \o SubSeq(text, i + 1, Len(text))
    BY <1>4
  <2>2. PICK i \in first .. Len(text) : r = <<f>> \o SubSeq(text, i + 1, Len(text))
    BY <2>1
  <2>3. i \in 1 .. Len(text) /\ (Head(text) = Bad \/ parses > 1 \/ i > 1)
    BY <1>2
  <2>. QED
    BY <2>2, <2>3
<1>. QED
  BY <1>1, <1>3, <1>4

LEMMA FragmentFirst ==
  ASSUME NEW f \in Fragments, NEW t \in Seq(Later)
  PROVE  <<f>> \o t \in Seq(Later)
<1>1. <<f>> \in Seq(Later)
  BY DEF Later
<1>. QED
  BY <1>1

LEMMA LeavingsAreLater ==
  ASSUME NEW text \in Seq(Later), text # <<>>, NEW r \in Leavings(text)
  PROVE  r \in Seq(Later)
<1>1. ASSUME NEW i \in 1 .. Len(text) PROVE SubSeq(text, i + 1, Len(text)) \in Seq(Later)
  <2>2. Len(text) \in Nat /\ \A j \in i + 1 .. Len(text) : text[j] \in Later
    OBVIOUS
  <2>. QED
    BY <2>2, SubSeqProperties
<1>2. \/ \E i \in 1 .. Len(text) : r = SubSeq(text, i + 1, Len(text))
      \/ \E f \in Fragments, i \in 1 .. Len(text) : r = <<f>> \o SubSeq(text, i + 1, Len(text))
  <2>1. Len(text) \in Nat
    OBVIOUS
  <2>. QED
    BY <2>1, LeavingsAre
<1>3. CASE \E i \in 1 .. Len(text) : r = SubSeq(text, i + 1, Len(text))
  BY <1>1, <1>3
<1>4. CASE \E f \in Fragments, i \in 1 .. Len(text) : r = <<f>> \o SubSeq(text, i + 1, Len(text))
  <2>1. PICK f \in Fragments, i \in 1 .. Len(text) : r = <<f>> \o SubSeq(text, i + 1, Len(text))
    BY <1>4
  <2>2. SubSeq(text, i + 1, Len(text)) \in Seq(Later)
    BY <1>1
  <2>3. <<f>> \o SubSeq(text, i + 1, Len(text)) \in Seq(Later)
    BY <2>2, FragmentFirst
  <2>. QED
    BY <2>1, <2>3
<1>. QED
  BY <1>2, <1>3, <1>4

LEMMA FirstLeavings ==
  ASSUME NEW text, text = provider.text, text \in Seq(MemberOf(text)), text # <<>>, NEW r \in Leavings(text)
  PROVE  /\ r \in Seq(Later)
         /\ OneDocument /\ ~(parses > 1) => r = <<>>
<1>1. Len(text) \in Nat \ {0} /\ DOMAIN text = 1 .. Len(text)
  OBVIOUS
<1>2. ASSUME NEW i \in 1 .. Len(text)
      PROVE  /\ SubSeq(text, i + 1, Len(text)) \in Seq(Later)
             /\ i = Len(text) => SubSeq(text, i + 1, Len(text)) = <<>>
  <2>1. \A j \in i + 1 .. Len(text) : text[j] \in Later
    BY <1>1 DEF Later
  <2>. QED
    BY <1>1, <2>1, SubSeqProperties
<1>3. \/ \E i \in 1 .. Len(text) : r = SubSeq(text, i + 1, Len(text))
      \/ \E f \in Fragments, i \in 1 .. Len(text) :
           /\ r = <<f>> \o SubSeq(text, i + 1, Len(text))
           /\ Head(text) = Bad \/ parses > 1 \/ i > 1
  <2>1. Len(text) \in Nat
    BY <1>1
  <2>. QED
    BY <2>1, LeavingsAre
<1>6. ASSUME \E i \in 1 .. Len(text) : r = SubSeq(text, i + 1, Len(text)) PROVE r \in Seq(Later)
  BY <1>2, <1>6
<1>7. ASSUME \E f \in Fragments, i \in 1 .. Len(text) : r = <<f>> \o SubSeq(text, i + 1, Len(text))
      PROVE  r \in Seq(Later)
  <2>1. PICK f \in Fragments, i \in 1 .. Len(text) : r = <<f>> \o SubSeq(text, i + 1, Len(text))
    BY <1>7
  <2>2. SubSeq(text, i + 1, Len(text)) \in Seq(Later)
    BY <1>2
  <2>3. <<f>> \o SubSeq(text, i + 1, Len(text)) \in Seq(Later)
    BY <2>2, FragmentFirst
  <2>. QED
    BY <2>1, <2>3
<1>4. r \in Seq(Later)
  BY <1>3, <1>6, <1>7
<1>5. ASSUME OneDocument, ~(parses > 1) PROVE r = <<>>
  <2>1. Len(text) = 1 /\ Head(text) # Bad
    BY <1>5 DEF OneDocument
  <2>2. \E i \in 1 .. 1 : r = SubSeq(text, i + 1, Len(text))
    <3>1. \A i \in 1 .. Len(text) : ~(i > 1)
      BY <2>1
    <3>2. ~\E f \in Fragments, i \in 1 .. Len(text) :
             /\ r = <<f>> \o SubSeq(text, i + 1, Len(text))
             /\ Head(text) = Bad \/ parses > 1 \/ i > 1
      BY <1>5, <2>1, <3>1
    <3>. QED
      BY <1>3, <2>1, <3>2
  <2>. QED
    BY <1>2, <2>1, <2>2
<1>. QED
  BY <1>4, <1>5

\* Decoding closes a file, and takes a reader past a document.
LEMMA Decoded ==
  ASSUME SourceInv, Decode
  PROVE  SourceInv'
<1>1. /\ phase = "opened" /\ phase' = "parsed" /\ UNCHANGED <<provider, size, parses>>
      /\ handles \in [opened : Nat, closed : Nat] /\ parses \in Nat /\ parses > 0
      /\ handles.opened = IF provider.how = "file" THEN handles.closed + 1 ELSE handles.closed
      /\ handles' = IF provider.how = "file" THEN [handles EXCEPT !.closed = @ + 1] ELSE handles
      /\ provider.how = "reader" => Left(rest, 1)
      /\ provider.how = "url" => size <= provider.max
      /\ provider.max \in 1 .. MaxInt /\ MaxInt \in Nat /\ provider.text \in Seq(MemberOf(provider.text))
  BY SourceAssumption DEF Decode, Closed, SourceInv, Fails, Returns
<1>2. handles' \in [opened : Nat, closed : Nat] /\ handles'.opened = handles'.closed
  BY <1>1
<1>3. /\ IF provider.how = "reader" /\ KnownKind /\ rest # <<>> THEN rest' \in Leavings(rest) ELSE rest' = rest
      /\ \/ ~KnownKind /\ failure' = "UnknownSourceKind"
         \/ KnownKind /\ Text = <<>> /\ parsed' = <<EmptyDef>> /\ failure' = "nil"
         \/ KnownKind /\ Text # <<>> /\ Head(Text) = Bad /\ failure' = "decode"
         \/ KnownKind /\ Text # <<>> /\ Head(Text) # Bad /\ parsed' = Head(Text) /\ failure' = "nil"
  BY DEF Decode, KnownKind, Fails, Returns
<1>4. ASSUME provider.how = "reader" PROVE Left(rest, 0)'
  <2>1. CASE ~KnownKind
    BY <1>1, <1>3, <1>4, <2>1 DEF Left, KnownKind, OneDocument, Later
  <2>2. ASSUME KnownKind
        PROVE  IF OneDocument THEN rest' = <<>> ELSE rest' \in Seq(Later)
    <3>1. CASE rest = <<>>
      BY <1>3, <1>4, <3>1
    <3>2. CASE rest # <<>> /\ parses > 1
      <4>1. ~OneDocument /\ rest \in Seq(Later) /\ rest' \in Leavings(rest)
        BY <1>1, <1>3, <1>4, <2>2, <3>2 DEF Left
      <4>. QED
        BY <3>2, <4>1, LeavingsAreLater
    <3>3. CASE rest # <<>> /\ ~(parses > 1)
      <4>1. rest = provider.text /\ rest' \in Leavings(rest)
        BY <1>1, <1>3, <1>4, <2>2, <3>3 DEF Left
      <4>. QED
        BY <1>1, <3>3, <4>1, FirstLeavings
    <3>. QED
      BY <3>1, <3>2, <3>3
  <2>3. CASE KnownKind
    BY <1>1, <2>2, <2>3 DEF Left, KnownKind, OneDocument, Later
  <2>. QED
    BY <2>1, <2>3
<1>5. (KnownKind = KnownKind') /\ (OneDocument = OneDocument') /\ (Later = Later') /\ (Unlimited = Unlimited')
  BY <1>1 DEF KnownKind, OneDocument, Later, Unlimited
<1>6. provider.how # "reader" => Text = IF Unlimited THEN <<>> ELSE provider.text
  BY <1>1 DEF Text, Unlimited, Limit
<1>7. ASSUME provider.how = "reader", KnownKind
      PROVE  IF parses > 1 THEN IF OneDocument THEN Text = <<>> ELSE Text \in Seq(Later) ELSE Text = provider.text
  BY <1>1, <1>7 DEF Text, Left
<1>8. SecondParse'
  <2>1. CASE provider.how = "reader" /\ parses > 1
    <3>1. KnownKind /\ Text # <<>> => ~OneDocument /\ Head(Text) \in Later
      BY <1>7, <2>1
    <3>. QED
      BY <1>1, <1>3, <1>5, <2>1, <3>1 DEF SecondParse
  <2>2. CASE provider.how = "reader" /\ ~(parses > 1)
    <3>1. KnownKind => Text = provider.text
      BY <1>7, <2>2
    <3>2. ~Unlimited
      BY <2>2 DEF Unlimited
    <3>. QED
      BY <1>1, <1>3, <1>5, <2>2, <3>1, <3>2 DEF SecondParse
  <2>3. CASE provider.how # "reader"
    BY <1>1, <1>3, <1>5, <1>6, <2>3 DEF SecondParse
  <2>. QED
    BY <2>1, <2>2, <2>3
<1>9. NeverTruncated'
  BY <1>1, <1>3 DEF NeverTruncated
<1>. QED
  BY <1>1, <1>2, <1>4, <1>8, <1>9 DEF SourceInv

LEMMA SourceKept == SourceInv /\ [Next]_vars => SourceInv'
<1>. SUFFICES ASSUME SourceInv, [Next]_vars PROVE SourceInv'
  OBVIOUS
<1>1. CASE Parsing
  <2>1. CASE ParseAgain
    <3>1. /\ phase = "parsed" /\ phase' = "ready" /\ size' = 0 /\ MaxInt \in Nat
          /\ UNCHANGED <<provider, rest, handles, parses>>
      BY <2>1, SourceAssumption DEF ParseAgain
    <3>. QED
      BY <3>1 DEF SourceInv, NeverTruncated, SecondParse, Left, KnownKind, OneDocument, Later, Unlimited
  <2>. QED
    BY <1>1, <2>1, SourceBegins, BodyRead, Decoded DEF Parsing, SourceNext
<1>2. CASE Load
  <2>1. /\ phase = "parsed" /\ phase' = "loaded"
        /\ UNCHANGED <<provider, rest, handles, size, parsed, failure, parses>>
    BY <1>2 DEF Load
  <2>. QED
    BY <2>1 DEF SourceInv, NeverTruncated, SecondParse, Left, KnownKind, OneDocument, Later, Unlimited
<1>3. ASSUME UNCHANGED source PROVE SourceInv'
  BY <1>3 DEF source, SourceInv, NeverTruncated, SecondParse, Left, KnownKind, OneDocument, Later, Unlimited
<1>4. CASE ~Parsing /\ ~Load
  <2>1. UNCHANGED source
    BY <1>4 DEF Next, StartBuild, Building, Change, Run, Done, vars
  <2>. QED
    BY <1>3, <2>1
<1>. QED
  BY <1>1, <1>2, <1>4

\* For each kind of Provider, and however often it is parsed: what Parse opens it
\* closes once, a body that is too long is refused, and a second Parse yields the same
\* definition, but for a reader that is at its end.
THEOREM SourcesAreSafe == Spec => []SourcesKeepFaith
<1>1. Init => SourceInv
  BY SourceAssumption DEF Init, SourceInit, SourceInv, NeverTruncated, SecondParse, Left
<1>2. SourceInv => SourcesKeepFaith
  <2>. SUFFICES ASSUME SourceInv PROVE HandlesClosed
    BY DEF SourcesKeepFaith, SourceInv
  <2>. QED
    BY DEF SourceInv, HandlesClosed
<1>. QED
  BY <1>1, <1>2, SourceKept, PTL DEF Spec
-----------------------------------------------------------------------------
\* What is built and what is loaded are definitions, and a Pipeline lists each of its
\* stages once and has no others in its levels.
ParsedInv == phase = "parsed" /\ failure = "nil" => IsDefinition(parsed[1])

IsPipeline(p) ==
  /\ p.order \in Seq(MemberOf(p.order)) /\ NoRepeats(p.order)
  /\ DOMAIN p.levels = 1 .. Len(p.levels) /\ Len(p.levels) \in Nat
  /\ \A l \in DOMAIN p.levels : MemberOf(p.levels[l]) \subseteq MemberOf(p.order)

BuiltInv ==
  /\ SourceInv /\ ParsedInv /\ IsDefinition(def)
  /\ step = "built" => IsPipeline(built[1])

\* A sequence is one of its members.
LEMMA OwnMembers ==
  ASSUME NEW A, NEW s \in Seq(A)
  PROVE  s \in Seq(MemberOf(s))
<1>1. \A k \in 1 .. Len(s) : s[k] \in MemberOf(s)
  BY DEF MemberOf
<1>. QED
  BY <1>1

\* What a constant may be.
LEMMA ConstantIs ==
  ASSUME NEW v, IsConstant(v)
  PROVE  \/ v \in {<<"absent">>, <<"malformed">>, <<"chan">>} /\ v[1] \in {"absent", "malformed", "chan"}
         \/ \E n \in Int : v \in {<<"int", n>>, <<"float", n>>} /\ v[2] = n
         \/ \E n \in Int, m \in Nat : v \in {<<"$dec", n, m>>, <<"decimal", n, m>>} /\ v[2] = n /\ v[3] = m
<1>1. CASE v \in {<<"absent">>, <<"malformed">>, <<"chan">>}
  BY <1>1
<1>2. CASE v[1] \in {"int", "float"} /\ v = <<v[1], v[2]>> /\ v[2] \in Int
  BY <1>2
<1>3. CASE v[1] \in {"$dec", "decimal"} /\ v = <<v[1], v[2], v[3]>> /\ v[2] \in Int /\ v[3] \in Nat
  BY <1>3
<1>. QED
  BY <1>1, <1>2, <1>3 DEF IsConstant

\* Hydration keeps what a constant stands for.
LEMMA HydratedIs ==
  ASSUME NEW v, IsConstant(v)
  PROVE  /\ IsConstant(Hydrated(v)) /\ CanonicalizeValue(Hydrated(v)) = CanonicalizeValue(v)
         /\ Hydrated(v) = <<"chan">> <=> v = <<"chan">>
<1>1. CASE v[1] # "$dec"
  BY <1>1 DEF Hydrated
<1>2. CASE v[1] = "$dec"
  <2>1. v[2] \in Int /\ v[3] \in Nat /\ v # <<"chan">>
    BY <1>2 DEF IsConstant
  <2> DEFINE n == v[2]
             m == v[3]
             w == <<"decimal", n, m>>
  <2>2. Hydrated(v) = w
    BY <1>2 DEF Hydrated
  <2>3. w[1] = "decimal" /\ w[2] = n /\ w[3] = m
    OBVIOUS
  <2>4. IsConstant(w)
    BY <2>1 DEF IsConstant
  <2>5. w # <<"chan">>
    BY <2>3
  <2>6. CanonicalizeValue(w) = CanonicalizeValue(v)
    <3>1. CanonicalizeValue(w) = <<"$dec", Trim(n, m)[1], Trim(n, m)[2]>>
      <4>. HIDE DEF w
      <4>. QED
        BY <2>3 DEF CanonicalizeValue
    <3>2. CanonicalizeValue(v) = <<"$dec", Trim(n, m)[1], Trim(n, m)[2]>>
      BY <1>2 DEF CanonicalizeValue
    <3>. QED
      BY <3>1, <3>2
  <2>. QED
    BY <2>1, <2>2, <2>4, <2>5, <2>6
<1>. QED
  BY <1>1, <1>2

LEMMA NothingIsDefinition == IsDefinition(NoStages)
<1>1. ASSUME NEW d, NEW c, NEW v, d = [stages |-> <<>>, const |-> c, schema |-> FALSE, version |-> v],
             c = <<"absent">>
      PROVE  IsDefinition(d)
  <2>1. d = [stages |-> d.stages, const |-> d.const, schema |-> d.schema, version |-> d.version]
        /\ d.stages = <<>> /\ d.const = c
    BY <1>1
  <2>2. <<>> \in Seq(MemberOf(<<>>)) /\ DOMAIN <<>> = {}
    OBVIOUS
  <2>3. IsConstant(c)
    BY <1>1 DEF IsConstant
  <2>4. InTree(d)
    BY <2>1, <2>2 DEF InTree
  <2>. QED
    BY <2>1, <2>2, <2>3, <2>4 DEF IsDefinition
<1>. QED
  BY <1>1, Zenon DEF NoStages

\* The stages of a definition, or of one of its foreach stages, have their names listed.
LEMMA NamesListed ==
  ASSUME NEW d, IsDefinition(d), NEW p
  PROVE  \E A : NamesIn(d, p) \in Seq(A)
<1> DEFINE N == Len(d.stages)
           list == [k \in Stages(d) |-> k]
           own == Kept(list, Inside(d, p))
           A == {d.stages[k].name : k \in 1 .. N}
<1>1. N \in Nat /\ Stages(d) = 1 .. N
  BY DEF IsDefinition, Stages
<1>2. list \in Seq(1 .. N)
  BY <1>1
<1>3. own \in Seq(1 .. N)
  <2> DEFINE S == Inside(d, p)
  <2>. HIDE DEF S, list
  <2>1. Kept(list, S) \in Seq(1 .. N)
    BY <1>2, KeptIn
  <2>. QED
    BY <2>1 DEF S
<1>. HIDE DEF own, list
<1>4. [j \in DOMAIN own |-> d.stages[own[j]].name] \in Seq(A)
  <2>1. Len(own) \in Nat /\ DOMAIN own = 1 .. Len(own) /\ \A j \in 1 .. Len(own) : own[j] \in 1 .. N
    BY <1>3
  <2>. HIDE DEF N
  <2>. QED
    BY <2>1
<1>. QED
  BY <1>4 DEF own, list, NamesIn

\* What Assemble builds is a Pipeline.
LEMMA Assembled ==
  ASSUME NEW d, IsDefinition(d), NEW o, o = TopoOrder(NamesIn(d, 0), DepsIn(d, 0)),
         NEW v, v = LevelsOf(o, DepsIn(d, 0))
  PROVE  /\ o \in Seq(MemberOf(o)) /\ NoRepeats(o)
         /\ DOMAIN v = 1 .. Len(v) /\ Len(v) \in Nat
         /\ \A l \in DOMAIN v : MemberOf(v[l]) \subseteq MemberOf(o)
<1> DEFINE g == DepsIn(d, 0)
           list == NamesIn(d, 0)
<1>1. PICK A : list \in Seq(A)
  BY NamesListed
<1>. HIDE DEF g, list
<1>2. o = TopoOrder(list, g) /\ v = LevelsOf(o, g)
  BY DEF g, list
<1>3. o \in Seq(A) /\ NoRepeats(o)
  BY <1>1, <1>2, TopoOrderLists
<1>4. o \in Seq(MemberOf(o))
  BY <1>3, OwnMembers
<1> DEFINE lvl == LevelMap(o, g)
           h == Above(MemberOf(lvl)) - 1
<1>5. h \in Nat /\ v = [l \in 1 .. h |-> Kept(o, AtLevel(o, lvl, l))]
  BY <1>2, <1>3, LevelsOfIs
<1>. HIDE DEF h, lvl
<1>6. DOMAIN v = 1 .. h /\ Len(v) = h
  BY <1>5
<1>7. ASSUME NEW l \in DOMAIN v PROVE MemberOf(v[l]) \subseteq MemberOf(o)
  <2> DEFINE S == AtLevel(o, lvl, l)
  <2>1. v[l] = Kept(o, S)
    BY <1>5, <1>6
  <2>. HIDE DEF S
  <2>2. MemberOf(Kept(o, S)) = MemberOf(o) \cap S
    BY <1>3, KeptIn
  <2>. QED
    BY <2>1, <2>2
<1>. QED
  BY <1>3, <1>4, <1>5, <1>6, <1>7

LEMMA BuiltKept == BuiltInv /\ [Next]_vars => BuiltInv'
<1>. SUFFICES ASSUME BuiltInv, [Next]_vars PROVE BuiltInv'
  OBVIOUS
<1>0. SourceInv'
  BY SourceKept DEF BuiltInv
<1>1. CASE Parsing
  <2>1. UNCHANGED <<def, step, built>>
    BY <1>1 DEF Parsing, build
  <2>2. ParsedInv'
    <3>1. CASE Decode
      <4>1. SecondParse' /\ UNCHANGED provider /\ phase' = "parsed" /\ provider \in Providers
        BY <1>0, <3>1 DEF SourceInv, BuiltInv, Decode, Fails, Returns
      <4>2. ASSUME failure' = "nil" PROVE IsDefinition(parsed'[1])
        <5>1. \/ parsed' = <<EmptyDef>>
              \/ Text # <<>> /\ Head(Text) # Bad /\ parsed' = Head(Text)
          BY <3>1, <4>2 DEF Decode, Fails, Returns
        <5>2. CASE parsed' = <<EmptyDef>>
          <6>1. parsed'[1] = EmptyDef
            BY <5>2
          <6>. QED
            BY <6>1, NothingIsDefinition, ConfigAssumption
        <5>3. CASE Text # <<>> /\ Head(Text) # Bad /\ parsed' = Head(Text)
          <6>1. /\ provider.how # "reader" => Text = provider.text
                /\ provider.how = "reader" => Text = provider.text \/ Text \in Seq(Later)
            BY <3>1, <5>3 DEF Text, BuiltInv, SourceInv, Left, Decode
          <6>2. provider.text \in Seq(MemberOf(provider.text))
            BY <4>1, SourceAssumption
          <6>3. \A t \in DOMAIN provider.text : provider.text[t] # Bad => IsDefinition(provider.text[t][1])
            BY <4>1, ConfigAssumption
          <6>4. \A x \in Later : x # Bad => IsDefinition(x[1])
            BY <6>3, ConfigAssumption DEF Later
          <6>5. Text = provider.text => Head(Text) = provider.text[1] /\ 1 \in DOMAIN provider.text
            BY <5>3, <6>2
          <6>6. Text \in Seq(Later) => Head(Text) \in Later
            BY <5>3
          <6>. QED
            BY <5>3, <6>1, <6>3, <6>4, <6>5, <6>6
        <5>. QED
          BY <5>1, <5>2, <5>3
      <4>. QED
        BY <4>2 DEF ParsedInv
    <3>2. CASE ~Decode
      <4>1. phase' = "parsed" => failure' # "nil"
        BY <1>1, <3>2
           DEF Parsing, SourceNext, ParseAgain, SourceStatic, SourceNil, SourceFile, SourceURL,
               ReadBody, Fails, Returns
      <4>. QED
        BY <4>1 DEF ParsedInv
    <3>. QED
      BY <3>1, <3>2
  <2>. QED
    BY <1>0, <2>1, <2>2 DEF BuiltInv
<1>2. CASE Load
  <2>1. /\ phase' = "loaded" /\ def' = parsed[1] /\ UNCHANGED <<step, built>>
        /\ IsDefinition(parsed[1])
    BY <1>2 DEF Load, BuiltInv, ParsedInv
  <2>. QED
    BY <1>0, <2>1 DEF BuiltInv, ParsedInv
<1>3. CASE \E o \in Options : StartBuild(o)
  <2>1. UNCHANGED <<phase, failure, parsed, def>> /\ step' \in {"refused", "hydrate"}
    BY <1>3 DEF StartBuild, Begin, source
  <2>. QED
    BY <1>0, <2>1 DEF BuiltInv, ParsedInv
<1>4. CASE Building
  <2>0. UNCHANGED <<phase, failure, parsed>>
    BY <1>4 DEF Building, source
  <2>1. CASE Constants
    <3>1. def' = def \/ def' = [def EXCEPT !.const = Hydrated(def.const)]
      BY <2>1 DEF Constants
    <3>2. step' # "built"
      BY <2>1 DEF Constants, Refuse
    <3>3. IsDefinition(def')
      <4>1. IsDefinition(def)
        BY DEF BuiltInv
      <4>2. ASSUME def' = [def EXCEPT !.const = Hydrated(def.const)] PROVE IsDefinition(def')
        <5> DEFINE c == Hydrated(def.const)
        <5>0. IsConstant(c)
          BY <4>1, HydratedIs DEF IsDefinition
        <5>. HIDE DEF c
        <5>1. def' = [stages |-> def.stages, const |-> c, schema |-> def.schema, version |-> def.version]
          BY <4>1, <4>2 DEF IsDefinition, c
        <5>2. /\ def'.stages = def.stages /\ def'.const = c
              /\ def'.schema = def.schema /\ def'.version = def.version
          BY <5>1
        <5>3. InTree(def')
          BY <4>1, <5>2 DEF IsDefinition, InTree
        <5>. QED
          BY <4>1, <5>0, <5>1, <5>2, <5>3 DEF IsDefinition
      <4>. QED
        BY <3>1, <4>1, <4>2
    <3>. QED
      BY <1>0, <2>0, <3>2, <3>3 DEF BuiltInv, ParsedInv
  <2>2. CASE Globals \/ Chains \/ LintAndSchema \/ BuildStage \/ FinishForEach \/ StagesDone \/ HashContent
    <3>1. def' = def
      BY <2>2 DEF Globals, Chains, LintAndSchema, BuildStage, FinishForEach, StagesDone, HashContent
    <3>2. step \in {"globals", "chains", "lint", "stages", "hash"}
      BY <2>2 DEF Globals, Chains, LintAndSchema, BuildStage, FinishForEach, StagesDone, HashContent
    <3>3. step' \in {step, "refused", "chains", "lint", "stages", "hash", "assemble"}
      <4>1. CASE Globals
        BY <4>1 DEF Globals, GoOn, Refuse
      <4>2. CASE Chains
        BY <4>2 DEF Chains, GoOn, Refuse
      <4>3. CASE LintAndSchema
        BY <4>3 DEF LintAndSchema, GoOn, Refuse
      <4>4. CASE BuildStage
        BY <4>4 DEF BuildStage, Refuse
      <4>5. CASE FinishForEach
        BY <4>5 DEF FinishForEach, Refuse
      <4>6. CASE StagesDone
        BY <4>6 DEF StagesDone, GoOn
      <4>7. CASE HashContent
        BY <4>7 DEF HashContent, GoOn, Refuse
      <4>. QED
        BY <2>2, <4>1, <4>2, <4>3, <4>4, <4>5, <4>6, <4>7
    <3>4. step' # "built"
      BY <3>2, <3>3
    <3>. QED
      BY <1>0, <2>0, <3>1, <3>4 DEF BuiltInv, ParsedInv
  <2>3. CASE Assemble
    <3>1. def' = def
      BY <2>3 DEF Assemble
    <3>2. ASSUME step' = "built" PROVE IsPipeline(built'[1])
      <4> DEFINE o == TopoOrder(NamesIn(def, 0), DepsIn(def, 0))
                 v == LevelsOf(o, DepsIn(def, 0))
      <4>1. /\ o \in Seq(MemberOf(o)) /\ NoRepeats(o)
            /\ DOMAIN v = 1 .. Len(v) /\ Len(v) \in Nat
            /\ \A l \in DOMAIN v : MemberOf(v[l]) \subseteq MemberOf(o)
        BY Assembled DEF BuiltInv
      <4>2. built'[1].order = o /\ built'[1].levels = v
        BY <2>3, <3>2 DEF Assemble, Refuse
      <4>. QED
        BY <4>1, <4>2 DEF IsPipeline
    <3>. QED
      BY <1>0, <2>0, <3>1, <3>2 DEF BuiltInv, ParsedInv
  <2>. QED
    BY <1>4, <2>1, <2>2, <2>3 DEF Building, BuildNext
<1>5. CASE \E e \in Edits : Change(e[2])
  <2>1. PICK e \in Edits : Change(e[2])
    BY <1>5
  <2>2. def' = e[2] /\ UNCHANGED <<phase, failure, parsed, step, built>>
    BY <2>1 DEF Change, Edit, source
  <2>. QED
    BY <1>0, <2>2, ConfigAssumption DEF BuiltInv, ParsedInv
<1>6. CASE Run \/ Done \/ UNCHANGED vars
  <2>1. UNCHANGED <<phase, failure, parsed, def, step, built>>
    BY <1>6 DEF Run, Done, vars, source, build
  <2>. QED
    BY <1>0, <2>1 DEF BuiltInv, ParsedInv
<1>. QED
  BY <1>1, <1>2, <1>3, <1>4, <1>5, <1>6 DEF Next

LEMMA BuiltFirst == Init => BuiltInv
<1>1. Init => SourceInv
  BY SourceAssumption DEF Init, SourceInit, SourceInv, NeverTruncated, SecondParse, Left
<1>. SUFFICES ASSUME Init PROVE BuiltInv
  OBVIOUS
<1>2. phase = "ready" /\ step = "idle" /\ def = NoStages
  BY DEF Init, SourceInit, BuildInit
<1>. QED
  BY <1>1, <1>2, NothingIsDefinition DEF BuiltInv, ParsedInv

\* Definitions are definitions, and a Pipeline that is run has its levels in its order.
LEMMA BuiltInvariant == Spec => []BuiltInv
  BY BuiltFirst, BuiltKept, PTL DEF Spec
-----------------------------------------------------------------------------
\* The runs so far, and what StageTimings says of them.
Aligned  == \A k \in DOMAIN runs :
              runs[k].wave => \A j \in {j \in DOMAIN runs : j < k} : runs[j].order = runs[k].order
OneOrder == \A j, k \in DOMAIN runs : runs[j].order = runs[k].order
AllInSequence == \A k \in DOMAIN runs : ~runs[k].wave
Prefix(o, m) == {o[j] : j \in 1 .. m}

\* Sequential runs of one pipeline have timed the first stages of its order, and list
\* them; a run in waves lists again what has been timed.
ListsInv ==
  /\ runs \in Seq(MemberOf(runs)) /\ reported \in Seq(MemberOf(reported))
  /\ \A k \in DOMAIN runs :
       runs[k].order \in Seq(MemberOf(runs[k].order)) /\ NoRepeats(runs[k].order)
  /\ times \subseteq UNION {MemberOf(runs[k].order) : k \in DOMAIN runs}
  /\ runs = <<>> => times = {} /\ reported = <<>>
  /\ Aligned => MemberOf(reported) = times
  /\ runs # <<>> /\ OneOrder /\ AllInSequence =>
       \E m \in 0 .. Len(runs[1].order) :
         times = Prefix(runs[1].order, m) /\ reported = SubSeq(runs[1].order, 1, m)
  /\ runs # <<>> /\ OneOrder /\ runs[Len(runs)].wave => reported = Kept(runs[1].order, times)

\* What is kept of a stretch of a list is the stretch.
LEMMA KeptStretch ==
  ASSUME NEW A, NEW o \in Seq(A), NoRepeats(o), NEW m \in 0 .. Len(o), NEW k \in m .. Len(o)
  PROVE  Kept(o, {o[j] : j \in m + 1 .. k}) = SubSeq(o, m + 1, k)
<1> DEFINE S == {o[j] : j \in m + 1 .. k}
           t == SubSeq(o, m + 1, k)
           s == Kept(o, S)
<1>0. Len(o) \in Nat /\ DOMAIN o = 1 .. Len(o) /\ m \in Nat /\ k \in Nat /\ m <= k /\ k <= Len(o)
  OBVIOUS
<1>1. /\ s \in Seq(A) /\ MemberOf(s) = MemberOf(o) \cap S
      /\ \A a, b \in DOMAIN s : a < b => FirstIndex(o, {s[a]}) < FirstIndex(o, {s[b]})
  <2>. HIDE DEF S
  <2>. QED
    BY KeptIs
<1>2. /\ t \in Seq(A) /\ Len(t) = k - m /\ DOMAIN t = 1 .. k - m
      /\ \A a \in 1 .. k - m : t[a] = o[m + a]
  BY <1>0
<1>. HIDE DEF s, t
<1>3. \A a \in 1 .. k - m : m + a \in DOMAIN o /\ m + a \in m + 1 .. k
  BY <1>0
<1>4. MemberOf(t) = S
  <2>1. \A j \in m + 1 .. k : j - m \in 1 .. k - m /\ m + (j - m) = j
    BY <1>0
  <2>2. \A j \in m + 1 .. k : t[j - m] = o[j]
    BY <1>2, <2>1
  <2>3. MemberOf(t) \subseteq S
    <3>1. \A a \in 1 .. k - m : t[a] \in S
      BY <1>2, <1>3
    <3>. HIDE DEF S
    <3>. QED
      BY <1>2, <3>1 DEF MemberOf
  <2>4. \A j \in m + 1 .. k : o[j] \in MemberOf(t)
    BY <1>2, <2>1, <2>2 DEF MemberOf
  <2>5. S \subseteq MemberOf(t)
    BY <2>4
  <2>. QED
    BY <2>3, <2>5
<1>5. S \subseteq MemberOf(o)
  BY <1>0 DEF MemberOf
<1>6. InOrderOf(o, t)
  <2>1. \A a \in DOMAIN t : FirstIndex(o, {t[a]}) = m + a
    BY <1>2, <1>3, PlaceOf
  <2>2. \A a, b \in DOMAIN t : a < b => m + a < m + b
    BY <1>0, <1>2
  <2>. QED
    BY <1>4, <1>5, <2>1, <2>2 DEF InOrderOf
<1>7. InOrderOf(o, s)
  BY <1>1 DEF InOrderOf
<1>8. s = t
  <2>1. MemberOf(s) = MemberOf(t)
    BY <1>1, <1>4, <1>5
  <2>. HIDE DEF S
  <2>. QED
    BY <1>1, <1>2, <1>6, <1>7, <2>1, SameListing
<1>. QED
  BY <1>8 DEF s, t

LEMMA ConcatMembers ==
  ASSUME NEW A, NEW s \in Seq(A), NEW t \in Seq(A)
  PROVE  s \o t \in Seq(A) /\ MemberOf(s \o t) = MemberOf(s) \union MemberOf(t)
<1> DEFINE u == s \o t
<1>1. /\ Len(s) \in Nat /\ Len(t) \in Nat /\ DOMAIN s = 1 .. Len(s) /\ DOMAIN t = 1 .. Len(t)
      /\ u \in Seq(A) /\ DOMAIN u = 1 .. Len(s) + Len(t)
      /\ \A j \in 1 .. Len(s) : u[j] = s[j]
      /\ \A j \in 1 .. Len(t) : u[Len(s) + j] = t[j]
  OBVIOUS
<1>. HIDE DEF u
<1>2. MemberOf(s) \subseteq MemberOf(u)
  <2>1. \A j \in 1 .. Len(s) : j \in DOMAIN u /\ u[j] = s[j]
    BY <1>1
  <2>. QED
    BY <1>1, <2>1 DEF MemberOf
<1>3. MemberOf(t) \subseteq MemberOf(u)
  <2>. SUFFICES ASSUME NEW y \in MemberOf(t) PROVE y \in MemberOf(u)
    OBVIOUS
  <2>1. PICK j \in 1 .. Len(t) : y = t[j]
    BY <1>1 DEF MemberOf
  <2>2. Len(s) + j \in DOMAIN u /\ u[Len(s) + j] = y
    BY <1>1, <2>1
  <2>. QED
    BY <2>2 DEF MemberOf
<1>4. ASSUME NEW j \in DOMAIN u PROVE u[j] \in MemberOf(s) \union MemberOf(t)
  <2>1. CASE j <= Len(s)
    <3>1. j \in DOMAIN s /\ u[j] = s[j]
      BY <1>1, <2>1
    <3>. QED
      BY <3>1 DEF MemberOf
  <2>2. CASE ~(j <= Len(s))
    <3>1. j - Len(s) \in DOMAIN t /\ Len(s) + (j - Len(s)) = j
      BY <1>1, <2>2
    <3>2. u[j] = t[j - Len(s)]
      BY <1>1, <3>1
    <3>. QED
      BY <3>1, <3>2 DEF MemberOf
  <2>. QED
    BY <2>1, <2>2
<1>5. MemberOf(u) \subseteq MemberOf(s) \union MemberOf(t)
  BY <1>4 DEF MemberOf
<1>. QED
  BY <1>1, <1>2, <1>3, <1>5 DEF u

\* A run of a pipeline with the order o times some of it, in sequence the first of it,
\* and lists what it has timed.
RunsAs(o, w, ran) ==
  /\ o \in Seq(MemberOf(o)) /\ NoRepeats(o) /\ ran \subseteq MemberOf(o)
  /\ ~w => \E k \in 0 .. Len(o) : ran = Prefix(o, k)
  /\ times' = times \union ran
  /\ reported' = IF w THEN IF times' = {} THEN reported ELSE Kept(o, times')
                 ELSE reported \o Kept(o, ran \ times)
  /\ runs' = Append(runs, [order |-> o, wave |-> w])

LEMMA RunStep ==
  ASSUME BuiltInv, Run
  PROVE  \E o, w, ran : RunsAs(o, w, ran)
<1> DEFINE p == built[1]
<1>1. /\ p.order \in Seq(MemberOf(p.order)) /\ NoRepeats(p.order)
      /\ DOMAIN p.levels = 1 .. Len(p.levels) /\ Len(p.levels) \in Nat
      /\ \A l \in DOMAIN p.levels : MemberOf(p.levels[l]) \subseteq MemberOf(p.order)
  BY DEF Run, BuiltInv, IsPipeline
<1>2. PICK ran \in Timed(p) :
        /\ times' = times \union ran
        /\ reported' = IF p.wave
                       THEN IF times' = {} THEN reported ELSE Kept(p.order, times')
                       ELSE reported \o Kept(p.order, ran \ times)
        /\ runs' = Append(runs, [order |-> p.order, wave |-> p.wave])
  BY DEF Run, Reordered, Listed
<1>. HIDE DEF p
<1>3. CASE p.wave
  <2> DEFINE Below(l) == UNION {MemberOf(p.levels[j]) : j \in 1 .. l - 1}
             Some(l)  == {Below(l) \union S : S \in SUBSET MemberOf(p.levels[l])}
  <2>0. ran \in UNION {Some(l) : l \in DOMAIN p.levels}
    <3> DEFINE W == UNION {Some(l) : l \in DOMAIN p.levels}
               Q == {{p.order[j] : j \in 1 .. k} : k \in 0 .. Len(p.order)}
    <3>0. Timed(p) = IF p.wave THEN W ELSE Q
      BY DEF Timed
    <3>1. Timed(p) = W
      <4>. HIDE DEF W, Q
      <4>. QED
        BY <1>3, <3>0
    <3>. HIDE DEF Some
    <3>. QED
      BY <1>2, <3>1
  <2>1. PICK l \in DOMAIN p.levels : ran \in Some(l)
    <3>. HIDE DEF Some
    <3>. QED
      BY <2>0
  <2>2. \A j \in 1 .. l - 1 : j \in DOMAIN p.levels
    BY <1>1
  <2>3. ran \subseteq MemberOf(p.order)
    <3>1. PICK S \in SUBSET MemberOf(p.levels[l]) : ran = Below(l) \union S
      <4>. HIDE DEF Below
      <4>. QED
        BY <2>1
    <3>2. Below(l) \subseteq MemberOf(p.order)
      BY <1>1, <2>2
    <3>. HIDE DEF Below
    <3>. QED
      BY <1>1, <3>1, <3>2
  <2>4. RunsAs(p.order, p.wave, ran)
    BY <1>1, <1>2, <1>3, <2>3 DEF RunsAs
  <2>. QED
    BY <2>4
<1>4. CASE ~p.wave
  <2>1. PICK k \in 0 .. Len(p.order) : ran = Prefix(p.order, k)
    BY <1>2, <1>4 DEF Timed, Prefix
  <2>2. ran \subseteq MemberOf(p.order)
    <3>1. \A j \in 1 .. k : j \in DOMAIN p.order
      BY <1>1
    <3>. QED
      BY <2>1, <3>1 DEF Prefix, MemberOf
  <2>3. RunsAs(p.order, p.wave, ran)
    BY <1>1, <1>2, <1>4, <2>1, <2>2 DEF RunsAs
  <2>. QED
    BY <2>3
<1>. QED
  BY <1>3, <1>4

\* The list of the first m stages, and what a run of the first k adds to it.
LEMMA SequenceListed ==
  ASSUME NEW A, NEW o \in Seq(A), NoRepeats(o), NEW m \in 0 .. Len(o), NEW k \in 0 .. Len(o)
  PROVE  \E n \in 0 .. Len(o) :
           /\ Prefix(o, m) \union Prefix(o, k) = Prefix(o, n)
           /\ SubSeq(o, 1, m) \o Kept(o, Prefix(o, k) \ Prefix(o, m)) = SubSeq(o, 1, n)
<1>1. Len(o) \in Nat /\ DOMAIN o = 1 .. Len(o) /\ m \in Nat /\ k \in Nat /\ m <= Len(o) /\ k <= Len(o)
  OBVIOUS
<1>2. CASE k <= m
  <2>1. Prefix(o, k) \subseteq Prefix(o, m)
    <3>1. 1 .. k \subseteq 1 .. m
      BY <1>1, <1>2
    <3>. QED
      BY <3>1 DEF Prefix
  <2>2. Prefix(o, k) \ Prefix(o, m) = {} /\ Prefix(o, m) \union Prefix(o, k) = Prefix(o, m)
    BY <2>1
  <2>3. {o[j] : j \in Len(o) + 1 .. Len(o)} = {} /\ SubSeq(o, Len(o) + 1, Len(o)) = <<>>
    BY <1>1
  <2>4. Kept(o, {}) = <<>>
    <3>1. Kept(o, {o[j] : j \in Len(o) + 1 .. Len(o)}) = SubSeq(o, Len(o) + 1, Len(o))
      BY <1>1, KeptStretch
    <3>. QED
      BY <2>3, <3>1
  <2>5. SubSeq(o, 1, m) \o <<>> = SubSeq(o, 1, m)
    BY <1>1
  <2>. QED
    BY <2>2, <2>4, <2>5
<1>3. CASE ~(k <= m)
  <2>1. k \in m .. Len(o) /\ m \in 0 .. Len(o)
    BY <1>1, <1>3
  <2>2. Prefix(o, m) \union Prefix(o, k) = Prefix(o, k)
    <3>1. 1 .. m \subseteq 1 .. k
      BY <1>1, <1>3
    <3>. QED
      BY <3>1 DEF Prefix
  <2>3. Prefix(o, k) \ Prefix(o, m) = {o[j] : j \in m + 1 .. k}
    <3>1. \A j \in 1 .. k : o[j] \in Prefix(o, m) <=> j \in 1 .. m
      BY <1>1, <2>1 DEF Prefix, NoRepeats
    <3>2. \A j : j \in m + 1 .. k <=> j \in 1 .. k /\ j \notin 1 .. m
      BY <1>1, <2>1
    <3>. QED
      BY <3>1, <3>2 DEF Prefix
  <2>4. Kept(o, {o[j] : j \in m + 1 .. k}) = SubSeq(o, m + 1, k)
    BY <2>1, KeptStretch
  <2>5. SubSeq(o, 1, m) \o SubSeq(o, m + 1, k) = SubSeq(o, 1, k)
    BY <1>1, <2>1, ConcatAdjacentSubSeq
  <2>. QED
    BY <2>2, <2>3, <2>4, <2>5
<1>. QED
  BY <1>2, <1>3

\* A list without members is empty.
LEMMA NoMembers == ASSUME NEW A, NEW s \in Seq(A), MemberOf(s) = {} PROVE s = <<>>
<1>1. Len(s) \in Nat /\ DOMAIN s = 1 .. Len(s) /\ \A j \in DOMAIN s : s[j] \in MemberOf(s)
  BY DEF MemberOf
<1>2. Len(s) = 0
  BY <1>1
<1>. QED
  BY <1>2

\* A run is noted after the runs before it.
LEMMA RunNoted ==
  ASSUME ListsInv, NEW o, NEW w, NEW ran, RunsAs(o, w, ran)
  PROVE  /\ Len(runs) \in Nat /\ DOMAIN runs = 1 .. Len(runs)
         /\ runs' \in Seq(MemberOf(runs')) /\ DOMAIN runs' = 1 .. Len(runs) + 1
         /\ Len(runs') = Len(runs) + 1 /\ runs' # <<>>
         /\ runs'[Len(runs) + 1].order = o /\ runs'[Len(runs) + 1].wave = w
         /\ \A j \in 1 .. Len(runs) : runs'[j] = runs[j]
<1> DEFINE e == [order |-> o, wave |-> w]
           S == MemberOf(runs) \union {e}
<1>1. e.order = o /\ e.wave = w /\ e \in S
  OBVIOUS
<1>2. runs \in Seq(S)
  <2>1. Len(runs) \in Nat /\ runs \in Seq(MemberOf(runs)) /\ MemberOf(runs) \subseteq S
    BY DEF ListsInv
  <2>. HIDE DEF S
  <2>. QED
    BY <2>1
<1>3. runs' = Append(runs, e)
  BY DEF RunsAs
<1>. HIDE DEF S, e
<1>4. /\ Append(runs, e) \in Seq(S) /\ Len(runs) \in Nat /\ DOMAIN runs = 1 .. Len(runs)
      /\ Len(Append(runs, e)) = Len(runs) + 1 /\ DOMAIN Append(runs, e) = 1 .. Len(runs) + 1
      /\ Append(runs, e)[Len(runs) + 1] = e
      /\ \A j \in 1 .. Len(runs) : Append(runs, e)[j] = runs[j]
  BY <1>1, <1>2, AppendIn
<1>5. Append(runs, e) \in Seq(MemberOf(Append(runs, e)))
  BY <1>4, OwnMembers
<1>6. runs' # <<>>
  <2>1. Len(runs') # 0
    BY <1>3, <1>4
  <2>. QED
    BY <2>1
<1>. QED
  BY <1>1, <1>3, <1>4, <1>5, <1>6

LEMMA RunListed ==
  ASSUME ListsInv, NEW o, NEW w, NEW ran, RunsAs(o, w, ran)
  PROVE  ListsInv'
<1> DEFINE n == Len(runs)
<1>1. /\ n \in Nat /\ DOMAIN runs = 1 .. n
      /\ runs' \in Seq(MemberOf(runs')) /\ DOMAIN runs' = 1 .. n + 1
      /\ Len(runs') = n + 1 /\ runs' # <<>>
      /\ runs'[n + 1].order = o /\ runs'[n + 1].wave = w
      /\ \A j \in 1 .. n : runs'[j] = runs[j]
  BY RunNoted
<1>2. /\ o \in Seq(MemberOf(o)) /\ NoRepeats(o) /\ ran \subseteq MemberOf(o)
      /\ times' = times \union ran
  BY DEF RunsAs
<1>. HIDE DEF n
<1>3. (\A j \in 1 .. n : j \in 1 .. n + 1 /\ j < n + 1) /\ n + 1 \in 1 .. n + 1
      /\ \A j \in 1 .. n + 1 : j \in 1 .. n \/ j = n + 1
  BY <1>1
<1>4. runs = <<>> <=> n = 0
  BY <1>1 DEF n, ListsInv
<1>5. \A j \in DOMAIN runs' :
        runs'[j].order \in Seq(MemberOf(runs'[j].order)) /\ NoRepeats(runs'[j].order)
  BY <1>1, <1>2, <1>3 DEF ListsInv
<1>6. times' \subseteq UNION {MemberOf(runs'[j].order) : j \in DOMAIN runs'}
  <2>1. ASSUME NEW x \in times PROVE \E j \in DOMAIN runs' : x \in MemberOf(runs'[j].order)
    <3>1. PICK j \in DOMAIN runs : x \in MemberOf(runs[j].order)
      BY DEF ListsInv
    <3>. QED
      BY <1>1, <1>3, <3>1
  <2>2. ASSUME NEW x \in ran PROVE \E j \in DOMAIN runs' : x \in MemberOf(runs'[j].order)
    BY <1>1, <1>2, <1>3
  <2>. QED
    BY <1>2, <2>1, <2>2
\* Runs that agree after this one agreed before it.
<1>7. Aligned' => Aligned /\ (w => \A j \in 1 .. n : runs[j].order = o)
  <2>. SUFFICES ASSUME Aligned' PROVE Aligned /\ (w => \A j \in 1 .. n : runs[j].order = o)
    OBVIOUS
  <2>1. \A k \in 1 .. n + 1 : runs'[k].wave =>
          \A j \in 1 .. n + 1 : j < k => runs'[j].order = runs'[k].order
    BY <1>1 DEF Aligned
  <2>2. Aligned
    BY <1>1, <1>3, <2>1 DEF Aligned
  <2>. QED
    BY <1>1, <1>3, <2>1, <2>2
<1>8. OneOrder' => OneOrder /\ Aligned /\ runs'[1].order = o /\ \A j \in 1 .. n : runs[j].order = o
  <2>. SUFFICES ASSUME OneOrder' PROVE OneOrder /\ Aligned /\ runs'[1].order = o /\ \A j \in 1 .. n : runs[j].order = o
    OBVIOUS
  <2>1. \A j, k \in 1 .. n + 1 : runs'[j].order = runs'[k].order
    BY <1>1 DEF OneOrder
  <2>2. 1 \in 1 .. n + 1
    BY <1>1
  <2>. QED
    BY <1>1, <1>3, <2>1, <2>2 DEF OneOrder, Aligned
<1>9. AllInSequence' => AllInSequence /\ ~w
  <2>. SUFFICES ASSUME AllInSequence' PROVE AllInSequence /\ ~w
    OBVIOUS
  <2>1. \A k \in 1 .. n + 1 : ~runs'[k].wave
    BY <1>1 DEF AllInSequence
  <2>. QED
    BY <1>1, <1>3, <2>1 DEF AllInSequence
\* What is listed.
<1>10. CASE w
  <2>1. reported' = IF times' = {} THEN reported ELSE Kept(o, times')
    BY <1>10 DEF RunsAs
  <2>2. \A S : Kept(o, S) \in Seq(MemberOf(o)) /\ MemberOf(Kept(o, S)) = MemberOf(o) \cap S
    BY <1>2, KeptIn
  <2>3. reported' \in Seq(MemberOf(reported'))
    <3>1. Kept(o, times') \in Seq(MemberOf(Kept(o, times')))
      BY <2>2, OwnMembers
    <3>. QED
      BY <2>1, <3>1 DEF ListsInv
  <2>4. Aligned' => MemberOf(reported') = times'
    <3>. SUFFICES ASSUME Aligned' PROVE MemberOf(reported') = times'
      OBVIOUS
    <3>1. Aligned /\ \A j \in 1 .. n : runs[j].order = o
      BY <1>7, <1>10
    <3>2. times \subseteq MemberOf(o)
      BY <1>1, <3>1 DEF ListsInv
    <3>3. times' \subseteq MemberOf(o)
      BY <1>2, <3>2
    <3>4. MemberOf(reported) = times
      BY <3>1 DEF ListsInv
    <3>. QED
      BY <1>2, <2>1, <2>2, <3>3, <3>4
  <2>5. OneOrder' => reported' = Kept(runs'[1].order, times')
    <3>. SUFFICES ASSUME OneOrder' PROVE reported' = Kept(o, times')
      BY <1>8
    <3>1. CASE times' = {}
      <4>1. MemberOf(reported) = {} /\ MemberOf(Kept(o, {})) = {}
        BY <1>2, <1>8, <2>2, <3>1 DEF ListsInv
      <4>2. reported = <<>> /\ Kept(o, {}) = <<>>
        BY <2>2, <4>1, NoMembers DEF ListsInv
      <4>. QED
        BY <2>1, <3>1, <4>2
    <3>2. CASE times' # {}
      BY <2>1, <3>2
    <3>. QED
      BY <3>1, <3>2
  <2>. QED
    BY <1>1, <1>5, <1>6, <1>9, <1>10, <2>3, <2>4, <2>5 DEF ListsInv
<1>11. CASE ~w
  <2>1. PICK k \in 0 .. Len(o) : ran = Prefix(o, k)
    BY <1>11 DEF RunsAs
  <2> DEFINE S == ran \ times
             new == Kept(o, S)
  <2>2. reported' = reported \o new
    BY <1>11 DEF RunsAs
  <2>3. new \in Seq(MemberOf(o)) /\ MemberOf(new) = S
    <3>1. S \subseteq MemberOf(o)
      BY <1>2
    <3>. HIDE DEF S
    <3>2. Kept(o, S) \in Seq(MemberOf(o)) /\ MemberOf(Kept(o, S)) = MemberOf(o) \cap S
      BY <1>2, KeptIn
    <3>. QED
      BY <3>1, <3>2
  <2>4. reported' \in Seq(MemberOf(reported')) /\ MemberOf(reported') = MemberOf(reported) \union S
    <3> DEFINE B == MemberOf(reported) \union MemberOf(o)
    <3>1. reported \in Seq(B) /\ new \in Seq(B)
      <4>1. MemberOf(reported) \subseteq B /\ MemberOf(o) \subseteq B /\ reported \in Seq(MemberOf(reported))
        BY DEF ListsInv
      <4>. HIDE DEF B, new
      <4>. QED
        BY <2>3, <4>1
    <3>. HIDE DEF B, new, S
    <3>2. reported \o new \in Seq(B) /\ MemberOf(reported \o new) = MemberOf(reported) \union MemberOf(new)
      BY <3>1, ConcatMembers
    <3>3. reported \o new \in Seq(MemberOf(reported \o new))
      BY <3>2, OwnMembers
    <3>. QED
      BY <2>2, <2>3, <3>2, <3>3
  <2>5. Aligned' => MemberOf(reported') = times'
    BY <1>2, <1>7, <2>4 DEF ListsInv
  <2>6. OneOrder' /\ AllInSequence' =>
          \E m \in 0 .. Len(runs'[1].order) :
            times' = Prefix(runs'[1].order, m) /\ reported' = SubSeq(runs'[1].order, 1, m)
    <3>. SUFFICES ASSUME OneOrder', AllInSequence'
                  PROVE  \E m \in 0 .. Len(o) : times' = Prefix(o, m) /\ reported' = SubSeq(o, 1, m)
      BY <1>8
    <3>1. PICK m \in 0 .. Len(o) : times = Prefix(o, m) /\ reported = SubSeq(o, 1, m)
      <4>1. CASE n = 0
        <5>1. times = {} /\ reported = <<>>
          BY <1>4, <4>1 DEF ListsInv
        <5>2. 0 \in 0 .. Len(o) /\ 1 .. 0 = {} /\ SubSeq(o, 1, 0) = <<>>
          BY <1>2
        <5>3. Prefix(o, 0) = {}
          BY <5>2 DEF Prefix
        <5>. QED
          BY <5>1, <5>2, <5>3
      <4>2. CASE n # 0
        <5>1. runs # <<>> /\ OneOrder /\ AllInSequence
          BY <1>4, <1>8, <1>9, <4>2
        <5>2. 1 \in 1 .. n
          BY <1>1, <4>2
        <5>3. runs[1].order = o
          BY <1>8, <5>2
        <5>. QED
          BY <5>1, <5>3 DEF ListsInv
      <4>. QED
        BY <4>1, <4>2
    <3>2. PICK q \in 0 .. Len(o) :
             /\ Prefix(o, m) \union Prefix(o, k) = Prefix(o, q)
             /\ SubSeq(o, 1, m) \o Kept(o, Prefix(o, k) \ Prefix(o, m)) = SubSeq(o, 1, q)
      BY <1>2, SequenceListed
    <3>. QED
      BY <1>2, <2>1, <2>2, <3>1, <3>2
  <2>. HIDE DEF S, new
  <2>. QED
    BY <1>1, <1>5, <1>6, <1>11, <2>4, <2>5, <2>6 DEF ListsInv
<1>. QED
  BY <1>10, <1>11

LEMMA ListsKept == BuiltInv /\ ListsInv /\ [Next]_vars => ListsInv'
<1>. SUFFICES ASSUME BuiltInv, ListsInv, [Next]_vars PROVE ListsInv'
  OBVIOUS
<1>1. CASE Run
  BY <1>1, RunStep, RunListed
<1>2. CASE UNCHANGED scope
  <2>1. UNCHANGED <<times, reported, runs>>
    BY <1>2 DEF scope
  <2>2. Aligned' <=> Aligned
    BY <2>1 DEF Aligned
  <2>3. (OneOrder' <=> OneOrder) /\ (AllInSequence' <=> AllInSequence)
    BY <2>1 DEF OneOrder, AllInSequence
  <2>. QED
    BY <2>1, <2>2, <2>3 DEF ListsInv
<1>3. CASE Parsing \/ Load \/ (\E o \in Options : StartBuild(o)) \/ Building
  BY <1>2, <1>3 DEF Parsing, Load, StartBuild, Building
<1>4. CASE (\E e \in Edits : Change(e[2])) \/ Done \/ UNCHANGED vars
  BY <1>2, <1>4 DEF Change, Done, vars
<1>. QED
  BY <1>1, <1>3, <1>4 DEF Next

LEMMA ListsFirst == Init => ListsInv
<1>. SUFFICES ASSUME Init PROVE ListsInv
  OBVIOUS
<1>1. runs = <<>> /\ times = {} /\ reported = <<>>
  BY DEF Init
<1>2. /\ <<>> \in Seq(MemberOf(<<>>)) /\ MemberOf(<<>>) = {} /\ DOMAIN <<>> = {}
  BY DEF MemberOf
<1>. QED
  BY <1>1, <1>2 DEF ListsInv

\* StageTimings lists what was timed, and in the order of the run, unless a run in
\* waves was of another Pipeline than the runs before it.
THEOREM StagesAreReported == Spec => []ReportedCoversTimes
<1>1. ListsInv => ReportedCoversTimes
  <2>. SUFFICES ASSUME ListsInv PROVE ReportedCoversTimes
    OBVIOUS
  <2>1. ASSUME runs # <<>>, OneOrder, AllInSequence PROVE reported = Kept(runs[1].order, times)
    <3> DEFINE o == runs[1].order
    <3>1. o \in Seq(MemberOf(o)) /\ NoRepeats(o)
      <4>1. 1 \in DOMAIN runs
        BY <2>1 DEF ListsInv
      <4>. QED
        BY <4>1 DEF ListsInv
    <3>2. PICK m \in 0 .. Len(o) : times = Prefix(o, m) /\ reported = SubSeq(o, 1, m)
      BY <2>1 DEF ListsInv
    <3>. HIDE DEF o
    <3>3. 0 \in 0 .. Len(o) /\ m \in 0 .. Len(o) /\ 0 + 1 = 1
      BY <3>1
    <3>4. Kept(o, {o[j] : j \in 0 + 1 .. m}) = SubSeq(o, 0 + 1, m)
      BY <3>1, <3>3, KeptStretch
    <3>. QED
      BY <3>2, <3>3, <3>4 DEF Prefix, o
  <2>2. OneOrder <=> \A j, k \in DOMAIN runs : runs[j].order = runs[k].order
    BY DEF OneOrder
  <2>3. AllInSequence <=> \A k \in DOMAIN runs : ~runs[k].wave
    BY DEF AllInSequence
  <2>4. Aligned <=> \A k \in DOMAIN runs : runs[k].wave =>
                       \A j \in {j \in DOMAIN runs : j < k} : runs[j].order = runs[k].order
    BY DEF Aligned
  <2>5. Aligned => MemberOf(reported) = times
    BY DEF ListsInv
  <2>6. runs # <<>> /\ OneOrder /\ runs[Len(runs)].wave => reported = Kept(runs[1].order, times)
    BY DEF ListsInv
  <2>. QED
    BY <2>1, <2>2, <2>3, <2>4, <2>5, <2>6 DEF ReportedCoversTimes
<1>2. Spec => []BuiltInv
  BY BuiltInvariant
<1>. QED
  BY <1>1, <1>2, ListsFirst, ListsKept, PTL DEF Spec
-----------------------------------------------------------------------------
\* Lint.

LEMMA FirstOfIs ==
  ASSUME NEW S, S \subseteq Nat, S # {}
  PROVE  FirstOf(S) \in S /\ \A k \in S : FirstOf(S) <= k
<1>1. \E j \in S : \A k \in S : j <= k
  BY LeastOfNats
<1>. QED
  BY <1>1 DEF FirstOf

\* A rule after a catch-all fires for no outcome of the conditions.
LEMMA AfterCatchAll ==
  ASSUME NEW s, s.rules \in Seq(BOOLEAN), NEW v \in Outcomes(s), NEW j \in Unreachable(s)
  PROVE  j \notin Fires(s, v)
<1> DEFINE matched == {k \in DOMAIN s.rules : v[k]}
<1>1. DOMAIN s.rules \subseteq Nat
  OBVIOUS
<1>2. PICK c \in CatchAlls(s) : c < j
  BY DEF Unreachable
<1>3. c \in matched /\ c \in Nat /\ matched \subseteq Nat /\ j \in Nat
  BY <1>1, <1>2 DEF Outcomes, CatchAlls, Unreachable
<1>4. Fires(s, v) \subseteq {FirstOf(matched)}
  BY DEF Fires
<1>. HIDE DEF matched
<1>5. FirstOf(matched) <= c /\ FirstOf(matched) \in Nat
  BY <1>3, FirstOfIs
<1>. QED
  BY <1>2, <1>3, <1>4, <1>5

\* Any other rule fires if it matches, and besides it only what always does.
LEMMA NotAfterCatchAll ==
  ASSUME NEW s, s.rules \in Seq(BOOLEAN), FirstMatch(s), s.hit # "unique",
         NEW j \in DOMAIN s.rules, j \notin Unreachable(s)
  PROVE  \E v \in Outcomes(s) : j \in Fires(s, v)
<1> DEFINE v == [k \in DOMAIN s.rules |-> k = j \/ s.rules[k]]
           matched == {k \in DOMAIN s.rules : v[k]}
<1>1. DOMAIN s.rules \subseteq Nat /\ \A k \in DOMAIN s.rules : s.rules[k] \in BOOLEAN
  OBVIOUS
<1>2. v \in Outcomes(s)
  <2>1. v \in [DOMAIN s.rules -> BOOLEAN]
    BY <1>1
  <2>2. \A c \in CatchAlls(s) : v[c]
    BY DEF CatchAlls
  <2>. HIDE DEF v
  <2>. QED
    BY <2>1, <2>2 DEF Outcomes
<1>3. matched = {j} \union CatchAlls(s)
  BY DEF CatchAlls
<1>4. \A c \in CatchAlls(s) : ~(c < j)
  BY DEF Unreachable
<1>5. Fires(s, v) = {FirstOf(matched)}
  <2>1. matched # {}
    BY <1>3
  <2>2. Fires(s, v) = IF matched = {} \/ (s.hit = "unique" /\ Cardinality(matched) > 1) THEN {} ELSE {FirstOf(matched)}
    BY DEF Fires
  <2>. HIDE DEF matched
  <2>. QED
    BY <2>1, <2>2
<1>6. matched \subseteq Nat /\ j \in Nat
  BY <1>1
<1>. HIDE DEF matched, v
<1>7. FirstOf(matched) \in matched /\ FirstOf(matched) <= j
  BY <1>3, <1>6, FirstOfIs
<1>8. FirstOf(matched) = j
  BY <1>3, <1>4, <1>6, <1>7
<1>. QED
  BY <1>2, <1>5, <1>8

\* Without a default, nothing is written exactly if no rule matches.
LEMMA NothingMatches ==
  ASSUME NEW s, s.rules \in Seq(BOOLEAN)
  PROVE  CatchAlls(s) = {} <=> \E v \in Outcomes(s) : \A j \in DOMAIN s.rules : ~v[j]
<1>1. ASSUME CatchAlls(s) = {} PROVE \E v \in Outcomes(s) : \A j \in DOMAIN s.rules : ~v[j]
  <2> DEFINE v == [k \in DOMAIN s.rules |-> FALSE]
  <2>1. v \in [DOMAIN s.rules -> BOOLEAN] /\ \A j \in DOMAIN s.rules : ~v[j]
    OBVIOUS
  <2>. HIDE DEF v
  <2>2. v \in Outcomes(s)
    BY <1>1, <2>1 DEF Outcomes
  <2>. QED
    BY <2>1, <2>2
<1>2. ASSUME NEW v \in Outcomes(s), \A j \in DOMAIN s.rules : ~v[j] PROVE CatchAlls(s) = {}
  BY <1>2 DEF Outcomes, CatchAlls
<1>. QED
  BY <1>1, <1>2

\* Lint reports the rules that fire for no outcome of the conditions, and the tables
\* that may write nothing: what it reports is so, and no such rule of a table where
\* the first match wins is missed, whatever the definition.
THEOREM LintIsRight == Spec => []LintFindsTheGaps
<1>1. BuiltInv => LintFindsTheGaps
  <2>. SUFFICES ASSUME BuiltInv, NEW k \in {k \in Tables(def) : FirstMatch(def.stages[k])},
                       NEW s, s = def.stages[k], NEW never, never = DOMAIN s.rules \ UNION {Fires(s, v) : v \in Outcomes(s)}
                PROVE  /\ Unreachable(s) \subseteq never
                       /\ s.hit # "unique" => Unreachable(s) = never
                       /\ MissingDefault(s) <=> (~HasDefault(s) /\ \E v \in Outcomes(s) : \A j \in DOMAIN s.rules : ~v[j])
    BY DEF LintFindsTheGaps
  <2>1. s.rules \in Seq(BOOLEAN) /\ FirstMatch(s)
    BY DEF BuiltInv, IsDefinition, IsStage, Tables, Inside, Stages
  <2>2. Unreachable(s) \subseteq never
    <3>1. Unreachable(s) \subseteq DOMAIN s.rules
      BY DEF Unreachable
    <3>. QED
      BY <2>1, <3>1, AfterCatchAll
  <2>3. ASSUME s.hit # "unique" PROVE never \subseteq Unreachable(s)
    BY <2>1, <2>3, NotAfterCatchAll
  <2>4. MissingDefault(s) <=> (~HasDefault(s) /\ \E v \in Outcomes(s) : \A j \in DOMAIN s.rules : ~v[j])
    BY <2>1, NothingMatches DEF MissingDefault
  <2>. QED
    BY <2>2, <2>3, <2>4
<1>. QED
  BY <1>1, BuiltInvariant, PTL
-----------------------------------------------------------------------------
\* Decimals: a coefficient and a scale, with and without trailing zeros.

Growing(f, n) == f \in [0 .. n -> Nat] /\ f[0] = 1 /\ \A k \in 1 .. n : f[k] = 10 * f[k - 1]

LEMMA TensLoop ==
  ASSUME NEW n \in Nat
  PROVE  \E f : Growing(f, n) /\ Tens(n) = f[n]
<1> DEFINE Body(f) == [k \in 0 .. n |-> IF k = 0 THEN 1 ELSE 10 * f[k - 1]]
           next == [k \in 1 .. n |-> [x \in Nat |-> 10 * x]]
<1>1. PICK f : Iterated(f, n, Nat, 1, next)
  <2>1. next \in [1 .. n -> [Nat -> Nat]]
    OBVIOUS
  <2>. HIDE DEF next
  <2>. QED
    BY <2>1, Iterates
<1>2. f \in [0 .. n -> Nat] /\ f[0] = 1 /\ \A k \in 1 .. n : f[k] = 10 * f[k - 1]
  <2>1. f \in [0 .. n -> Nat] /\ f[0] = 1 /\ \A k \in 1 .. n : f[k] = next[k][f[k - 1]]
    BY <1>1 DEF Iterated
  <2>2. \A k \in 1 .. n : k - 1 \in 0 .. n
    OBVIOUS
  <2>. QED
    BY <2>1, <2>2
<1>3. f = Body(f)
  <2>1. \A k \in 0 .. n : f[k] = IF k = 0 THEN 1 ELSE 10 * f[k - 1]
    <3>1. \A k \in 0 .. n : k = 0 \/ k \in 1 .. n
      OBVIOUS
    <3>. QED
      BY <1>2, <3>1
  <2>2. f = [k \in 0 .. n |-> f[k]]
    BY <1>2
  <2>. QED
    BY <2>1, <2>2
<1> DEFINE h == CHOOSE g : g = Body(g)
<1>4. h = Body(h)
  BY <1>3
<1>5. Tens(n) = h[n]
  BY DEF Tens
<1>. HIDE DEF h
<1>6. DOMAIN h = 0 .. n /\ h[0] = 1 /\ \A k \in 1 .. n : h[k] = 10 * h[k - 1]
  <2>1. DOMAIN h = 0 .. n /\ 0 \in 0 .. n
    BY <1>4
  <2>2. \A k \in 0 .. n : h[k] = IF k = 0 THEN 1 ELSE 10 * h[k - 1]
    BY <1>4
  <2>3. \A k \in 1 .. n : k \in 0 .. n /\ k # 0
    OBVIOUS
  <2>. QED
    BY <2>1, <2>2, <2>3
<1>7. 0 .. n \subseteq {k \in 0 .. n : h[k] \in Nat}
  <2> DEFINE G == {k \in 0 .. n : h[k] \in Nat}
  <2>1. 0 \in G
    BY <1>6
  <2>2. \A k \in 1 .. n : k - 1 \in G => k \in G
    BY <1>6
  <2>. HIDE DEF G
  <2>3. 0 .. n \subseteq G
    BY <2>1, <2>2, UptoInduction
  <2>. QED
    BY <2>3 DEF G
<1>8. h = [k \in 0 .. n |-> h[k]]
  BY <1>4
<1>. QED
  BY <1>5, <1>6, <1>7, <1>8 DEF Growing

LEMMA TensIs ==
  /\ Tens(0) = 1
  /\ \A n \in Nat : Tens(n) \in Nat /\ Tens(n) > 0 /\ Tens(n + 1) = 10 * Tens(n)
<1>1. Tens(0) = 1
  BY TensLoop DEF Growing
<1>2. ASSUME NEW n \in Nat PROVE Tens(n) \in Nat /\ Tens(n) > 0 /\ Tens(n + 1) = 10 * Tens(n)
  <2>1. PICK f : Growing(f, n) /\ Tens(n) = f[n]
    BY TensLoop
  <2>2. PICK g : Growing(g, n + 1) /\ Tens(n + 1) = g[n + 1]
    BY TensLoop
  <2> DEFINE G == {k \in 0 .. n : f[k] = g[k] /\ f[k] \in Nat /\ f[k] > 0}
  <2>3. 0 \in G
    BY <2>1, <2>2 DEF Growing
  <2>4. ASSUME NEW k \in 1 .. n, k - 1 \in G PROVE k \in G
    <3>1. k \in 1 .. n + 1 /\ k \in 0 .. n
      OBVIOUS
    <3>2. f[k] = 10 * f[k - 1] /\ g[k] = 10 * g[k - 1]
      BY <2>1, <2>2, <3>1 DEF Growing
    <3>. QED
      BY <2>4, <3>1, <3>2
  <2>. HIDE DEF G
  <2>5. 0 .. n \subseteq G
    BY <2>3, <2>4, UptoInduction
  <2>6. n \in G
    BY <2>5
  <2>7. g[n + 1] = 10 * g[n]
    <3>1. n + 1 \in 1 .. n + 1 /\ (n + 1) - 1 = n
      OBVIOUS
    <3>. QED
      BY <2>2, <3>1 DEF Growing
  <2>. QED
    BY <2>1, <2>2, <2>6, <2>7 DEF G
<1>. QED
  BY <1>1, <1>2

LEMMA TensSum ==
  ASSUME NEW m \in Nat, NEW n \in Nat
  PROVE  Tens(m + n) = Tens(m) * Tens(n)
<1> DEFINE G == {k \in 0 .. n : Tens(m + k) = Tens(m) * Tens(k)}
<1>1. 0 \in G
  BY TensIs
<1>2. ASSUME NEW k \in 1 .. n, k - 1 \in G PROVE k \in G
  <2> DEFINE j == k - 1
  <2>1. j \in Nat /\ k = j + 1 /\ m + k = (m + j) + 1 /\ m + j \in Nat
    OBVIOUS
  <2>2. Tens(m + j) = Tens(m) * Tens(j)
    BY <1>2
  <2>. HIDE DEF j
  <2>3. Tens(k) = 10 * Tens(j) /\ Tens(m + k) = 10 * Tens(m + j)
    BY <2>1, TensIs
  <2>4. Tens(m) \in Nat /\ Tens(j) \in Nat
    BY <2>1, TensIs
  <2>5. \A x, y \in Nat : 10 * (x * y) = x * (10 * y)
    OBVIOUS
  <2>. QED
    BY <2>2, <2>3, <2>4, <2>5
<1>. HIDE DEF G
<1>3. 0 .. n \subseteq G
  BY <1>1, <1>2, UptoInduction
<1>4. n \in G
  BY <1>3
<1>. QED
  BY <1>4 DEF G

\* One trailing zero less, if there is one after the point.
Trimmed(p) == IF p[2] > 0 /\ p[1] % 10 = 0 THEN <<p[1] \div 10, p[2] - 1>> ELSE p

LEMMA TrimLoop ==
  ASSUME NEW n \in Int, NEW m \in Nat
  PROVE  \E f : /\ f[0] = <<n, m>> /\ \A k \in 1 .. m : f[k] = Trimmed(f[k - 1])
                /\ Trim(n, m) = f[m]
<1> DEFINE A == Int \X Nat
           Body(t) == [k \in 0 .. m |->
                         IF k = 0 THEN <<n, m>>
                         ELSE LET p == t[k - 1]
                              IN  IF p[2] > 0 /\ p[1] % 10 = 0 THEN <<p[1] \div 10, p[2] - 1>> ELSE p]
           next == [k \in 1 .. m |-> [p \in A |-> Trimmed(p)]]
<1>1. PICK f : Iterated(f, m, A, <<n, m>>, next)
  <2>1. \A p \in A : Trimmed(p) \in A
    BY DEF Trimmed
  <2>2. next \in [1 .. m -> [A -> A]] /\ <<n, m>> \in A
    BY <2>1
  <2>. HIDE DEF next, A
  <2>. QED
    BY <2>2, Iterates
<1>2. f \in [0 .. m -> A] /\ f[0] = <<n, m>> /\ \A k \in 1 .. m : f[k] = Trimmed(f[k - 1])
  <2>1. f \in [0 .. m -> A] /\ f[0] = <<n, m>> /\ \A k \in 1 .. m : f[k] = next[k][f[k - 1]]
    BY <1>1 DEF Iterated
  <2>2. \A k \in 1 .. m : k - 1 \in 0 .. m
    OBVIOUS
  <2>. HIDE DEF A
  <2>. QED
    BY <2>1, <2>2
<1>3. f = Body(f)
  <2>1. ASSUME NEW k \in 0 .. m PROVE f[k] = Body(f)[k]
    <3>1. CASE k = 0
      BY <1>2, <3>1
    <3>2. CASE k # 0
      <4>1. k \in 1 .. m
        BY <3>2
      <4>2. f[k] = Trimmed(f[k - 1])
        BY <1>2, <4>1
      <4>. QED
        BY <3>2, <4>2 DEF Trimmed
    <3>. QED
      BY <3>1, <3>2
  <2>2. f = [k \in 0 .. m |-> f[k]]
    BY <1>2
  <2>. QED
    BY <2>1, <2>2
<1> DEFINE h == CHOOSE t : t = Body(t)
<1>4. h = Body(h)
  BY <1>3
<1>5. Trim(n, m) = h[m]
  BY DEF Trim
<1>. HIDE DEF h
<1>6. h[0] = <<n, m>> /\ \A k \in 1 .. m : h[k] = Trimmed(h[k - 1])
  <2>1. \A k \in 0 .. m : h[k] = IF k = 0 THEN <<n, m>> ELSE Trimmed(h[k - 1])
    BY <1>4 DEF Trimmed
  <2>2. \A k \in 1 .. m : k \in 0 .. m /\ k # 0
    OBVIOUS
  <2>. QED
    BY <2>1, <2>2
<1>. QED
  BY <1>5, <1>6

\* Trim gives the same number with no trailing zero after the point.
Lowest(a, b) == b = 0 \/ a % 10 # 0

LEMMA TrimIs ==
  ASSUME NEW n \in Int, NEW m \in Nat
  PROVE  \E a \in Int, b \in Nat, k \in Nat :
           Trim(n, m) = <<a, b>> /\ m = b + k /\ n = a * Tens(k) /\ Lowest(a, b)
<1>1. PICK f : /\ f[0] = <<n, m>> /\ \A k \in 1 .. m : f[k] = Trimmed(f[k - 1])
               /\ Trim(n, m) = f[m]
  BY TrimLoop
<1> DEFINE Good(j) == \E a \in Int, b \in Nat, k \in 0 .. j :
                        f[j] = <<a, b>> /\ m = b + k /\ n = a * Tens(k) /\ (k = j \/ Lowest(a, b))
           G == {j \in 0 .. m : Good(j)}
<1>2. Good(0)
  BY <1>1, TensIs
<1>3. ASSUME NEW j \in 1 .. m, Good(j - 1) PROVE Good(j)
  <2>1. PICK a \in Int, b \in Nat, k \in 0 .. j - 1 :
          f[j - 1] = <<a, b>> /\ m = b + k /\ n = a * Tens(k) /\ (k = j - 1 \/ Lowest(a, b))
    BY <1>3
  <2>2. f[j] = Trimmed(f[j - 1])
    BY <1>1
  <2>3. CASE b > 0 /\ a % 10 = 0
    <3> DEFINE c == a \div 10
    <3>1. c \in Int /\ a = 10 * c
      BY <2>3
    <3>. HIDE DEF c
    <3>2. f[j] = <<c, b - 1>>
      BY <2>1, <2>2, <2>3 DEF Trimmed, c
    <3>3. k = j - 1
      BY <2>1, <2>3 DEF Lowest
    <3>4. Tens(k) \in Nat /\ Tens(k + 1) = 10 * Tens(k)
      BY TensIs
    <3>5. n = c * Tens(k + 1)
      <4>1. \A x \in Int, y \in Nat : (10 * x) * y = x * (10 * y)
        OBVIOUS
      <4>. QED
        BY <2>1, <3>1, <3>4, <4>1
    <3>6. k + 1 \in 0 .. j /\ k + 1 = j /\ b - 1 \in Nat /\ m = (b - 1) + (k + 1)
      BY <2>1, <2>3, <3>3
    <3>. QED
      BY <3>1, <3>2, <3>5, <3>6
  <2>4. CASE ~(b > 0 /\ a % 10 = 0)
    <3>1. f[j] = <<a, b>>
      BY <2>1, <2>2, <2>4 DEF Trimmed
    <3>2. Lowest(a, b) /\ k \in 0 .. j
      BY <2>4 DEF Lowest
    <3>. QED
      BY <2>1, <3>1, <3>2
  <2>. QED
    BY <2>3, <2>4
<1>4. m \in G
  <2>1. 0 \in G /\ \A j \in 1 .. m : j - 1 \in G => j \in G
    BY <1>2, <1>3
  <2>. HIDE DEF G
  <2>2. 0 .. m \subseteq G
    BY <2>1, UptoInduction
  <2>. QED
    BY <2>2
<1>5. PICK a \in Int, b \in Nat, k \in 0 .. m :
        f[m] = <<a, b>> /\ m = b + k /\ n = a * Tens(k) /\ (k = m \/ Lowest(a, b))
  BY <1>4
<1>6. Lowest(a, b)
  BY <1>5 DEF Lowest
<1>. QED
  BY <1>1, <1>5, <1>6

LEMMA TrimPair ==
  ASSUME NEW n \in Int, NEW m \in Nat
  PROVE  Trim(n, m) = <<Trim(n, m)[1], Trim(n, m)[2]>>
<1>1. PICK a \in Int, b \in Nat, k \in Nat :
        Trim(n, m) = <<a, b>> /\ m = b + k /\ n = a * Tens(k) /\ Lowest(a, b)
  BY TrimIs
<1>2. Trim(n, m) = <<a, b>>
  BY <1>1
<1>. QED
  BY <1>2

\* Of two equal decimals, the one without trailing zeros has not the larger scale.
LEMMA LowestScale ==
  ASSUME NEW a \in Int, NEW b \in Nat, NEW c \in Int, NEW d \in Nat,
         Lowest(a, b), a * Tens(d) = c * Tens(b)
  PROVE  b <= d
<1>. SUFFICES ASSUME d < b PROVE FALSE
  OBVIOUS
<1> DEFINE e == b - d - 1
<1>1. e \in Nat /\ b = d + (e + 1) /\ e + 1 \in Nat
  OBVIOUS
<1>. HIDE DEF e
<1>2. Tens(b) = Tens(d) * (10 * Tens(e)) /\ Tens(d) \in Nat /\ Tens(d) > 0 /\ Tens(e) \in Nat
  <2>1. Tens(d + (e + 1)) = Tens(d) * Tens(e + 1)
    BY <1>1, TensSum
  <2>2. Tens(e + 1) = 10 * Tens(e) /\ Tens(d) \in Nat /\ Tens(d) > 0 /\ Tens(e) \in Nat
    BY <1>1, TensIs
  <2>. QED
    BY <1>1, <2>1, <2>2
<1>3. a = 10 * (c * Tens(e))
  <2>1. ASSUME NEW x \in Int, NEW z \in Int, NEW y \in Nat, y > 0, x * y = z * y PROVE x = z
    BY <2>1
  <2>2. \A y, z \in Nat : c * (y * (10 * z)) = (10 * (c * z)) * y
    OBVIOUS
  <2>3. a * Tens(d) = (10 * (c * Tens(e))) * Tens(d)
    BY <1>2, <2>2
  <2>4. 10 * (c * Tens(e)) \in Int
    BY <1>2
  <2>. QED
    BY <1>2, <2>1, <2>3, <2>4
<1>4. a % 10 = 0
  <2>1. \A x \in Int : (10 * x) % 10 = 0
    OBVIOUS
  <2>2. c * Tens(e) \in Int
    BY <1>2
  <2>. QED
    BY <1>3, <2>1, <2>2
<1>. QED
  BY <1>4 DEF Lowest

\* Decimals are trimmed alike exactly if they are equal, whatever their scales.
LEMMA SameDecimals ==
  ASSUME NEW n \in Int, NEW m \in Nat, NEW p \in Int, NEW q \in Nat
  PROVE  Trim(n, m) = Trim(p, q) <=> n * Tens(q) = p * Tens(m)
<1>1. PICK a \in Int, b \in Nat, k \in Nat :
        Trim(n, m) = <<a, b>> /\ m = b + k /\ n = a * Tens(k) /\ Lowest(a, b)
  BY TrimIs
<1>2. PICK c \in Int, d \in Nat, l \in Nat :
        Trim(p, q) = <<c, d>> /\ q = d + l /\ p = c * Tens(l) /\ Lowest(c, d)
  BY TrimIs
<1>3. /\ Tens(b) \in Nat /\ Tens(d) \in Nat /\ Tens(k) \in Nat /\ Tens(l) \in Nat
      /\ Tens(k) > 0 /\ Tens(l) > 0 /\ Tens(b) > 0
  BY TensIs
<1>4. Tens(m) = Tens(b) * Tens(k) /\ Tens(q) = Tens(d) * Tens(l)
  BY <1>1, <1>2, TensSum
<1> DEFINE y == Tens(k) * Tens(l)
<1>5. y \in Nat /\ y > 0
  <2>1. \A x, z \in Nat : x > 0 /\ z > 0 => x * z \in Nat /\ x * z > 0
    OBVIOUS
  <2>. QED
    BY <1>3, <2>1
<1>6. n * Tens(q) = (a * Tens(d)) * y
  <2>1. \A s, t, u \in Nat : (a * s) * (t * u) = (a * t) * (s * u)
    OBVIOUS
  <2>. QED
    BY <1>1, <1>3, <1>4, <2>1
<1>7. p * Tens(m) = (c * Tens(b)) * y
  <2>1. \A s, t, u \in Nat : (c * u) * (t * s) = (c * t) * (s * u)
    OBVIOUS
  <2>. QED
    BY <1>2, <1>3, <1>4, <2>1
<1>8. n * Tens(q) = p * Tens(m) <=> a * Tens(d) = c * Tens(b)
  <2>1. \A x, z \in Int : x * y = z * y <=> x = z
    <3>. HIDE DEF y
    <3>. QED
      BY <1>5
  <2>2. a * Tens(d) \in Int /\ c * Tens(b) \in Int
    BY <1>3
  <2>. HIDE DEF y
  <2>. QED
    BY <1>6, <1>7, <2>1, <2>2
<1>9. ASSUME a * Tens(d) = c * Tens(b) PROVE a = c /\ b = d
  <2>1. b <= d
    BY <1>1, <1>9, LowestScale
  <2>2. d <= b
    BY <1>2, <1>9, LowestScale
  <2>3. b = d
    BY <2>1, <2>2
  <2>4. \A x, z \in Int, t \in Nat : t > 0 /\ x * t = z * t => x = z
    OBVIOUS
  <2>. QED
    BY <1>3, <1>9, <2>3, <2>4
<1>. QED
  BY <1>1, <1>2, <1>8, <1>9
-----------------------------------------------------------------------------
\* The identity of a ruleset.

LEMMA CanonicalIs ==
  ASSUME NEW v, IsConstant(v)
  PROVE  \/ /\ v[1] \in {"$dec", "decimal"} /\ v[2] \in Int /\ v[3] \in Nat
            /\ CanonicalizeValue(v) = <<"$dec", Trim(v[2], v[3])[1], Trim(v[2], v[3])[2]>>
         \/ /\ v[1] \in {"int", "float"} /\ CanonicalizeValue(v) = <<"int", v[2]>>
         \/ /\ v \in {<<"absent">>, <<"malformed">>, <<"chan">>}
            /\ v[1] \in {"absent", "malformed", "chan"} /\ CanonicalizeValue(v) = v
<1>1. CASE v[1] \in {"$dec", "decimal"}
  <2>1. v[2] \in Int /\ v[3] \in Nat
    BY <1>1 DEF IsConstant
  <2>. QED
    BY <1>1, <2>1 DEF CanonicalizeValue
<1>2. CASE v[1] = "int"
  <2>1. v = <<v[1], v[2]>>
    BY <1>2 DEF IsConstant
  <2>2. CanonicalizeValue(v) = v
    BY <1>2 DEF CanonicalizeValue
  <2>. QED
    BY <1>2, <2>1, <2>2
<1>3. CASE v[1] = "float"
  BY <1>3 DEF CanonicalizeValue
<1>4. CASE v \in {<<"absent">>, <<"malformed">>, <<"chan">>}
  <2>1. v[1] \in {"absent", "malformed", "chan"}
    BY <1>4
  <2>. QED
    BY <1>4, <2>1 DEF CanonicalizeValue
<1>. QED
  BY <1>1, <1>2, <1>3, <1>4 DEF IsConstant

\* Constants have one canonical form exactly if they are the same rule.
LEMMA CanonicalSame ==
  ASSUME NEW v, IsConstant(v), NEW w, IsConstant(w)
  PROVE  CanonicalizeValue(v) = CanonicalizeValue(w) <=> SameValue(v, w)
<1> DEFINE cv == CanonicalizeValue(v)
           cw == CanonicalizeValue(w)
           Dec(x) == x[1] \in {"$dec", "decimal"}
           Num(x) == x[1] \in {"int", "float"}
           Other(x) == x[1] \in {"absent", "malformed", "chan"}
<1>1. SameValue(v, w) <=> \/ v = w
                          \/ Dec(v) /\ Dec(w) /\ v[2] * Tens(w[3]) = w[2] * Tens(v[3])
                          \/ Num(v) /\ Num(w) /\ v[2] = w[2]
  BY DEF SameValue
<1>2. \A x \in {v, w} :
        \/ Dec(x) /\ x[2] \in Int /\ x[3] \in Nat
           /\ CanonicalizeValue(x) = <<"$dec", Trim(x[2], x[3])[1], Trim(x[2], x[3])[2]>>
        \/ Num(x) /\ CanonicalizeValue(x) = <<"int", x[2]>>
        \/ Other(x) /\ CanonicalizeValue(x) = x
  BY CanonicalIs
<1>3. v = w => cv = cw
  OBVIOUS
<1>4. CASE Dec(v) /\ Dec(w)
  <2>1. v[2] \in Int /\ v[3] \in Nat /\ w[2] \in Int /\ w[3] \in Nat
    BY <1>2, <1>4
  <2> DEFINE s == Trim(v[2], v[3])
             t == Trim(w[2], w[3])
  <2>2. cv = <<"$dec", s[1], s[2]>> /\ cw = <<"$dec", t[1], t[2]>>
    BY <1>2, <1>4
  <2>3. s = <<s[1], s[2]>> /\ t = <<t[1], t[2]>>
    BY <2>1, TrimPair
  <2>4. s = t <=> v[2] * Tens(w[3]) = w[2] * Tens(v[3])
    BY <2>1, SameDecimals
  <2>5. cv = cw <=> s = t
    <3>. HIDE DEF s, t, cv, cw
    <3>1. cv = cw => s[1] = t[1] /\ s[2] = t[2]
      <4>1. cv[2] = s[1] /\ cv[3] = s[2] /\ cw[2] = t[1] /\ cw[3] = t[2]
        BY <2>2
      <4>. QED
        BY <4>1
    <3>2. s[1] = t[1] /\ s[2] = t[2] => s = t
      BY <2>3
    <3>. QED
      BY <2>2, <3>1, <3>2
  <2>6. ~(Num(v) /\ Num(w))
    BY <1>4
  <2>. QED
    BY <1>1, <1>3, <1>4, <2>4, <2>5, <2>6
<1>5. CASE Num(v) /\ Num(w)
  <2>1. cv = <<"int", v[2]>> /\ cw = <<"int", w[2]>>
    BY <1>2, <1>5
  <2>2. cv = cw <=> v[2] = w[2]
    <3>. HIDE DEF cv, cw
    <3>1. cv[2] = v[2] /\ cw[2] = w[2]
      BY <2>1
    <3>. QED
      BY <2>1, <3>1
  <2>3. ~Dec(v)
    BY <1>5
  <2>. QED
    BY <1>1, <1>3, <1>5, <2>2, <2>3
<1>6. CASE Other(v) /\ Other(w)
  <2>1. cv = v /\ cw = w
    BY <1>2, <1>6
  <2>2. ~Dec(v) /\ ~Num(v)
    BY <1>6
  <2>. QED
    BY <1>1, <2>1, <2>2
<1>7. CASE ~(Dec(v) /\ Dec(w)) /\ ~(Num(v) /\ Num(w)) /\ ~(Other(v) /\ Other(w))
  <2>1. \A x \in {v, w} :
          /\ Dec(x) => CanonicalizeValue(x)[1] = "$dec"
          /\ Num(x) => CanonicalizeValue(x)[1] = "int"
          /\ Other(x) => CanonicalizeValue(x)[1] \in {"absent", "malformed", "chan"}
    <3>. SUFFICES ASSUME NEW x \in {v, w}
                  PROVE  /\ Dec(x) => CanonicalizeValue(x)[1] = "$dec"
                         /\ Num(x) => CanonicalizeValue(x)[1] = "int"
                         /\ Other(x) => CanonicalizeValue(x)[1] \in {"absent", "malformed", "chan"}
      OBVIOUS
    <3>1. ASSUME Dec(x) PROVE CanonicalizeValue(x)[1] = "$dec"
      <4>1. ~Num(x) /\ ~Other(x)
        BY <3>1
      <4>2. CanonicalizeValue(x) = <<"$dec", Trim(x[2], x[3])[1], Trim(x[2], x[3])[2]>>
        BY <1>2, <4>1
      <4>. QED
        BY <4>2
    <3>2. ASSUME Num(x) PROVE CanonicalizeValue(x)[1] = "int"
      <4>1. ~Dec(x) /\ ~Other(x)
        BY <3>2
      <4>2. CanonicalizeValue(x) = <<"int", x[2]>>
        BY <1>2, <4>1
      <4>. QED
        BY <4>2
    <3>3. ASSUME Other(x) PROVE CanonicalizeValue(x)[1] \in {"absent", "malformed", "chan"}
      <4>1. ~Dec(x) /\ ~Num(x)
        BY <3>3
      <4>. QED
        BY <1>2, <3>3, <4>1
    <3>. QED
      BY <3>1, <3>2, <3>3
  <2>2. \A x \in {v, w} : Dec(x) \/ Num(x) \/ Other(x)
    BY <1>2
  <2>3. cv[1] # cw[1]
    BY <1>7, <2>1, <2>2
  <2>4. cv # cw
    BY <2>3
  <2>5. v # w
    BY <1>3, <2>4
  <2>. QED
    BY <1>1, <1>7, <2>4, <2>5
<1>. QED
  BY <1>4, <1>5, <1>6, <1>7

\* A Scope is stamped with the identity of what was built last before the run: the memo
\* is the content's unless the definition was changed since, and hydration keeps it.
SameContent(d, e) == Canonical(d) = Canonical(e) /\ (Marshalable(d) <=> Marshalable(e))
Identifies(r, d)  == r[1] = Canonical(d) /\ Marshalable(d) /\ d.stages # <<>> /\ IsDefinition(d)
Idle == {"idle", "refused", "built"}

ReplayInv ==
  /\ BuiltInv
  /\ content = [built |-> content.built, ran |-> content.ran, builds |-> content.builds]
  /\ phase # "loaded" => step = "idle"
  /\ ~edited /\ memo # <<>> => memo[1] = Canonical(def)
  /\ step \notin Idle => SameContent(def, content.built) /\ def.stages # <<>>
                         /\ content.built.stages # <<>> /\ IsDefinition(content.built)
  /\ step = "assemble" => memo # <<>> /\ ~edited /\ Marshalable(def)
  /\ step = "built" /\ ~edited => Identifies(built[1].ruleset, content.built)
  /\ stamp # <<>> => Identifies(stamp[1], content.ran)

LEMMA HydratedSame ==
  ASSUME NEW d, IsDefinition(d)
  PROVE  SameContent([d EXCEPT !.const = Hydrated(d.const)], d)
         /\ [d EXCEPT !.const = Hydrated(d.const)].stages = d.stages
<1> DEFINE c == Hydrated(d.const)
           e == [d EXCEPT !.const = c]
<1>1. CanonicalizeValue(c) = CanonicalizeValue(d.const) /\ (c = <<"chan">> <=> d.const = <<"chan">>)
  BY HydratedIs DEF IsDefinition
<1>. HIDE DEF c
<1>2. e.const = c /\ e.stages = d.stages /\ e.schema = d.schema
  BY DEF IsDefinition
<1>. HIDE DEF e
<1>3. SameContent(e, d)
  BY <1>1, <1>2 DEF SameContent, Canonical, Marshalable
<1>. QED
  BY <1>2, <1>3 DEF e, c

LEMMA ReplayKept == ReplayInv /\ [Next]_vars => ReplayInv'
<1>. SUFFICES ASSUME ReplayInv, [Next]_vars PROVE ReplayInv'
  OBVIOUS
<1>0. BuiltInv'
  BY BuiltKept DEF ReplayInv
<1>1. CASE Parsing
  <2>1. UNCHANGED <<def, memo, edited, step, built, stamp, content>>
    BY <1>1 DEF Parsing, build, scope
  <2>2. phase # "loaded"
    BY <1>1 DEF Parsing, SourceNext, SourceStatic, SourceNil, SourceFile, SourceURL, ReadBody, Decode, ParseAgain, Begins
  <2>. QED
    BY <1>0, <2>1, <2>2 DEF ReplayInv, SameContent, Identifies, Canonical, Marshalable
<1>2. CASE Load
  <2>1. phase' = "loaded" /\ memo' = <<>> /\ UNCHANGED <<step, stamp, content>> /\ step = "idle"
    BY <1>2 DEF Load, scope, ReplayInv
  <2>2. step' = "idle" /\ step' \in Idle
    BY <2>1 DEF Idle
  <2>. QED
    BY <1>0, <2>1, <2>2 DEF ReplayInv
<1>3. CASE \E o \in Options : StartBuild(o)
  <2>1. /\ phase = "loaded" /\ phase' = phase /\ UNCHANGED <<def, memo, edited, stamp>>
        /\ step' = IF def.stages = <<>> THEN "refused" ELSE "hydrate"
        /\ content' = [content EXCEPT !.built = def, !.builds = content.builds + 1]
    BY <1>3 DEF StartBuild, Begin, source, scope
  <2>2. content' = [built |-> def, ran |-> content.ran, builds |-> content.builds + 1]
    BY <2>1 DEF ReplayInv
  <2>. QED
    BY <1>0, <2>1, <2>2 DEF ReplayInv, SameContent, Identifies, Idle, BuiltInv
<1>4. CASE Building
  <2>0. UNCHANGED <<phase, stamp, content>>
    BY <1>4 DEF Building, source, scope
  <2>1. step \notin Idle
    BY <1>4 DEF Building, BuildNext, Idle, Constants, Globals, Chains, LintAndSchema, BuildStage, FinishForEach,
                StagesDone, HashContent, Assemble
  <2>2. phase = "loaded" /\ SameContent(def, content.built) /\ def.stages # <<>>
        /\ content.built.stages # <<>> /\ IsDefinition(content.built)
    BY <2>1 DEF ReplayInv, Idle
  <2>3. CASE Constants
    <3>1. /\ def' = def \/ def' = [def EXCEPT !.const = Hydrated(def.const)]
          /\ step' \in {"refused", "globals"} /\ UNCHANGED <<memo, edited>>
      BY <2>3 DEF Constants, Refuse
    <3>2. SameContent(def', def) /\ def'.stages = def.stages
      <4>1. CASE def' = def
        BY <4>1 DEF SameContent
      <4>2. CASE def' = [def EXCEPT !.const = Hydrated(def.const)]
        <5>1. IsDefinition(def)
          BY DEF ReplayInv, BuiltInv
        <5>. QED
          BY <4>2, <5>1, HydratedSame
      <4>. QED
        BY <3>1, <4>1, <4>2
    <3>. QED
      BY <1>0, <2>0, <2>2, <3>1, <3>2 DEF ReplayInv, SameContent
  <2>4. CASE Globals \/ Chains \/ LintAndSchema \/ BuildStage \/ FinishForEach \/ StagesDone
    <3>1. UNCHANGED <<def, memo, edited>> /\ step' \in {"refused", "globals", "chains", "lint", "stages", "hash"}
      BY <2>4 DEF Globals, Chains, LintAndSchema, BuildStage, FinishForEach, StagesDone, Refuse, GoOn
    <3>. QED
      BY <1>0, <2>0, <2>2, <3>1 DEF ReplayInv
  <2>5. CASE HashContent
    <3>1. def' = def
      BY <2>5 DEF HashContent
    <3>2. CASE Marshalable(def)
      <4>1. memo' = <<Canonical(def)>> /\ ~edited' /\ step' = "assemble"
        BY <2>5, <3>2 DEF HashContent, Memoize, GoOn
      <4>2. memo' # <<>> /\ memo'[1] = Canonical(def)
        BY <4>1
      <4>. QED
        BY <1>0, <2>0, <2>2, <3>1, <3>2, <4>1, <4>2 DEF ReplayInv
    <3>3. CASE ~Marshalable(def)
      <4>1. UNCHANGED <<memo, edited>> /\ step' = "refused"
        BY <2>5, <3>3 DEF HashContent, Refuse
      <4>. QED
        BY <1>0, <2>0, <2>2, <3>1, <4>1 DEF ReplayInv, Idle
    <3>. QED
      BY <3>2, <3>3
  <2>6. CASE Assemble
    <3>1. UNCHANGED <<def, memo, edited>> /\ step' \in {"refused", "built"} /\ step = "assemble"
      BY <2>6 DEF Assemble, Refuse, GoOn
    <3>2. step' \in Idle
      BY <3>1 DEF Idle
    <3>3. ASSUME step' = "built" PROVE Identifies(built'[1].ruleset, content.built)
      <4>1. built'[1].ruleset = <<memo[1], Version>>
        BY <2>6, <3>3 DEF Assemble, Refuse
      <4>2. built'[1].ruleset[1] = memo[1]
        BY <4>1
      <4>3. memo[1] = Canonical(def) /\ Marshalable(def)
        BY <3>1 DEF ReplayInv
      <4>. QED
        BY <2>2, <4>2, <4>3 DEF Identifies, SameContent
    <3>. QED
      BY <1>0, <2>0, <2>2, <3>1, <3>2, <3>3 DEF ReplayInv
  <2>. QED
    BY <1>4, <2>3, <2>4, <2>5, <2>6 DEF Building, BuildNext
<1>5. CASE \E e \in Edits : Change(e[2])
  <2>1. /\ edited' /\ step' = step /\ step \in Idle /\ phase = "loaded" /\ phase' = phase
        /\ UNCHANGED <<stamp, content>>
    BY <1>5 DEF Change, Edit, source, scope, Idle
  <2>2. step' # "assemble"
    BY <2>1 DEF Idle
  <2>. QED
    BY <1>0, <2>1, <2>2 DEF ReplayInv
<1>6. CASE Run
  <2>1. /\ UNCHANGED <<phase, def, memo, edited, step, built>> /\ step = "built" /\ ~edited
        /\ stamp' = <<built[1].ruleset>> /\ content' = [content EXCEPT !.ran = content.built]
    BY <1>6 DEF Run, source, build
  <2>2. Identifies(built[1].ruleset, content.built)
    BY <2>1 DEF ReplayInv
  <2>3. content' = [built |-> content.built, ran |-> content.built, builds |-> content.builds]
    BY <2>1 DEF ReplayInv
  <2>4. step' = "built" /\ stamp'[1] = built[1].ruleset
    BY <2>1
  <2>. QED
    BY <1>0, <2>1, <2>2, <2>3, <2>4 DEF ReplayInv
<1>7. CASE Done \/ UNCHANGED vars
  <2>1. UNCHANGED <<phase, def, memo, edited, step, built, stamp, content>>
    BY <1>7 DEF Done, vars, source, build, scope
  <2>. QED
    BY <1>0, <2>1 DEF ReplayInv
<1>. QED
  BY <1>1, <1>2, <1>3, <1>4, <1>5, <1>6, <1>7 DEF Next

\* A definition matches what a Scope was stamped with exactly if its rules are those of
\* the run: of two that can be marshalled the canonical forms decide, and one that
\* cannot be stands for no stages at all, which no run had.
LEMMA MatchesSame ==
  ASSUME NEW d, IsDefinition(d), NEW e, NEW r, Identifies(r, e)
  PROVE  MatchesRuleset(d, <<>>, r) <=> SameRules(d, e)
<1>1. /\ r[1] = Canonical(e) /\ Marshalable(e) /\ e.stages # <<>> /\ IsConstant(e.const) /\ IsConstant(d.const)
  BY DEF Identifies, IsDefinition
<1>2. MatchesRuleset(d, <<>>, r) <=> (IF Marshalable(d) THEN Canonical(d) ELSE Canonical(NoStages)) = Canonical(e)
  BY <1>1 DEF MatchesRuleset, Hash
<1>3. SameRules(d, e) <=> d.stages = e.stages /\ d.schema = e.schema /\ CanonicalizeValue(d.const) = CanonicalizeValue(e.const)
  BY <1>1, CanonicalSame DEF SameRules
<1>4. CASE Marshalable(d)
  <2>1. Canonical(d) = Canonical(e) <=> d.stages = e.stages /\ d.schema = e.schema
                                        /\ CanonicalizeValue(d.const) = CanonicalizeValue(e.const)
    BY DEF Canonical
  <2>. QED
    BY <1>2, <1>3, <1>4, <2>1
<1>5. CASE ~Marshalable(d)
  <2>1. Canonical(NoStages) # Canonical(e)
    <3>1. Canonical(NoStages).stages = <<>> /\ Canonical(e).stages = e.stages
      <4>1. NoStages.stages = <<>>
        BY Zenon DEF NoStages
      <4>. QED
        BY <4>1 DEF Canonical
    <3>. QED
      BY <1>1, <3>1
  <2>2. CanonicalizeValue(d.const) # CanonicalizeValue(e.const)
    <3>1. d.const = <<"chan">> /\ CanonicalizeValue(d.const) = <<"chan">>
      <4>1. d.const = <<"chan">>
        BY <1>5 DEF Marshalable
      <4>2. d.const[1] = "chan"
        BY <4>1
      <4>3. CanonicalizeValue(d.const) = d.const
        BY <4>2 DEF CanonicalizeValue
      <4>. QED
        BY <4>1, <4>3
    <3>2. CanonicalizeValue(e.const) = <<"chan">> => e.const = <<"chan">>
      <4>. SUFFICES ASSUME CanonicalizeValue(e.const) = <<"chan">> PROVE e.const = <<"chan">>
        OBVIOUS
      <4>1. CanonicalizeValue(e.const)[1] = "chan"
        OBVIOUS
      <4> DEFINE v == e.const
                 c == CanonicalizeValue(v)
      <4>2. \/ c = <<"$dec", Trim(v[2], v[3])[1], Trim(v[2], v[3])[2]>>
            \/ c = <<"int", v[2]>>
            \/ c = v
        BY <1>1, CanonicalIs
      <4>3. c[1] = "chan"
        BY <4>1
      <4>. HIDE DEF c
      <4>4. c = v
        BY <4>2, <4>3
      <4>. QED
        BY <4>4 DEF c
    <3>. QED
      BY <1>1, <3>1, <3>2 DEF Marshalable
  <2>. QED
    BY <1>2, <1>3, <1>5, <2>1, <2>2
<1>. QED
  BY <1>4, <1>5

LEMMA ReplayFirst == Init => ReplayInv
<1>. SUFFICES ASSUME Init PROVE ReplayInv
  OBVIOUS
<1>1. /\ content = [built |-> NoStages, ran |-> NoStages, builds |-> 0]
      /\ step = "idle" /\ phase = "ready" /\ memo = <<>> /\ stamp = <<>>
  BY DEF Init, BuildInit, SourceInit
<1>2. content = [built |-> content.built, ran |-> content.ran, builds |-> content.builds]
  BY <1>1
<1>. QED
  BY <1>1, <1>2, BuiltFirst DEF ReplayInv, Idle

\* Hash answers for the definition as it is, and a decision is replayed exactly with
\* the rules it was made with, whatever their label, the spelling of decimals and
\* their scale, and whatever was built, changed and run meanwhile.
THEOREM ReplayIsDetected == Spec => []ReplayDetected
<1>1. ReplayInv => ReplayDetected
  <2>. SUFFICES ASSUME ReplayInv PROVE ReplayDetected
    OBVIOUS
  <2>1. HashIsCurrent
    BY DEF HashIsCurrent, Hash, ReplayInv
  <2>2. ASSUME stamp # <<>>, NEW d \in Parseable
        PROVE  MatchesRuleset(d, <<>>, stamp[1]) <=> SameRules(d, content.ran)
    <3>1. PICK t \in Texts : t # <<>> /\ Head(t) # Bad /\ d = Head(t)[1]
      BY DEF Parseable
    <3>2. t \in Seq(MemberOf(t)) /\ \A j \in DOMAIN t : t[j] # Bad => IsDefinition(t[j][1])
      BY SourceAssumption, ConfigAssumption DEF Texts
    <3>3. IsDefinition(d)
      BY <3>1, <3>2
    <3>4. Identifies(stamp[1], content.ran)
      BY <2>2 DEF ReplayInv
    <3>. QED
      BY <3>3, <3>4, MatchesSame
  <2>. QED
    BY <2>1, <2>2 DEF ReplayDetected
<1>. QED
  BY <1>1, ReplayFirst, ReplayKept, PTL DEF Spec
-----------------------------------------------------------------------------
\* The tree of a definition: which stages are around which.
Parent(d, k) == d.stages[k].parent

LEMMA TreeIs ==
  ASSUME NEW d, IsDefinition(d)
  PROVE  /\ Len(d.stages) \in Nat /\ Stages(d) = 1 .. Len(d.stages)
         /\ \A k \in Stages(d) :
              /\ Parent(d, k) \in 0 .. k - 1
              /\ \A j \in Parent(d, k) + 1 .. k - 1 : Parent(d, j) >= Parent(d, k)
BY DEF IsDefinition, InTree, Stages, Parent

\* The function that Around chooses exists: a stage's parent comes before it.
LEMMA AroundIs ==
  ASSUME NEW d, IsDefinition(d)
  PROVE  /\ Around(d)[0] = {}
         /\ \A k \in Stages(d) :
              /\ Around(d)[k] = {Parent(d, k)} \union Around(d)[Parent(d, k)]
              /\ Around(d)[k] \subseteq 0 .. k - 1
<1> DEFINE N == Len(d.stages)
           P(k) == Parent(d, k)
           Up(f, k) == {P(k)} \union f[P(k)]
           Walk(f, m) == /\ f = [k \in 0 .. m |-> f[k]] /\ f[0] = {}
                        /\ \A k \in 1 .. m : f[k] \subseteq 0 .. k - 1 /\ f[k] = Up(f, k)
           G == {m \in 0 .. N : \E f : Walk(f, m)}
           Body(f) == [k \in 0 .. N |-> IF k = 0 THEN {} ELSE {d.stages[k].parent} \union f[d.stages[k].parent]]
<1>0. N \in Nat /\ Stages(d) = 1 .. N /\ \A k \in 1 .. N : P(k) \in 0 .. k - 1
  BY TreeIs
<1>1. 0 \in G
  <2> DEFINE f == [k \in 0 .. 0 |-> {}]
  <2>1. f = [k \in 0 .. 0 |-> f[k]] /\ f[0] = {}
    OBVIOUS
  <2>2. Walk(f, 0)
    <3>. HIDE DEF f
    <3>. QED
      BY <2>1
  <2>. HIDE DEF f, Run
  <2>. QED
    BY <1>0, <2>2
<1>2. ASSUME NEW m \in 1 .. N, m - 1 \in G PROVE m \in G
  <2>1. PICK f : Walk(f, m - 1)
    BY <1>2
  <2> DEFINE e == Up(f, m)
             g == [k \in 0 .. m |-> IF k = m THEN e ELSE f[k]]
  <2>2. g = [k \in 0 .. m |-> g[k]] /\ g[m] = e /\ \A k \in 0 .. m - 1 : g[k] = f[k]
    <3>. HIDE DEF e
    <3>. QED
      BY <1>0
  <2>3. e \subseteq 0 .. m - 1
    <3>1. P(m) \in 0 .. m - 1 /\ e = {P(m)} \union f[P(m)]
      BY <1>0
    <3>. HIDE DEF P, e
    <3>2. f[P(m)] \subseteq 0 .. m - 1
      <4>1. CASE P(m) = 0
        BY <2>1, <4>1
      <4>2. CASE P(m) # 0
        <5>1. P(m) \in 1 .. m - 1
          BY <3>1, <4>2
        <5>2. f[P(m)] \subseteq 0 .. P(m) - 1
          BY <2>1, <5>1
        <5>3. 0 .. P(m) - 1 \subseteq 0 .. m - 1
          BY <5>1
        <5>. QED
          BY <5>2, <5>3
      <4>. QED
        BY <4>1, <4>2
    <3>. QED
      BY <3>1, <3>2
  <2>. HIDE DEF g
  <2>4. ASSUME NEW k \in 1 .. m PROVE g[k] \subseteq 0 .. k - 1 /\ g[k] = Up(g, k)
    <3>1. P(k) \in 0 .. k - 1
      BY <1>0
    <3>2. P(k) \in 0 .. m - 1
      BY <3>1
    <3>3. Up(g, k) = Up(f, k)
      BY <2>2, <3>2
    <3>. HIDE DEF Up, P
    <3>4. CASE k = m
      BY <2>2, <2>3, <3>3, <3>4
    <3>5. CASE k # m
      <4>1. k \in 1 .. m - 1 /\ k \in 0 .. m - 1
        BY <3>5
      <4>2. f[k] \subseteq 0 .. k - 1 /\ f[k] = Up(f, k)
        BY <2>1, <4>1
      <4>. QED
        BY <2>2, <3>3, <4>1, <4>2
    <3>. QED
      BY <3>4, <3>5
  <2>5. Walk(g, m)
    <3>1. 0 \in 0 .. m - 1
      OBVIOUS
    <3>2. g[0] = {}
      BY <2>1, <2>2, <3>1
    <3>. HIDE DEF Up
    <3>. QED
      BY <2>2, <2>4, <3>2
  <2>. HIDE DEF Walk
  <2>. QED
    BY <2>5
<1>3. PICK f : Walk(f, N)
  <2>. HIDE DEF Walk, N
  <2>1. 0 .. N \subseteq G
    <3>. HIDE DEF G
    <3>. QED
      BY <1>0, <1>1, <1>2, UptoInduction
  <2>. QED
    BY <1>0, <2>1
<1>4. f = Body(f)
  BY <1>0, <1>3 DEF Parent
<1> DEFINE h == CHOOSE g : g = Body(g)
<1>5. h = Body(h)
  BY <1>4
<1>6. Around(d) = h
  BY DEF Around
<1>. HIDE DEF h
<1>7. h[0] = {} /\ \A k \in 1 .. N : h[k] = Up(h, k)
  <2>1. 0 \in 0 .. N /\ \A k \in 1 .. N : k \in 0 .. N /\ k # 0
    BY <1>0
  <2>. QED
    BY <1>5, <2>1 DEF Parent
<1> DEFINE H == {m \in 0 .. N : m > 0 => h[m] \subseteq 0 .. m - 1}
           bad == {m \in 1 .. N : ~(h[m] \subseteq 0 .. m - 1)}
<1>8. bad = {}
  <2>. SUFFICES ASSUME bad # {} PROVE FALSE
    OBVIOUS
  <2>1. PICK m \in bad : \A k \in bad : m <= k
    <3>1. bad \subseteq Nat
      BY <1>0
    <3>. HIDE DEF bad
    <3>. QED
      BY <3>1, LeastOfNats
  <2>2. P(m) \in 0 .. m - 1 /\ h[m] = {P(m)} \union h[P(m)]
    BY <1>0, <1>7
  <2>. HIDE DEF P
  <2>3. CASE P(m) = 0
    BY <1>7, <2>2, <2>3
  <2>4. CASE P(m) # 0
    <3>1. P(m) \in 1 .. N /\ P(m) \notin bad
      BY <1>0, <2>1, <2>2, <2>4
    <3>. QED
      BY <2>2, <3>1
  <2>. QED
    BY <2>3, <2>4
<1>. HIDE DEF N
<1>. QED
  BY <1>0, <1>6, <1>7, <1>8

\* What is around a stage: its parent, and what is around that.
LEMMA WithinIs ==
  ASSUME NEW d, IsDefinition(d)
  PROVE  /\ \A k \in Stages(d) : Parent(d, k) \in 0 .. k - 1
         /\ \A k \in Stages(d) : \A p : Within(d, k, p) <=> p = Parent(d, k) \/ Within(d, Parent(d, k), p)
         /\ \A k \in Stages(d) : \A p : Within(d, k, p) => p \in 0 .. k - 1
         /\ \A p : ~Within(d, 0, p)
BY TreeIs, AroundIs DEF Within

\* What is around a stage's surroundings is around it.
LEMMA WithinWithin ==
  ASSUME NEW d, IsDefinition(d), NEW k \in Stages(d), NEW q \in Stages(d), NEW p,
         Within(d, k, q), Within(d, q, p)
  PROVE  Within(d, k, p)
<1> DEFINE bad == {j \in Stages(d) : Within(d, j, q) /\ ~Within(d, j, p)}
<1>. SUFFICES ASSUME bad # {} PROVE FALSE
  OBVIOUS
<1>0. Stages(d) \subseteq Nat /\ Stages(d) = 1 .. Len(d.stages) /\ Len(d.stages) \in Nat
  BY TreeIs
<1>1. PICK m \in bad : \A j \in bad : m <= j
  <2>1. bad \subseteq Nat
    BY <1>0
  <2>. HIDE DEF bad
  <2>. QED
    BY <2>1, LeastOfNats
<1>2. /\ Parent(d, m) \in 0 .. m - 1
      /\ q = Parent(d, m) \/ Within(d, Parent(d, m), q)
      /\ ~Within(d, Parent(d, m), p)
  BY <1>1, WithinIs
<1>3. Within(d, Parent(d, m), q)
  BY <1>2
<1>4. Parent(d, m) # 0
  BY <1>3, WithinIs
<1>5. Parent(d, m) \in Stages(d)
  BY <1>0, <1>1, <1>2, <1>4
<1>. QED
  BY <1>0, <1>1, <1>2, <1>3, <1>5

\* The stages within a stage follow it, with nothing else among them.
LEMMA WithinIsStretch ==
  ASSUME NEW d, IsDefinition(d), NEW p \in Stages(d), NEW k \in Stages(d), Within(d, k, p),
         NEW x \in p + 1 .. k - 1
  PROVE  Within(d, x, p)
<1> DEFINE Gap(y, j) == y \in Stages(d) /\ j \in Stages(d) /\ p < y /\ y < j /\ Within(d, j, p) /\ ~Within(d, y, p)
           bad == {y \in Stages(d) : \E j \in Stages(d) : Gap(y, j)}
<1>0. Stages(d) \subseteq Nat /\ Stages(d) = 1 .. Len(d.stages) /\ Len(d.stages) \in Nat
  BY TreeIs
<1>1. bad = {} => Within(d, x, p)
  BY <1>0
<1>. SUFFICES ASSUME bad # {} PROVE FALSE
  BY <1>1
<1>2. PICK y \in bad : \A z \in bad : y <= z
  <2>1. bad \subseteq Nat
    BY <1>0
  <2>. HIDE DEF bad
  <2>. QED
    BY <2>1, LeastOfNats
<1> DEFINE over == {j \in Stages(d) : Gap(y, j)}
<1>3. PICK j \in over : \A i \in over : j <= i
  <2>1. over \subseteq Nat /\ over # {}
    BY <1>0, <1>2
  <2>. HIDE DEF over
  <2>. QED
    BY <2>1, LeastOfNats
<1>4. Gap(y, j)
  BY <1>3
<1> DEFINE q == Parent(d, j)
           r == Parent(d, y)
<1>5. q \in 0 .. j - 1 /\ r \in 0 .. y - 1 /\ (q = p \/ Within(d, q, p))
  BY <1>4, WithinIs
<1>6. q \in Stages(d) /\ p <= q /\ q < j
  <2>1. q # 0
    BY <1>0, <1>5, WithinIs
  <2>2. q \in 0 .. j - 1
    BY <1>4, WithinIs
  <2>3. q \in Stages(d)
    BY <1>0, <1>4, <2>1, <2>2
  <2>4. Within(d, q, p) => p \in 0 .. q - 1
    BY <2>3, WithinIs
  <2>. HIDE DEF q
  <2>. QED
    BY <1>0, <1>5, <2>2, <2>3, <2>4
<1>7. ~(y < q)
  <2>1. ASSUME y < q PROVE Gap(y, q)
    BY <1>0, <1>4, <1>5, <1>6, <2>1
  <2>2. q \notin over
    BY <1>0, <1>3, <1>6
  <2>. QED
    BY <1>6, <2>1, <2>2
<1>8. y # q
  BY <1>0, <1>4, <1>5, WithinIs
<1>9. r >= q
  <2>1. y \in q + 1 .. j - 1
    BY <1>0, <1>4, <1>6, <1>7, <1>8
  <2>. QED
    BY <1>4, <2>1, TreeIs
<1>10. r # q
  <2>1. ASSUME r = q PROVE Within(d, y, p)
    <3>1. r = p \/ Within(d, r, p)
      BY <1>5, <2>1
    <3>. QED
      BY <1>4, <3>1, WithinIs
  <2>. QED
    BY <1>4, <2>1
<1>11. r \in Stages(d) /\ p < r /\ r < y
  <2> DEFINE N == Len(d.stages)
  <2>1. /\ Stages(d) = 1 .. N /\ N \in Nat /\ y \in 1 .. N /\ p \in 1 .. N /\ q \in 1 .. N
        /\ r \in 0 .. y - 1
    BY <1>0, <1>4, <1>5, <1>6
  <2>2. p <= q /\ r >= q /\ r # q
    BY <1>6, <1>9, <1>10
  <2>. HIDE DEF r, q, N, bad, over, Gap
  <2>. QED
    BY <2>1, <2>2
<1>12. Within(d, r, p)
  <2>1. r \notin bad
    BY <1>0, <1>2, <1>11
  <2>2. r < j
    <3>. HIDE DEF r
    <3>. QED
      BY <1>0, <1>4, <1>11
  <2>. HIDE DEF r
  <2>. QED
    BY <1>4, <1>11, <2>1, <2>2
<1>. QED
  BY <1>4, <1>12, WithinIs

\* The traversals skip what is within a stage: the next one is not, nor is any later.
LEMMA AfterSubtreeIs ==
  ASSUME IsDefinition(def), NEW k \in Stages(def)
  PROVE  /\ AfterSubtree(k) \in k + 1 .. Len(def.stages) + 1
         /\ \A x \in k + 1 .. AfterSubtree(k) - 1 : Within(def, x, k)
         /\ AfterSubtree(k) \in Stages(def) => ~Within(def, AfterSubtree(k), k)
<1> DEFINE N == Len(def.stages)
           Ends(j) == /\ j \in Stages(def) => ~Within(def, j, k)
                      /\ \A x \in k + 1 .. j - 1 : Within(def, x, k)
           out == {j \in k + 1 .. N + 1 : j \in Stages(def) => ~Within(def, j, k)}
<1>0. N \in Nat /\ Stages(def) = 1 .. N
  BY TreeIs
<1>1. N + 1 \in out
  BY <1>0
<1>2. PICK j \in out : \A i \in out : j <= i
  <2>1. out \subseteq Nat
    BY <1>0
  <2>. HIDE DEF out
  <2>. QED
    BY <1>1, <2>1, LeastOfNats
<1>3. ASSUME NEW x \in k + 1 .. j - 1 PROVE Within(def, x, k)
  <2>1. x \in k + 1 .. N + 1 /\ x < j /\ x \in Int /\ j \in Int
    BY <1>0, <1>2
  <2>2. x \notin out
    <3>. HIDE DEF out
    <3>. QED
      BY <1>0, <1>2, <2>1
  <2>. QED
    BY <2>1, <2>2
<1>4. j \in k + 1 .. N + 1 /\ Ends(j)
  BY <1>2, <1>3
<1>5. AfterSubtree(k) = CHOOSE i \in k + 1 .. N + 1 : Ends(i)
  BY DEF AfterSubtree
<1>. HIDE DEF Ends
<1>6. AfterSubtree(k) \in k + 1 .. N + 1 /\ Ends(AfterSubtree(k))
  BY <1>4, <1>5
<1>. QED
  BY <1>6 DEF Ends

\* Build comes to a stage if all around it are foreach stages.
LEMMA ReachedIs ==
  ASSUME NEW d, IsDefinition(d)
  PROVE  /\ Reached(d) \subseteq Stages(d) /\ ForEaches(d) \subseteq Reached(d)
         /\ \A k \in Reached(d) : k \in ForEaches(d) <=> d.stages[k].type = "foreach"
         /\ \A k \in Reached(d), p \in Stages(d) : Within(d, k, p) => p \in ForEaches(d)
<1>1. ASSUME NEW k \in Reached(d), NEW p \in Stages(d), Within(d, k, p) PROVE p \in ForEaches(d)
  <2>1. k \in Stages(d) /\ d.stages[p].type = "foreach"
    BY <1>1 DEF Reached
  <2>2. ASSUME NEW q \in Stages(d), Within(d, p, q) PROVE d.stages[q].type = "foreach"
    <3>1. Within(d, k, q)
      BY <1>1, <2>1, <2>2, WithinWithin
    <3>. QED
      BY <1>1, <3>1 DEF Reached
  <2>. QED
    BY <2>1, <2>2 DEF Reached, ForEaches
<1>. QED
  BY <1>1 DEF Reached, ForEaches

\* Where a traversal stands: it comes to the stage at k, and has all around it on its
\* stack, which holds foreach stages it has come by.
Standing(d, k, chain) ==
  /\ chain \in Seq(1 .. k - 1) /\ MemberOf(chain) \subseteq ForEaches(d)
  /\ k \in Stages(d) =>
       /\ k \in Reached(d)
       /\ \A p \in Stages(d) : Within(d, k, p) => p \in MemberOf(chain)

LEMMA WiderSeq == ASSUME NEW S, NEW T, S \subseteq T, NEW s \in Seq(S) PROVE s \in Seq(T)
  OBVIOUS

\* It may enter a foreach stage,
LEMMA StandingInside ==
  ASSUME IsDefinition(def), NEW k \in Stages(def), NEW chain, Standing(def, k, chain),
         def.stages[k].type = "foreach"
  PROVE  Standing(def, k + 1, Append(chain, k))
<1>0. Stages(def) = 1 .. Len(def.stages) /\ Len(def.stages) \in Nat
  BY TreeIs
<1> DEFINE c == Append(chain, k)
<1>1. chain \in Seq(1 .. k) /\ k \in 1 .. k
  BY <1>0 DEF Standing
<1>2. c \in Seq(1 .. k) /\ MemberOf(c) = MemberOf(chain) \union {k}
  BY <1>1, AppendIn, AppendMembers
<1>. HIDE DEF c
<1>3. k \in ForEaches(def)
  BY ReachedIs DEF Standing
<1>4. ASSUME k + 1 \in Stages(def), NEW p \in Stages(def), Within(def, k + 1, p) PROVE p \in MemberOf(c)
  <2>1. p \in 0 .. k
    <3> DEFINE n == k + 1
    <3>1. n - 1 = k
      BY <1>0
    <3>2. n \in Stages(def) /\ Within(def, n, p)
      BY <1>4
    <3>. HIDE DEF n
    <3>3. p \in 0 .. n - 1
      BY <3>2, WithinIs
    <3>. QED
      BY <3>1, <3>3
  <2>2. CASE p = k
    BY <1>2, <2>2
  <2>3. CASE p < k
    <3>1. k \in p + 1 .. (k + 1) - 1
      BY <1>0, <2>3
    <3>2. Within(def, k, p)
      BY <1>4, <3>1, WithinIsStretch
    <3>. QED
      BY <1>2, <3>2 DEF Standing
  <2>. QED
    BY <1>0, <2>1, <2>2, <2>3
<1>5. MemberOf(c) \subseteq ForEaches(def)
  BY <1>2, <1>3 DEF Standing
<1>6. k + 1 \in Stages(def) => k + 1 \in Reached(def)
  BY <1>4, <1>5 DEF Reached, ForEaches
<1>7. 1 .. k = 1 .. (k + 1) - 1
  BY <1>0
<1>. QED
  BY <1>2, <1>4, <1>5, <1>6, <1>7 DEF c, Standing

\* or go on to what follows a stage it does not enter, and what is within that stage it
\* does not come to.
LEMMA StandingAfter ==
  ASSUME IsDefinition(def), NEW k \in Stages(def), NEW chain, Standing(def, k, chain),
         def.stages[k].type # "foreach"
  PROVE  /\ Standing(def, AfterSubtree(k), chain)
         /\ AfterSubtree(k) \in k + 1 .. Len(def.stages) + 1
         /\ \A x \in Reached(def) : x < AfterSubtree(k) => x <= k
<1> DEFINE n == AfterSubtree(k)
<1>0. Stages(def) = 1 .. Len(def.stages) /\ Len(def.stages) \in Nat
  BY TreeIs
<1>1. /\ n \in k + 1 .. Len(def.stages) + 1
      /\ \A x \in k + 1 .. n - 1 : Within(def, x, k)
      /\ n \in Stages(def) => ~Within(def, n, k)
  BY AfterSubtreeIs
<1>. HIDE DEF n
<1>2. ASSUME NEW x \in Reached(def), x < n PROVE x <= k
  <2>1. x \in Stages(def)
    BY ReachedIs
  <2>2. ASSUME k < x PROVE FALSE
    <3>1. x \in k + 1 .. n - 1
      BY <1>0, <1>1, <1>2, <2>1, <2>2
    <3>2. Within(def, x, k)
      BY <1>1, <3>1
    <3>. QED
      BY <2>1, <3>2 DEF Reached
  <2>. QED
    BY <1>0, <2>1, <2>2
<1>3. ASSUME n \in Stages(def), NEW p \in Stages(def), Within(def, n, p)
      PROVE  p \in MemberOf(chain)
  <2>1. p \in 0 .. n - 1 /\ p # k
    BY <1>1, <1>3, WithinIs
  <2>2. ~(k < p)
    <3>1. ASSUME k < p PROVE FALSE
      <4>1. p \in k + 1 .. n - 1
        BY <1>0, <1>1, <2>1, <3>1
      <4>2. Within(def, p, k)
        BY <1>1, <4>1
      <4>3. Within(def, n, k)
        BY <1>3, <4>2, WithinWithin
      <4>. QED
        BY <1>1, <1>3, <4>3
    <3>. QED
      BY <3>1
  <2>3. k \in p + 1 .. n - 1
    BY <1>0, <1>1, <2>1, <2>2
  <2>4. Within(def, k, p)
    BY <1>3, <2>3, WithinIsStretch
  <2>. QED
    BY <2>4 DEF Standing
<1>4. chain \in Seq(1 .. n - 1)
  <2>1. 1 .. k - 1 \subseteq 1 .. n - 1
    BY <1>0, <1>1
  <2>. QED
    BY <2>1, WiderSeq DEF Standing
<1>5. n \in Stages(def) => n \in Reached(def)
  BY <1>3 DEF Standing, Reached, ForEaches
<1>6. Standing(def, n, chain)
  BY <1>3, <1>4, <1>5 DEF Standing
<1>. QED
  BY <1>1, <1>2, <1>6 DEF n

\* Nothing is around the first stage.
LEMMA StandingFirst == IsDefinition(def) => Standing(def, 1, <<>>)
<1>. SUFFICES ASSUME IsDefinition(def) PROVE Standing(def, 1, <<>>)
  OBVIOUS
<1>0. Stages(def) = 1 .. Len(def.stages) /\ Len(def.stages) \in Nat
  BY TreeIs
<1>1. ASSUME NEW p \in Stages(def), 1 \in Stages(def), Within(def, 1, p) PROVE FALSE
  <2>1. p \in 0 .. 1 - 1
    BY <1>1, WithinIs
  <2>. QED
    BY <1>0, <2>1
<1>2. <<>> \in Seq(1 .. 1 - 1) /\ MemberOf(<<>>) = {}
  BY DEF MemberOf
<1>. QED
  BY <1>1, <1>2 DEF Standing, Reached
-----------------------------------------------------------------------------
\* The reference, fault by fault.
Colliding(d) ==
  {k \in ForEaches(d) : \E p \in ForEaches(d) : Within(d, k, p) /\ As(d.stages[p]) = As(d.stages[k])}
Hollow(d) == {k \in ForEaches(d) : Inside(d, k) = {}}
Broken(d) == {k \in ForEaches(d) : ~Sound(d, k)}
Literals(d, k) == {j \in DOMAIN d.stages[k].exprs : d.stages[k].exprs[j].code = "malformed"}
NotLinted(d, o) == o.lint /\ Findings(d) # {}
NotStrict(d, o) == o.strict /\ ~HasSchema(d, o)
NoPipeline(d, o) == o.parallel = "invalid" \/ ~Sound(d, 0)

OfWhole(d, o, f) ==
  \/ d.stages = <<>> /\ f = TopFault(NoName, "NoStages")
  \/ Malformed(d.const) /\ f = TopFault("constants", "DecimalLiteral")
  \/ NotLinted(d, o) /\ f = TopFault(NoName, "Lint")
  \/ NotStrict(d, o) /\ f = TopFault("schema", "StrictWithoutSchema")
  \/ ~Marshalable(d) /\ f = TopFault(NoName, "UnhashableDef")
  \/ NoPipeline(d, o) /\ f = TopFault(NoName, "pipeline")
OfLiteral(d, f) ==
  \E k \in Stages(d) : \E j \in Literals(d, k) :
    f = Fault(d.stages[k].name, d.stages[k].exprs[j].field, "DecimalLiteral")
OfForEach(d, f) ==
  \/ \E k \in Colliding(d) : f = Fault(d.stages[k].name, "as", "ForEachAsCollision")
  \/ \E k \in Hollow(d) : f = Fault(d.stages[k].name, "stages", "shape")
  \/ \E k \in Broken(d) : f = Fault(d.stages[k].name, NoName, "pipeline")
OfStage(d, o, f) == \E k \in Reached(d) : f \in Amiss(d.stages[k], Checked(d, o))

LEMMA FaultsAre ==
  ASSUME NEW d, NEW o, NEW f
  PROVE  f \in Faults(d, o) <=> OfWhole(d, o, f) \/ OfLiteral(d, f) \/ OfForEach(d, f) \/ OfStage(d, o, f)
<1> DEFINE A1 == When(d.stages = <<>>, TopFault(NoName, "NoStages"))
           A2 == When(Malformed(d.const), TopFault("constants", "DecimalLiteral"))
           A3 == UNION {{Fault(d.stages[k].name, d.stages[k].exprs[j].field, "DecimalLiteral") :
                           j \in {j \in DOMAIN d.stages[k].exprs : d.stages[k].exprs[j].code = "malformed"}} :
                          k \in Stages(d)}
           A4 == {Fault(d.stages[k].name, "as", "ForEachAsCollision") :
                   k \in {k \in ForEaches(d) : \E p \in ForEaches(d) : Within(d, k, p) /\ As(d.stages[p]) = As(d.stages[k])}}
           A5 == When(o.lint /\ Findings(d) # {}, TopFault(NoName, "Lint"))
           A6 == When(o.strict /\ ~HasSchema(d, o), TopFault("schema", "StrictWithoutSchema"))
           A7 == {Fault(d.stages[k].name, "stages", "shape") : k \in {k \in ForEaches(d) : Inside(d, k) = {}}}
           A8 == {Fault(d.stages[k].name, NoName, "pipeline") : k \in {k \in ForEaches(d) : ~Sound(d, k)}}
           A9 == UNION {Amiss(d.stages[k], Checked(d, o)) : k \in Reached(d)}
           A10 == When(~Marshalable(d), TopFault(NoName, "UnhashableDef"))
           A11 == When(o.parallel = "invalid" \/ ~Sound(d, 0), TopFault(NoName, "pipeline"))
<1>1. Faults(d, o) = A1 \union A2 \union A3 \union A4 \union A5 \union A6 \union A7 \union A8 \union A9 \union A10 \union A11
  BY Zenon DEF Faults
<1>2. f \in Faults(d, o) <=> \/ f \in A1 \/ f \in A2 \/ f \in A3 \/ f \in A4 \/ f \in A5 \/ f \in A6
                             \/ f \in A7 \/ f \in A8 \/ f \in A9 \/ f \in A10 \/ f \in A11
  <2>. HIDE DEF A1, A2, A3, A4, A5, A6, A7, A8, A9, A10, A11
  <2>. QED
    BY <1>1
<1>3. OfWhole(d, o, f) <=> \/ f \in A1 \/ f \in A2 \/ f \in A5 \/ f \in A6 \/ f \in A10 \/ f \in A11
  <2>1. \A x : \A h \in BOOLEAN : f \in When(h, x) <=> h /\ f = x
    BY DEF When
  <2>2. f \in A1 <=> d.stages = <<>> /\ f = TopFault(NoName, "NoStages")
    BY DEF When
  <2>3. f \in A2 <=> Malformed(d.const) /\ f = TopFault("constants", "DecimalLiteral")
    BY DEF When
  <2>4. f \in A5 <=> NotLinted(d, o) /\ f = TopFault(NoName, "Lint")
    BY DEF When, NotLinted
  <2>5. f \in A6 <=> NotStrict(d, o) /\ f = TopFault("schema", "StrictWithoutSchema")
    BY DEF When, NotStrict
  <2>6. f \in A10 <=> ~Marshalable(d) /\ f = TopFault(NoName, "UnhashableDef")
    BY DEF When
  <2>7. f \in A11 <=> NoPipeline(d, o) /\ f = TopFault(NoName, "pipeline")
    BY DEF When, NoPipeline
  <2>. HIDE DEF A1, A2, A5, A6, A10, A11
  <2>. QED
    BY <2>2, <2>3, <2>4, <2>5, <2>6, <2>7 DEF OfWhole
<1>4. OfLiteral(d, f) <=> f \in A3
  BY DEF OfLiteral, Literals
<1>5. OfForEach(d, f) <=> f \in A4 \/ f \in A7 \/ f \in A8
  <2>1. f \in A4 <=> \E k \in Colliding(d) : f = Fault(d.stages[k].name, "as", "ForEachAsCollision")
    BY Zenon DEF Colliding
  <2>2. f \in A7 <=> \E k \in Hollow(d) : f = Fault(d.stages[k].name, "stages", "shape")
    BY Zenon DEF Hollow
  <2>3. f \in A8 <=> \E k \in Broken(d) : f = Fault(d.stages[k].name, NoName, "pipeline")
    BY Zenon DEF Broken
  <2>. HIDE DEF A4, A7, A8
  <2>. QED
    BY <2>1, <2>2, <2>3 DEF OfForEach
<1>6. OfStage(d, o, f) <=> f \in A9
  BY Zenon DEF OfStage
<1>. HIDE DEF A1, A2, A3, A4, A5, A6, A7, A8, A9, A10, A11
<1>. QED
  BY <1>2, <1>3, <1>4, <1>5, <1>6

\* It looks at the stages, at the schema, and at whether the constant is well formed
\* and can be marshalled.
LEMMA SameTree ==
  ASSUME NEW d, NEW e, d.stages = e.stages
  PROVE  /\ Stages(d) = Stages(e) /\ ForEaches(d) = ForEaches(e) /\ Reached(d) = Reached(e)
         /\ \A k : Inside(d, k) = Inside(e, k) /\ (Sound(d, k) <=> Sound(e, k))
         /\ Colliding(d) = Colliding(e) /\ Hollow(d) = Hollow(e) /\ Broken(d) = Broken(e)
         /\ Findings(d) = Findings(e)
<1>1. Stages(d) = Stages(e)
  BY DEF Stages
<1>2. Around(d) = Around(e)
  BY Zenon DEF Around
<1>3. \A k, p : Within(d, k, p) <=> Within(e, k, p)
  BY <1>2 DEF Within
<1>4. Reached(d) = Reached(e)
  BY <1>1, <1>3 DEF Reached
<1>5. ForEaches(d) = ForEaches(e)
  BY <1>4 DEF ForEaches
<1>6. \A k : Inside(d, k) = Inside(e, k)
  BY <1>1 DEF Inside
<1>7. \A k : NamesIn(d, k) = NamesIn(e, k)
  BY <1>1, <1>6 DEF NamesIn
<1>8. \A k : DepsIn(d, k) = DepsIn(e, k)
  BY <1>6, <1>7 DEF DepsIn
<1>9. \A k : Sound(d, k) <=> Sound(e, k)
  BY <1>7, <1>8 DEF Sound
<1>10. Colliding(d) = Colliding(e) /\ Hollow(d) = Hollow(e) /\ Broken(d) = Broken(e)
  BY <1>3, <1>5, <1>6, <1>9 DEF Colliding, Hollow, Broken
<1>11. Findings(d) = Findings(e)
  BY <1>6 DEF Findings, Tables
<1>. QED
  BY <1>1, <1>4, <1>5, <1>6, <1>9, <1>10, <1>11

LEMMA SameFaults ==
  ASSUME NEW d, NEW e, NEW o, d.stages = e.stages, d.schema = e.schema,
         Malformed(d.const) <=> Malformed(e.const), Marshalable(d) <=> Marshalable(e)
  PROVE  Faults(d, o) = Faults(e, o)
<1>1. HasSchema(d, o) = HasSchema(e, o)
  BY DEF HasSchema
<1>2. Checked(d, o) = Checked(e, o)
  BY <1>1 DEF Checked
<1>3. ASSUME NEW f PROVE OfWhole(d, o, f) <=> OfWhole(e, o, f)
  <2>1. NotLinted(d, o) <=> NotLinted(e, o)
    BY SameTree DEF NotLinted
  <2>2. NotStrict(d, o) <=> NotStrict(e, o)
    BY <1>1 DEF NotStrict
  <2>3. NoPipeline(d, o) <=> NoPipeline(e, o)
    BY SameTree DEF NoPipeline
  <2>. QED
    BY <2>1, <2>2, <2>3 DEF OfWhole
<1>4. ASSUME NEW f PROVE OfLiteral(d, f) <=> OfLiteral(e, f)
  BY DEF OfLiteral, Literals, Stages
<1>5. ASSUME NEW f PROVE OfForEach(d, f) <=> OfForEach(e, f)
  BY SameTree DEF OfForEach
<1>6. ASSUME NEW f PROVE OfStage(d, o, f) <=> OfStage(e, o, f)
  BY <1>2, SameTree DEF OfStage
<1>7. ASSUME NEW f PROVE f \in Faults(d, o) <=> f \in Faults(e, o)
  BY <1>3, <1>4, <1>5, <1>6, FaultsAre
<1>. QED
  BY <1>7
-----------------------------------------------------------------------------
\* What building a stage returns, and all that is wrong with it.

LEMMA FaultIs == \A stage, field, cause : cause # "nil" => Fault(stage, field, cause) # NoFault
BY DEF Fault, NoFault

LEMMA TopFaultIs == \A field, cause : cause # "nil" => TopFault(field, cause) # NoFault
BY FaultIs DEF TopFault

\* Of the expressions that fail, one is compiled first, and of two one is.
LEMMA ForemostIs ==
  ASSUME NEW s, IsStage(s), NEW S, S \subseteq DOMAIN s.exprs, S # {}
  PROVE  Foremost(s, S) \in S
<1>1. DOMAIN s.exprs \subseteq Nat /\ MaxInt \in Nat
  BY SourceAssumption DEF IsStage
<1>2. \A j \in S : s.exprs[j].row \in -MaxInt - 1 .. MaxInt
  BY DEF IsStage
<1> DEFINE rows == {s.exprs[j].row + MaxInt + 1 : j \in S}
           top == FirstOf(rows)
           highest == {j \in S : s.exprs[j].row + MaxInt + 1 = top}
<1>3. rows \subseteq Nat /\ rows # {}
  BY <1>1, <1>2
<1>4. top \in rows /\ \A x \in rows : top <= x
  <2>. HIDE DEF rows
  <2>. QED
    BY <1>3, FirstOfIs
<1>. HIDE DEF top
<1>5. highest \subseteq Nat /\ highest # {}
  BY <1>1, <1>4
<1>6. FirstOf(highest) \in highest /\ \A k \in highest : FirstOf(highest) <= k
  <2>. HIDE DEF highest
  <2>. QED
    BY <1>5, FirstOfIs
<1>7. ASSUME NEW j, j = FirstOf(highest), NEW k \in S \ {j} PROVE Precedes(s, j, k)
  <2>1. j \in S /\ s.exprs[j].row + MaxInt + 1 = top /\ top <= s.exprs[k].row + MaxInt + 1 /\ j \in Nat /\ k \in Nat
    BY <1>1, <1>4, <1>6, <1>7
  <2>2. CASE s.exprs[k].row + MaxInt + 1 = top
    <3>1. j <= k /\ j # k
      BY <1>6, <1>7, <2>2
    <3>. QED
      BY <1>1, <1>2, <2>1, <2>2, <3>1 DEF Precedes
  <2>3. CASE s.exprs[k].row + MaxInt + 1 # top
    BY <1>1, <1>2, <1>4, <2>1, <2>3 DEF Precedes
  <2>. QED
    BY <2>2, <2>3
<1>8. FirstOf(highest) \in S
  BY <1>6
<1>. QED
  BY <1>7, <1>8 DEF Foremost

LEMMA OnePrecedes ==
  ASSUME NEW s, IsStage(s), NEW j \in DOMAIN s.exprs, NEW k \in DOMAIN s.exprs, j # k
  PROVE  Precedes(s, j, k) \/ Precedes(s, k, j)
<1>1. j \in Nat /\ k \in Nat /\ s.exprs[j].row \in Int /\ s.exprs[k].row \in Int
  BY SourceAssumption DEF IsStage
<1>. QED
  BY <1>1 DEF Precedes

\* The order in which expressions are looked at decides which is blamed, and not
\* whether one is.
Unnamed(s) == \E j \in Exprs(s) \ In(s, "rules") : s.exprs[j].key = ""
Repeated(s) ==
  \E j, k \in Exprs(s) \ In(s, "rules") : j # k /\ s.exprs[j].key = s.exprs[k].key
Bare(s) == {r \in DOMAIN s.rules : \A j \in In(s, "decisions") : s.exprs[j].row # r}
Failing(s, checked) == {j \in Exprs(s) : ~Compiles(s.exprs[j], checked)}

LEMMA FieldsAre ==
  /\ FieldsOf("single") = {"expr", "condition"} /\ FieldsOf("multi") = {"exprs"}
  /\ FieldsOf("table") = {"rules", "decisions", "default"} /\ FieldsOf("foreach") = {}
BY DEF FieldsOf

LEMMA MultiMisnamed ==
  ASSUME NEW s, IsStage(s), s.type = "multi"
  PROVE  (\E j \in Exprs(s) : Misnamed(s, j)) <=> Unnamed(s) \/ Repeated(s)
<1>1. /\ Exprs(s) = In(s, "exprs") /\ In(s, "rules") = {} /\ Exprs(s) \subseteq DOMAIN s.exprs
      /\ \A j \in Exprs(s) : s.exprs[j].field = "exprs"
  BY FieldsAre DEF Exprs, In
<1>2. \A j \in Exprs(s) :
        Misnamed(s, j) <=> \/ s.exprs[j].key = ""
                           \/ \E k \in Exprs(s) : Precedes(s, k, j) /\ s.exprs[k].key = s.exprs[j].key
  BY <1>1 DEF Misnamed
<1>3. \A j \in Exprs(s) : ~Precedes(s, j, j)
  BY <1>1, SourceAssumption DEF Precedes, IsStage
<1>. QED
  BY <1>1, <1>2, <1>3, OnePrecedes DEF Unnamed, Repeated

LEMMA TableMisnamed ==
  ASSUME NEW s, IsStage(s), s.type = "table"
  PROVE  (\E j \in Exprs(s) : Misnamed(s, j)) <=> Unnamed(s) \/ Bare(s) # {}
<1>1. /\ Exprs(s) \subseteq DOMAIN s.exprs
      /\ \A j \in Exprs(s) : s.exprs[j].field \in {"rules", "decisions", "default"}
      /\ \A j \in Exprs(s) : j \in In(s, "rules") <=> s.exprs[j].field = "rules"
      /\ \A j \in DOMAIN s.exprs : s.exprs[j].field = "rules" => j \in Exprs(s)
  BY FieldsAre DEF Exprs, In
<1>2. \A j \in Exprs(s) :
        Misnamed(s, j) <=> \/ s.exprs[j].field # "rules" /\ s.exprs[j].key = ""
                           \/ s.exprs[j].field = "rules" /\ \A k \in In(s, "decisions") : s.exprs[k].row # s.exprs[j].row
  BY <1>1 DEF Misnamed
<1>3. \A r : r \in DOMAIN s.rules <=> \E j \in Exprs(s) : s.exprs[j].field = "rules" /\ s.exprs[j].row = r
  BY <1>1 DEF IsStage
<1>4. Bare(s) # {} <=> \E j \in Exprs(s) : /\ s.exprs[j].field = "rules"
                                          /\ \A k \in In(s, "decisions") : s.exprs[k].row # s.exprs[j].row
  BY <1>3 DEF Bare
<1>. QED
  BY <1>1, <1>2, <1>4 DEF Unnamed

LEMMA WrongIs ==
  ASSUME NEW s, IsStage(s), NEW checked
  PROVE  /\ Wrong(s, checked) = {j \in Exprs(s) : Misnamed(s, j)} \union Failing(s, checked)
         /\ Wrong(s, checked) # {} =>
              LET j == Foremost(s, Wrong(s, checked))
                  e == EntryErr(s, j, checked)
              IN  \/ e = "shape" /\ j \in Exprs(s) /\ Misnamed(s, j)
                  \/ e = "expr" /\ j \in Failing(s, checked)
<1>1. \A j : EntryErr(s, j, checked) = IF Misnamed(s, j) THEN "shape"
                                       ELSE IF Compiles(s.exprs[j], checked) THEN "nil" ELSE "expr"
  BY DEF EntryErr
<1>2. Wrong(s, checked) = {j \in Exprs(s) : Misnamed(s, j)} \union Failing(s, checked)
  BY <1>1 DEF Wrong, Failing
<1>3. Wrong(s, checked) \subseteq DOMAIN s.exprs
  BY DEF Wrong, Exprs
<1>4. Wrong(s, checked) # {} => Foremost(s, Wrong(s, checked)) \in Wrong(s, checked)
  BY <1>3, ForemostIs
<1>. QED
  BY <1>1, <1>2, <1>4 DEF Failing, Wrong

LEMMA WhenIs == \A h \in BOOLEAN : \A x, f : f \in When(h, x) <=> h /\ f = x
BY DEF When

\* For each type of stage: the verdict is one of what is amiss, if anything is.
Faithful(s, checked) ==
  /\ Verdict(s, checked) = NoFault <=> Amiss(s, checked) = {}
  /\ Verdict(s, checked) # NoFault => Verdict(s, checked) \in Amiss(s, checked)

LEMMA FaithfulSingle ==
  ASSUME NEW s, IsStage(s), s.type = "single", NEW checked
  PROVE  Faithful(s, checked)
<1> DEFINE cause == IF s.name = "" THEN "EmptyStageName" ELSE "expr"
           wrong == Wrong(s, checked)
           none == In(s, "expr") = {}
<1>1. wrong = Failing(s, checked)
  <2>1. \A j \in Exprs(s) : ~Misnamed(s, j)
    BY FieldsAre DEF Exprs, Misnamed
  <2>. QED
    BY <2>1, WrongIs
<1>2. wrong # {} => FirstOf(wrong) \in wrong
  <2>1. wrong \subseteq Nat
    BY DEF Wrong, Exprs, IsStage
  <2>. HIDE DEF wrong
  <2>. QED
    BY <2>1, FirstOfIs
<1>3. \A f : f \in Amiss(s, checked) <=>
               \/ s.name = "" /\ f = TopFault(NoName, "EmptyStageName")
               \/ none /\ f = Fault(s.name, "expr", "shape")
               \/ \E j \in Failing(s, checked) : f = Fault(s.name, s.exprs[j].field, cause)
  <2>1. Amiss(s, checked) =
          When(s.name = "", TopFault(NoName, "EmptyStageName"))
          \union When(none, Fault(s.name, "expr", "shape"))
          \union {Fault(s.name, s.exprs[j].field, cause) : j \in Failing(s, checked)}
    BY DEF Amiss, Failing
  <2>. HIDE DEF none, cause
  <2>. QED
    BY <2>1, Zenon DEF When
<1>4. Verdict(s, checked) =
        IF none THEN Fault(s.name, "expr", "shape")
        ELSE IF wrong # {} THEN Fault(s.name, s.exprs[FirstOf(wrong)].field, cause)
        ELSE IF s.name = "" THEN TopFault(NoName, "EmptyStageName") ELSE NoFault
  BY DEF Verdict
<1>. HIDE DEF none, wrong, cause
<1>5. cause # "nil"
  BY DEF cause
<1>6. CASE none
  BY <1>3, <1>4, <1>6, FaultIs DEF Faithful
<1>7. CASE ~none /\ wrong # {}
  <2> DEFINE j == FirstOf(wrong)
             f == Fault(s.name, s.exprs[j].field, cause)
  <2>1. Verdict(s, checked) = f /\ j \in Failing(s, checked) /\ f # NoFault
    BY <1>1, <1>2, <1>4, <1>5, <1>7, FaultIs
  <2>2. f \in Amiss(s, checked)
    BY <1>3, <2>1
  <2>. QED
    BY <2>1, <2>2 DEF Faithful
<1>8. CASE ~none /\ wrong = {}
  BY <1>1, <1>3, <1>4, <1>8, TopFaultIs DEF Faithful
<1>. QED
  BY <1>6, <1>7, <1>8

\* Of a stage whose constructor compiles the expressions by their rows.
Constructed(s, checked) ==
  IF s.name = "" THEN TopFault(NoName, "EmptyStageName")
  ELSE IF Wrong(s, checked) # {}
       THEN TopFault(NoName, EntryErr(s, Foremost(s, Wrong(s, checked)), checked)) ELSE NoFault

LEMMA ConstructedIs ==
  ASSUME NEW s, IsStage(s), NEW checked, NEW shaped \in BOOLEAN,
         shaped <=> \E j \in Exprs(s) : Misnamed(s, j)
  PROVE  /\ Constructed(s, checked) = NoFault <=> s.name # "" /\ ~shaped /\ Failing(s, checked) = {}
         /\ Constructed(s, checked) # NoFault =>
              \/ s.name = "" /\ Constructed(s, checked) = TopFault(NoName, "EmptyStageName")
              \/ shaped /\ Constructed(s, checked) = TopFault(NoName, "shape")
              \/ Failing(s, checked) # {} /\ Constructed(s, checked) = TopFault(NoName, "expr")
<1>1. Wrong(s, checked) = {} <=> ~shaped /\ Failing(s, checked) = {}
  BY WrongIs
<1>2. Wrong(s, checked) # {} =>
        \/ EntryErr(s, Foremost(s, Wrong(s, checked)), checked) = "shape" /\ shaped
        \/ EntryErr(s, Foremost(s, Wrong(s, checked)), checked) = "expr" /\ Failing(s, checked) # {}
  BY WrongIs
<1>. QED
  BY <1>1, <1>2, TopFaultIs DEF Constructed

LEMMA FaithfulMulti ==
  ASSUME NEW s, IsStage(s), s.type = "multi", NEW checked
  PROVE  Faithful(s, checked)
<1> DEFINE named == Exprs(s) \ In(s, "rules")
           empty == Exprs(s) = {}
           shaped == Unnamed(s) \/ Repeated(s)
<1>1. In(s, "rules") = {}
  BY FieldsAre DEF In, Exprs
<1>2. \A f : f \in Amiss(s, checked) <=>
               \/ s.name = "" /\ f = TopFault(NoName, "EmptyStageName")
               \/ Failing(s, checked) # {} /\ f = TopFault(NoName, "expr")
               \/ shaped /\ f = TopFault(NoName, "shape")
               \/ empty /\ f = Fault(s.name, "exprs", "shape")
  <2>1. Amiss(s, checked) =
          When(s.name = "", TopFault(NoName, "EmptyStageName"))
          \union When(Failing(s, checked) # {}, TopFault(NoName, "expr"))
          \union When(Unnamed(s), TopFault(NoName, "shape"))
          \union When(named = {}, Fault(s.name, "exprs", "shape"))
          \union When(Repeated(s), TopFault(NoName, "shape"))
    BY DEF Amiss, Failing, Unnamed, Repeated
  <2>2. (named = {}) = empty
    BY <1>1
  <2>. HIDE DEF named, empty
  <2>. QED
    BY <2>1, <2>2, Zenon DEF When
<1>3. Verdict(s, checked) = IF empty THEN Fault(s.name, "exprs", "shape") ELSE Constructed(s, checked)
  BY DEF Verdict, Constructed
<1>4. shaped <=> \E j \in Exprs(s) : Misnamed(s, j)
  BY MultiMisnamed
<1>5. shaped \in BOOLEAN
  BY DEF Unnamed, Repeated
<1>. HIDE DEF shaped, empty
<1>. QED
  BY <1>2, <1>3, <1>4, <1>5, ConstructedIs, FaultIs, TopFaultIs DEF Faithful

LEMMA FaithfulTable ==
  ASSUME NEW s, IsStage(s), s.type = "table", NEW checked
  PROVE  Faithful(s, checked)
<1> DEFINE shaped == Unnamed(s) \/ Bare(s) # {}
           empty == s.rules = <<>>
           policy == s.hit \notin Policies
           aggregation == s.agg \notin Aggregations
<1>1. \A f : f \in Amiss(s, checked) <=>
               \/ s.name = "" /\ f = TopFault(NoName, "EmptyStageName")
               \/ Failing(s, checked) # {} /\ f = TopFault(NoName, "expr")
               \/ shaped /\ f = TopFault(NoName, "shape")
               \/ empty /\ f = Fault(s.name, "rules", "shape")
               \/ policy /\ f = Fault(s.name, "hit_policy", "shape")
               \/ aggregation /\ f = Fault(s.name, "aggregation", "shape")
  <2>1. Amiss(s, checked) =
          When(s.name = "", TopFault(NoName, "EmptyStageName"))
          \union When(Failing(s, checked) # {}, TopFault(NoName, "expr"))
          \union When(Unnamed(s), TopFault(NoName, "shape"))
          \union When(Bare(s) # {}, TopFault(NoName, "shape"))
          \union When(empty, Fault(s.name, "rules", "shape"))
          \union When(policy, Fault(s.name, "hit_policy", "shape"))
          \union When(aggregation, Fault(s.name, "aggregation", "shape"))
    BY DEF Amiss, Failing, Unnamed, Bare
  <2>. HIDE DEF empty, policy, aggregation
  <2>. QED
    BY <2>1, Zenon DEF When
<1>2. Verdict(s, checked) =
        IF empty THEN Fault(s.name, "rules", "shape")
        ELSE IF policy THEN Fault(s.name, "hit_policy", "shape")
        ELSE IF aggregation THEN Fault(s.name, "aggregation", "shape") ELSE Constructed(s, checked)
  BY DEF Verdict, Constructed
<1>3. shaped <=> \E j \in Exprs(s) : Misnamed(s, j)
  BY TableMisnamed
<1>4. shaped \in BOOLEAN
  BY DEF Unnamed
<1>. HIDE DEF shaped, empty, policy, aggregation
<1>. QED
  BY <1>1, <1>2, <1>3, <1>4, ConstructedIs, FaultIs, TopFaultIs DEF Faithful

LEMMA FaithfulForEach ==
  ASSUME NEW s, IsStage(s), s.type = "foreach", s.collection \in BOOLEAN, NEW checked
  PROVE  Faithful(s, checked)
<1> DEFINE stage == s.name = ""
           unknown == UnknownRollup(s)
           emptied == EmptyRollup(s)
<1>1. \A f : f \in Amiss(s, checked) <=>
               \/ stage /\ f = TopFault(NoName, "EmptyStageName")
               \/ unknown /\ f = Fault(s.name, "rollups", "shape")
               \/ ~s.collection /\ f = TopFault(NoName, "collection")
               \/ emptied /\ f = TopFault(NoName, "EmptyRollup")
  <2>1. Amiss(s, checked) =
          When(stage, TopFault(NoName, "EmptyStageName"))
          \union When(unknown, Fault(s.name, "rollups", "shape"))
          \union When(~s.collection, TopFault(NoName, "collection"))
          \union When(emptied, TopFault(NoName, "EmptyRollup"))
    BY DEF Amiss
  <2>. HIDE DEF stage, unknown, emptied
  <2>. QED
    BY <2>1, Zenon DEF When
<1>2. Wrong(s, checked) = {}
  BY FieldsAre DEF Wrong, Exprs
<1>3. Verdict(s, checked) =
        IF unknown THEN Fault(s.name, "rollups", "shape")
        ELSE IF stage THEN TopFault(NoName, "EmptyStageName")
        ELSE IF ~s.collection THEN TopFault(NoName, "collection")
        ELSE IF emptied THEN TopFault(NoName, "EmptyRollup") ELSE NoFault
  BY <1>2 DEF Verdict
<1>. HIDE DEF stage, unknown, emptied
<1>. QED
  BY <1>1, <1>3, FaultIs, TopFaultIs DEF Faithful

LEMMA FaithfulOther ==
  ASSUME NEW s, s.type \notin {"single", "multi", "table", "foreach"}, NEW checked
  PROVE  Faithful(s, checked)
<1>1. Amiss(s, checked) = {Fault(s.name, "type", "shape")} /\ Verdict(s, checked) = Fault(s.name, "type", "shape")
  BY DEF Amiss, Verdict
<1>. QED
  BY <1>1, FaultIs DEF Faithful

LEMMA VerdictIsAmiss ==
  ASSUME NEW d, IsDefinition(d), NEW k \in Stages(d), NEW checked
  PROVE  Faithful(d.stages[k], checked)
<1>1. IsStage(d.stages[k]) /\ d.stages[k].collection \in BOOLEAN
  BY DEF IsDefinition, IsStage, Stages
<1>. QED
  BY <1>1, FaithfulSingle, FaithfulMulti, FaithfulTable, FaithfulForEach, FaithfulOther
-----------------------------------------------------------------------------
\* Where Build stands in each of its parts: what it has come by is in order.  A foreach
\* on the stack of the last part is not empty, and its own verdict is still to come.
Verified(k) ==
  /\ Verdict(St(k), Checked(def, opts)) = NoFault
  /\ k \notin Hollow(def) /\ k \notin Broken(def)

Steps == {"idle", "hydrate", "globals", "chains", "lint", "stages", "hash", "assemble", "built", "refused"}
Resting == Idle \union {"hydrate", "lint", "hash", "assemble"}

StepInv ==
  /\ step \in Steps
  /\ step \in Resting => at = 1 /\ stack = <<>>
  /\ at \in 1 .. Len(def.stages) + 1
  /\ step = "globals" => stack = <<>> /\ \A k \in 1 .. at - 1 : Literals(def, k) = {}
  /\ step = "chains" => Standing(def, at, stack) /\ \A k \in Colliding(def) : k >= at
  /\ step = "stages" =>
       /\ Standing(def, at, stack)
       /\ \A k \in MemberOf(stack) : k \notin Hollow(def)
       /\ \A k \in Reached(def) : k < at => k \in MemberOf(stack) \/ Verified(k)

\* What the parts that are over have found to be in order.
ClearedInv ==
  /\ step \notin Idle => (Malformed(def.const) <=> Malformed(content.built.const))
  /\ step \notin Idle \union {"hydrate"} => ~Malformed(def.const)
  /\ step \in {"chains", "lint", "stages", "hash", "assemble"} => \A k \in Stages(def) : Literals(def, k) = {}
  /\ step \in {"lint", "stages", "hash", "assemble"} => Colliding(def) = {}
  /\ step \in {"stages", "hash", "assemble"} => ~NotLinted(def, opts) /\ ~NotStrict(def, opts)
  /\ step \in {"hash", "assemble"} => \A k \in Reached(def) : Verified(k)
  /\ step = "assemble" => Marshalable(def)

\* What Build has returned.
VerdictInv ==
  /\ step = "refused" <=> fault # NoFault
  /\ step = "built" <=> built # <<>>
  /\ step = "built" => memo # <<>> /\ Faults(content.built, opts) = {}
  /\ step = "refused" => fault \in Faults(content.built, opts)

AcceptInv == StepInv /\ ClearedInv /\ VerdictInv

LEMMA AcceptFrame ==
  ASSUME AcceptInv, UNCHANGED <<def, opts, memo, step, at, stack, fault, built>>,
         content'.built = content.built
  PROVE  AcceptInv'
<1>1. StepInv'
  BY DEF AcceptInv, StepInv, Standing, Verified, St
<1>2. ClearedInv'
  BY DEF AcceptInv, ClearedInv, Verified, St
<1>3. VerdictInv'
  BY DEF AcceptInv, VerdictInv
<1>. QED
  BY <1>1, <1>2, <1>3 DEF AcceptInv

\* Between two calls there is nothing but the outcome of the last.
LEMMA AcceptIdle ==
  ASSUME AcceptInv, step \in Idle, UNCHANGED <<opts, step, at, stack, fault, built>>,
         IsDefinition(def'), step = "built" => memo' = memo,
         content'.built = content.built
  PROVE  AcceptInv'
<1>0. step' \in Idle /\ step' \in Resting /\ step' \notin {"globals", "chains", "lint", "stages", "hash", "assemble"}
      /\ step' \in Steps
  BY DEF Idle, Resting, Steps
<1>1. Len(def.stages)' \in Nat
  BY TreeIs
<1>2. at' = 1 /\ stack' = <<>>
  BY <1>0 DEF AcceptInv, StepInv
<1>3. StepInv'
  BY <1>0, <1>1, <1>2 DEF StepInv
<1>4. ClearedInv'
  BY <1>0 DEF ClearedInv
<1>5. VerdictInv'
  BY DEF AcceptInv, VerdictInv
<1>. QED
  BY <1>3, <1>4, <1>5 DEF AcceptInv

\* A fault that is returned is one of the definition that was built.
LEMMA SameBuilt ==
  ReplayInv /\ AcceptInv /\ step \notin Idle => Faults(def, opts) = Faults(content.built, opts)
<1>. SUFFICES ASSUME ReplayInv, AcceptInv, step \notin Idle
              PROVE  Faults(def, opts) = Faults(content.built, opts)
  OBVIOUS
<1>1. SameContent(def, content.built) /\ (Malformed(def.const) <=> Malformed(content.built.const))
  BY DEF ReplayInv, AcceptInv, ClearedInv
<1> DEFINE c == Canonical(def)
           b == Canonical(content.built)
<1>2. c = b /\ c.stages = def.stages /\ c.schema = def.schema
      /\ b.stages = content.built.stages /\ b.schema = content.built.schema
  BY <1>1 DEF SameContent, Canonical
<1>. HIDE DEF c, b
<1>3. def.stages = content.built.stages /\ def.schema = content.built.schema
  BY <1>2
<1>4. Marshalable(def) <=> Marshalable(content.built)
  BY <1>1 DEF SameContent
<1>. QED
  BY <1>1, <1>3, <1>4, SameFaults

LEMMA RefusedIsFaulty ==
  ASSUME ReplayInv, AcceptInv, step \notin Idle, NEW f, f # NoFault, f \in Faults(def, opts),
         Refuse(f), UNCHANGED <<def, opts, built>>, content'.built = content.built
  PROVE  AcceptInv'
<1>0. /\ step' = "refused" /\ fault' = f /\ stack' = <<>> /\ at' = 1
      /\ step' \in Idle /\ step' \in Resting /\ step' \in Steps
  BY DEF Refuse, Idle, Resting, Steps
<1>1. Len(def.stages)' \in Nat
  BY TreeIs DEF ReplayInv, BuiltInv
<1>2. StepInv'
  BY <1>0, <1>1 DEF StepInv
<1>3. ClearedInv'
  BY <1>0 DEF ClearedInv
<1>4. VerdictInv'
  <2>1. built' = <<>>
    BY DEF AcceptInv, VerdictInv, Idle
  <2>2. f \in Faults(content.built, opts)
    BY SameBuilt
  <2>. QED
    BY <1>0, <2>1, <2>2 DEF VerdictInv
<1>. QED
  BY <1>2, <1>3, <1>4 DEF AcceptInv
-----------------------------------------------------------------------------
\* The parts of Build, one by one.
LEMMA StartBuildKeeps ==
  ASSUME ReplayInv, AcceptInv, NEW o \in Options, StartBuild(o)
  PROVE  AcceptInv'
<1>1. /\ opts' = o /\ built' = <<>> /\ UNCHANGED <<def, memo>> /\ at' = 1 /\ stack' = <<>>
      /\ fault' = IF def.stages = <<>> THEN TopFault(NoName, "NoStages") ELSE NoFault
      /\ step' = IF def.stages = <<>> THEN "refused" ELSE "hydrate"
      /\ content' = [content EXCEPT !.built = def, !.builds = content.builds + 1]
  BY DEF StartBuild, Begin
<1>2. content'.built = def
  <2>1. content' = [built |-> def, ran |-> content.ran, builds |-> content.builds + 1]
    BY <1>1 DEF ReplayInv
  <2>. QED
    BY <2>1
<1>3. Len(def.stages) \in Nat
  BY TreeIs DEF ReplayInv, BuiltInv
<1>4. CASE def.stages = <<>>
  <2>1. step' = "refused" /\ step' \in Idle /\ step' \in Resting /\ step' \in Steps
    BY <1>1, <1>4 DEF Idle, Resting, Steps
  <2>2. fault' = TopFault(NoName, "NoStages") /\ fault' # NoFault
    BY <1>1, <1>4, TopFaultIs
  <2>3. fault' \in Faults(def, o)
    BY <1>4, <2>2, FaultsAre DEF OfWhole
  <2>4. StepInv'
    BY <1>1, <1>3, <2>1 DEF StepInv
  <2>5. ClearedInv'
    BY <2>1 DEF ClearedInv
  <2>6. VerdictInv'
    BY <1>1, <1>2, <2>1, <2>2, <2>3 DEF VerdictInv
  <2>. QED
    BY <2>4, <2>5, <2>6 DEF AcceptInv
<1>5. CASE def.stages # <<>>
  <2>1. step' = "hydrate" /\ step' \in Resting /\ step' \in Steps
    BY <1>1, <1>5 DEF Resting, Steps
  <2>2. fault' = NoFault
    BY <1>1, <1>5
  <2>3. StepInv'
    BY <1>1, <1>3, <2>1 DEF StepInv
  <2>4. ClearedInv'
    BY <1>1, <1>2, <2>1 DEF ClearedInv
  <2>5. VerdictInv'
    BY <1>1, <2>1, <2>2 DEF VerdictInv
  <2>. QED
    BY <2>3, <2>4, <2>5 DEF AcceptInv
<1>. QED
  BY <1>4, <1>5

LEMMA HydratedFine ==
  ASSUME NEW v, IsConstant(v), ~Malformed(v)
  PROVE  ~Malformed(Hydrated(v))
<1>1. CASE v[1] = "$dec"
  <2>1. Hydrated(v) = <<"decimal", v[2], v[3]>>
    BY <1>1 DEF Hydrated
  <2>2. Hydrated(v)[1] # "malformed"
    BY <2>1
  <2>. QED
    BY <2>2 DEF Malformed
<1>2. CASE v[1] # "$dec"
  BY <1>2 DEF Hydrated
<1>. QED
  BY <1>1, <1>2

\* A step that only goes on: nothing is returned.
LEMMA GoesOn ==
  ASSUME AcceptInv, step \notin Idle, step' \in Steps \ Idle, UNCHANGED <<fault, built>>
  PROVE  VerdictInv'
<1>1. step' \notin {"refused", "built"} /\ step \notin {"refused", "built"}
  BY DEF Idle
<1>. QED
  BY <1>1 DEF AcceptInv, VerdictInv

LEMMA ConstantsKeep ==
  ASSUME ReplayInv, AcceptInv, Constants, content'.built = content.built
  PROVE  AcceptInv'
<1>1. step = "hydrate" /\ step \notin Idle /\ at = 1 /\ stack = <<>> /\ UNCHANGED <<opts, built>>
  BY DEF Constants, Idle
<1>2. CASE Malformed(def.const)
  <2> DEFINE f == TopFault("constants", "DecimalLiteral")
  <2>1. Refuse(f) /\ def' = def
    BY <1>2 DEF Constants
  <2>2. f # NoFault
    BY TopFaultIs
  <2>. HIDE DEF f
  <2>3. f \in Faults(def, opts)
    BY <1>2, FaultsAre DEF OfWhole, f
  <2>. QED
    BY <1>1, <2>1, <2>2, <2>3, RefusedIsFaulty
<1>3. CASE ~Malformed(def.const)
  <2> DEFINE c == Hydrated(def.const)
  <2>1. def' = [def EXCEPT !.const = c] /\ step' = "globals" /\ UNCHANGED <<at, stack, fault>>
    BY <1>3 DEF Constants
  <2>2. IsDefinition(def) /\ IsConstant(def.const)
    BY DEF ReplayInv, BuiltInv, IsDefinition
  <2>3. ~Malformed(c)
    BY <1>3, <2>2, HydratedFine
  <2>. HIDE DEF c
  <2>4. def' = [stages |-> def.stages, const |-> c, schema |-> def.schema, version |-> def.version]
    BY <2>1, <2>2 DEF IsDefinition
  <2>5. def'.const = c /\ def'.stages = def.stages
    BY <2>4
  <2>6. step' \in Steps \ Idle
    BY <2>1 DEF Steps, Idle
  <2>7. Len(def.stages) \in Nat
    BY <2>2, TreeIs
  <2>8. StepInv'
    BY <1>1, <2>1, <2>5, <2>6, <2>7 DEF StepInv, Resting, Idle
  <2>9. ClearedInv'
    <3>1. ~Malformed(content.built.const)
      BY <1>1, <1>3 DEF AcceptInv, ClearedInv
    <3>. QED
      BY <2>1, <2>3, <2>5, <3>1 DEF ClearedInv
  <2>10. VerdictInv'
    BY <1>1, <2>1, <2>6, GoesOn
  <2>. QED
    BY <2>8, <2>9, <2>10 DEF AcceptInv
<1>. QED
  BY <1>2, <1>3

LEMMA GlobalsKeep ==
  ASSUME ReplayInv, AcceptInv, Globals, content'.built = content.built
  PROVE  AcceptInv'
<1>1. /\ step = "globals" /\ step \notin Idle /\ UNCHANGED <<def, memo, opts, built>>
      /\ stack = <<>> /\ \A k \in 1 .. at - 1 : Literals(def, k) = {}
  BY DEF Globals, Idle, AcceptInv, StepInv
<1>2. Len(def.stages) \in Nat /\ Stages(def) = 1 .. Len(def.stages) /\ IsDefinition(def)
      /\ at \in 1 .. Len(def.stages) + 1
  BY TreeIs DEF ReplayInv, BuiltInv, AcceptInv, StepInv
<1>3. ASSUME UNCHANGED fault, step' \in {"globals", "chains"},
             step' = "chains" => \A k \in Stages(def) : Literals(def, k) = {}
      PROVE  ClearedInv' /\ VerdictInv'
  <2>1. step' \in Steps \ Idle
    BY <1>3 DEF Steps, Idle
  <2>2. ClearedInv'
    BY <1>1, <1>3 DEF AcceptInv, ClearedInv, Idle
  <2>. QED
    BY <1>1, <1>3, <2>1, <2>2, GoesOn
<1>4. CASE at > Len(def.stages)
  <2>1. step' = "chains" /\ at' = 1 /\ stack' = <<>> /\ UNCHANGED fault
    BY <1>4 DEF Globals, GoOn
  <2>2. \A k \in Stages(def) : Literals(def, k) = {}
    BY <1>1, <1>2, <1>4
  <2>3. Standing(def, 1, <<>>)
    BY <1>2, StandingFirst
  <2>4. \A k \in Colliding(def) : k >= 1
    BY <1>2, ReachedIs DEF Colliding
  <2>5. Standing(def', at', stack')
    BY <1>1, <2>1, <2>3
  <2>6. StepInv'
    BY <1>1, <1>2, <2>1, <2>4, <2>5 DEF StepInv, Resting, Idle, Steps
  <2>. QED
    BY <1>3, <2>1, <2>2, <2>6 DEF AcceptInv
<1>5. CASE at <= Len(def.stages)
  <2>1. at \in Stages(def)
    BY <1>2, <1>5
  <2>2. CASE Literals(def, at) = {}
    <3>1. step' = "globals" /\ at' = at + 1 /\ UNCHANGED <<stack, fault>>
      BY <1>1, <1>2, <1>5, <2>2 DEF Globals, Literals, St
    <3>2. \A k \in 1 .. at' - 1 : k \in 1 .. at - 1 \/ k = at
      BY <1>2, <3>1
    <3>3. StepInv'
      <4>1. \A k \in 1 .. at' - 1 : Literals(def, k) = {}
        BY <1>1, <2>2, <3>2
      <4>2. at' \in 1 .. Len(def.stages) + 1
        BY <1>2, <1>5, <3>1
      <4>. QED
        BY <1>1, <3>1, <4>1, <4>2 DEF StepInv, Resting, Idle, Steps
    <3>. QED
      BY <1>3, <3>1, <3>3 DEF AcceptInv
  <2>3. CASE Literals(def, at) # {}
    <3> DEFINE W == Literals(def, at)
               f == Fault(def.stages[at].name, def.stages[at].exprs[FirstOf(W)].field, "DecimalLiteral")
    <3>1. Refuse(f)
      BY <1>2, <1>5, <2>3 DEF Globals, Literals, St
    <3>2. FirstOf(W) \in W
      <4>1. W \subseteq Nat
        <5>1. def.stages[at].exprs \in Seq(MemberOf(def.stages[at].exprs))
          BY <1>2, <2>1 DEF IsDefinition, IsStage, Stages
        <5>2. DOMAIN def.stages[at].exprs \subseteq Nat
          BY <5>1
        <5>. QED
          BY <5>2 DEF Literals
      <4>. HIDE DEF W
      <4>. QED
        BY <2>3, <4>1, FirstOfIs DEF W
    <3>3. OfLiteral(def, f)
      BY <2>1, <3>2 DEF OfLiteral
    <3>4. f # NoFault
      BY FaultIs
    <3>. HIDE DEF f
    <3>5. f \in Faults(def, opts)
      BY <3>3, FaultsAre
    <3>. QED
      BY <1>1, <3>1, <3>4, <3>5, RefusedIsFaulty
  <2>. QED
    BY <2>2, <2>3
<1>. QED
  BY <1>2, <1>4, <1>5

\* The chain of a stage in it is what is around that stage.
LEMMA UnwoundIs ==
  ASSUME IsDefinition(def), NEW k \in Stages(def), NEW chain, Standing(def, k, chain)
  PROVE  /\ Standing(def, k, Unwound(chain, k))
         /\ \A p \in Stages(def) : Within(def, k, p) <=> p \in MemberOf(Unwound(chain, k))
<1> DEFINE S == {c \in Stages(def) : Within(def, k, c)}
           u == Unwound(chain, k)
<1>1. u = Kept(chain, S)
  BY DEF Unwound
<1>2. chain \in Seq(1 .. k - 1)
  BY DEF Standing
<1>3. u \in Seq(1 .. k - 1) /\ MemberOf(u) = MemberOf(chain) \cap S
  <2>. HIDE DEF S, u
  <2>. QED
    BY <1>1, <1>2, KeptIn
<1>. HIDE DEF u
<1>4. \A p \in Stages(def) : Within(def, k, p) <=> p \in MemberOf(u)
  BY <1>3 DEF Standing
<1>5. Standing(def, k, u)
  BY <1>3, <1>4 DEF Standing
<1>. QED
  BY <1>4, <1>5 DEF u

LEMMA ChainsKeep ==
  ASSUME ReplayInv, AcceptInv, Chains, content'.built = content.built
  PROVE  AcceptInv'
<1>1. /\ step = "chains" /\ step \notin Idle /\ UNCHANGED <<def, memo, opts, built>>
      /\ Standing(def, at, stack) /\ \A k \in Colliding(def) : k >= at
  BY DEF Chains, Idle, AcceptInv, StepInv
<1>2. Len(def.stages) \in Nat /\ Stages(def) = 1 .. Len(def.stages) /\ IsDefinition(def)
      /\ at \in 1 .. Len(def.stages) + 1
  BY TreeIs DEF ReplayInv, BuiltInv, AcceptInv, StepInv
<1>3. ASSUME UNCHANGED fault, step' \in {"chains", "lint"}, step' = "lint" => Colliding(def) = {}
      PROVE  ClearedInv' /\ VerdictInv'
  <2>1. step' \in Steps \ Idle
    BY <1>3 DEF Steps, Idle
  <2>2. ClearedInv'
    BY <1>1, <1>3 DEF AcceptInv, ClearedInv, Idle
  <2>. QED
    BY <1>1, <1>3, <2>1, <2>2, GoesOn
<1>4. CASE at > Len(def.stages)
  <2>1. step' = "lint" /\ at' = 1 /\ stack' = <<>> /\ UNCHANGED fault
    BY <1>4 DEF Chains, GoOn
  <2>2. Colliding(def) = {}
    BY <1>1, <1>2, <1>4, ReachedIs DEF Colliding
  <2>3. StepInv'
    BY <1>1, <1>2, <2>1 DEF StepInv, Resting, Idle, Steps
  <2>. QED
    BY <1>3, <2>1, <2>2, <2>3 DEF AcceptInv
<1>5. CASE at <= Len(def.stages)
  <2> DEFINE u == Unwound(stack, at)
  <2>1. at \in Stages(def) /\ ~(at > Len(def.stages))
    BY <1>2, <1>5
  <2>2. Standing(def, at, u) /\ \A p \in Stages(def) : Within(def, at, p) <=> p \in MemberOf(u)
    BY <1>1, <1>2, <2>1, UnwoundIs
  <2>3. CASE St(at).type # "foreach"
    <3>1. step' = step /\ at' = AfterSubtree(at) /\ stack' = u /\ UNCHANGED fault
      BY <2>1, <2>3 DEF Chains
    <3>. HIDE DEF u
    <3>2. /\ Standing(def, AfterSubtree(at), u)
          /\ AfterSubtree(at) \in at + 1 .. Len(def.stages) + 1
          /\ \A x \in Reached(def) : x < AfterSubtree(at) => x <= at
      BY <1>2, <2>1, <2>2, <2>3, StandingAfter DEF St
    <3>3. ASSUME NEW k \in Colliding(def) PROVE k >= AfterSubtree(at)
      <4>1. k >= at /\ k \in Reached(def) /\ k \in Stages(def) /\ k # at
        BY <1>1, <1>2, <2>3, <3>3, ReachedIs DEF Colliding, ForEaches, St
      <4>2. k \in Nat /\ at \in Nat /\ AfterSubtree(at) \in Nat
        BY <1>2, <3>2, <4>1
      <4>. QED
        BY <3>2, <4>1, <4>2
    <3>4. at' \in 1 .. Len(def.stages) + 1
      BY <1>2, <3>1, <3>2
    <3>5. StepInv'
      BY <1>1, <3>1, <3>2, <3>3, <3>4 DEF StepInv, Resting, Idle, Steps
    <3>. QED
      BY <1>1, <1>3, <3>1, <3>5 DEF AcceptInv
  <2>4. CASE St(at).type = "foreach" /\ \E j \in DOMAIN u : As(St(u[j])) = As(St(at))
    <3> DEFINE f == Fault(def.stages[at].name, "as", "ForEachAsCollision")
    <3>1. Refuse(f)
      BY <2>1, <2>4 DEF Chains, St
    <3>2. PICK j \in DOMAIN u : As(St(u[j])) = As(St(at))
      BY <2>4
    <3>. HIDE DEF u
    <3>3. u[j] \in MemberOf(u) /\ u[j] \in ForEaches(def) /\ u[j] \in Stages(def)
      BY <1>2, <2>2, ReachedIs DEF MemberOf, Standing
    <3>4. Within(def, at, u[j])
      BY <2>2, <3>3
    <3>5. at \in ForEaches(def)
      BY <2>1, <2>2, <2>4, <1>2 DEF Standing, ForEaches, St
    <3>6. at \in Colliding(def)
      BY <3>2, <3>3, <3>4, <3>5 DEF Colliding, St
    <3>7. OfForEach(def, f)
      BY <3>6 DEF OfForEach
    <3>8. f # NoFault
      BY FaultIs
    <3>. HIDE DEF f
    <3>9. f \in Faults(def, opts)
      BY <3>7, FaultsAre
    <3>. QED
      BY <1>1, <3>1, <3>8, <3>9, RefusedIsFaulty
  <2>5. CASE St(at).type = "foreach" /\ ~\E j \in DOMAIN u : As(St(u[j])) = As(St(at))
    <3>1. step' = step /\ at' = at + 1 /\ stack' = Append(u, at) /\ UNCHANGED fault
      BY <2>1, <2>5 DEF Chains
    <3>2. at \notin Colliding(def)
      <4>1. ASSUME NEW p \in ForEaches(def), Within(def, at, p), As(St(p)) = As(St(at)) PROVE FALSE
        <5>1. p \in MemberOf(u)
          BY <1>2, <2>2, <4>1, ReachedIs
        <5>2. PICK j \in DOMAIN u : u[j] = p
          BY <5>1 DEF MemberOf
        <5>. QED
          BY <2>5, <4>1, <5>2
      <4>. QED
        BY <4>1 DEF Colliding, St
    <3>. HIDE DEF u
    <3>3. Standing(def, at + 1, Append(u, at))
      BY <1>2, <2>1, <2>2, <2>5, StandingInside DEF St
    <3>4. \A k \in Colliding(def) : k >= at + 1
      <4>1. \A k \in Colliding(def) : k >= at /\ k # at /\ k \in Nat
        BY <1>1, <1>2, <3>2, ReachedIs DEF Colliding
      <4>. QED
        BY <1>2, <4>1
    <3>5. at' \in 1 .. Len(def.stages) + 1
      BY <1>2, <1>5, <3>1
    <3>6. StepInv'
      BY <1>1, <3>1, <3>3, <3>4, <3>5 DEF StepInv, Resting, Idle, Steps
    <3>. QED
      BY <1>1, <1>3, <3>1, <3>6 DEF AcceptInv
  <2>. QED
    BY <2>3, <2>4, <2>5
<1>. QED
  BY <1>2, <1>4, <1>5

LEMMA LintKeeps ==
  ASSUME ReplayInv, AcceptInv, LintAndSchema, content'.built = content.built
  PROVE  AcceptInv'
<1>1. step = "lint" /\ step \notin Idle /\ UNCHANGED <<def, memo, opts, built>>
  BY DEF LintAndSchema, Idle
<1>2. Len(def.stages) \in Nat /\ IsDefinition(def) /\ Stages(def) = 1 .. Len(def.stages)
  BY TreeIs DEF ReplayInv, BuiltInv
<1>3. CASE NotLinted(def, opts)
  <2> DEFINE f == TopFault(NoName, "Lint")
  <2>1. Refuse(f)
    BY <1>3 DEF LintAndSchema, NotLinted
  <2>2. f # NoFault
    BY TopFaultIs
  <2>. HIDE DEF f
  <2>3. f \in Faults(def, opts)
    BY <1>3, FaultsAre DEF OfWhole, f
  <2>. QED
    BY <1>1, <2>1, <2>2, <2>3, RefusedIsFaulty
<1>4. CASE ~NotLinted(def, opts) /\ NotStrict(def, opts)
  <2> DEFINE f == TopFault("schema", "StrictWithoutSchema")
  <2>1. Refuse(f)
    BY <1>4 DEF LintAndSchema, NotLinted, NotStrict
  <2>2. f # NoFault
    BY TopFaultIs
  <2>. HIDE DEF f
  <2>3. f \in Faults(def, opts)
    BY <1>4, FaultsAre DEF OfWhole, f
  <2>. QED
    BY <1>1, <2>1, <2>2, <2>3, RefusedIsFaulty
<1>5. CASE ~NotLinted(def, opts) /\ ~NotStrict(def, opts)
  <2>1. step' = "stages" /\ at' = 1 /\ stack' = <<>> /\ UNCHANGED fault
    BY <1>5 DEF LintAndSchema, NotLinted, NotStrict, GoOn
  <2>2. step' \in Steps \ Idle
    BY <2>1 DEF Steps, Idle
  <2>3. Standing(def, 1, <<>>)
    BY <1>2, StandingFirst
  <2>4. \A k \in Reached(def) : ~(k < 1)
    BY <1>2, ReachedIs
  <2>5. MemberOf(<<>>) = {}
    BY DEF MemberOf
  <2>6. StepInv'
    BY <1>1, <1>2, <2>1, <2>3, <2>4, <2>5 DEF StepInv, Resting, Idle, Steps
  <2>7. ClearedInv'
    BY <1>1, <1>5, <2>1 DEF AcceptInv, ClearedInv, Idle
  <2>8. VerdictInv'
    BY <1>1, <2>1, <2>2, GoesOn
  <2>. QED
    BY <2>6, <2>7, <2>8 DEF AcceptInv
<1>. QED
  BY <1>3, <1>4, <1>5

\* What is cleared when the stages are gone through stays so.
LEMMA StagesGoOn ==
  ASSUME AcceptInv, step = "stages", step' \in {"stages", "hash"},
         UNCHANGED <<def, opts, fault, built>>, content'.built = content.built,
         step' = "hash" => \A k \in Reached(def) : Verified(k)
  PROVE  ClearedInv' /\ VerdictInv'
<1>1. step' \in Steps \ Idle /\ step \notin Idle
  BY DEF Steps, Idle
<1>2. ClearedInv'
  BY <1>1 DEF AcceptInv, ClearedInv, Idle, Verified, St
<1>. QED
  BY <1>1, <1>2, GoesOn

LEMMA BuildStageKeeps ==
  ASSUME ReplayInv, AcceptInv, BuildStage, content'.built = content.built
  PROVE  AcceptInv'
<1>1. /\ step = "stages" /\ step \notin Idle /\ at <= Len(def.stages) /\ UNCHANGED <<def, memo, opts, built>>
      /\ Standing(def, at, stack)
      /\ \A k \in MemberOf(stack) : k \notin Hollow(def)
      /\ \A k \in Reached(def) : k < at => k \in MemberOf(stack) \/ Verified(k)
  BY DEF BuildStage, Idle, AcceptInv, StepInv
<1>2. Len(def.stages) \in Nat /\ Stages(def) = 1 .. Len(def.stages) /\ IsDefinition(def)
      /\ at \in 1 .. Len(def.stages) + 1 /\ at \in Stages(def)
  BY <1>1, TreeIs DEF ReplayInv, BuiltInv, AcceptInv, StepInv
<1>3. at \in Reached(def)
  BY <1>1, <1>2 DEF Standing
<1>4. CASE St(at).type = "foreach" /\ Inside(def, at) = {}
  <2> DEFINE f == Fault(def.stages[at].name, "stages", "shape")
  <2>1. Refuse(f)
    BY <1>4 DEF BuildStage, St
  <2>2. at \in Hollow(def)
    BY <1>3, <1>4 DEF Hollow, ForEaches, St
  <2>3. OfForEach(def, f)
    BY <2>2 DEF OfForEach
  <2>4. f # NoFault
    BY FaultIs
  <2>. HIDE DEF f
  <2>5. f \in Faults(def, opts)
    BY <2>3, FaultsAre
  <2>. QED
    BY <1>1, <2>1, <2>4, <2>5, RefusedIsFaulty
<1>5. CASE St(at).type = "foreach" /\ Inside(def, at) # {}
  <2>1. step' = step /\ at' = at + 1 /\ stack' = Append(stack, at) /\ UNCHANGED fault
    BY <1>5 DEF BuildStage
  <2>2. Standing(def, at + 1, Append(stack, at))
    BY <1>1, <1>2, <1>5, StandingInside DEF St
  <2>3. MemberOf(stack') = MemberOf(stack) \union {at}
    <3>1. stack \in Seq(1 .. at) /\ at \in 1 .. at
      <4>1. 1 .. at - 1 \subseteq 1 .. at
        BY <1>2
      <4>. QED
        BY <1>1, <1>2, <4>1, WiderSeq DEF Standing
    <3>. QED
      BY <2>1, <3>1, AppendMembers
  <2>4. at \notin Hollow(def)
    BY <1>5 DEF Hollow
  <2>5. ASSUME NEW k \in Reached(def), k < at + 1 PROVE k \in MemberOf(stack') \/ Verified(k)
    <3>1. k < at \/ k = at
      BY <1>2, <2>5, ReachedIs
    <3>. QED
      BY <1>1, <2>3, <3>1
  <2>6. \A k : Verified(k) => Verified(k)'
    BY <1>1 DEF Verified, St
  <2>7. at' \in 1 .. Len(def.stages) + 1
    BY <1>1, <1>2, <2>1
  <2>8. StepInv'
    BY <1>1, <2>1, <2>2, <2>3, <2>4, <2>5, <2>6, <2>7 DEF StepInv, Resting, Idle, Steps
  <2>. QED
    BY <1>1, <2>1, <2>8, StagesGoOn DEF AcceptInv
<1>6. CASE St(at).type # "foreach" /\ Verdict(St(at), Checked(def, opts)) # NoFault
  <2> DEFINE f == Verdict(def.stages[at], Checked(def, opts))
  <2>1. Refuse(f) /\ f # NoFault
    BY <1>6 DEF BuildStage, St
  <2>2. OfStage(def, opts, f)
    BY <1>2, <1>3, <2>1, VerdictIsAmiss DEF Faithful, OfStage
  <2>. HIDE DEF f
  <2>3. f \in Faults(def, opts)
    BY <2>2, FaultsAre
  <2>. QED
    BY <1>1, <2>1, <2>3, RefusedIsFaulty
<1>7. CASE St(at).type # "foreach" /\ Verdict(St(at), Checked(def, opts)) = NoFault
  <2>1. step' = step /\ at' = AfterSubtree(at) /\ stack' = stack /\ UNCHANGED fault
    BY <1>7 DEF BuildStage
  <2>2. /\ Standing(def, AfterSubtree(at), stack)
        /\ AfterSubtree(at) \in at + 1 .. Len(def.stages) + 1
        /\ \A x \in Reached(def) : x < AfterSubtree(at) => x <= at
    BY <1>1, <1>2, <1>7, StandingAfter DEF St
  <2>3. Verified(at)
    BY <1>7 DEF Verified, Hollow, Broken, ForEaches, St
  <2>4. ASSUME NEW k \in Reached(def), k < AfterSubtree(at) PROVE k \in MemberOf(stack) \/ Verified(k)
    <3>1. k < at \/ k = at
      BY <1>2, <2>2, <2>4, ReachedIs
    <3>. QED
      BY <1>1, <2>3, <3>1
  <2>5. \A k : Verified(k) => Verified(k)'
    BY <1>1 DEF Verified, St
  <2>6. at' \in 1 .. Len(def.stages) + 1
    BY <1>2, <2>1, <2>2
  <2>7. StepInv'
    BY <1>1, <2>1, <2>2, <2>4, <2>5, <2>6 DEF StepInv, Resting, Idle, Steps
  <2>. QED
    BY <1>1, <2>1, <2>7, StagesGoOn DEF AcceptInv
<1>. QED
  BY <1>4, <1>5, <1>6, <1>7

LEMMA FinishKeeps ==
  ASSUME ReplayInv, AcceptInv, FinishForEach, content'.built = content.built
  PROVE  AcceptInv'
<1> DEFINE top == stack[Len(stack)]
<1>1. /\ step = "stages" /\ step \notin Idle /\ InnerDone /\ UNCHANGED <<def, memo, opts, built>>
      /\ Standing(def, at, stack)
      /\ \A k \in MemberOf(stack) : k \notin Hollow(def)
      /\ \A k \in Reached(def) : k < at => k \in MemberOf(stack) \/ Verified(k)
  BY DEF FinishForEach, Idle, AcceptInv, StepInv
<1>2. Len(def.stages) \in Nat /\ Stages(def) = 1 .. Len(def.stages) /\ IsDefinition(def)
      /\ at \in 1 .. Len(def.stages) + 1
  BY TreeIs DEF ReplayInv, BuiltInv, AcceptInv, StepInv
<1>3. /\ stack # <<>> /\ (at \in Stages(def) => ~Within(def, at, top))
  BY <1>1 DEF InnerDone
<1>4. /\ stack \in Seq(1 .. at - 1) /\ Len(stack) \in Nat /\ Len(stack) > 0 /\ DOMAIN stack = 1 .. Len(stack)
      /\ Len(stack) - 1 \in Nat
  <2>1. stack \in Seq(1 .. at - 1)
    BY <1>1 DEF Standing
  <2>. QED
    BY <1>3, <2>1
<1>5. top \in MemberOf(stack) /\ top \in ForEaches(def) /\ top \in Reached(def) /\ top \notin Hollow(def)
  <2>1. top \in MemberOf(stack)
    BY <1>4 DEF MemberOf
  <2>. QED
    BY <1>1, <1>2, <2>1, ReachedIs DEF Standing
<1>6. CASE ~Sound(def, top)
  <2> DEFINE f == Fault(def.stages[top].name, NoName, "pipeline")
  <2>1. Refuse(f)
    BY <1>6 DEF FinishForEach, St
  <2>2. top \in Broken(def)
    BY <1>5, <1>6 DEF Broken
  <2>3. OfForEach(def, f)
    BY <2>2 DEF OfForEach
  <2>4. f # NoFault
    BY FaultIs
  <2>. HIDE DEF f
  <2>5. f \in Faults(def, opts)
    BY <2>3, FaultsAre
  <2>. QED
    BY <1>1, <2>1, <2>4, <2>5, RefusedIsFaulty
<1>7. CASE Sound(def, top) /\ Verdict(St(top), Checked(def, opts)) # NoFault
  <2> DEFINE f == Verdict(def.stages[top], Checked(def, opts))
  <2>1. Refuse(f) /\ f # NoFault
    BY <1>7 DEF FinishForEach, St
  <2>2. OfStage(def, opts, f)
    BY <1>2, <1>5, <2>1, VerdictIsAmiss DEF Faithful, OfStage, Reached
  <2>. HIDE DEF f
  <2>3. f \in Faults(def, opts)
    BY <2>2, FaultsAre
  <2>. QED
    BY <1>1, <2>1, <2>3, RefusedIsFaulty
<1>8. CASE Sound(def, top) /\ Verdict(St(top), Checked(def, opts)) = NoFault
  <2> DEFINE rest_ == SubSeq(stack, 1, Len(stack) - 1)
  <2>1. stack' = rest_ /\ UNCHANGED <<step, at, fault>>
    BY <1>8 DEF FinishForEach
  <2>2. rest_ \in Seq(1 .. at - 1) /\ Len(rest_) = Len(stack) - 1
        /\ \A j \in 1 .. Len(stack) - 1 : rest_[j] = stack[j]
    <3> DEFINE m == Len(stack) - 1
               A == 1 .. at - 1
    <3>1. stack \in Seq(A) /\ m \in Nat /\ m <= Len(stack)
      BY <1>4
    <3>. HIDE DEF m, A
    <3>2. /\ SubSeq(stack, 1, m) \in Seq(A) /\ Len(SubSeq(stack, 1, m)) = m
          /\ \A j \in 1 .. m : SubSeq(stack, 1, m)[j] = stack[j]
      <4>1. \A j \in 1 .. m : stack[j] \in A
        BY <3>1
      <4>2. SubSeq(stack, 1, m) = [j \in 1 .. m |-> stack[j]]
        BY <3>1
      <4>. QED
        BY <3>1, <4>1, <4>2
    <3>. QED
      BY <3>2 DEF m, A
  <2>3. MemberOf(rest_) \subseteq MemberOf(stack) /\ MemberOf(stack) \ {top} \subseteq MemberOf(rest_)
    <3>. HIDE DEF rest_
    <3>1. DOMAIN rest_ = 1 .. Len(stack) - 1
      BY <2>2
    <3>2. \A j \in DOMAIN stack : j = Len(stack) \/ j \in DOMAIN rest_
      BY <1>4, <3>1
    <3>3. MemberOf(rest_) \subseteq MemberOf(stack)
      BY <1>4, <2>2, <3>1 DEF MemberOf
    <3>4. ASSUME NEW j \in DOMAIN stack, stack[j] # top PROVE stack[j] \in MemberOf(rest_)
      BY <2>2, <3>1, <3>2, <3>4 DEF MemberOf
    <3>5. MemberOf(stack) \ {top} \subseteq MemberOf(rest_)
      <4>. HIDE DEF top
      <4>. QED
        BY <3>4 DEF MemberOf
    <3>. QED
      BY <3>3, <3>5
  <2>. HIDE DEF rest_
  <2>4. Verified(top)
    BY <1>5, <1>8 DEF Verified, Broken
  <2>5. Standing(def, at, rest_)
    <3>1. ASSUME at \in Stages(def), NEW p \in Stages(def), Within(def, at, p) PROVE p \in MemberOf(rest_)
      BY <1>1, <1>3, <2>3, <3>1 DEF Standing
    <3>. QED
      BY <1>1, <2>2, <2>3, <3>1 DEF Standing
  <2>6. \A k \in Reached(def) : k < at => k \in MemberOf(rest_) \/ Verified(k)
    BY <1>1, <2>3, <2>4
  <2>7. \A k : Verified(k) => Verified(k)'
    BY <1>1 DEF Verified, St
  <2>8. StepInv'
    BY <1>1, <1>2, <2>1, <2>3, <2>5, <2>6, <2>7 DEF StepInv, Resting, Idle, Steps
  <2>. QED
    BY <1>1, <2>1, <2>8, StagesGoOn DEF AcceptInv
<1>. QED
  BY <1>6, <1>7, <1>8

LEMMA StagesDoneKeeps ==
  ASSUME ReplayInv, AcceptInv, StagesDone, content'.built = content.built
  PROVE  AcceptInv'
<1>1. /\ step = "stages" /\ at > Len(def.stages) /\ stack = <<>> /\ UNCHANGED <<def, memo, opts, built, fault>>
      /\ \A k \in Reached(def) : k < at => k \in MemberOf(stack) \/ Verified(k)
      /\ step' = "hash" /\ at' = 1 /\ stack' = <<>>
  BY DEF StagesDone, GoOn, AcceptInv, StepInv
<1>2. Len(def.stages) \in Nat /\ Stages(def) = 1 .. Len(def.stages) /\ IsDefinition(def)
      /\ at \in 1 .. Len(def.stages) + 1
  BY TreeIs DEF ReplayInv, BuiltInv, AcceptInv, StepInv
<1>3. \A k \in Reached(def) : Verified(k)
  <2>1. MemberOf(stack) = {}
    BY <1>1 DEF MemberOf
  <2>. QED
    BY <1>1, <1>2, <2>1, ReachedIs
<1>4. StepInv'
  BY <1>1, <1>2 DEF StepInv, Resting, Idle, Steps
<1>. QED
  BY <1>1, <1>3, <1>4, StagesGoOn DEF AcceptInv

LEMMA HashKeeps ==
  ASSUME ReplayInv, AcceptInv, HashContent, content'.built = content.built
  PROVE  AcceptInv'
<1>1. step = "hash" /\ step \notin Idle /\ UNCHANGED <<def, opts, built>>
  BY DEF HashContent, Idle
<1>2. Len(def.stages) \in Nat
  BY TreeIs DEF ReplayInv, BuiltInv
<1>3. CASE Marshalable(def)
  <2>1. step' = "assemble" /\ at' = 1 /\ stack' = <<>> /\ UNCHANGED fault
    BY <1>3 DEF HashContent, GoOn
  <2>2. step' \in Steps \ Idle
    BY <2>1 DEF Steps, Idle
  <2>3. StepInv'
    BY <1>1, <1>2, <2>1 DEF StepInv, Resting, Idle, Steps
  <2>4. ClearedInv'
    BY <1>1, <1>3, <2>1 DEF AcceptInv, ClearedInv, Idle, Verified, St
  <2>5. VerdictInv'
    BY <1>1, <2>1, <2>2, GoesOn
  <2>. QED
    BY <2>3, <2>4, <2>5 DEF AcceptInv
<1>4. CASE ~Marshalable(def)
  <2> DEFINE f == TopFault(NoName, "UnhashableDef")
  <2>1. Refuse(f)
    BY <1>4 DEF HashContent
  <2>2. f # NoFault
    BY TopFaultIs
  <2>. HIDE DEF f
  <2>3. f \in Faults(def, opts)
    BY <1>4, FaultsAre DEF OfWhole, f
  <2>. QED
    BY <1>1, <2>1, <2>2, <2>3, RefusedIsFaulty
<1>. QED
  BY <1>3, <1>4

LEMMA AssembleKeeps ==
  ASSUME ReplayInv, AcceptInv, Assemble, content'.built = content.built
  PROVE  AcceptInv'
<1>1. step = "assemble" /\ step \notin Idle /\ UNCHANGED <<def, memo, opts>>
  BY DEF Assemble, Idle
<1>2. Len(def.stages) \in Nat /\ Stages(def) = 1 .. Len(def.stages)
  BY TreeIs DEF ReplayInv, BuiltInv
<1>3. CASE NoPipeline(def, opts)
  <2> DEFINE f == TopFault(NoName, "pipeline")
  <2>1. Refuse(f) /\ UNCHANGED built
    BY <1>3 DEF Assemble, NoPipeline
  <2>2. f # NoFault
    BY TopFaultIs
  <2>. HIDE DEF f
  <2>3. f \in Faults(def, opts)
    BY <1>3, FaultsAre DEF OfWhole, f
  <2>. QED
    BY <1>1, <2>1, <2>2, <2>3, RefusedIsFaulty
<1>4. CASE ~NoPipeline(def, opts)
  <2>1. step' = "built" /\ at' = 1 /\ stack' = <<>> /\ UNCHANGED fault
    BY <1>4 DEF Assemble, NoPipeline, GoOn
  <2>2. built' # <<>>
    BY <1>4 DEF Assemble, NoPipeline
  <2>3. Faults(def, opts) = {}
    <3>1. ASSUME NEW f PROVE f \notin Faults(def, opts)
      <4>1. ~OfWhole(def, opts, f)
        <5>1. def.stages # <<>>
          BY <1>1 DEF ReplayInv
        <5>. QED
          BY <1>1, <1>4, <5>1 DEF OfWhole, AcceptInv, ClearedInv, Idle
      <4>2. ~OfLiteral(def, f)
        BY <1>1 DEF OfLiteral, AcceptInv, ClearedInv
      <4>3. \A k \in Reached(def) : Verified(k)
        BY <1>1 DEF AcceptInv, ClearedInv
      <4>4. ~OfForEach(def, f)
        <5>1. Colliding(def) = {}
          BY <1>1 DEF AcceptInv, ClearedInv
        <5>2. Hollow(def) \subseteq Reached(def) /\ Broken(def) \subseteq Reached(def)
          BY DEF Hollow, Broken, ForEaches
        <5>. QED
          BY <4>3, <5>1, <5>2 DEF OfForEach, Verified
      <4>5. ~OfStage(def, opts, f)
        <5>1. IsDefinition(def) /\ Reached(def) \subseteq Stages(def)
          BY DEF ReplayInv, BuiltInv, Reached
        <5>. QED
          BY <4>3, <5>1, VerdictIsAmiss DEF Faithful, OfStage, Verified, St
      <4>. QED
        BY <4>1, <4>2, <4>4, <4>5, FaultsAre
    <3>. QED
      BY <3>1
  <2>4. Faults(content.built, opts) = {}
    BY <1>1, <2>3, SameBuilt
  <2>5. memo # <<>>
    BY <1>1 DEF ReplayInv
  <2>6. fault = NoFault
    BY <1>1 DEF AcceptInv, VerdictInv
  <2>7. step' \in Idle /\ step' \in Resting /\ step' \in Steps
    BY <2>1 DEF Idle, Resting, Steps
  <2>8. StepInv'
    BY <1>1, <1>2, <2>1, <2>7 DEF StepInv
  <2>9. ClearedInv'
    BY <2>1, <2>7 DEF ClearedInv
  <2>10. VerdictInv'
    BY <1>1, <2>1, <2>2, <2>4, <2>5, <2>6 DEF VerdictInv
  <2>. QED
    BY <2>8, <2>9, <2>10 DEF AcceptInv
<1>. QED
  BY <1>3, <1>4
-----------------------------------------------------------------------------
\* What is listed is listed once, and has been timed.
ReportInv == NoRepeats(reported) /\ MemberOf(reported) \subseteq times

LEMMA KeptOnce ==
  ASSUME NEW A, NEW list \in Seq(A), NoRepeats(list), NEW S
  PROVE  NoRepeats(Kept(list, S))
<1> DEFINE s == Kept(list, S)
           Place(a) == FirstIndex(list, {s[a]})
<1>1. /\ s \in Seq(A) /\ MemberOf(s) = MemberOf(list) \cap S
      /\ \A a, b \in DOMAIN s : a < b => Place(a) < Place(b)
  BY KeptIs
<1>. HIDE DEF s
<1>2. Len(s) \in Nat /\ DOMAIN s = 1 .. Len(s) /\ Len(list) \in Nat /\ DOMAIN list = 1 .. Len(list)
  BY <1>1
<1>3. ASSUME NEW a \in DOMAIN s PROVE Place(a) \in DOMAIN list
  <2>1. \E k \in DOMAIN list : list[k] \in {s[a]}
    BY <1>1 DEF MemberOf
  <2>. QED
    BY <2>1, FirstIndexIs
<1>4. ASSUME NEW a \in DOMAIN s, NEW b \in DOMAIN s, s[a] = s[b] PROVE a = b
  <2>1. Place(a) = Place(b) /\ Place(a) \in Nat
    BY <1>2, <1>3, <1>4
  <2>. HIDE DEF Place
  <2>2. ~(Place(a) < Place(b)) /\ ~(Place(b) < Place(a))
    BY <2>1
  <2>3. ~(a < b) /\ ~(b < a)
    BY <1>1, <2>2
  <2>. QED
    BY <1>2, <2>3
<1>5. NoRepeats(s)
  BY <1>4 DEF NoRepeats
<1>. QED
  BY <1>5 DEF s

LEMMA ApartOnce ==
  ASSUME NEW A, NEW s \in Seq(A), NEW t \in Seq(A), NoRepeats(s), NoRepeats(t),
         MemberOf(s) \cap MemberOf(t) = {}
  PROVE  NoRepeats(s \o t)
<1> DEFINE u == s \o t
           m == Len(s)
           n == Len(t)
<1>1. /\ m \in Nat /\ n \in Nat /\ DOMAIN s = 1 .. m /\ DOMAIN t = 1 .. n
      /\ DOMAIN u = 1 .. m + n
      /\ \A j \in 1 .. m : u[j] = s[j]
      /\ \A j \in 1 .. n : u[m + j] = t[j]
  OBVIOUS
<1>. HIDE DEF u, m, n
<1>2. ASSUME NEW j \in DOMAIN u
      PROVE  \/ j \in 1 .. m /\ u[j] = s[j] /\ u[j] \in MemberOf(s)
             \/ j \notin 1 .. m /\ j - m \in 1 .. n /\ u[j] = t[j - m] /\ u[j] \in MemberOf(t)
  <2>1. CASE j <= m
    <3>1. j \in 1 .. m
      BY <1>1, <2>1
    <3>. QED
      BY <1>1, <3>1 DEF MemberOf
  <2>2. CASE ~(j <= m)
    <3>1. j - m \in 1 .. n /\ m + (j - m) = j /\ j \notin 1 .. m
      BY <1>1, <2>2
    <3>2. u[j] = t[j - m]
      BY <1>1, <3>1
    <3>. QED
      BY <1>1, <3>1, <3>2 DEF MemberOf
  <2>. QED
    BY <2>1, <2>2
<1>3. ASSUME NEW j \in DOMAIN u, NEW k \in DOMAIN u, u[j] = u[k] PROVE j = k
  <2>1. CASE j \in 1 .. m
    <3>1. k \in 1 .. m
      BY <1>2, <1>3, <2>1
    <3>2. s[j] = s[k]
      BY <1>1, <1>3, <2>1, <3>1
    <3>. QED
      BY <1>1, <2>1, <3>1, <3>2 DEF NoRepeats
  <2>2. CASE j \notin 1 .. m
    <3>1. k \notin 1 .. m
      BY <1>2, <1>3, <2>2
    <3>2. j - m \in 1 .. n /\ k - m \in 1 .. n /\ t[j - m] = t[k - m]
      BY <1>2, <1>3, <2>2, <3>1
    <3>3. j - m = k - m
      BY <1>1, <3>2 DEF NoRepeats
    <3>. QED
      BY <1>1, <3>3
  <2>. QED
    BY <2>1, <2>2
<1>4. NoRepeats(u)
  BY <1>3 DEF NoRepeats
<1>. QED
  BY <1>4 DEF u

LEMMA ReportKept ==
  BuiltInv /\ ListsInv /\ ReportInv /\ [Next]_vars => ReportInv'
<1>. SUFFICES ASSUME BuiltInv, ListsInv, ReportInv, [Next]_vars PROVE ReportInv'
  OBVIOUS
<1>1. CASE Run
  <2>1. PICK o, w, ran : RunsAs(o, w, ran)
    BY <1>1, RunStep
  <2>2. /\ o \in Seq(MemberOf(o)) /\ NoRepeats(o) /\ ran \subseteq MemberOf(o)
        /\ times' = times \union ran
        /\ reported' = IF w THEN IF times' = {} THEN reported ELSE Kept(o, times')
                       ELSE reported \o Kept(o, ran \ times)
    BY <2>1 DEF RunsAs
  <2>3. ASSUME NEW S
        PROVE  /\ Kept(o, S) \in Seq(MemberOf(o)) /\ MemberOf(Kept(o, S)) = MemberOf(o) \cap S
               /\ NoRepeats(Kept(o, S))
    BY <2>2, KeptIn, KeptOnce
  <2>4. CASE reported' = reported
    BY <2>2, <2>4 DEF ReportInv
  <2>5. CASE reported' = Kept(o, times')
    BY <2>3, <2>5 DEF ReportInv
  <2>6. CASE reported' = reported \o Kept(o, ran \ times)
    <3> DEFINE S == ran \ times
               new == Kept(o, S)
               B == MemberOf(reported) \union MemberOf(o)
    <3>1. new \in Seq(MemberOf(o)) /\ NoRepeats(new) /\ MemberOf(new) = MemberOf(o) \cap S
      BY <2>3
    <3>. HIDE DEF new
    <3>2. MemberOf(new) \subseteq ran /\ MemberOf(new) \cap times = {}
      BY <3>1
    <3>3. reported \in Seq(B) /\ new \in Seq(B)
      <4>1. MemberOf(reported) \subseteq B /\ MemberOf(o) \subseteq B /\ reported \in Seq(MemberOf(reported))
        BY DEF ListsInv
      <4>. HIDE DEF B
      <4>. QED
        BY <3>1, <4>1
    <3>. HIDE DEF B
    <3>4. MemberOf(reported \o new) = MemberOf(reported) \union MemberOf(new)
      BY <3>3, ConcatMembers
    <3>5. NoRepeats(reported \o new)
      BY <3>1, <3>2, <3>3, ApartOnce DEF ReportInv
    <3>6. reported' = reported \o new
      BY <2>6 DEF new
    <3>. QED
      BY <2>2, <3>2, <3>4, <3>5, <3>6 DEF ReportInv
  <2>. QED
    BY <2>2, <2>4, <2>5, <2>6
<1>2. CASE UNCHANGED scope
  BY <1>2 DEF scope, ReportInv
<1>3. CASE Parsing \/ Load \/ (\E o \in Options : StartBuild(o)) \/ Building
  BY <1>2, <1>3 DEF Parsing, Load, StartBuild, Building
<1>4. CASE (\E e \in Edits : Change(e[2])) \/ Done \/ UNCHANGED vars
  BY <1>2, <1>4 DEF Change, Done, vars
<1>. QED
  BY <1>1, <1>3, <1>4 DEF Next

LEMMA AcceptKept == ReplayInv /\ AcceptInv /\ [Next]_vars => AcceptInv'
<1>. SUFFICES ASSUME ReplayInv, AcceptInv, [Next]_vars PROVE AcceptInv'
  OBVIOUS
<1>1. CASE Parsing \/ Done \/ UNCHANGED vars
  <2>1. UNCHANGED <<def, opts, memo, step, at, stack, fault, built, content>>
    BY <1>1 DEF Parsing, Done, vars, build
  <2>. QED
    BY <2>1, AcceptFrame
<1>2. CASE Load
  <2>1. /\ phase = "parsed" /\ def' = parsed[1]
        /\ UNCHANGED <<opts, step, at, stack, fault, built, content>>
        /\ IsDefinition(parsed[1])
    BY <1>2 DEF Load, ReplayInv, BuiltInv, ParsedInv
  <2>2. step = "idle" /\ step \in Idle
    BY <2>1 DEF ReplayInv, Idle
  <2>. QED
    BY <2>1, <2>2, AcceptIdle
<1>3. CASE \E o \in Options : StartBuild(o)
  BY <1>3, StartBuildKeeps
<1>4. CASE Building
  <2>1. BuildNext /\ content'.built = content.built
    BY <1>4 DEF Building
  <2>. QED
    BY <2>1, ConstantsKeep, GlobalsKeep, ChainsKeep, LintKeeps, BuildStageKeeps, FinishKeeps, StagesDoneKeeps,
       HashKeeps, AssembleKeeps DEF BuildNext
<1>5. CASE \E e \in Edits : Change(e[2])
  <2>1. PICK e \in Edits : Change(e[2])
    BY <1>5
  <2>2. /\ step \in Idle /\ def' = e[2]
        /\ UNCHANGED <<memo, opts, step, at, stack, fault, built, content>>
    BY <2>1 DEF Change, Edit, Idle
  <2>3. IsDefinition(def')
    BY <2>2, ConfigAssumption
  <2>. QED
    BY <2>2, <2>3, AcceptIdle
<1>6. CASE Run
  <2>1. UNCHANGED <<def, opts, memo, step, at, stack, fault, built>>
        /\ content' = [content EXCEPT !.ran = content.built]
    BY <1>6 DEF Run, build
  <2>2. content' = [built |-> content.built, ran |-> content.built, builds |-> content.builds]
    BY <2>1 DEF ReplayInv
  <2>3. content'.built = content.built
    BY <2>2
  <2>. QED
    BY <2>1, <2>3, AcceptFrame
<1>. QED
  BY <1>1, <1>2, <1>3, <1>4, <1>5, <1>6 DEF Next

LEMMA AcceptFirst == Init => AcceptInv
<1>. SUFFICES ASSUME Init PROVE AcceptInv
  OBVIOUS
<1>1. /\ step = "idle" /\ at = 1 /\ stack = <<>> /\ fault = NoFault /\ built = <<>> /\ def = NoStages
  BY DEF Init, BuildInit
<1>2. step \in Idle /\ step \in Steps
  BY <1>1 DEF Idle, Steps
<1>3. Len(def.stages) \in Nat
  BY <1>1, NothingIsDefinition, TreeIs
<1>4. StepInv
  BY <1>1, <1>2, <1>3 DEF StepInv
<1>5. ClearedInv
  BY <1>1, <1>2 DEF ClearedInv
<1>6. VerdictInv
  BY <1>1 DEF VerdictInv
<1>. QED
  BY <1>4, <1>5, <1>6 DEF AcceptInv

\* For every definition, however its stages are nested, and all options: Build returns
\* a Pipeline exactly if nothing is wrong in the tree, and blames a stage, a field and
\* a cause that are.
THEOREM AcceptedRightly == Spec => []AcceptsExactly
<1>1. Init => ReplayInv /\ ListsInv /\ AcceptInv /\ ReportInv
  <2>1. Init => ReportInv
    <3>. SUFFICES ASSUME Init PROVE ReportInv
      OBVIOUS
    <3>1. reported = <<>> /\ DOMAIN <<>> = {}
      BY DEF Init
    <3>. QED
      BY <3>1 DEF ReportInv, NoRepeats, MemberOf
  <2>. QED
    BY <2>1, ReplayFirst, ListsFirst, AcceptFirst
<1>2. ReplayInv /\ ListsInv /\ AcceptInv /\ ReportInv => AcceptsExactly
  <2>. SUFFICES ASSUME ReplayInv, AcceptInv, ReportInv PROVE AcceptsExactly
    OBVIOUS
  <2>1. IsDefinition(def) /\ Stages(def) = 1 .. Len(def.stages)
    BY TreeIs DEF ReplayInv, BuiltInv
  <2>2. phase \in {"ready", "fetched", "opened", "parsed", "loaded"}
    BY DEF ReplayInv, BuiltInv, SourceInv
  <2>3. step \in {"idle", "hydrate", "globals", "chains", "lint", "stages", "hash", "assemble", "built", "refused"}
        /\ at \in 1 .. Len(def.stages) + 1
    BY DEF AcceptInv, StepInv, Steps
  <2>4. \A j \in DOMAIN stack : stack[j] \in Stages(def)
    <3>1. \/ stack = <<>>
          \/ MemberOf(stack) \subseteq ForEaches(def)
      BY <2>3 DEF AcceptInv, StepInv, Standing, Resting, Idle
    <3>2. ForEaches(def) \subseteq Stages(def)
      BY DEF ForEaches, Reached
    <3>. QED
      BY <3>1, <3>2 DEF MemberOf
  <2>5. /\ (step = "built" <=> built # <<>>) /\ (step = "refused" <=> fault # NoFault)
        /\ step \in {"assemble", "built"} => memo # <<>>
    BY DEF AcceptInv, VerdictInv, ReplayInv
  <2>6. TypeOK
    BY <2>2, <2>3, <2>4, <2>5 DEF TypeOK, ReportInv
  <2>. QED
    BY <2>6 DEF AcceptsExactly, AcceptInv, VerdictInv
<1>. QED
  BY <1>1, <1>2, ReplayKept, ListsKept, AcceptKept, ReportKept, PTL DEF Spec, ReplayInv
=============================================================================
