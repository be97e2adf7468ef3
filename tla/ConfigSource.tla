----------------------------- MODULE ConfigSource -----------------------------
(***************************************************************************)
(* config.Parse and its providers: a document in memory, a caller's        *)
(* reader, a file, a URL, or a Provider of the caller's own.  What is      *)
(* opened on the way, who closes it, how much of a response is read, and   *)
(* what the second Parse of a Provider finds.                              *)
(*                                                                         *)
(* A text is a sequence of documents, and its size is what the network     *)
(* says; decoding is external, and yields the first document.  A decoder   *)
(* reads a bufferful at a time: how far it has got when it has its         *)
(* document is up to it, and may be in the middle of a later one.          *)
(***************************************************************************)
EXTENDS Integers, Sequences, Listing

CONSTANTS
  EmptyDef,    \* the definition without stages, constants or schema
  Providers,   \* [how, kind, text, max]: kind "other" is not known, max is WithMaxBytes
  Fragments,   \* what the rest of a document that was read in part may decode to
  MaxInt,      \* stands for the greatest int64
  MaxParses    \* bound: how often the Provider is parsed

Bad == <<>>        \* a document that cannot be read or decoded; one that can is <<d>>
NoDef == <<>>

Hows == {"bytes", "reader", "file", "url", "nil"}

ASSUME SourceAssumption ==
  /\ MaxInt \in Nat \ {0} /\ MaxParses \in Nat
  /\ \A p \in Providers : p.how \in Hows /\ p.max \in 1 .. MaxInt /\ p.text \in Seq(MemberOf(p.text))

VARIABLES
  provider,  \* the Provider that is parsed
  phase,     \* "ready", "fetched", "opened" or "parsed"
  rest,      \* what is left in the caller's reader
  handles,   \* files and response bodies: [opened, closed]
  size,      \* of the response's body
  parsed,    \* what Parse returned: <<d>>, or NoDef and failure
  failure,   \* the cause of the error
  parses     \* how often it was called

source == <<provider, phase, rest, handles, size, parsed, failure, parses>>

SourceInit ==
  /\ provider \in Providers /\ rest = provider.text
  /\ phase = "ready" /\ handles = [opened |-> 0, closed |-> 0] /\ size = 0
  /\ parsed = NoDef /\ failure = "nil" /\ parses = 0

Opened == handles' = [handles EXCEPT !.opened = @ + 1]
Closed == handles' = [handles EXCEPT !.closed = @ + 1]

Returns(d, cause) == phase' = "parsed" /\ parsed' = d /\ failure' = cause
Fails(cause) == Returns(NoDef, cause)

Begins(how) ==
  /\ phase = "ready" /\ parses < MaxParses /\ provider.how = how
  /\ parses' = parses + 1 /\ UNCHANGED <<provider, rest>>

\* Source of a document in memory, or of the caller's reader: no I/O.
SourceStatic ==
  /\ Begins("bytes") \/ Begins("reader")
  /\ phase' = "opened" /\ UNCHANGED <<handles, size, parsed, failure>>

\* A Provider that yields neither a Source nor an error.
SourceNil == Begins("nil") /\ Fails("NilSource") /\ UNCHANGED <<handles, size>>

\* fileProvider.Source: the kind may depend on the extension; os.Open may fail.
SourceFile ==
  /\ Begins("file") /\ UNCHANGED size
  /\ \/ Fails(IF provider.kind = "other" THEN "UnsupportedExtension" ELSE "open") /\ UNCHANGED handles
     \/ provider.kind # "other" /\ phase' = "opened" /\ Opened /\ UNCHANGED <<parsed, failure>>

\* urlProvider.Source, up to the response: the scheme, the request.
SourceURL ==
  /\ Begins("url")
  /\ \/ Fails(IF provider.kind = "other" THEN "UnsupportedScheme" ELSE "request") /\ UNCHANGED <<handles, size>>
     \/ provider.kind # "other" /\ phase' = "fetched" /\ Opened
        /\ size' \in 0 .. MaxInt /\ (provider.text # <<>> => size' > 0)
        /\ UNCHANGED <<parsed, failure>>

\* Mutant: exactly the limit is read, so a longer body is cut and not refused.
Limit_NoProbe == provider.max
\* A byte more than is allowed; the greatest int64 and one is the smallest.
Limit == IF provider.max = MaxInt THEN -MaxInt - 1 ELSE provider.max + 1
\* io.LimitReader.
Read == IF Limit <= 0 THEN 0 ELSE IF size <= Limit THEN size ELSE Limit

Release(ok) == Closed

\* The response: the status, the body, its size.  The deferred Close comes last.
ReadBody ==
  /\ phase = "fetched" /\ UNCHANGED <<provider, rest, size, parses>>
  /\ \/ \E cause \in {"UnexpectedStatus", "read"} : Fails(cause) /\ Release(FALSE)
     \/ Read > provider.max /\ Fails("MaxBytesExceeded") /\ Release(TRUE)
     \/ Read <= provider.max /\ phase' = "opened" /\ Release(TRUE) /\ UNCHANGED <<parsed, failure>>

\* What Parse reads: a caller's reader is read where it stands, and a response as
\* far as the limit let it in.
Text ==
  CASE provider.how = "reader" -> rest
    [] provider.how = "url" /\ Limit <= 0 -> <<>>
    [] OTHER -> provider.text

\* Where a decoder may leave a reader: after a whole document, or within one; within
\* the first if that failed, or if it is itself what a decoder left of one.
Leavings(text) ==
  LET After(i) == SubSeq(text, i + 1, Len(text))
      first == IF Head(text) = Bad \/ parses > 1 THEN 1 ELSE 2
  IN  {After(i) : i \in 1 .. Len(text)}
      \union (UNION {{<<f>> \o After(i) : i \in first .. Len(text)} : f \in Fragments})

\* Parse, once it has the Source; decodeYAML, decodeJSON: the first document, and
\* at the end of the text none.  A file is closed; nopReader hides a reader's Close.
Decode ==
  /\ phase = "opened" /\ UNCHANGED <<provider, size, parses>>
  /\ IF provider.how = "file" THEN Closed ELSE UNCHANGED handles
  /\ LET known == provider.kind \in {"yaml", "json"} IN
       /\ IF provider.how = "reader" /\ known /\ rest # <<>> THEN rest' \in Leavings(rest) ELSE UNCHANGED rest
       /\ CASE ~known -> Fails("UnknownSourceKind")
            [] known /\ Text = <<>> -> Returns(<<EmptyDef>>, "nil")
            [] OTHER -> IF Head(Text) = Bad THEN Fails("decode") ELSE Returns(Head(Text), "nil")

\* The same Provider is parsed again.
ParseAgain ==
  /\ phase = "parsed" /\ parses < MaxParses
  /\ phase' = "ready" /\ parsed' = NoDef /\ failure' = "nil" /\ size' = 0
  /\ UNCHANGED <<provider, rest, handles, parses>>

SourceNext == SourceStatic \/ SourceNil \/ SourceFile \/ SourceURL \/ ReadBody \/ Decode
-----------------------------------------------------------------------------
\* Once Parse has returned, by whatever way, what it opened is closed, once; and
\* a body that is too long is refused, never cut to a shorter definition.
HandlesClosed ==
  /\ handles.closed <= handles.opened
  /\ phase = "parsed" => handles.opened = handles.closed

NeverTruncated ==
  (phase = "parsed" /\ provider.how = "url") =>
    /\ failure \in {"nil", "decode"} => size <= provider.max
    /\ failure = "MaxBytesExceeded" => size > provider.max

\* The limit that admits nothing, and a text that is one document or none.
Unlimited == provider.how = "url" /\ provider.max = MaxInt
OneDocument == provider.text = <<>> \/ (Len(provider.text) = 1 /\ Head(provider.text) # Bad)
Later == {provider.text[i] : i \in DOMAIN provider.text \ {1}} \union Fragments

\* A Provider yields the first document each time, but for two: with the greatest
\* limit there is, any response is an empty definition; and a caller's reader yields
\* its document once, and then an empty definition without an error, unless it holds
\* more, of which a later Parse may find a document, a part of one, or nothing.
SecondParse ==
  IF provider.how = "reader" /\ parses > 1
  THEN phase = "parsed" =>
         /\ failure = "nil" => parsed = <<EmptyDef>> \/ (~OneDocument /\ parsed \in Later)
         /\ OneDocument => failure # "decode"
  ELSE (phase = "parsed" /\ failure = "nil") =>
         parsed = IF provider.text = <<>> \/ Unlimited THEN <<EmptyDef>> ELSE Head(provider.text)

\* Parse keeps its promises for each kind of Provider, however often it is called.
SourcesKeepFaith == HandlesClosed /\ NeverTruncated /\ SecondParse
==============================================================================
