------------------------------- MODULE ScopeJSON -------------------------------
(***************************************************************************)
(* A Scope saved as JSON and restored: the envelope, the tagged encoding   *)
(* of its data, the untagged one of old blobs and of derivations, and the  *)
(* getters that read a value before and after.                             *)
(*                                                                         *)
(* A Go value is a tuple that begins with its kind, a JSON value one that  *)
(* begins with its syntax; a tagged value is the object the code writes,   *)
(* so that a caller's map may look like one.  A string is a tuple for what *)
(* it spells.  Numbers that may have a fraction are counted in halves.     *)
(***************************************************************************)
EXTENDS Integers, FiniteSets, SequencesExt

CONSTANTS
  Values,    \* what the Scope may hold under its key
  Foreign,   \* envelopes from elsewhere: of old versions, or malformed
  Half,      \* 2^63: int64 is -Half .. Half - 1
  Exact,     \* 2^53: float64 has every half up to it, and even numbers beyond
  FloatMax,  \* a number beyond it is out of float64's range
  Minute,    \* seconds in a minute, as offsets count them
  MaxYear,   \* the last second RFC 3339 can write
  MaxDepth,  \* maxScopeValueDepth
  MaxTrips   \* bound: how often the Scope is saved

ASSUME ScopeJSONAssumption ==
  /\ Half \in Nat /\ Exact \in Nat /\ Exact < Half /\ FloatMax > 4 * Half
  /\ Minute \in Nat \ {0} /\ MaxYear \in Nat /\ MaxDepth \in Nat /\ MaxTrips \in Nat

Fail == <<"fail">>
NoBlob == <<>>
Key == "p"

Signed == {"int", "int8", "int64"}
Unsigned == {"uint8", "uint", "uint64"}
Integral == Signed \union Unsigned
Int64 == -Half .. Half - 1

VARIABLES
  scope,   \* data, started, prov, derived, ruleset, firing: the Scope's state
  blob,    \* the envelope last saved, in a sequence
  saved,   \* history: the Scope it was made from, or a foreign one was read into
  pc,      \* "live", "saved", "refused", "restored" or "rejected"
  trips    \* how often it was saved

vars == <<scope, blob, saved, pc, trips>>

Zero == [data |-> <<>>, started |-> 0, prov |-> FALSE, derived |-> <<>>, ruleset |-> <<>>, firing |-> {}]
-----------------------------------------------------------------------------
\* Numbers and strings.

Finite(h) == <<"fin", h>>
The(S) == CHOOSE x \in S : TRUE

\* float64 rounding of a number of halves, to the nearest and, of two, to the even.
Round(h) ==
  IF h \in -2 * Exact .. 2 * Exact THEN h
  ELSE LET r == h % 4 IN
       CASE r = 0 -> h [] r = 1 -> h - 1 [] r = 3 -> h + 1
         [] OTHER -> IF (h - 2) % 8 = 0 THEN h - 2 ELSE h + 2

\* Here and in the getters, {} is an error, {n} the result n.

\* json.Number.Int64: strconv.ParseInt of the text.
NumberInt64(x) == {n \in {x[2] \div 2} : x[3] /\ n \in Int64}

\* Mutant: every failure to parse is a matter of syntax.
IsIntegerRangeErr_Never(x) == FALSE
\* isIntegerRangeErr: it has the format of an integer.
IsIntegerRangeErr(x) == x[3]

\* json.Number.Float64.
NumberFloat64(x) == {Finite(Round(h)) : h \in {x[2]} \intersect -FloatMax .. FloatMax}

\* encoding/json replaces what is not UTF-8.
JSONText(c) == IF c = <<"invalid">> THEN <<"replaced">> ELSE c

Pow10(n) == LET p[i \in 0 .. n] == IF i = 0 THEN 1 ELSE 10 * p[i - 1] IN p[n]

RECURSIVE Trim(_, _)
Trim(coef, scale) ==
  IF scale > 0 /\ coef % 10 = 0 THEN Trim(coef \div 10, scale - 1) ELSE <<"dec", coef, scale>>

\* Mutant: Decimal.String, which drops trailing zeros.
DecimalText_Trimmed(coef, scale) ==
  IF scale > 0 THEN Trim(coef, scale) ELSE <<"dec", coef * Pow10(-scale), 0>>
\* StringFixed with all its digits; a positive exponent is written out.
DecimalText(coef, scale) ==
  IF scale > 0 THEN <<"dec", coef, scale>> ELSE <<"dec", coef * Pow10(-scale), 0>>

\* time.RFC3339Nano: the clock on the wall, and the offset in whole minutes.
TimeText(wall, offset) == <<"rfc", wall, (offset \div Minute) * Minute>>
-----------------------------------------------------------------------------
\* Encoding.

Tagged(kind, payload) == <<"jobj", [k \in {"$k", "v"} |-> IF k = "v" THEN payload ELSE <<"jstr", <<"word", kind>>>>]>>
Word(kind) == <<"jstr", <<"word", kind>>>>

JSONInt(n) == <<"jnum", 2 * n, TRUE>>
\* A float without a fraction is written as an integer.
JSONFloat(f) == IF f[1] = "fin" THEN <<"jnum", f[2], f[2] % 2 = 0>> ELSE Fail

EncodeFloat(f) == IF JSONFloat(f) = Fail THEN Fail ELSE Tagged("float64", JSONFloat(f))

EncodeInteger(n) == IF n \in Int64 THEN Tagged("int64", JSONInt(n)) ELSE Fail

EncodeNumber(x) ==
  CASE NumberInt64(x) # {} -> EncodeInteger(The(NumberInt64(x)))
    [] NumberInt64(x) = {} /\ IsIntegerRangeErr(x) -> Fail
    [] OTHER -> IF NumberFloat64(x) = {} THEN Fail ELSE EncodeFloat(The(NumberFloat64(x)))

Anyone(f) == \E k \in DOMAIN f : f[k] = Fail

RECURSIVE EncodeValue(_, _)
EncodeValue(v, depth) ==
  IF depth > MaxDepth THEN Fail
  ELSE CASE v[1] = "nil" -> Tagged("null", <<"jnull">>)
         [] v[1] = "bool" -> Tagged("bool", <<"jbool", v[2]>>)
         [] v[1] = "string" -> Tagged("string", <<"jstr", JSONText(v[2])>>)
         [] v[1] \in Integral -> EncodeInteger(v[2])
         [] v[1] \in {"float32", "float64"} -> EncodeFloat(v[2])
         [] v[1] = "decimal" -> Tagged("decimal", <<"jstr", DecimalText(v[2], v[3])>>)
         [] v[1] = "time" -> Tagged("time", <<"jstr", TimeText(v[2], v[3])>>)
         [] v[1] = "number" -> EncodeNumber(v)
         [] v[1] \in {"list", "map"} ->
              LET enc == [k \in DOMAIN v[2] |-> EncodeValue(v[2][k], depth + 1)]
              IN  IF Anyone(enc) THEN Fail
                  ELSE Tagged(v[1], IF v[1] = "list" THEN <<"jlist", enc>> ELSE <<"jobj", enc>>)
         [] OTHER -> Fail    \* a type of the caller's own

\* encoding/json on a value as it is, as for a derivation.
RECURSIVE BareJSON(_)
BareJSON(v) ==
  CASE v[1] = "nil" -> <<"jnull">>
    [] v[1] = "bool" -> <<"jbool", v[2]>>
    [] v[1] = "string" -> <<"jstr", JSONText(v[2])>>
    [] v[1] \in Integral \union {"named"} -> JSONInt(v[2])
    [] v[1] \in {"float32", "float64"} -> JSONFloat(v[2])
    [] v[1] = "decimal" -> <<"jstr", Trim(DecimalText(v[2], v[3])[2], DecimalText(v[2], v[3])[3])>>
    [] v[1] = "time" -> IF v[2] > MaxYear THEN Fail ELSE <<"jstr", TimeText(v[2], v[3])>>
    [] v[1] = "number" -> <<"jnum", v[2], v[3]>>
    [] OTHER -> LET enc == [k \in DOMAIN v[2] |-> BareJSON(v[2][k])]
                IN  IF Anyone(enc) THEN Fail
                    ELSE <<IF v[1] = "list" THEN "jlist" ELSE "jobj", enc>>
-----------------------------------------------------------------------------
\* Decoding.

\* What the decoder makes of JSON, with UseNumber.
RECURSIVE FromJSON(_)
FromJSON(j) ==
  CASE j[1] = "jnull" -> <<"nil">>
    [] j[1] = "jbool" -> <<"bool", j[2]>>
    [] j[1] = "jstr" -> <<"string", j[2]>>
    [] j[1] = "jnum" -> <<"number", j[2], j[3]>>
    [] OTHER -> <<IF j[1] = "jlist" THEN "list" ELSE "map", [k \in DOMAIN j[2] |-> FromJSON(j[2][k])]>>

\* time.Parse, which refuses a year of five digits.
ParseTime(c) == IF c[1] = "rfc" /\ c[2] <= MaxYear THEN <<"time", c[2], c[3]>> ELSE Fail

\* decimal.NewFromString.
ParseDecimal(c) ==
  CASE c[1] = "dec" -> <<"decimal", c[2], c[3]>>
    [] c[1] = "digits" -> <<"decimal", c[2], 0>>
    [] OTHER -> Fail

Float64(j) == IF NumberFloat64(j) = {} THEN Fail ELSE <<"float64", The(NumberFloat64(j))>>

\* A payload that is not of its kind, in syntax or in range, is Fail.
Scalar(kind, j) ==
  CASE kind = "null" -> <<"nil">>
    [] kind = "bool" /\ j[1] = "jbool" -> <<"bool", j[2]>>
    [] kind = "string" /\ j[1] = "jstr" -> <<"string", j[2]>>
    [] kind = "int64" /\ j[1] = "jnum" /\ NumberInt64(j) # {} -> <<"int64", The(NumberInt64(j))>>
    [] kind = "float64" /\ j[1] = "jnum" -> Float64(j)
    [] kind = "decimal" /\ j[1] = "jstr" -> ParseDecimal(j[2])
    [] kind = "time" /\ j[1] = "jstr" -> ParseTime(j[2])
    [] OTHER -> Fail

Untagged(j) == j[1] # "jobj" \/ "$k" \notin DOMAIN j[2]

RECURSIVE DecodeValue(_, _)
DecodeValue(j, depth) ==
  IF depth > MaxDepth THEN Fail
  ELSE IF Untagged(j) THEN FromJSON(j)
  ELSE IF "v" \notin DOMAIN j[2] THEN Fail
  ELSE LET kind == j[2]["$k"]
           payload == j[2]["v"]
       IN  IF \/ kind = Word("list") /\ payload[1] = "jlist"
              \/ kind = Word("map") /\ payload[1] = "jobj"
           THEN LET dec == [k \in DOMAIN payload[2] |-> DecodeValue(payload[2][k], depth + 1)]
                IN  IF Anyone(dec) THEN Fail ELSE <<kind[2][2], dec>>
           ELSE IF kind[1] = "jstr" /\ kind[2][1] = "word" THEN Scalar(kind[2][2], payload) ELSE Fail
-----------------------------------------------------------------------------
\* The envelope.

EncodeAll(data) == [k \in DOMAIN data |-> EncodeValue(data[k], 0)]
BareAll(data) == [k \in DOMAIN data |-> BareJSON(data[k])]

\* MarshalJSON.  What is empty is left out.
Envelope(s) ==
  [v |-> 2, data |-> EncodeAll(s.data), started |-> s.started, ruleset |-> s.ruleset, firing |-> s.firing,
   derived |-> IF s.prov THEN BareAll(s.derived) ELSE <<>>]

Refused(env) == Anyone(env.data) \/ Anyone(env.derived)

\* The data of an envelope; that of the first version is not tagged.
DataOf(env) == [k \in DOMAIN env.data |-> IF env.v >= 2 THEN DecodeValue(env.data[k], 0) ELSE FromJSON(env.data[k])]

Stamp(s, env) == IF env.ruleset # <<>> THEN env.ruleset ELSE s.ruleset

Tracks(s, env) == s.prov \/ env.derived # <<>>

\* The Scope s once env has been restored into it: what env lacks, s keeps.
Restore(s, env) ==
  [data    |-> DataOf(env),
   started |-> IF env.started # 0 THEN env.started ELSE s.started,
   prov    |-> Tracks(s, env),
   derived |-> IF env.derived # <<>> THEN [k \in DOMAIN env.derived |-> FromJSON(env.derived[k])] ELSE s.derived,
   ruleset |-> Stamp(s, env),
   firing  |-> IF env.firing # {} THEN env.firing ELSE s.firing]
-----------------------------------------------------------------------------
Init ==
  /\ \E prov \in BOOLEAN : scope = [Zero EXCEPT !.prov = prov]
  /\ blob = NoBlob /\ saved = Zero /\ pc = "live" /\ trips = 0

\* The caller or a stage writes the value; a derivation is recorded if asked for.
Write(v) ==
  /\ pc = "live"
  /\ scope' = [scope EXCEPT !.data = [k \in {Key} |-> v],
                            !.derived = IF scope.prov THEN [k \in {Key} |-> v] ELSE @]
  /\ UNCHANGED <<blob, saved, pc, trips>>

\* A pipeline runs: the time, its ruleset and a firing are recorded.
Run ==
  /\ pc \in {"live", "saved"} /\ scope.started = 0
  /\ scope' = [scope EXCEPT !.started = trips + 1, !.ruleset = <<trips + 1>>, !.firing = {trips + 1}]
  /\ UNCHANGED <<blob, saved, pc, trips>>

Marshal ==
  /\ pc = "live" /\ trips < MaxTrips /\ trips' = trips + 1
  /\ IF Refused(Envelope(scope))
     THEN pc' = "refused" /\ UNCHANGED <<blob, saved>>
     ELSE pc' = "saved" /\ blob' = <<Envelope(scope)>> /\ saved' = scope
  /\ UNCHANGED scope

\* A value that does not decode leaves the Scope as it was.
Commit(s, env) == IF Anyone(DataOf(env)) THEN s ELSE Restore(s, env)

Unmarshal(s, env) ==
  /\ scope' = Commit(s, env)
  /\ pc' = IF Anyone(DataOf(env)) THEN "rejected" ELSE "restored"

\* Into a new Scope, as it is meant, or into the one at hand.
Reload ==
  /\ pc = "saved"
  /\ \/ Unmarshal(Zero, blob[1])
     \/ Unmarshal(scope, blob[1])
  /\ UNCHANGED <<blob, saved, trips>>

LoadForeign(env) ==
  /\ pc = "live" /\ Unmarshal(scope, env) /\ blob' = NoBlob /\ saved' = scope
  /\ UNCHANGED trips

\* The Scope is used again; the envelope is of no more interest.
Resume ==
  /\ pc \in {"refused", "restored", "rejected"} /\ pc' = "live"
  /\ blob' = NoBlob /\ saved' = Zero /\ UNCHANGED <<scope, trips>>

Next ==
  \/ \E v \in Values : Write(v)
  \/ Run \/ Marshal \/ Reload \/ Resume
  \/ \E env \in Foreign : LoadForeign(env)

Spec == Init /\ [][Next]_vars
-----------------------------------------------------------------------------
\* The getters, on a value; int is 64 bits wide.

GetInt(v) ==
  CASE v[1] \in {"int", "int64"} -> {v[2]} [] v[1] = "number" -> NumberInt64(v) [] OTHER -> {}
GetInt64(v) ==
  CASE v[1] = "int64" -> {v[2]} [] v[1] = "number" -> NumberInt64(v) [] OTHER -> {}
GetFloat64(v) ==
  CASE v[1] = "float64" -> {v[2]} [] v[1] = "number" -> NumberFloat64(v) [] OTHER -> {}
GetString(v) == IF v[1] = "string" THEN {v[2]} ELSE {}

\* Mutant: the bound itself is let through, where int64(f) wraps.
FloatToInt64_Inclusive(h) == IF h = 2 * Half THEN {-Half} ELSE {n \in {h \div 2} : h % 2 = 0 /\ n \in Int64}
\* Integral and below MaxInt64, which as a float is 2^63.
FloatToInt64(h) == {n \in {h \div 2} : h % 2 = 0 /\ h >= -2 * Half /\ h < Round(2 * (Half - 1))}

\* coerceToInt64.
GetInt64Coerce(v) ==
  CASE v[1] = "number" -> NumberInt64(v)
    [] v[1] = "string" /\ v[2][1] = "digits" -> {v[2][2]} \intersect Int64
    [] v[1] \in {"float32", "float64"} /\ v[2][1] = "fin" -> FloatToInt64(v[2][2])
    [] v[1] \in Integral \union {"named"} -> {v[2]} \intersect Int64
    [] OTHER -> {}

\* coerceToFloat64; a string of a decimal is scaled by its digits.
GetFloat64Coerce(v) ==
  CASE v[1] = "number" -> NumberFloat64(v)
    [] v[1] = "string" /\ v[2][1] = "digits" -> {Finite(Round(2 * v[2][2]))}
    [] v[1] \in {"float32", "float64"} -> {v[2]}
    [] v[1] \in Integral \union {"named"} -> {Finite(Round(2 * v[2]))}
    [] OTHER -> {}
-----------------------------------------------------------------------------
\* What a value is worth, apart from its kind: the reference for the getters.
Worth(v) ==
  CASE v[1] \in Integral \union {"named"} -> Finite(2 * v[2])
    [] v[1] \in {"float32", "float64"} -> v[2]
    [] v[1] = "number" -> Finite(v[2])
    [] v[1] = "string" /\ v[2][1] = "digits" -> Finite(2 * v[2][2])
    [] OTHER -> <<"none">>

\* The scalars in a value, each with its depth.
RECURSIVE Leaves(_, _)
Leaves(v, depth) ==
  IF v[1] \notin {"list", "map"} THEN {<<v, depth>>}
  ELSE {<<<<"nil">>, depth>>} \union UNION {Leaves(v[2][k], depth + 1) : k \in DOMAIN v[2]}

InContract(v) ==
  CASE v[1] \in Integral -> v[2] \in Int64
    [] v[1] \in {"float32", "float64"} -> v[2][1] = "fin"
    [] v[1] = "number" -> IF v[3] THEN (v[2] \div 2) \in Int64 ELSE v[2] \in -FloatMax .. FloatMax
    [] OTHER -> v[1] # "named"

\* The kind a value has after a trip: the canonical one of ADR-0038.
RECURSIVE Canonical(_)
Canonical(v) ==
  CASE v[1] \in Integral -> <<"int64", v[2]>>
    [] v[1] = "float32" -> <<"float64", v[2]>>
    [] v[1] = "number" -> IF v[3] THEN <<"int64", v[2] \div 2>> ELSE <<"float64", Finite(Round(v[2]))>>
    [] v[1] = "decimal" /\ v[3] < 0 -> <<"decimal", v[2] * Pow10(-v[3]), 0>>
    [] v[1] = "string" -> <<"string", JSONText(v[2])>>
    [] v[1] = "time" -> <<"time", v[2], (v[3] \div Minute) * Minute>>
    [] v[1] \in {"list", "map"} -> <<v[1], [k \in DOMAIN v[2] |-> Canonical(v[2][k])]>>
    [] OTHER -> v

Canonicals(data) == [k \in DOMAIN data |-> Canonical(data[k])]

Held(s) == {s.data[k] : k \in DOMAIN s.data}
LeavesOf(s) == UNION {Leaves(v, 0) : v \in Held(s)}
TooLate(s) == \E x \in LeavesOf(s) : x[1][1] = "time" /\ x[1][2] > MaxYear

OwnTrip == pc = "restored" /\ blob # NoBlob

\* The Scope and the envelope have their fields, and each phase its blob.
TypeOK ==
  /\ DOMAIN scope = DOMAIN Zero /\ DOMAIN scope.data \subseteq {Key}
  /\ pc \in {"live", "saved", "refused", "restored", "rejected"} /\ trips \in 0 .. MaxTrips
  /\ pc = "saved" => blob # NoBlob /\ saved.data = scope.data
  /\ ~scope.prov => scope.derived = <<>>

\* What was saved loads, unless it holds a time past the year 9999, and what has
\* made one trip makes the next with the same bytes.
SecondTripStable ==
  blob # NoBlob =>
    /\ pc = "rejected" => TooLate(saved)
    /\ pc = "restored" => EncodeAll(scope.data) = blob[1].data

\* A value comes back with its canonical kind, its magnitude, its scale and its
\* nesting, also where a map looks like a tagged value; so do the records.  An
\* envelope that is rejected has changed nothing of the Scope it was read into.
RestoredAsSaved ==
  /\ SecondTripStable
  /\ pc = "rejected" => scope.data \in {saved.data, Zero.data} /\ (blob = NoBlob => scope = saved)
  /\ OwnTrip =>
       /\ scope.data = Canonicals(saved.data)
       /\ saved.started # 0 => scope.started = saved.started
       /\ saved.ruleset # <<>> => scope.ruleset = saved.ruleset
       /\ saved.firing # {} => scope.firing = saved.firing
       /\ DOMAIN saved.derived \subseteq DOMAIN scope.derived

\* A Scope is refused if and only if something in it, at any depth, is out of
\* the contract: never is a number rounded or wrapped to make it fit.
RefusesExactly ==
  /\ TypeOK
  /\ pc = "live" =>
       (Anyone(EncodeAll(scope.data)) <=> \E x \in LeavesOf(scope) : x[2] > MaxDepth \/ ~InContract(x[1]))

\* A getter to an integer gives the very number that is there, in int64, or an error.
CoercionsNeverWrap ==
  \A v \in Held(scope) :
    \A n \in GetInt(v) \union GetInt64(v) \union GetInt64Coerce(v) : n \in Int64 /\ Worth(v) = Finite(2 * n)

\* A getter that reads a value reads it after the trip, with the same result. One
\* case is left out: GetFloat64 reads a json.Number, which returns as an int64.
GettersSurvive ==
  /\ CoercionsNeverWrap
  /\ OwnTrip =>
       \A k \in DOMAIN saved.data :
         LET old == saved.data[k]
             new == scope.data[k]
         IN  /\ GetInt(old) \subseteq GetInt(new) /\ GetInt64(old) \subseteq GetInt64(new)
             /\ (old[1] = "number" /\ old[3]) \/ GetFloat64(old) \subseteq GetFloat64(new)
             /\ {JSONText(c) : c \in GetString(old)} \subseteq GetString(new)
             /\ GetInt64Coerce(old) \subseteq GetInt64Coerce(new)
             /\ GetFloat64Coerce(old) \subseteq GetFloat64Coerce(new)
==============================================================================
