------------------------------ MODULE Formats -------------------------------
(***************************************************************************)
(* What is written to be read elsewhere: durations (src/config/duration.rs)*)
(* in configurations, trace contexts (src/telemetry/propagation.rs) in the *)
(* headers of the next hop, and the DER of a certificate request           *)
(* (src/tls/acme/client.rs) for the ACME server.  A string is the sequence *)
(* of its tokens; a name in DER is as many bytes as it has characters.     *)
(***************************************************************************)
EXTENDS Integers, SequencesExt

CONSTANTS
  Seconds, Nanos,   \* the durations asked about: whole seconds and the rest
  Inbound,          \* the headers a request may come with
  NameLists         \* lists of domain names, each name given by its length

VARIABLE sample     \* what is being written and read

formatVars == <<sample>>

Questions ==
  [kind : {"duration"}, d : [secs : Seconds, nanos : Nanos]]
    \cup [kind : {"trace"}, in : Inbound]
    \cup [kind : {"names"}, names : NameLists]

FormatInit == sample = [kind |-> "none"]
FormatNext == sample.kind = "none" /\ sample' \in Questions
FormatSpec == FormatInit /\ [][FormatNext]_formatVars

-----------------------------------------------------------------------------
(* Durations *)

Token(n, unit) == [n |-> n, unit |-> unit]
Written(n, unit) == IF n > 0 THEN <<Token(n, unit)>> ELSE << >>

\* Display: hours, minutes and seconds, or else the largest smaller unit alone.
Display(d) ==
  LET whole == Written(d.secs \div 3600, "h") \o Written((d.secs % 3600) \div 60, "m")
                 \o Written(d.secs % 60, "s")
  IN  IF whole # << >> THEN whole
      ELSE IF d.nanos = 0 THEN <<Token(0, "s")>>
      ELSE IF d.nanos >= 1000000 THEN <<Token(d.nanos \div 1000000, "ms")>>
      ELSE IF d.nanos >= 1000 THEN <<Token(d.nanos \div 1000, "us")>>
      ELSE <<Token(d.nanos, "ns")>>

\* A unit in seconds and nanoseconds.  (A configuration may also write a
\* fraction of a unit; Display never does.)
UnitOf == [h |-> <<3600, 0>>, m |-> <<60, 0>>, s |-> <<1, 0>>,
           ms |-> <<0, 1000000>>, us |-> <<0, 1000>>, ns |-> <<0, 1>>]

Plus(d, t) ==
  LET nanos == d.nanos + t.n * UnitOf[t.unit][2]
  IN  [secs |-> d.secs + t.n * UnitOf[t.unit][1] + nanos \div 1000000000,
       nanos |-> nanos % 1000000000]

\* parse_go_duration: every number with its unit is added up.
ParseDuration(tokens) == FoldLeft(Plus, [secs |-> 0, nanos |-> 0], tokens)

-----------------------------------------------------------------------------
(* Trace contexts.  An id has a name and a width in hex digits.             *)

Absent == [present |-> FALSE]
NewSpan == [name |-> "new", width |-> 16]
Id(n, w) == [name |-> n, width |-> w]
Context(t, s, f, st) == [trace |-> t, span |-> s, flags |-> f, state |-> st]

\* A 64-bit trace id is padded to 32 digits.
Padded(id) == IF id.width = 16 THEN [id EXCEPT !.width = 32] ELSE id

\* parse_traceparent takes only well-formed ids.
WellFormed(h) == h.present /\ h.trace.width = 32 /\ h.span.width = 16

\* extract_context: W3C, else B3, else Jaeger, else a new trace.
ExtractContext(in) ==
  IF WellFormed(in.w3c) THEN Context(in.w3c.trace, in.w3c.span, in.w3c.flags, in.state)
  ELSE IF in.b3.present
  THEN Context(Padded(in.b3.trace), in.b3.span, IF in.b3.sampled THEN 1 ELSE 0, "none")
  ELSE IF in.jaeger.present
  THEN Context(Padded(in.jaeger.trace), in.jaeger.span, in.jaeger.flags, "none")
  ELSE Context(Id("new", 32), NewSpan, 1, "none")

Child(ctx) == [ctx EXCEPT !.span = NewSpan]

\* inject_context: W3C and B3 are overwritten, the rest is left as it came.
InjectContext(in, ctx) ==
  [in EXCEPT !.w3c = [present |-> TRUE, trace |-> ctx.trace, span |-> ctx.span, flags |-> ctx.flags],
             !.state = IF ctx.state # "none" THEN ctx.state ELSE @,
             !.b3 = [present |-> TRUE, trace |-> ctx.trace, span |-> ctx.span,
                     sampled |-> ctx.flags % 2 = 1]]

-----------------------------------------------------------------------------
(* DER *)

\* Mutant: one byte of length is thought to be enough for 128 too.
EncodeLengthShort(len) ==
  IF len <= 128 THEN <<len>>
  ELSE IF len < 256 THEN <<129, len>> ELSE <<130, len \div 256, len % 256>>

EncodeLength(len) ==
  IF len < 128 THEN <<len>>
  ELSE IF len < 256 THEN <<129, len>> ELSE <<130, len \div 256, len % 256>>

Wrap(tag, data) == <<tag>> \o EncodeLength(Len(data)) \o data

\* build_san_attribute: one DNSName per domain, wrapped seven times over.
NameBytes(n) == [k \in 1 .. n |-> 97]
SanOid == <<6, 3, 85, 29, 17>>
ExtensionRequestOid == <<6, 9, 42, 134, 72, 134, 247, 13, 1, 9, 14>>
BuildSanAttribute(names) ==
  LET entries == FlattenSeq([i \in DOMAIN names |-> Wrap(130, NameBytes(names[i]))])
      extension == Wrap(48, SanOid \o Wrap(4, Wrap(48, entries)))
  IN  Wrap(160, Wrap(48, ExtensionRequestOid \o Wrap(49, Wrap(48, extension))))

\* The reader of the other side, by the rules of DER: what an element holds,
\* and what comes after it.
Broken == [tag |-> 0, holds |-> << >>, rest |-> << >>, fits |-> FALSE]
Element(bytes) ==
  LET long == bytes[2] > 127
      from == IF long THEN 3 + (bytes[2] - 128) ELSE 3
      len == CASE ~long -> bytes[2]
               [] bytes[2] = 129 -> bytes[3]
               [] OTHER -> bytes[3] * 256 + bytes[4]
  IN  IF from + len - 1 > Len(bytes) THEN Broken
      ELSE [tag |-> bytes[1], holds |-> SubSeq(bytes, from, from + len - 1),
            rest |-> SubSeq(bytes, from + len, Len(bytes)), fits |-> TRUE]

RECURSIVE Elements(_)
Elements(bytes) ==
  IF Len(bytes) < 2 THEN << >>
  ELSE LET e == Element(bytes) IN <<e>> \o (IF e.fits THEN Elements(e.rest) ELSE << >>)

\* The k-th element inside an element.
Within(e, k) ==
  LET inner == Elements(e.holds) IN IF k \in DOMAIN inner THEN inner[k] ELSE Broken

-----------------------------------------------------------------------------
(* Properties *)

\* A duration written with Display and read again is never longer, is shorter
\* by less than a second, and is the same if it was in whole seconds.
DurationSurvives ==
  sample.kind = "duration" =>
    LET d == sample.d
        back == ParseDuration(Display(d))
    IN  /\ back.secs = d.secs /\ back.nanos <= d.nanos
        /\ d.secs > 0 \/ d.nanos - back.nanos < 1000000
        /\ d.nanos = 0 => back = d

\* A request that passes through keeps its trace: the next hop finds the trace
\* this proxy found, whichever headers it came in, with the proxy's span for
\* its parent and sampled if it was.
HopKeepsTrace ==
  sample.kind = "trace" =>
    LET ctx == ExtractContext(sample.in)
        next == ExtractContext(InjectContext(sample.in, Child(ctx)))
    IN  /\ next.trace = ctx.trace /\ next.span = NewSpan
        /\ next.flags % 2 = ctx.flags % 2
        /\ WellFormed(sample.in.w3c) => next.trace = sample.in.w3c.trace /\ next.state = sample.in.state

\* The names of a certificate request are read back by the rules of DER, each
\* whole and in order, and every length on the way is exact.
NamesReadBack ==
  sample.kind = "names" =>
    LET attrs == Elements(BuildSanAttribute(sample.names))
        set == Within(Within(attrs[1], 1), 2)
        octets == Within(Within(Within(set, 1), 1), 2)
        entries == Elements(Within(octets, 1).holds)
    IN  /\ Len(attrs) = 1 /\ attrs[1].fits
        /\ [i \in DOMAIN entries |-> entries[i].holds]
             = [i \in DOMAIN sample.names |-> NameBytes(sample.names[i])]
        /\ \A i \in DOMAIN entries : entries[i].fits /\ entries[i].tag = 130

\* What the proxy writes for others is read back as it was meant: durations in
\* text, trace contexts in headers, the names of a certificate request in DER.
ReadBackAsWritten == DurationSurvives /\ HopKeepsTrace /\ NamesReadBack
=============================================================================
