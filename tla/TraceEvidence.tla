--------------------------- MODULE TraceEvidence ---------------------------
(***************************************************************************)
(* What becomes of a trace export before anybody investigates it: the      *)
(* collector keeps a span's metadata and drops its content (collector.py), *)
(* the manifest's reader checks it again (trace_manifest.py), and the      *)
(* fixture groups the spans by trace (fixtures.py).  Pure operators.       *)
(*                                                                         *)
(* Digests are injective: an export is its own digest, and those of trace  *)
(* and span identifiers are numbers in the order of their hexadecimal      *)
(* text.  Resources and scopes are flattened, the document's order kept.   *)
(* One attribute key stands for each class the collector tells apart.      *)
(* Constant fields, the span's kind number, number widths and the limits   *)
(* on text are left out.                                                   *)
(***************************************************************************)
EXTENDS GateDecision, SequencesExt, FiniteSetsExt, TLC

CONSTANTS
    Export,        \* per export: its spans
    TraceHash,     \* per trace identifier, and per trace and span identifier:
    SpanHash,      \* their digests
    SafeTexts      \* the texts the safe pattern admits

ASSUME EvidenceAssumption ==
    /\ IsInjective(TraceHash) /\ IsInjective(SpanHash)
    /\ \A trace \in DOMAIN TraceHash : TraceHash[trace] \in Nat
    /\ \A pair \in DOMAIN SpanHash : SpanHash[pair] \in Nat
    /\ \A export \in DOMAIN Export :
          /\ Export[export] \in Seq(ToSet(Export[export]))
          /\ \A span \in ToSet(Export[export]) :
                /\ span.trace \in DOMAIN TraceHash /\ <<span.trace, span.span>> \in DOMAIN SpanHash
                /\ span.start \in Nat \cup {Absent}

TextKeys == {"model", "provider", "kind"}
NumberKeys == {"tokens"}
SensitiveKeys == {"password"}
SpanKinds == {"LLM", "TOOL"}
SpanStatuses == 0 .. 2
SpanError == 2

\* A set in an order, as a sequence: below[x] are those that come before x.
InOrder(S, below) == [n \in 1 .. Cardinality(S) |-> CHOOSE x \in S : Cardinality(below[x]) = n - 1]

Ascending(S) == InOrder(S, [x \in S |-> {y \in S : y < x}])

\* What a sequence has at some positions, in its order.
Picked(seq, positions) == [n \in 1 .. Cardinality(positions) |-> seq[Ascending(positions)[n]]]

---------------------------------------------------------------------------
(* The collector                                                           *)

\* A value is [type, is]; one that cannot be decoded has a type of its own.
SafeValue(key, value) ==
    \/ key = "kind" /\ value.type = "text" /\ value.is \in SpanKinds
    \/ key \in TextKeys \ {"kind"} /\ value.type = "text" /\ value.is \in SafeTexts
    \/ key \in NumberKeys /\ value.type = "number" /\ value.is >= 0

Retained(attributes) ==
    LET kept == {i \in DOMAIN attributes : SafeValue(attributes[i].key, attributes[i].value)}
    IN  [key \in {attributes[i].key : i \in kept} |->
            attributes[CHOOSE i \in kept : attributes[i].key = key].value.is]

\* What is not kept is redacted when its key is on the allowlist or looks like content.
Redacted(attributes) ==
    {i \in DOMAIN attributes :
        /\ attributes[i].key \in TextKeys \cup NumberKeys \cup SensitiveKeys
        /\ ~SafeValue(attributes[i].key, attributes[i].value)}

SpanCollects(span) ==
    /\ "zero" \notin {span.trace, span.span, span.parent}
    /\ span.named
    /\ span.start # Absent /\ span.end # Absent => span.start <= span.end
    /\ span.status \in SpanStatuses \cup {Absent}
    /\ IsInjective([i \in DOMAIN span.attributes |-> span.attributes[i].key])

Elapsed(start, end) == IF start # Absent /\ end # Absent THEN end - start ELSE Absent

Collected(export, span) ==
    LET hash == SpanHash[<<span.trace, span.span>>]
    IN  [ref |-> [source |-> export, span |-> hash],
         trace |-> TraceHash[span.trace], span |-> hash,
         parent |-> IF span.parent = Absent THEN Absent ELSE SpanHash[<<span.trace, span.parent>>],
         start |-> span.start, end |-> span.end, duration |-> Elapsed(span.start, span.end),
         status |-> span.status, attributes |-> Retained(span.attributes)]

\* Spans are ordered by trace, then start (none counts as zero), then span.
SpanBefore(a, b) ==
    LET key(s) == <<s.trace, IF s.start = Absent THEN 0 ELSE s.start, s.span>>
    IN  \E n \in 1 .. 3 : /\ key(a)[n] < key(b)[n]
                          /\ \A i \in 1 .. n - 1 : key(a)[i] = key(b)[i]

SortedSpans(spans) == InOrder(spans, [s \in spans |-> {t \in spans : SpanBefore(t, s)}])

Collects(export, maxSpans) ==
    /\ Len(Export[export]) \in 1 .. maxSpans
    /\ \A span \in ToSet(Export[export]) : SpanCollects(span)
    /\ IsInjective([i \in DOMAIN Export[export] |->
                       <<Export[export][i].trace, Export[export][i].span>>])

Tally(spans, Count(_)) == MapThenSumSet(LAMBDA i : Count(spans[i]), DOMAIN spans)

CollectManifest(export, artifact) ==
    LET spans == Export[export]
    IN  [source |-> [artifact |-> artifact, sha256 |-> export, spans |-> Len(spans),
                     traces |-> Cardinality({s.trace : s \in ToSet(spans)})],
         redaction |->
            [retained |-> Tally(spans, LAMBDA s : Cardinality(DOMAIN Retained(s.attributes))),
             redacted |-> Tally(spans, LAMBDA s : Cardinality(Redacted(s.attributes))),
             dropped |-> Tally(spans, LAMBDA s : Cardinality(
                {i \in DOMAIN s.attributes :
                    s.attributes[i].key \notin TextKeys \cup NumberKeys \cup SensitiveKeys}))],
         spans |-> SortedSpans({Collected(export, s) : s \in ToSet(spans)})]

---------------------------------------------------------------------------
(* The manifest's reader                                                   *)

SourceParses(source) == source.spans >= 1 /\ source.traces >= 1

RedactionParses(redaction) == {redaction[k] : k \in DOMAIN redaction} \subseteq Nat

AttributeParses(key, value) ==
    \/ key = "kind" /\ value \in SpanKinds
    \/ key \in TextKeys \ {"kind"} /\ value \in SafeTexts
    \/ key \in NumberKeys /\ value >= 0

SpanParses(span, source) ==
    /\ span.ref = [source |-> source.sha256, span |-> span.span]
    /\ span.parent # span.span
    /\ span.start # Absent /\ span.end # Absent => span.start <= span.end
    /\ span.duration = Elapsed(span.start, span.end)
    /\ \A key \in DOMAIN span.attributes : AttributeParses(key, span.attributes[key])
    /\ span.status \in SpanStatuses \cup {Absent}

ManifestParses(m) ==
    /\ SourceParses(m.source) /\ RedactionParses(m.redaction)
    /\ m.spans # <<>> /\ \A span \in ToSet(m.spans) : SpanParses(span, m.source)
    /\ m.source.spans = Len(m.spans)
    /\ m.source.traces = Cardinality({s.trace : s \in ToSet(m.spans)})
    /\ IsInjective([i \in DOMAIN m.spans |-> <<m.spans[i].trace, m.spans[i].span>>])
    /\ IsInjective([i \in DOMAIN m.spans |-> m.spans[i].ref])
    /\ m.redaction.retained = Tally(m.spans, LAMBDA s : Cardinality(DOMAIN s.attributes))

---------------------------------------------------------------------------
(* The fixture: one candidate cluster per trace.  A list the code keeps    *)
(* sorted and without repeats is a set, or a function of its keys.         *)

CountedBy(keys, spans, Is(_, _)) ==
    LET hits(key) == {i \in DOMAIN spans : Is(spans[i], key)}
    IN  [key \in {k \in keys : hits(k) # {}} |-> Cardinality(hits(key))]

Mentioned(key, spans) ==
    {s.attributes[key] : s \in {t \in ToSet(spans) : key \in DOMAIN t.attributes}}

ClusterSpans(trace, m) ==
    LET spans    == Picked(m.spans, {i \in DOMAIN m.spans : m.spans[i].trace = trace})
        starts   == {s.start : s \in ToSet(spans)} \ {Absent}
        ends     == {s.end : s \in ToSet(spans)} \ {Absent}
        earliest == IF starts = {} THEN Absent ELSE Min(starts)
        latest   == IF ends = {} THEN Absent ELSE Max(ends)
    IN  [trace |-> trace, ref |-> [source |-> m.source.sha256, trace |-> trace],
         spanRefs |-> {s.ref : s \in ToSet(spans)}, spans |-> Len(spans),
         roots |-> Tally(spans, LAMBDA s : IF s.parent = Absent THEN 1 ELSE 0),
         errors |-> Tally(spans, LAMBDA s : IF s.status = SpanError THEN 1 ELSE 0),
         kinds |-> CountedBy(SpanKinds, spans, LAMBDA s, k :
                       "kind" \in DOMAIN s.attributes /\ s.attributes["kind"] = k),
         statuses |-> CountedBy(SpanStatuses, spans, LAMBDA s, k : s.status = k),
         models |-> Mentioned("model", spans), providers |-> Mentioned("provider", spans),
         earliest |-> earliest, latest |-> latest,
         observed |-> IF earliest # Absent /\ latest # Absent /\ latest >= earliest
                      THEN latest - earliest ELSE Absent]

ClusteredTraces(m) == {s.trace : s \in ToSet(m.spans)}

GeneratesFixture(m, maxClusters) ==
    ManifestParses(m) /\ Cardinality(ClusteredTraces(m)) <= maxClusters

\* "manifest" is the digest of the manifest's bytes.
GenerateFixture(m, manifest, id) ==
    LET order == Ascending(ClusteredTraces(m))
    IN  [id |-> id,
         source |-> [manifest |-> manifest, artifact |-> m.source.artifact,
                     sha256 |-> m.source.sha256, traces |-> m.source.traces,
                     spans |-> m.source.spans],
         clusters |-> [i \in DOMAIN order |-> ClusterSpans(order[i], m)]]

CountsParse(counts, keys, spans) ==
    /\ DOMAIN counts \subseteq keys
    /\ \A key \in DOMAIN counts : counts[key] \in 1 .. spans
    /\ MapThenSumSet(LAMBDA key : counts[key], DOMAIN counts) <= spans

ClusterParses(c, source) ==
    /\ c.ref = [source |-> source.sha256, trace |-> c.trace]
    /\ c.spans >= 1 /\ Cardinality(c.spanRefs) = c.spans
    /\ \A ref \in c.spanRefs : ref.source = source.sha256
    /\ {c.roots, c.errors} \subseteq 0 .. c.spans
    /\ CountsParse(c.kinds, SpanKinds, c.spans)
    /\ CountsParse(c.statuses, SpanStatuses, c.spans)
    /\ c.errors = IF SpanError \in DOMAIN c.statuses THEN c.statuses[SpanError] ELSE 0
    /\ c.models \cup c.providers \subseteq SafeTexts
    /\ c.observed = IF c.earliest # Absent /\ c.latest # Absent /\ c.latest >= c.earliest
                    THEN c.latest - c.earliest ELSE Absent

FixtureParses(f) ==
    /\ f.source.traces >= 1 /\ f.source.spans >= 1
    /\ f.clusters # <<>>
    /\ \A c \in ToSet(f.clusters) : ClusterParses(c, f.source)
    /\ \A i, j \in DOMAIN f.clusters : i < j => f.clusters[i].trace < f.clusters[j].trace
    /\ Len(f.clusters) = f.source.traces
    /\ Tally(f.clusters, LAMBDA c : c.spans) = f.source.spans
=============================================================================
