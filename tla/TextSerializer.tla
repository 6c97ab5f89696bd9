--------------------------- MODULE TextSerializer ---------------------------
(***************************************************************************)
(* TextSerializer::Serialize: the families of a scrape or a push as text,  *)
(* and what a reader of the text format gets from it.                      *)
(*                                                                         *)
(* A text is a sequence of tokens: words, numbers and the characters of a  *)
(* name or a label value.  The value of a metric is the one its family's   *)
(* type selects; points are its buckets or its quantiles.  The digits of a *)
(* number are left out.  A help text is one word.  The names are those     *)
(* that CheckMetricName and CheckLabelName let into a family.              *)
(***************************************************************************)
EXTENDS Naturals, FiniteSets, CheckNames

CONSTANTS
  Names,         \* what families are to be named
  Types,         \* the types that occur
  LabelNames,    \* what labels are to be named
  Chars,         \* the characters of label values
  Doubles,       \* the values: words for numbers, "nan", "inf" and "-inf"
  Helps,         \* help texts, one word or none
  Bounds,        \* the upper bounds or quantiles of points, in their order
  Timestamps,    \* timestamp_ms; "0" is no timestamp
  MaxSize        \* bound: the families, metrics, labels, characters and points

Simple == {"counter", "gauge", "untyped"}
ASSUME SerializerAssumption ==
  /\ Types \subseteq Simple \cup {"info", "summary", "histogram"}
  /\ Names \cup LabelNames \subseteq Seq(STRING)

\* Letters, digits and numbers are no separators, and no line ends in a help text.
ASSUME TokenAssumption ==
  /\ (Letters \cup Digits) \cap {"#", "{", " ", "=", "\n"} = {}
  /\ "\n" \notin Doubles \cup Timestamps \cup Helps

\* Bounds are finite numbers, without repetition, and infinity after them.
ASSUME BoundsAssumption ==
  /\ Bounds \in Seq(STRING \ {"nan", "-inf", "+Inf"})
  /\ \A i, j \in DOMAIN Bounds : i < j => Bounds[i] # Bounds[j] /\ Bounds[i] # "inf"

VARIABLES
  metrics,       \* the families that were collected
  size           \* the number of their parts

-----------------------------------------------------------------------------
(* WriteValue, WriteHead and WriteTail.                                    *)

NumberText(d) ==
  CASE d = "nan" -> "Nan" [] d = "inf" -> "+Inf" [] d = "-inf" -> "-Inf" [] OTHER -> d

QuotesOnly(c) == IF c = "\"" THEN <<"\\", c>> ELSE <<c>>
Escaped(c) ==
  CASE c = "\n" -> <<"\\", "n">> [] c \in {"\\", "\""} -> <<"\\", c>> [] OTHER -> <<c>>

EscapedValue(value) == FlattenSeq([i \in DOMAIN value |-> Escaped(value[i])])

Label(name, value) == [name |-> name, value |-> value]

WriteHead(family, metric, suffix, extra) ==
  LET labels == metric.label \o extra
      text(i) == (IF i = 1 THEN <<>> ELSE <<",">>) \o labels[i].name \o <<"=", "\"">>
                   \o EscapedValue(labels[i].value) \o <<"\"">>
  IN family.name \o suffix
     \o (IF labels = <<>> THEN <<>>
         ELSE <<"{">> \o FlattenSeq([i \in DOMAIN labels |-> text(i)]) \o <<"}">>)
     \o <<" ">>

WriteTail(metric) ==
  (IF metric.timestamp = "0" THEN <<>> ELSE <<" ", metric.timestamp>>) \o <<"\n">>

Line(family, metric, suffix, extra, value) ==
  WriteHead(family, metric, suffix, extra) \o <<NumberText(value)>> \o WriteTail(metric)

-----------------------------------------------------------------------------
(* The kinds of metrics.                                                   *)

\* SerializeCounter, SerializeGauge, SerializeUntyped and SerializeInfo.
SerializeValue(f, m) ==
  Line(f, m, IF f.type = "info" THEN <<"_", "info">> ELSE <<>>, <<>>, m.value)

Totals(f, m) ==
  Line(f, m, <<"_", "count">>, <<>>, m.count) \o Line(f, m, <<"_", "sum">>, <<>>, m.value)

\* The points of a metric, each with a label that tells it apart.
Points(f, m, suffix, name) ==
  FlattenSeq([i \in DOMAIN m.points |->
    Line(f, m, suffix, <<Label(<<name>>, <<NumberText(m.points[i].at)>>)>>, m.points[i].value)])

SerializeSummary(f, m) == Totals(f, m) \o Points(f, m, <<>>, "quantile")

LacksInf(points) == points = <<>> \/ Last(points).at # "inf"

SerializeHistogram(f, m) ==
  Totals(f, m) \o Points(f, m, <<"_", "bucket">>, "le")
  \o IF LacksInf(m.points)
     THEN Line(f, m, <<"_", "bucket">>, <<Label(<<"le">>, <<"+Inf">>)>>, m.count) ELSE <<>>

SerializeMetric(f, m) ==
  CASE f.type = "summary" -> SerializeSummary(f, m)
    [] f.type = "histogram" -> SerializeHistogram(f, m)
    [] OTHER -> SerializeValue(f, m)

TypeText(type) == IF type = "info" THEN "gauge" ELSE type

SerializeFamily(f) ==
  (IF f.help = "" THEN <<>> ELSE <<"#", "HELP">> \o f.name \o <<f.help, "\n">>)
  \o <<"#", "TYPE">> \o f.name \o <<TypeText(f.type), "\n">>
  \o FlattenSeq([i \in DOMAIN f.metric |-> SerializeMetric(f, f.metric[i])])

Serialize(families) ==
  FlattenSeq([i \in DOMAIN families |-> SerializeFamily(families[i])])

-----------------------------------------------------------------------------
(* What can be collected: families with distinct names, metrics of one     *)
(* family with distinct labels, points in their order.                     *)

TextInit == metrics = <<>> /\ size = 0

NewFamily(name, type, help) ==
  /\ CheckMetricName(name)
  /\ \A i \in DOMAIN metrics : metrics[i].name # name
  /\ metrics' = Append(metrics, [name |-> name, type |-> type, help |-> help,
                                 metric |-> <<>>])

Family == Last(metrics)
Metric == Last(Family.metric)

\* Something is added to the metric that was collected last.
Grow(metric) ==
  metrics' = [metrics EXCEPT ![Len(metrics)].metric[Len(Family.metric)] = metric]

NewMetric(count, value, timestamp) ==
  /\ metrics # <<>>
  /\ metrics' = [metrics EXCEPT ![Len(metrics)].metric =
       Append(@, [label |-> <<>>, points |-> <<>>, count |-> count, value |-> value,
                  timestamp |-> timestamp])]

HasMetric == metrics # <<>> /\ Family.metric # <<>>

NewLabel(name) ==
  /\ HasMetric
  /\ CheckLabelName(name, Family.type)
  /\ \A i \in DOMAIN Metric.label : Metric.label[i].name # name
  /\ Grow([Metric EXCEPT !.label = Append(@, Label(name, <<>>))])

LabelGrows(char) ==
  /\ HasMetric /\ Metric.label # <<>>
  /\ Grow([Metric EXCEPT !.label[Len(Metric.label)].value = Append(@, char)])

\* A bucket that is +Inf holds every observation.
NewPoint(i, value) ==
  /\ HasMetric /\ Family.type \in {"summary", "histogram"}
  /\ \A p \in ToSet(Metric.points) : \E j \in 1 .. i - 1 : Bounds[j] = p.at
  /\ Bounds[i] = "inf" => Family.type = "histogram" /\ value = Metric.count
  /\ Grow([Metric EXCEPT !.points = Append(@, [at |-> Bounds[i], value |-> value])])

TextNext ==
  /\ size < MaxSize /\ size' = size + 1
  /\ \/ \E n \in Names, t \in Types, h \in Helps : NewFamily(n, t, h)
     \/ \E c, v \in Doubles, t \in Timestamps : NewMetric(c, v, t)
     \/ \E n \in LabelNames : NewLabel(n)
     \/ \E c \in Chars : LabelGrows(c)
     \/ \E i \in DOMAIN Bounds, v \in Doubles : NewPoint(i, v)

TextSpec == TextInit /\ [][TextNext]_<<metrics, size>>

-----------------------------------------------------------------------------
(* A reader of the text format: it reads each line token by token.         *)

NothingRead == [at |-> "name", name |-> <<>>, labels |-> <<>>, label |-> <<>>,
                chars |-> <<>>, rest |-> <<>>]

ReadToken(r, c) ==
  LET Moves(at) == [r EXCEPT !.at = at]
      Char(char) == [r EXCEPT !.at = "value", !.chars = Append(@, char)]
  IN CASE r.at = "comment" -> r
       [] r.at = "name" /\ c = "#" -> Moves("comment")
       [] r.at = "name" /\ c = "{" -> Moves("label")
       [] r.at = "name" /\ c = " " -> Moves("rest")
       [] r.at = "name" /\ c \notin {"#", "{", " ", "\n"} -> [r EXCEPT !.name = Append(@, c)]
       [] r.at = "label" /\ c = "=" -> Moves("equals")
       [] r.at = "label" /\ c \notin {"=", "\n"} -> [r EXCEPT !.label = Append(@, c)]
       [] r.at = "equals" /\ c = "\"" -> Moves("value")
       [] r.at = "value" /\ c = "\\" -> Moves("escape")
       [] r.at = "value" /\ c = "\"" ->
            [r EXCEPT !.at = "after", !.labels = Append(@, <<r.label, r.chars>>),
                      !.label = <<>>, !.chars = <<>>]
       [] r.at = "value" /\ c \notin {"\\", "\"", "\n"} -> Char(c)
       [] r.at = "escape" /\ c # "\n" -> Char(IF c = "n" THEN "\n" ELSE c)
       [] r.at = "after" /\ c = "," -> Moves("label")
       [] r.at = "after" /\ c = "}" -> Moves("name")
       [] r.at = "rest" /\ c = "\n" -> Moves("sample")
       [] r.at = "rest" /\ c # "\n" -> [r EXCEPT !.rest = Append(@, c)]
       [] OTHER -> Moves("malformed")

ReadLine(line) ==
  LET upTo[n \in 0 .. Len(line)] == IF n = 0 THEN NothingRead ELSE ReadToken(upTo[n - 1], line[n])
  IN upTo[Len(line)]

\* What is read of each line, by the place where the line begins.
Read ==
  LET text == Serialize(metrics)
      begins == {i \in DOMAIN text : i = 1 \/ text[i - 1] = "\n"}
      end(i) == Min({j \in i .. Len(text) : text[j] = "\n"})
  IN [i \in begins |-> ReadLine(SubSeq(text, i, end(i)))]

-----------------------------------------------------------------------------
\* What a metric means: one sample for a plain one; count, sum and the points,
\* with all observations below +Inf, for the others.
SamplesOf(f, m) ==
  LET labels == {<<m.label[i].name, m.label[i].value>> : i \in DOMAIN m.label}
      stamp == IF m.timestamp = "0" THEN <<>> ELSE <<" ", m.timestamp>>
      Sample(suffix, extra, value) ==
        [name |-> f.name \o suffix, labels |-> labels \cup extra,
         rest |-> <<NumberText(value)>> \o stamp]
      totals == {Sample(<<"_", "count">>, {}, m.count), Sample(<<"_", "sum">>, {}, m.value)}
      points == ToSet(m.points)
  IN CASE f.type \in Simple -> {Sample(<<>>, {}, m.value)}
       [] f.type = "info" -> {Sample(<<"_", "info">>, {}, m.value)}
       [] f.type = "summary" -> totals \cup
            {Sample(<<>>, {<<<<"quantile">>, <<p.at>>>>}, p.value) : p \in points}
       [] f.type = "histogram" -> totals \cup
            {Sample(<<"_", "bucket">>, {<<<<"le">>, <<p.at>>>>}, p.value) : p \in
               {q \in points : q.at # "inf"} \cup {[at |-> "+Inf", value |-> m.count]}}

Families == ToSet(metrics)
LabelSets(f) == {ToSet(m.label) : m \in ToSet(f.metric)}
Extends(g, f) == g.name # f.name /\ IsPrefix(f.name, g.name)
Distinct ==
  /\ \A f \in Families : Cardinality(LabelSets(f)) = Len(f.metric)
  /\ \A f, g \in Families : ~ Extends(g, f)

\* WriteHead, WriteValue: whatever the label values hold, the text is well formed
\* and a reader gets the samples of the metrics, no other, with their values.
ReadBack ==
  LET read == Read
      sample(x) == [name |-> x.name, labels |-> ToSet(x.labels), rest |-> x.rest]
  IN /\ \A i \in DOMAIN read : read[i].at \in {"sample", "comment"}
     /\ {sample(read[i]) : i \in {j \in DOMAIN read : read[j].at = "sample"}}
          = UNION {UNION {SamplesOf(f, m) : m \in ToSet(f.metric)} : f \in Families}

\* SerializeHistogram, SerializeSummary and CheckLabelName: no sample has a label
\* twice and no time series is written twice, either of which would make a server
\* drop the scrape, unless labels repeat in a family or a family is named like
\* another with a suffix.
SeriesWrittenOnce ==
  LET read == Read
      lines == {i \in DOMAIN read : read[i].at = "sample"}
      names(x) == {x.labels[i][1] : i \in DOMAIN x.labels}
      series(x) == <<x.name, ToSet(x.labels)>>
  IN /\ \A i \in lines : Cardinality(names(read[i])) = Len(read[i].labels)
     /\ Distinct => \A i, j \in lines : series(read[i]) = series(read[j]) => i = j
=============================================================================
