------------------------------ MODULE Metrics ------------------------------
(***************************************************************************)
(* The three metrics engines behind the Metrics trait.  Any number of      *)
(* threads report samples; a sample is identified by its name and its      *)
(* label set.                                                              *)
(*   prometheus  one mutex over the instrument tables; the first labelled  *)
(*               call of a name fixes its keys, the registry takes a name  *)
(*               once, what it refuses is dropped without a word           *)
(*   otel        one mutex over the instruments; attributes are per call,  *)
(*               a gauge is an up-down counter                             *)
(*   datadog     a line per sample, buffered up to Size lines, flushed by  *)
(*               whoever fills the buffer, by a thread on its period and   *)
(*               by the drop of the provider; the buffer is taken under    *)
(*               the lock and sent after it is released                    *)
(* Keys and values of labels are numbers, 0 the empty string; a value is   *)
(* counted in halves, so that a counter line's truncation shows.  Label    *)
(* lists with one key twice are reported to prometheus only.               *)
(***************************************************************************)
EXTENDS Integers, Sequences, FiniteSets, SequencesExt

CONSTANTS
  Engines,      \* the engines explored, a subset of {"prometheus", "otel", "datadog"}
  Samples,      \* what callers may report: [kind, name, value, labels]
  Foreign,      \* sets of names other owners may have registered before
  Callers,
  Sizes,        \* the buffer sizes tried; 0 is no buffering
  MaxSamples    \* bound: samples reported in a behaviour

VARIABLES
  engine, size,
  told,         \* every sample reported, in the order of its call
  tables,       \* the cached instruments: <<kind, form, name>>
  labelKeys,    \* prometheus: a name's keys, once a labelled call fixed them
  registry,     \* prometheus: the names the registry holds
  series,       \* what the backend would show: <<kind, name, label values>> -> value
  buffer,       \* datadog: indexes into told of the buffered lines
  at,           \* datadog: where each caller is, and the lines in its hand
  flusher,      \* datadog: where the flush thread is, and the lines in its hand
  provider,     \* "shared", or where its drop is, and the lines in its hand
  stop, sent,   \* sent: the datagrams, each a sequence of indexes into told
  exited        \* the process is over and the flush thread with it

instruments == <<tables, labelKeys, registry, series>>
wire == <<buffer, at, flusher, provider, stop, sent, exited>>
metricsVars == <<engine, size, told, instruments, wire>>

-----------------------------------------------------------------------------
(* The contract's canonical label order, and the prometheus label tables.  *)
Precedes(a, b) == a[1] < b[1] \/ (a[1] = b[1] /\ a[2] < b[2])
canonical_labels(labels) ==
  LET places == DOMAIN labels
      order == CHOOSE p \in Bijection(places, places) :
                 \A i, j \in places : i < j => ~Precedes(labels[p[j]], labels[p[i]])
  IN  [i \in places |-> labels[order[i]]]

KeysOf(labels) == [i \in DOMAIN labels |-> labels[i][1]]
cached_label_keys(name, labels) ==
  IF name \in DOMAIN labelKeys THEN labelKeys[name] ELSE KeysOf(labels)

LabelValuesByPlace(labels, keys) ==
  [i \in DOMAIN keys |-> IF i \in DOMAIN labels THEN labels[i][2] ELSE 0]
label_values(labels, keys) ==
  [i \in DOMAIN keys |->
     LET at_key == SelectInSeq(labels, LAMBDA l : l[1] = keys[i])
     IN  IF at_key = 0 THEN 0 ELSE labels[at_key][2]]

(* A collector with one key twice cannot be built; a registry takes a name *)
(* once, whatever the collector's kind and keys.                           *)
registered(name, keys) == IsInjective(keys) /\ name \notin registry

(* What an instrument does with a value; adding is the set of the kinds    *)
(* that add it to the last one.                                            *)
Recorded(map, key, kind, value, adding) ==
  LET last(zero) == IF key \in DOMAIN map THEN map[key] ELSE zero
      new == CASE kind \in adding -> last(0) + value
               [] kind = "histogram" -> Append(last(<<>>), value)
               [] OTHER -> value
  IN  [k \in DOMAIN map \cup {key} |-> IF k = key THEN new ELSE map[k]]

-----------------------------------------------------------------------------
Here(place) == [place |-> place, lines |-> <<>>]
Holding(place, lines) == [place |-> place, lines |-> lines]

MetricsInit ==
  /\ engine \in Engines /\ size \in (IF engine = "datadog" THEN Sizes ELSE {0})
  /\ told = <<>>
  /\ tables = {} /\ labelKeys = <<>> /\ series = <<>>
  /\ registry \in (IF engine = "prometheus" THEN Foreign ELSE {{}})
  /\ buffer = <<>> /\ at = [c \in Callers |-> Here("idle")]
  /\ flusher = Here(IF engine = "datadog" /\ size > 0 THEN "check" ELSE "done")
  /\ provider = Here("shared") /\ stop = FALSE /\ sent = <<>> /\ exited = FALSE

(* A caller reports a sample: it holds the provider and is not inside it.  *)
Reports(c, s) ==
  /\ provider = Here("shared") /\ at[c] = Here("idle") /\ Len(told) < MaxSamples
  /\ engine = "prometheus" \/ IsInjective(KeysOf(s.labels))
  /\ told' = Append(told, s)
  /\ UNCHANGED <<engine, size>>

(* prometheus: counter, histogram and gauge differ in the instrument only. *)
Record(c, s) ==
  LET labels == canonical_labels(s.labels)
      form == IF labels = <<>> THEN "plain" ELSE "labelled"
      keys == IF form = "plain" THEN <<>> ELSE cached_label_keys(s.name, labels)
      entry == <<s.kind, form, s.name>>
  IN  /\ engine = "prometheus" /\ Reports(c, s)
      /\ labelKeys' = IF form = "plain" THEN labelKeys
                      ELSE [name \in DOMAIN labelKeys \cup {s.name} |-> cached_label_keys(name, labels)]
      /\ IF entry \in tables \/ registered(s.name, keys)
         THEN /\ tables' = tables \cup {entry}
              /\ registry' = registry \cup {s.name}
              /\ series' = Recorded(series, <<s.kind, s.name, label_values(labels, keys)>>,
                                    s.kind, s.value, {"counter"})
         ELSE UNCHANGED <<tables, registry, series>>
      /\ UNCHANGED wire

(* otel: the instrument is cached by kind and name and never refused; the  *)
(* gauge is an up-down counter and adds.                                   *)
RecordOtel(c, s) ==
  /\ engine = "otel" /\ Reports(c, s)
  /\ tables' = tables \cup {<<s.kind, "plain", s.name>>}
  /\ series' = Recorded(series, <<s.kind, s.name, canonical_labels(s.labels)>>, s.kind, s.value,
                        {"counter", "gauge"})
  /\ UNCHANGED <<labelKeys, registry, wire>>

-----------------------------------------------------------------------------
(* datadog: a line is pushed under the lock; the caller that finds the     *)
(* buffer full flushes it after it has let go of the lock.                 *)
send(c, s) ==
  /\ engine = "datadog" /\ Reports(c, s)
  /\ IF size = 0 THEN sent' = Append(sent, <<Len(told')>>) /\ UNCHANGED <<buffer, at>>
     ELSE /\ buffer' = Append(buffer, Len(told'))
          /\ at' = [at EXCEPT ![c] = Here(IF Len(buffer') >= size THEN "full" ELSE "idle")]
          /\ UNCHANGED sent
  /\ UNCHANGED <<instruments, flusher, provider, stop, exited>>

(* flush_buffer, in two steps: the lines are taken and the lock released,  *)
(* then the payload goes out.  An empty buffer is left alone.              *)
Take == buffer' = <<>>

FlushFull(c) ==
  /\ at[c] = Here("full")
  /\ Take /\ at' = [at EXCEPT ![c] = IF buffer = <<>> THEN Here("idle") ELSE Holding("sending", buffer)]
  /\ UNCHANGED <<engine, size, told, instruments, flusher, provider, stop, sent, exited>>
SendFull(c) ==
  /\ at[c].place = "sending"
  /\ sent' = Append(sent, at[c].lines) /\ at' = [at EXCEPT ![c] = Here("idle")]
  /\ UNCHANGED <<engine, size, told, instruments, buffer, flusher, provider, stop, exited>>

(* The flush thread: look at stop, sleep a period, flush; a last flush     *)
(* once stop is seen.                                                      *)
Flushes == flusher.place \in {"sleep", "last"}
FlusherStep ==
  /\ engine = "datadog" /\ ~exited
  /\ \/ /\ flusher.place = "check" /\ flusher' = Here(IF stop THEN "last" ELSE "sleep")
        /\ UNCHANGED <<buffer, sent>>
     \/ /\ Flushes
        /\ flusher' = CASE buffer # <<>> -> Holding(IF flusher.place = "last" THEN "last_send" ELSE "send", buffer)
                        [] OTHER -> Here(IF flusher.place = "last" THEN "done" ELSE "check")
        /\ Take /\ UNCHANGED sent
     \/ /\ flusher.place \in {"send", "last_send"}
        /\ sent' = Append(sent, flusher.lines)
        /\ flusher' = Here(IF flusher.place = "last_send" THEN "done" ELSE "check")
        /\ UNCHANGED buffer
  /\ UNCHANGED <<engine, size, told, instruments, at, provider, stop, exited>>

(* The last owner drops the provider: no caller is inside it any more.     *)
Drop ==
  /\ ~exited
  /\ \/ /\ provider = Here("shared") /\ \A c \in Callers : at[c] = Here("idle")
        /\ provider' = Here("dropping") /\ UNCHANGED <<buffer, stop, sent>>
     \/ /\ provider = Here("dropping")
        /\ provider' = (IF buffer = <<>> THEN Here("stopping") ELSE Holding("sending", buffer))
        /\ Take /\ UNCHANGED <<stop, sent>>
     \/ /\ provider.place = "sending"
        /\ sent' = Append(sent, provider.lines) /\ provider' = Here("stopping")
        /\ UNCHANGED <<buffer, stop>>
     \/ /\ provider = Here("stopping") /\ stop' = TRUE /\ provider' = Here("gone")
        /\ UNCHANGED <<buffer, sent>>
  /\ UNCHANGED <<engine, size, told, instruments, at, flusher, exited>>

(* The process may end once the provider is gone: nobody joins the thread. *)
Exit ==
  /\ provider = Here("gone") /\ ~exited /\ exited' = TRUE
  /\ UNCHANGED <<engine, size, told, instruments, buffer, at, flusher, provider, stop, sent>>

MetricsNext ==
  \/ \E c \in Callers, s \in Samples : Record(c, s) \/ RecordOtel(c, s) \/ send(c, s)
  \/ \E c \in Callers : FlushFull(c) \/ SendFull(c)
  \/ FlusherStep
  \/ Drop
  \/ Exit

-----------------------------------------------------------------------------
(* What the prometheus backend should show, read off the history alone: a  *)
(* name belongs to the first sample the registry could take it for; its    *)
(* label keys are those of its first labelled sample; every sample of that *)
(* kind and form counts in the series its label set selects.               *)
Plain(s) == s.labels = <<>>
FirstOf(P(_)) == LET is == {i \in DOMAIN told : P(told[i])}
                 IN  IF is = {} THEN 0 ELSE CHOOSE i \in is : \A j \in is : i <= j
FixedKeys(name) ==
  LET i == FirstOf(LAMBDA s : s.name = name /\ ~Plain(s))
  IN  IF i = 0 THEN <<>> ELSE KeysOf(canonical_labels(told[i].labels))
Owner(name) == FirstOf(LAMBDA s : s.name = name /\ (Plain(s) \/ IsInjective(FixedKeys(name))))
ValueOf(s, key) == LET vs == {l[2] : l \in {l \in Range(s.labels) : l[1] = key}}
                   IN  IF vs = {} THEN 0 ELSE CHOOSE v \in vs : \A w \in vs : v <= w
InSeries(i, kind, name, values) ==
  LET s == told[i]
  IN  /\ s.kind = kind /\ s.name = name /\ i >= Owner(name)
      /\ Plain(s) <=> Plain(told[Owner(name)])
      /\ values = IF Plain(s) THEN <<>>
                  ELSE [k \in DOMAIN FixedKeys(name) |-> ValueOf(s, FixedKeys(name)[k])]

Summed(values) ==
  LET upto[i \in 0..Len(values)] == IF i = 0 THEN 0 ELSE upto[i - 1] + values[i]
  IN  upto[Len(values)]
Total(is) == Summed([i \in DOMAIN told |-> IF i \in is THEN told[i].value ELSE 0])
Shown(kind, is, value) ==
  CASE kind = "counter" -> value = Total(is)
    [] kind = "gauge" -> value = told[CHOOSE i \in is : \A j \in is : j <= i].value
    [] OTHER -> /\ Len(value) = Cardinality(is)
                /\ Summed(value) = Total(is)

(* prometheus loses no sample it can hold and mixes no two series: each    *)
(* series shows exactly what the samples of its label set add up to,       *)
(* whatever the order of the labels at the call site and whoever used the  *)
(* name first; a name another owner registered shows nothing.              *)
SamplesAddUp ==
  engine = "prometheus" =>
    /\ \A key \in DOMAIN series :
         LET is == {i \in DOMAIN told : InSeries(i, key[1], key[2], key[3])}
         IN  is # {} /\ Shown(key[1], is, series[key])
    /\ \A i \in DOMAIN told :
         LET s == told[i]
         IN  s.name \in registry /\ s.name \in {t[3] : t \in tables} /\ Owner(s.name) # 0
             /\ s.kind = told[Owner(s.name)].kind /\ i >= Owner(s.name)
             /\ (Plain(s) <=> Plain(told[Owner(s.name)]))
             => \E key \in DOMAIN series : InSeries(i, key[1], key[2], key[3])

(* A datadog line is in exactly one place, and goes out once: in the       *)
(* buffer, in the hand of whoever took the buffer, or in a datagram.       *)
Places == {<<"buffer", buffer>>, <<"sent", FlattenSeq(sent)>>, <<"flusher", flusher.lines>>,
           <<"provider", provider.lines>>} \cup {<<c, at[c].lines>> : c \in Callers}
LinesLeaveOnce ==
  engine = "datadog" =>
    \A i \in DOMAIN told :
      /\ \A p \in Places : Cardinality({k \in DOMAIN p[2] : p[2][k] = i}) <= 1
      /\ Cardinality({p \in Places : \E k \in DOMAIN p[2] : p[2][k] = i}) = 1

(* A buffered line does not wait for company: it leaves by the period's    *)
(* flush, a full buffer's or the drop's, unless the process ends first.    *)
Left(i) == \E d \in DOMAIN sent : \E k \in DOMAIN sent[d] : sent[d][k] = i
AllLeft == engine = "datadog" => exited \/ \A i \in DOMAIN told : Left(i)
=============================================================================
