------------------------------ MODULE EnvFile ------------------------------
(***************************************************************************)
(* A locked variable read back from the .env file Coolify wrote            *)
(* (domain/locked_envs.py).  A text is a sequence of tokens: one character *)
(* each, "nl", "dq", "sq" and "bs" among them, but a key with its equals   *)
(* sign, and the value of the generated HOST line, are one token.          *)
(*                                                                         *)
(* A row is [key, exact, literal, locked, value, real, null]: exact for a  *)
(* row saved on 4.5 or later, real for the real_value the API returns of a *)
(* row that is not locked.                                                 *)
(***************************************************************************)
EXTENDS Naturals, SequencesExt

Keys == {"A=", "B=", "HOST=", "SOURCE_COMMIT="}
HostAddress == "0.0.0.0"
NoValue == <<>>

Wrapped(quote, text) == <<quote>> \o text \o <<quote>>

Escaped(text, characters) ==
  FlattenSeq([i \in DOMAIN text |->
                IF text[i] \in characters THEN <<"bs", text[i]>> ELSE <<text[i]>>])

(***************************************************************************)
(* What Coolify writes after KEY=.                                         *)
(***************************************************************************)
Stripped(text) ==
  LET kept == {i \in DOMAIN text : text[i] # "nl"}
  IN  IF kept = {} THEN <<>> ELSE SubSeq(text, Min(kept), Max(kept))

\* The only JSON of this alphabet is an empty object.
IsJson(value) ==
  LET text == Stripped(value)
  IN  /\ Len(text) >= 2
      /\ Head(text) = "{" /\ Last(text) = "}"
      /\ \A i \in 2..(Len(text) - 1) : text[i] = "nl"

LegacyFormat(row, value) ==
  IF value # <<>> /\ Head(value) = "{" /\ IsJson(value) THEN value
  ELSE IF row.literal THEN Wrapped("sq", value)
  ELSE Escaped(value, {"bs", "dq", "sq"})

AllowsInterpolation(row, value) == ~row.literal /\ ~IsJson(value)

EscapeComposeEnvFileValue(value, allowInterpolation) ==
  Wrapped("dq", Escaped(value, {"bs", "dq"} \cup IF allowInterpolation THEN {} ELSE {"$"}))

ExactFormat(row, value) == EscapeComposeEnvFileValue(value, AllowsInterpolation(row, value))

Encode(row, value) == IF row.exact THEN ExactFormat(row, value) ELSE LegacyFormat(row, value)

(***************************************************************************)
(* decode: the value that encodes to exactly this text, or none.           *)
(***************************************************************************)
Bad == <<"bad">>

Unescaped(text, escapable, forbidden) ==
  LET Before(character, rest) == IF rest = Bad THEN Bad ELSE <<character>> \o rest
      from[i \in 1..(Len(text) + 1)] ==
        IF i > Len(text) THEN <<>>
        ELSE IF text[i] \in forbidden THEN Bad
        ELSE IF text[i] # "bs" THEN Before(text[i], from[i + 1])
        ELSE IF i = Len(text) \/ text[i + 1] \notin escapable THEN Bad
        ELSE Before(text[i + 1], from[i + 2])
  IN  from[1]

IsWrapped(text, quote) == Len(text) >= 2 /\ Head(text) = quote /\ Last(text) = quote

Inner(text) == SubSeq(text, 2, Len(text) - 1)

ExactCandidates(raw) ==
  IF IsWrapped(raw, "dq") THEN {Unescaped(Inner(raw), {"bs", "dq", "$"}, {"dq"})} ELSE {}

LegacyCandidates(raw) ==
  {Unescaped(raw, {"bs", "dq", "sq"}, {})}
    \cup (IF IsWrapped(raw, "sq") THEN {Inner(raw)} ELSE {})
    \cup (IF raw # <<>> /\ Head(raw) = "{" /\ IsJson(raw) THEN {raw} ELSE {})

Decode(raw, row) ==
  LET candidates == IF row.exact THEN ExactCandidates(raw) ELSE LegacyCandidates(raw)
      exact == {v \in candidates : v \notin {Bad, <<>>} /\ Encode(row, v) = raw}
  IN  IF Cardinality(exact) = 1 THEN CHOOSE v \in exact : TRUE ELSE NoValue

(***************************************************************************)
(* _parse_dotenv: the records of a text, [key, raw, closed, anomaly] each; *)
(* a line that starts no record has the key "none".                        *)
(***************************************************************************)
FirstOr(positions, otherwise) == IF positions = {} THEN otherwise ELSE Min(positions)

LineEnd(text, from) == FirstOr({i \in from..Len(text) : text[i] = "nl"}, Len(text) + 1)

Record(key, raw, closed, anomaly) ==
  [key |-> key, raw |-> raw, closed |-> closed, anomaly |-> anomaly]

ClosingDoubleQuote(text, start) ==
  LET from[i \in start..(Len(text) + 2)] ==
        IF i > Len(text) THEN 0
        ELSE IF text[i] = "dq" THEN i
        ELSE from[i + IF text[i] = "bs" THEN 2 ELSE 1]
  IN  from[start]

ClosingSingleQuote(text, from) ==
  FirstOr({i \in from..Len(text) : text[i] = "sq" /\ (i = Len(text) \/ text[i + 1] = "nl")}, 0)

\* The record whose value starts at vstart, and where the next line starts.
ValueRecord(text, key, vstart) ==
  LET lineEnd == LineEnd(text, vstart)
      quote == IF vstart <= Len(text) THEN text[vstart] ELSE "nl"
      close == CASE quote = "dq" -> ClosingDoubleQuote(text, vstart + 1)
                 [] quote = "sq" -> ClosingSingleQuote(text, vstart + 1)
                 [] OTHER -> 0
      tail == LineEnd(text, close + 1)
  IN  CASE quote = "dq" /\ close = 0 ->
             [record |-> Record(key, SubSeq(text, vstart, Len(text)), FALSE, TRUE),
              next |-> Len(text) + 1]
        [] quote = "dq" /\ close # 0 ->
             [record |-> Record(key, SubSeq(text, vstart, tail - 1),
                                tail = close + 1, tail # close + 1),
              next |-> tail + 1]
        [] quote = "sq" /\ close # 0 ->
             [record |-> Record(key, SubSeq(text, vstart, close), FALSE, FALSE),
              next |-> close + 2]
        [] OTHER ->
             [record |-> Record(key, SubSeq(text, vstart, lineEnd - 1), FALSE, quote = "sq"),
              next |-> lineEnd + 1]

\* The record of the line at pos.
LineAt(text, pos) ==
  LET lineEnd == LineEnd(text, pos)
      equals == FirstOr({i \in pos..(lineEnd - 1) : text[i] \in Keys}, 0)
  IN  IF equals = 0
      THEN [record |-> Record("none", <<>>, FALSE, TRUE), next |-> lineEnd + 1]
      ELSE ValueRecord(text, IF equals = pos THEN text[pos] ELSE "unknown", equals + 1)

ParseDotenv(text) ==
  LET from[pos \in 1..(Len(text) + 2)] ==
        IF pos > Len(text) THEN <<>>
        ELSE LET line == LineAt(text, pos) IN <<line.record>> \o from[line.next]
  IN  from[1]

(***************************************************************************)
(* _inspect and _from_file.  A file is [rows, collection, text].           *)
(***************************************************************************)
Generated(collection) ==
  IF collection = "applications" THEN {"HOST=", "SOURCE_COMMIT="} ELSE {}

KeysOfRows(rows) == {row.key : row \in rows}

\* _written_for_sure: a service's file may leave out a null row.
WrittenForSure(rows, collection) ==
  {row.key : row \in {r \in rows : ~(collection = "services" /\ r.null /\ ~r.locked)}}

\* Mutant: any key Coolify can write starts a record of its own.
StartsARecord_AnyKey(record, rows, collection) ==
  record.key \in KeysOfRows(rows) \cup Generated(collection)

StartsARecord(record, rows, collection) ==
  \/ record.key \in WrittenForSure(rows, collection)
  \/ /\ collection = "applications"
     /\ record.key = "HOST=" /\ record.raw = <<HostAddress>>

OpenEnded(records, rows, collection) ==
  {records[i].key : i \in {j \in 1..(Len(records) - 1) :
     ~records[j].closed /\ ~StartsARecord(records[j + 1], rows, collection)}}

RecordsOf(records, key) == {r \in ToSet(records) : r.key = key}

Repeated(records, key) ==
  \E i, j \in DOMAIN records : i # j /\ records[i].key = key /\ records[j].key = key

Anomaly(records, rows, collection) ==
  \E r \in ToSet(records) :
    \/ r.anomaly
    \/ r.key \notin KeysOfRows(rows) \cup Generated(collection)
    \/ Repeated(records, r.key)

\* A record whose end is not certain.
Vague(record, records, rows, collection) == Anomaly(records, rows, collection) /\ ~record.closed

\* _stale, by _expected_raws: from 4.6 a legacy row may be written exact.
ExpectedRaws(row) ==
  {ExactFormat(row, row.real)} \cup IF row.exact THEN {} ELSE {row.real}

Outdated(row, records, rows, collection) ==
  LET own == RecordsOf(records, row.key)
  IN  IF row.null THEN \E r \in own : r.raw \notin {<<>>, <<"dq", "dq">>, <<"sq", "sq">>}
      ELSE \/ own = {}
           \/ /\ ~Repeated(records, row.key)
              /\ \E r \in own : ~Vague(r, records, rows, collection) /\ r.raw \notin ExpectedRaws(row)

Stale(records, rows, collection) ==
  \E row \in {r \in rows : ~r.locked} : Outdated(row, records, rows, collection)

FromFile(row, file) ==
  LET records == ParseDotenv(file.text)
      own == RecordsOf(records, row.key)
      trusted == {r \in own : ~Vague(r, records, file.rows, file.collection)}
  IN  IF \/ Stale(records, file.rows, file.collection)
         \/ Repeated(records, row.key)
         \/ row.key \in OpenEnded(records, file.rows, file.collection)
         \/ trusted = {}
      THEN NoValue
      ELSE Decode((CHOOSE r \in trusted : TRUE).raw, row)

\* recover
Recovered(file) == [row \in {r \in file.rows : r.locked} |-> FromFile(row, file)]

=============================================================================
